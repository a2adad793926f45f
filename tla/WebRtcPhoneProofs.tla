-------------------------- MODULE WebRtcPhoneProofs --------------------------
(***************************************************************************)
(* What holds of the window's media on a WebRTC account for any number of  *)
(* calls, sessions and tasks: first whatever fails and whatever overlaps.  *)
(*                                                                         *)
(* Then the call and its media: the session the window shows negotiates    *)
(* with the call's own peer, only the user's answer lets a caller in, and  *)
(* the microphone is what the buttons say.  All three relate the engine to *)
(* the window and its tasks and hold only where calls do not overlap:      *)
(* OneAtATime and OneAfterOther name the overlaps left out, NoGlare what   *)
(* the peer does not do.                                                   *)
(***************************************************************************)
EXTENDS WebRtcPhone, SipGlueProofs, SequenceTheorems, WellFoundedInduction

(***************************************************************************)
(* The media and the call screen.  They agree between any two steps, so    *)
(* also while events of the engine wait: the invariant is inductive        *)
(* without a word about the engine or the tasks.                           *)
(***************************************************************************)
MediaInv ==
    /\ webrtc_session # NoSession => active
    /\ (webrtc_session = NoSession) <=> (sdp_role = "none")
    /\ pending_remote_offer # <<>> => sdp_role = "answerer"

\* Without media nothing is to be shown.
LEMMA ClearedKeeps ==
    ASSUME clear_webrtc
    PROVE  MediaInv'
BY DEF clear_webrtc, MediaInv

\* With media as before, and the screen open as before.
LEMMA SameKeeps ==
    ASSUME MediaInv, UNCHANGED mediaVars, UNCHANGED active
    PROVE  MediaInv'
BY DEF mediaVars, MediaInv

\* Either of the two.
LEMMA SettledKeeps ==
    ASSUME MediaInv, UNCHANGED active, UNCHANGED mediaVars \/ clear_webrtc
    PROVE  MediaInv'
BY ClearedKeeps, SameKeeps

\* A session that starts has a role and its screen.
LEMMA NewKeeps ==
    ASSUME NEW s \in Sessions \cup {NoSession}, NEW role \in {"offerer", "answerer"},
           NewWebrtc(role, s), active' = TRUE
    PROVE  MediaInv'
BY WebRtcAssumption DEF NewWebrtc, MediaInv

-----------------------------------------------------------------------------
LEMMA EventKeeps ==
    ASSUME MediaInv, HandleSipEvent
    PROVE  MediaInv'
<1>1. CASE OnIncomingCall
  BY <1>1, NewKeeps DEF OnIncomingCall
<1>2. CASE OnRemoteSdp
  <2>1. UNCHANGED active
    BY <1>2 DEF OnRemoteSdp, buttonVars
  <2>2. \/ UNCHANGED mediaVars
        \/ clear_webrtc
        \/ /\ sdp_role = "answerer"
           /\ UNCHANGED <<webrtc_session, sdp_role>>
    BY <1>2 DEF OnRemoteSdp, fail_webrtc
  <2>3. CASE sdp_role = "answerer" /\ UNCHANGED <<webrtc_session, sdp_role>>
    BY <2>1, <2>3 DEF MediaInv
  <2> QED BY <2>1, <2>2, <2>3, SettledKeeps
<1>3. CASE OnReinviteSdp \/ OnCallConnected
  BY <1>3, SameKeeps DEF OnReinviteSdp, OnCallConnected, buttonVars
<1>4. CASE OnCallOver
  BY <1>4, ClearedKeeps DEF OnCallOver
<1> QED BY <1>1, <1>2, <1>3, <1>4 DEF HandleSipEvent

LEMMA UserKeeps ==
    ASSUME MediaInv, User
    PROVE  MediaInv'
<1>1. CASE StartCall
  <2>1. active' = TRUE
    BY <1>1 DEF StartCall
  <2>2. (\E s \in Sessions : NewWebrtc("offerer", s)) \/ clear_webrtc
    BY <1>1 DEF StartCall
  <2> QED BY <2>1, <2>2, NewKeeps, ClearedKeeps
<1>2. CASE AnswerCall
  <2>1. UNCHANGED active /\ (UNCHANGED mediaVars \/ clear_webrtc)
    BY <1>2 DEF AnswerCall, buttonVars, fail_webrtc
  <2> QED BY <2>1, SettledKeeps
<1>3. CASE HangupCall
  BY <1>3, SameKeeps DEF HangupCall, buttonVars
<1>4. CASE \E on \in BOOLEAN : MuteToggled(on) \/ HoldToggled(on)
  BY <1>4, SameKeeps DEF MuteToggled, HoldToggled
<1> QED BY <1>1, <1>2, <1>3, <1>4 DEF User

LEMMA TaskKeeps ==
    ASSUME MediaInv, NEW i \in DOMAIN tasks, TaskReady(i)
    PROVE  MediaInv'
<1>1. CASE AnswerPolled(i)
  <2>1. UNCHANGED active /\ (UNCHANGED mediaVars \/ clear_webrtc)
    BY <1>1 DEF AnswerPolled, Resumed, buttonVars, fail_webrtc
  <2> QED BY <2>1, SettledKeeps
<1>2. CASE \E described \in BOOLEAN : OfferReady(i, described) \/ AnswerReady(i, described)
                                      \/ HoldReady(i, described) \/ ReinviteReady(i, described)
  <2>1. UNCHANGED active /\ (UNCHANGED mediaVars \/ clear_webrtc)
    BY <1>2 DEF OfferReady, AnswerReady, HoldReady, ReinviteReady, Resumed, buttonVars, fail_webrtc
  <2> QED BY <2>1, SettledKeeps
<1> QED BY <1>1, <1>2 DEF TaskReady, Described

LEMMA SofiaKeeps ==
    ASSUME MediaInv, NEW nh \in Handles, Sofia(nh)
    PROVE  MediaInv'
BY SameKeeps DEF Sofia, windowVars, buttonVars

\* The screen and the media of a call go together: no session without a call screen, no
\* role without a session, no offer kept from one call to the next, and every path out
\* of a call (CallEnded, CallFailed, fail_webrtc) takes all three with it.
THEOREM MediaHasScreen == PhoneSpec => []SessionHasCall
<1>1. PhoneInit => MediaInv
  BY DEF PhoneInit, MediaInv
<1>2. MediaInv /\ [PhoneNext]_phoneVars => MediaInv'
  <2>1. ASSUME MediaInv, PhoneNext PROVE MediaInv'
    BY <2>1, EventKeeps, UserKeeps, TaskKeeps, SofiaKeeps DEF PhoneNext
  <2>2. ASSUME MediaInv, UNCHANGED phoneVars PROVE MediaInv'
    BY <2>2, SameKeeps DEF phoneVars, windowVars, buttonVars
  <2> QED BY <2>1, <2>2
<1>3. MediaInv => SessionHasCall
  BY DEF MediaInv, SessionHasCall
<1> QED BY <1>1, <1>2, <1>3, PTL DEF PhoneSpec

-----------------------------------------------------------------------------
(***************************************************************************)
(* The microphone.  Each session, the window's and those of tasks that     *)
(* have outlived their call, is silent when either of its flags is set.    *)
(***************************************************************************)
Quiet(x) ==
    /\ x \in Session
    /\ x.mic # "none" => x.mic = IF x.user_muted \/ x.on_hold THEN "muted" ELSE "live"

AllQuiet(f) == f \in [Sessions -> Session] /\ \A v \in Sessions : Quiet(f[v])

MicsFollowFlags == AllQuiet(session)

LEMMA NewIsQuiet == Quiet(NewSession)
BY DEF Quiet, NewSession, Session

LEMMA FlagsQuiet ==
    ASSUME NEW x, Quiet(x), NEW on \in BOOLEAN
    PROVE  Quiet(set_muted(x, on)) /\ Quiet(set_hold(x, on))
BY DEF Quiet, Session, set_muted, set_hold, apply_mute

\* The send chain is built silent where a flag was set before it, in an answer ...
LEMMA AttachQuiet ==
    ASSUME NEW x, Quiet(x), NEW sdp, NEW r \in attach_send_chain(x, sdp)
    PROVE  Quiet(r.session)
<1>1. Quiet(apply_mute([x EXCEPT !.mic = "live"]))
  BY DEF Quiet, Session, apply_mute
<1>2. r = Ok(x) \/ r = Err(x) \/ r = Ok(apply_mute([x EXCEPT !.mic = "live"]))
  BY DEF attach_send_chain, MayFail
<1>3. \A y : Ok(y).session = y /\ Err(y).session = y
  BY DEF Ok, Err
<1> QED BY <1>1, <1>2, <1>3

\* ... as in an offer.
LEMMA AnswerQuiet ==
    ASSUME NEW x, Quiet(x), NEW sdp, NEW r \in create_answer(x, sdp)
    PROVE  Quiet(r.session)
<1>1. CASE r \in attach_send_chain(x, sdp)
  BY <1>1, AttachQuiet
<1>2. CASE r = Err(x)
  BY <1>2 DEF Err
<1> QED BY <1>1, <1>2 DEF create_answer

LEMMA WithQuiet ==
    ASSUME AllQuiet(session), NEW v, NEW x, v \in Sessions => Quiet(x)
    PROVE  AllQuiet(With(v, x))
BY DEF AllQuiet, With, Quiet

LEMMA KeptQuiet ==
    ASSUME NEW f, AllQuiet(f), NEW p, KeepSessions(f, p)
    PROVE  MicsFollowFlags'
<1>1. PICK alive : session' = [v \in Sessions |-> IF v \in alive THEN f[v] ELSE NewSession]
  BY DEF KeepSessions
<1>2. \A v \in Sessions : Quiet(session'[v])
  BY <1>1, NewIsQuiet DEF AllQuiet
<1>3. session' \in [Sessions -> Session]
  BY <1>1, <1>2 DEF Quiet
<1> QED BY <1>2, <1>3 DEF MicsFollowFlags, AllQuiet, Quiet

LEMMA SameQuiet ==
    ASSUME MicsFollowFlags, UNCHANGED session
    PROVE  MicsFollowFlags'
BY DEF MicsFollowFlags, AllQuiet, Quiet

LEMMA KeepQuiet ==
    ASSUME MicsFollowFlags, Kept
    PROVE  MicsFollowFlags'
BY KeptQuiet DEF Kept, MicsFollowFlags

LEMMA NewSessionQuiet ==
    ASSUME MicsFollowFlags, NEW s, NEW role, NewWebrtc(role, s)
    PROVE  MicsFollowFlags'
<1>1. AllQuiet([session EXCEPT ![s] = NewSession])
  BY NewIsQuiet, WithQuiet DEF With, MicsFollowFlags
<1> QED BY <1>1, KeptQuiet DEF NewWebrtc

-----------------------------------------------------------------------------
LEMMA EventQuiet ==
    ASSUME MicsFollowFlags, HandleSipEvent
    PROVE  MicsFollowFlags'
<1>1. CASE OnIncomingCall
  BY <1>1, NewSessionQuiet DEF OnIncomingCall
<1>2. CASE OnRemoteSdp
  <2>1. PICK sdp \in PeerSdps :
        \/ UNCHANGED session
        \/ \E r \in apply_answer(session[webrtc_session], sdp) :
              KeepSessions(With(webrtc_session, r.session), PeerWith(webrtc_session, Head(out).leg))
    BY <1>2 DEF OnRemoteSdp
  <2>2. ASSUME NEW r \in apply_answer(session[webrtc_session], sdp),
               KeepSessions(With(webrtc_session, r.session), PeerWith(webrtc_session, Head(out).leg))
        PROVE  MicsFollowFlags'
    <3>1. webrtc_session \in Sessions => Quiet(r.session)
      BY AttachQuiet DEF apply_answer, MicsFollowFlags, AllQuiet
    <3> QED BY <2>2, <3>1, WithQuiet, KeptQuiet DEF MicsFollowFlags
  <2> QED BY <2>1, <2>2, SameQuiet
<1>3. CASE OnReinviteSdp \/ OnCallConnected
  BY <1>3, SameQuiet DEF OnReinviteSdp, OnCallConnected, sessionVars
<1>4. CASE OnCallOver
  BY <1>4, KeepQuiet DEF OnCallOver
<1> QED BY <1>1, <1>2, <1>3, <1>4 DEF HandleSipEvent

LEMMA UserQuiet ==
    ASSUME MicsFollowFlags, User
    PROVE  MicsFollowFlags'
<1>1. CASE StartCall
  BY <1>1, NewSessionQuiet, KeepQuiet DEF StartCall
<1>2. CASE AnswerCall
  BY <1>2, SameQuiet, KeepQuiet DEF AnswerCall
<1>3. CASE HangupCall
  BY <1>3, SameQuiet DEF HangupCall, sessionVars
<1>4. ASSUME NEW on \in BOOLEAN, MuteToggled(on) \/ HoldToggled(on)
      PROVE  MicsFollowFlags'
  <2>1. \/ UNCHANGED session
        \/ KeepSessions(With(webrtc_session, set_muted(session[webrtc_session], on)), peer)
        \/ KeepSessions(With(webrtc_session, set_hold(session[webrtc_session], on)), peer)
    BY <1>4 DEF MuteToggled, HoldToggled, sessionVars
  <2>2. webrtc_session \in Sessions => /\ Quiet(set_muted(session[webrtc_session], on))
                                       /\ Quiet(set_hold(session[webrtc_session], on))
    BY FlagsQuiet DEF MicsFollowFlags, AllQuiet
  <2>3. /\ AllQuiet(With(webrtc_session, set_muted(session[webrtc_session], on)))
        /\ AllQuiet(With(webrtc_session, set_hold(session[webrtc_session], on)))
    BY <2>2, WithQuiet DEF MicsFollowFlags
  <2> QED BY <2>1, <2>3, SameQuiet, KeptQuiet
<1> QED BY <1>1, <1>2, <1>3, <1>4 DEF User

LEMMA TaskQuiet ==
    ASSUME MicsFollowFlags, NEW i, TaskReady(i)
    PROVE  MicsFollowFlags'
<1>0. tasks[i].session \in Sessions => Quiet(Still(i))
  BY DEF MicsFollowFlags, AllQuiet, Still
<1>1. CASE AnswerPolled(i)
  <2>1. PICK r \in create_answer(Still(i), tasks[i].sdp) : KeepApplied(i, r.session)
    BY <1>1 DEF AnswerPolled
  <2>2. tasks[i].session \in Sessions => Quiet(r.session)
    BY <1>0, AnswerQuiet
  <2> QED BY <2>1, <2>2, WithQuiet, KeptQuiet DEF KeepApplied, MicsFollowFlags
<1>2. CASE \E described \in BOOLEAN : OfferReady(i, described) \/ AnswerReady(i, described)
                                      \/ HoldReady(i, described)
  BY <1>2, KeepQuiet DEF OfferReady, AnswerReady, HoldReady
<1>3. CASE \E described \in BOOLEAN : ReinviteReady(i, described)
  BY <1>0, <1>3, WithQuiet, KeptQuiet DEF ReinviteReady, KeepApplied, MicsFollowFlags
<1> QED BY <1>1, <1>2, <1>3 DEF TaskReady, Described

\* No order of mute, hold, negotiation and renegotiation opens a microphone that its
\* user has silenced: the flags are applied whenever they change and whenever the send
\* chain is built, in every session that is alive.
THEOREM MicsStayQuiet == PhoneSpec => []MicsFollowFlags
<1>1. PhoneInit => MicsFollowFlags
  BY NewIsQuiet DEF PhoneInit, MicsFollowFlags, AllQuiet, Quiet
<1>2. MicsFollowFlags /\ [PhoneNext]_phoneVars => MicsFollowFlags'
  <2>1. ASSUME MicsFollowFlags, PhoneNext PROVE MicsFollowFlags'
    <3>1. CASE \E nh \in Handles : Sofia(nh)
      BY <2>1, <3>1, SameQuiet DEF Sofia, windowVars, sessionVars
    <3> QED BY <2>1, <3>1, EventQuiet, UserQuiet, TaskQuiet DEF PhoneNext
  <2>2. ASSUME MicsFollowFlags, UNCHANGED phoneVars PROVE MicsFollowFlags'
    BY <2>2, SameQuiet DEF phoneVars, windowVars, sessionVars
  <2> QED BY <2>1, <2>2
<1> QED BY <1>1, <1>2, PTL DEF PhoneSpec

-----------------------------------------------------------------------------
(***************************************************************************)
(* The codec.  resolve_codec takes the first payload type it knows: that   *)
(* there is a first one is the least-number principle.                     *)
(***************************************************************************)
LessThan == {p \in Nat \X Nat : p[1] < p[2]}

\* Min of a set of numbers is one of them.
LEMMA MinIsMember ==
    ASSUME NEW S, S \subseteq Nat, S # {} PROVE Min(S) \in S
<1>1. IsWellFoundedOn(LessThan, Nat)
  <2>1. OpToRel(<, Nat) = LessThan
    BY DEF OpToRel, LessThan
  <2> QED BY <2>1, NatLessThanWellFounded
<1>2. PICK m \in S : \A k \in S : ~(<<k, m>> \in LessThan)
  BY <1>1, WFMin
<1>3. ASSUME NEW k \in S PROVE m <= k
  <2>1. m \in Nat /\ k \in Nat /\ ~(k < m)
    BY <1>2 DEF LessThan
  <2> QED BY <2>1
<1> QED BY <1>3 DEF Min

\* A payload type stands for a codec of ours or for none.
LEMMA CodecIsOurs ==
    ASSUME NEW sdp, NEW pt, CodecOfType(sdp, pt) # NoCodec PROVE CodecOfType(sdp, pt) \in Codecs
<1> DEFINE names == rtpmap_names(sdp)
           lines == {i \in DOMAIN names : names[i][1] = pt}
           named == IF lines = {} THEN NoCodec ELSE from_encoding_name(names[Min(lines)][2])
<1>1. CodecOfType(sdp, pt) = IF named # NoCodec THEN named ELSE from_static_pt(pt)
  BY DEF CodecOfType
<1>2. named # NoCodec => named \in Codecs
  BY DEF from_encoding_name
<1>3. from_static_pt(pt) # NoCodec => from_static_pt(pt) \in Codecs
  BY DEF from_static_pt, NoCodec, Codecs
<1> QED BY <1>1, <1>2, <1>3

\* What is resolved is a payload type of the offer and the codec it stands for.
LEMMA ResolvedIsOffered ==
    ASSUME NEW sdp, DOMAIN sdp.fmts \subseteq Nat, resolve_codec(sdp) # <<>>
    PROVE  \E i \in DOMAIN sdp.fmts : \E codec \in Codecs :
              resolve_codec(sdp) = <<codec, sdp.fmts[i]>>
<1> DEFINE ours == {i \in DOMAIN sdp.fmts : CodecOfType(sdp, sdp.fmts[i]) # NoCodec}
<1>1. /\ ours # {}
      /\ resolve_codec(sdp) = <<CodecOfType(sdp, sdp.fmts[Min(ours)]), sdp.fmts[Min(ours)]>>
  BY DEF resolve_codec, audio_payload_types
<1>2. Min(ours) \in ours
  BY <1>1, MinIsMember
<1> QED BY <1>1, <1>2, CodecIsOurs

\* An answer pinned to one codec resolves to that codec and its payload type.
LEMMA AnswerResolves ==
    ASSUME NEW codec \in Codecs, NEW pt
    PROVE  resolve_codec(OurAnswer(<<codec, pt>>)) = <<codec, pt>>
<1> DEFINE answer == OurAnswer(<<codec, pt>>)
<1>1. /\ answer.fmts = <<pt>> /\ answer.rtpmap = <<<<pt, codec>>>>
      /\ DOMAIN answer.fmts = {1} /\ DOMAIN answer.rtpmap = {1}
      /\ answer.fmts[1] = pt /\ answer.rtpmap[1][1] = pt /\ answer.rtpmap[1][2] = codec
  BY DEF OurAnswer
<1> HIDE DEF answer
<1>2. Min({1}) = 1
  BY MinIsMember
<1>3. CodecOfType(answer, pt) = codec
  <2>1. {i \in DOMAIN answer.rtpmap : answer.rtpmap[i][1] = pt} = {1}
    BY <1>1
  <2>2. from_encoding_name(answer.rtpmap[1][2]) = codec /\ codec # NoCodec
    BY <1>1 DEF from_encoding_name, Codecs, NoCodec
  <2> QED BY <1>2, <2>1, <2>2 DEF CodecOfType, rtpmap_names
<1>4. {i \in DOMAIN answer.fmts : CodecOfType(answer, answer.fmts[i]) # NoCodec} = {1}
  BY <1>1, <1>3 DEF Codecs, NoCodec
<1>5. resolve_codec(answer) = <<CodecOfType(answer, answer.fmts[1]), answer.fmts[1]>>
  BY <1>2, <1>4 DEF resolve_codec, audio_payload_types
<1> QED BY <1>1, <1>3, <1>5 DEF answer

\* The two ends agree on the codec and its payload type for every offer, of however
\* many formats and whatever rtpmap lines.
THEOREM AnyOfferAgrees ==
    ASSUME NEW offer, DOMAIN offer.fmts \subseteq Nat, resolve_codec(offer) # <<>>
    PROVE  /\ resolve_codec(OurAnswer(resolve_codec(offer))) = resolve_codec(offer)
           /\ \E i \in DOMAIN offer.fmts : offer.fmts[i] = resolve_codec(offer)[2]
BY ResolvedIsOffered, AnswerResolves

\* In particular those a run checks, while this phone has the answerer's role.
THEOREM CodecsAlwaysAgree == PhoneSpec => []NegotiationAgrees
<1>1. ASSUME NEW offer \in SmallSdps \cup {OurOffer} PROVE DOMAIN offer.fmts \subseteq Nat
  BY DEF SmallSdps, OurOffer
<1>2. CodecsAgree
  BY <1>1, AnyOfferAgrees DEF CodecsAgree
<1>3. NegotiationAgrees
  BY <1>2 DEF NegotiationAgrees
<1> QED BY <1>3, PTL

-----------------------------------------------------------------------------
(***************************************************************************)
(* Types.  A callback reports one event or two, all of the leg it is for,  *)
(* so an SDP the window is given is always some leg's.                     *)
(***************************************************************************)
Report(ev, h) == [ev |-> ev, leg |-> h]
Pairs == {<<"CALL_CONNECTED", "REMOTE_SDP">>, <<"INCOMING_CALL", "REMOTE_SDP">>,
          <<"CONSULT_CONNECTED", "CONSULT_REMOTE_SDP">>}

Reports(nh) ==
    \/ out' = <<>>
    \/ \E ev \in Events : out' = <<Report(ev, nh)>>
    \/ \E p \in Pairs : out' = <<Report(p[1], nh), Report(p[2], nh)>>

\* An event, and with it the SDP or nothing.
LEMMA FireReports ==
    ASSUME NEW ev, NEW sdpEv, NEW h, NEW sdp \in BOOLEAN
    PROVE  /\ Fire(ev, h) = <<Report(ev, h)>>
           /\ FireSdp(sdpEv, h, sdp) = <<>> \/ FireSdp(sdpEv, h, sdp) = <<Report(sdpEv, h)>>
           /\ \/ Fire(ev, h) \o FireSdp(sdpEv, h, sdp) = <<Report(ev, h)>>
              \/ Fire(ev, h) \o FireSdp(sdpEv, h, sdp) = <<Report(ev, h), Report(sdpEv, h)>>
<1>1. <<Report(ev, h)>> \o <<>> = <<Report(ev, h)>>
  BY DEF Report
<1>2. <<Report(ev, h)>> \o <<Report(sdpEv, h)>> = <<Report(ev, h), Report(sdpEv, h)>>
  BY TwoInOne
<1>3. Fire(ev, h) = <<Report(ev, h)>>
  BY DEF Fire, Report
<1>4. FireSdp(sdpEv, h, sdp) = <<>> \/ FireSdp(sdpEv, h, sdp) = <<Report(sdpEv, h)>>
  BY DEF FireSdp, Fire, Report
<1> QED BY <1>1, <1>2, <1>3, <1>4

LEMMA CallbackReports ==
    ASSUME NEW nh \in Handles, NuaCb(nh) PROVE Reports(nh)
<1>0. \A ev \in Events : out' = Fire(ev, nh) => Reports(nh)
  BY DEF Reports, Fire, Report
<1>1. ASSUME NEW sdp \in HasSdp, RInviteOk(nh, sdp) PROVE Reports(nh)
  <2>1. sdp \in BOOLEAN
    BY DEF HasSdp
  <2>2. CASE ConsultAnswered(nh, sdp)
    <3>1. out' \in {<<>>, <<Report("CONSULT_CONNECTED", nh)>>,
                    <<Report("CONSULT_CONNECTED", nh), Report("CONSULT_REMOTE_SDP", nh)>>}
      <4> DEFINE both == Fire("CONSULT_CONNECTED", nh) \o FireSdp("CONSULT_REMOTE_SDP", nh, sdp)
      <4>1. out' = <<>> \/ out' = both
        BY <2>2, WebRtcAssumption DEF ConsultAnswered
      <4>2. \/ both = <<Report("CONSULT_CONNECTED", nh)>>
            \/ both = <<Report("CONSULT_CONNECTED", nh), Report("CONSULT_REMOTE_SDP", nh)>>
        BY <2>1, FireReports
      <4> HIDE DEF both
      <4> QED BY <4>1, <4>2
    <3> QED BY <3>1 DEF Reports, Events, Pairs
  <2>3. CASE CallAnswered(nh, sdp)
    <3>1. out' \in {<<>>, <<Report("CALL_CONNECTED", nh)>>,
                    <<Report("CALL_CONNECTED", nh), Report("REMOTE_SDP", nh)>>}
      <4> DEFINE both == Fire("CALL_CONNECTED", nh) \o FireSdp("REMOTE_SDP", nh, sdp)
      <4>1. out' = <<>> \/ out' = both
        BY <2>3, WebRtcAssumption DEF CallAnswered
      <4>2. \/ both = <<Report("CALL_CONNECTED", nh)>>
            \/ both = <<Report("CALL_CONNECTED", nh), Report("REMOTE_SDP", nh)>>
        BY <2>1, FireReports
      <4> HIDE DEF both
      <4> QED BY <4>1, <4>2
    <3> QED BY <3>1 DEF Reports, Events, Pairs
  <2> QED BY <1>1, <2>2, <2>3 DEF RInviteOk
<1>2. ASSUME NEW sdp \in HasSdp, IInvite(nh, sdp) \/ IReinvite(nh, sdp) PROVE Reports(nh)
  <2>1. sdp \in BOOLEAN
    BY DEF HasSdp
  <2>2. CASE RingIn(nh, sdp)
    <3>1. out' \in {<<Report("INCOMING_CALL", nh)>>,
                    <<Report("INCOMING_CALL", nh), Report("REMOTE_SDP", nh)>>}
      BY <2>1, <2>2, FireReports DEF RingIn
    <3> QED BY <3>1 DEF Reports, Events, Pairs
  <2>3. CASE AnswerReinvite(nh, sdp)
    <3>1. out' \in {<<>>, <<Report("REINVITE_SDP", nh)>>}
      BY <2>1, <2>3, FireReports, WebRtcAssumption DEF AnswerReinvite
    <3> QED BY <3>1 DEF Reports, Events
  <2>4. CASE Busy(leg)
    BY <2>4 DEF Busy, Reports
  <2> QED BY <1>2, <2>2, <2>3, <2>4 DEF IInvite, IReinvite
<1>3. ASSUME NEW challenge, RInviteChallenged(nh, challenge) PROVE Reports(nh)
  BY <1>0, <1>3 DEF RInviteChallenged, InviteWithDigest, ConsultWithDigest, Events, Reports
<1>4. CASE RInviteRefused(nh) \/ IBye(nh) \/ RBye(nh) \/ ICancel(nh) \/ IError(nh)
  <2>1. out' \in {<<>>, Fire("CALL_FAILED", nh), Fire("CALL_ENDED", nh), Fire("CONSULT_ENDED", nh)}
    BY <1>4 DEF RInviteRefused, ConsultRefused, CallRefused, IBye, RBye, Bye, ConsultGone,
                ConsultOver, CallOver, ICancel, IError, CallError, Busy
  <2> QED BY <1>0, <2>1 DEF Reports, Events
<1>5. ASSUME NEW accepted, NEW result, RRefer(nh, accepted) \/ INotify(nh, result)
      PROVE  Reports(nh)
  <2>1. out' \in {<<>>, Fire("TRANSFER_OK", nh), Fire("TRANSFER_FAILED", nh)}
    BY <1>5 DEF RRefer, INotify, TransferOver
  <2> QED BY <1>0, <2>1 DEF Reports, Events
<1> QED BY <1>1, <1>2, <1>3, <1>4, <1>5 DEF NuaCb

\* The engine's part of a step: it takes an event, runs a callback, or is called by the
\* window in one of six ways; or it is not asked at all.
WindowCalls == \/ SofiaHangup \/ SofiaCall \/ SofiaAnswer \/ SofiaReinviteSdp \/ SofiaRespondSdp
               \/ \E hold \in BOOLEAN : SofiaSetHold(hold)

LEMMA EngineSteps ==
    ASSUME PhoneNext
    PROVE  \/ UNCHANGED vars \/ Taken \/ WindowCalls
           \/ \E nh \in Handles : NuaCb(nh)
<1>1. CASE HandleSipEvent
  BY <1>1 DEF HandleSipEvent, OnIncomingCall, OnRemoteSdp, OnReinviteSdp, OnCallConnected,
              OnCallOver, fail_webrtc, WithActiveEngine, WindowCalls
<1>2. CASE User
  BY <1>2 DEF User, StartCall, AnswerCall, HangupCall, MuteToggled, HoldToggled,
              fail_webrtc, WithActiveEngine, WindowCalls
<1>3. ASSUME NEW i, TaskReady(i) PROVE UNCHANGED vars \/ Taken \/ WindowCalls
  <2>1. CASE AnswerPolled(i)
    BY <2>1 DEF AnswerPolled, fail_webrtc, WithActiveEngine, WindowCalls
  <2>2. ASSUME NEW described,
               \/ OfferReady(i, described) \/ AnswerReady(i, described)
               \/ HoldReady(i, described) \/ ReinviteReady(i, described)
        PROVE  UNCHANGED vars \/ Taken \/ WindowCalls
    BY <2>2 DEF OfferReady, AnswerReady, HoldReady, ReinviteReady, fail_webrtc,
                WithActiveEngine, WindowCalls
  <2> QED BY <1>3, <2>1, <2>2 DEF TaskReady
<1> QED BY <1>1, <1>2, <1>3 DEF PhoneNext, Sofia

\* The SDP of a 2xx or an INVITE is a leg's; a re-INVITE is reported alone.
SdpHasLeg(s) == \A i \in 1 .. Len(s) : s[i].ev = "REMOTE_SDP" => s[i].leg \in Handles
ReinviteAlone(s) == \A i \in 1 .. Len(s) : s[i].ev = "REINVITE_SDP" => Len(s) = 1

NewsType(s) == SdpHasLeg(s) /\ ReinviteAlone(s)

LEMMA ReportsType ==
    ASSUME NEW nh \in Handles, Reports(nh) PROVE NewsType(out')
<1>1. CASE \E p \in Pairs : out' = <<Report(p[1], nh), Report(p[2], nh)>>
  BY <1>1 DEF Pairs, Report, NewsType, SdpHasLeg, ReinviteAlone
<1> QED BY <1>1 DEF Reports, Report, NewsType, SdpHasLeg, ReinviteAlone

\* The calls of the window end at most a call, or connect it.
LEMMA WindowCallsReport ==
    ASSUME TypeOK, WindowCalls
    PROVE  /\ TypeOK'
           /\ out' \in {<<>>, <<Report("CALL_ENDED", call_nh)>>, <<Report("CALL_CONNECTED", call_nh)>>}
<1>1. Api
  BY DEF WindowCalls, Api
<1>2. out' \in {<<>>, <<Report("CALL_ENDED", call_nh)>>, <<Report("CALL_CONNECTED", call_nh)>>}
  <2>1. CASE SofiaAnswer
    BY <2>1, WebRtcAssumption DEF SofiaAnswer, Fire, Report
  <2>2. CASE ~SofiaAnswer
    BY <2>2 DEF WindowCalls, SofiaHangup, Declined, SofiaCall, SofiaReinviteSdp, SofiaRespondSdp,
                SofiaSetHold, Fire, Report
  <2> QED BY <2>1, <2>2
<1> QED BY <1>1, <1>2, TypeStep DEF Next

EngineTypes == TypeOK /\ NewsType(out)

LEMMA EngineTypesKept ==
    ASSUME EngineTypes, [PhoneNext]_phoneVars PROVE EngineTypes'
<1>1. CASE UNCHANGED vars
  BY <1>1 DEF EngineTypes, NewsType, SdpHasLeg, ReinviteAlone, TypeOK, MaybeHandle,
              vars, callVars, rtpVars, consultVars
<1>2. CASE Taken
  <2>1. out' \in Seq(Event) /\ NewsType(out')
    <3>1. CASE out = <<>>
      BY <1>2, <3>1 DEF Taken, EngineTypes, TypeOK
    <3>2. CASE out # <<>>
      BY <1>2, <3>2 DEF Taken, EngineTypes, TypeOK, NewsType, SdpHasLeg, ReinviteAlone
    <3> QED BY <3>1, <3>2
  <2> QED BY <1>2, <2>1 DEF Taken, EngineTypes, TypeOK, MaybeHandle, callVars, rtpVars, consultVars
<1>3. CASE WindowCalls
  BY <1>3, WindowCallsReport DEF EngineTypes, NewsType, SdpHasLeg, ReinviteAlone, Report
<1>4. ASSUME NEW nh \in Handles, NuaCb(nh) PROVE EngineTypes'
  BY <1>4, CallbackReports, ReportsType, TypeStep DEF EngineTypes, Next
<1> QED BY <1>1, <1>2, <1>3, <1>4, EngineSteps DEF phoneVars

-----------------------------------------------------------------------------
\* The window's own variables.  A re-INVITE is only reported when a task may be spawned.
MaybeSession == Sessions \cup {NoSession}
SdpKept == {<<>>} \cup (Handles \X PeerSdps)

ButtonTypes == {active, answer_button, hold_button, mute_button, given_up} \subseteq BOOLEAN
MediaTypes == /\ webrtc_session \in MaybeSession
              /\ sdp_role \in {"none", "offerer", "answerer"}
              /\ pending_remote_offer \in SdpKept
PeerTypes == peer \in [Sessions -> MaybeHandle]
TaskTypes == tasks \in Seq(Task) /\ Len(tasks) <= MaxTasks
RoomForReinvite == \A i \in 1 .. Len(out) : out[i].ev = "REINVITE_SDP" => RoomForTask

WindowTypes == ButtonTypes /\ MediaTypes /\ PeerTypes /\ TaskTypes /\ RoomForReinvite

\* A session dropped forgets its peer.
LEMMA KeptPeers ==
    ASSUME NEW f, NEW p \in [Sessions -> MaybeHandle], KeepSessions(f, p) PROVE PeerTypes'
<1>1. PICK alive : peer' = [i \in Sessions |-> IF i \in alive THEN p[i] ELSE NoHandle]
  BY DEF KeepSessions
<1> QED BY <1>1 DEF PeerTypes, MaybeHandle

LEMMA PutPeer ==
    ASSUME PeerTypes, NEW s, NEW h \in MaybeHandle
    PROVE  PeerWith(s, h) \in [Sessions -> MaybeHandle]
BY DEF PeerTypes, PeerWith

LEMMA SpawnedTypes ==
    ASSUME TaskTypes, RoomForTask, NEW kind \in {"offer", "answer", "hold", "reinvite"},
           NEW s \in Sessions, NEW h \in MaybeHandle, NEW sdp \in PeerSdps \cup {<<>>},
           Spawn(kind, s, h, sdp)
    PROVE  TaskTypes'
<1> DEFINE t == [kind |-> kind, session |-> s, leg |-> h, sdp |-> sdp]
<1>1. t \in Task
  BY DEF Task
<1>2. tasks' = Append(tasks, t)
  BY DEF Spawn
<1> HIDE DEF t
<1> QED BY <1>1, <1>2, WebRtcAssumption DEF TaskTypes, RoomForTask

\* The tasks left when one has ended are among those there were.
LEMMA DroppedTypes ==
    ASSUME TaskTypes, NEW i \in DOMAIN tasks
    PROVE  /\ Dropped(i) \in Seq(Task) /\ Len(Dropped(i)) = Len(tasks) - 1
           /\ \A j \in 1 .. Len(tasks) - 1 :
                 Dropped(i)[j] = tasks[IF j < i THEN j ELSE j + 1]
<1>0. tasks \in Seq(Task) /\ Len(tasks) \in Nat /\ i \in 1 .. Len(tasks)
  BY DEF TaskTypes
<1> DEFINE n == Len(tasks)
           before == SubSeq(tasks, 1, i - 1)
           after == SubSeq(tasks, i + 1, n)
<1>1. /\ before \in Seq(Task) /\ Len(before) = i - 1
      /\ \A j \in 1 .. i - 1 : before[j] = tasks[j]
  BY <1>0
<1>2. /\ after \in Seq(Task) /\ Len(after) = n - i
      /\ \A j \in 1 .. n - i : after[j] = tasks[j + i]
  BY <1>0
<1> HIDE DEF before, after
<1>3. Dropped(i) = before \o after
  BY DEF Dropped, before, after
<1>4. /\ before \o after \in Seq(Task) /\ Len(before \o after) = Len(before) + Len(after)
      /\ \A j \in 1 .. Len(before) + Len(after) :
            (before \o after)[j] = IF j <= Len(before) THEN before[j] ELSE after[j - Len(before)]
  BY <1>1, <1>2, ConcatProperties
<1>5. ASSUME NEW j \in 1 .. n - 1
      PROVE  Dropped(i)[j] = tasks[IF j < i THEN j ELSE j + 1]
  <2>1. j \in 1 .. Len(before) + Len(after) /\ n \in Nat
    BY <1>0, <1>1, <1>2
  <2>2. CASE j <= i - 1
    <3>1. Dropped(i)[j] = before[j] /\ j < i /\ j \in 1 .. i - 1
      BY <1>0, <1>1, <1>3, <1>4, <2>1, <2>2
    <3> QED BY <1>1, <3>1
  <2>3. CASE ~(j <= i - 1)
    <3>1. Dropped(i)[j] = after[j - (i - 1)] /\ ~(j < i) /\ j - (i - 1) \in 1 .. n - i
      <4>1. Dropped(i)[j] = after[j - Len(before)]
        BY <1>1, <1>3, <1>4, <2>1, <2>3
      <4>2. j \in Nat /\ i \in Nat /\ j <= n - 1 /\ ~(j < i)
        BY <1>0, <2>1, <2>3
      <4>3. j - (i - 1) \in 1 .. n - i
        BY <2>1, <4>2
      <4> QED BY <1>1, <4>1, <4>2, <4>3
    <3>2. after[j - (i - 1)] = tasks[(j - (i - 1)) + i] /\ (j - (i - 1)) + i = j + 1
      <4>1. after[j - (i - 1)] = tasks[(j - (i - 1)) + i]
        BY <1>2, <3>1
      <4>2. j \in Nat /\ i \in Nat
        BY <1>0
      <4> QED BY <4>1, <4>2
    <3> QED BY <3>1, <3>2
  <2> QED BY <2>2, <2>3
<1>6. Len(before) + Len(after) = n - 1
  BY <1>0, <1>1, <1>2
<1> QED BY <1>3, <1>4, <1>5, <1>6

\* A re-INVITE is reported alone: once its event is taken nothing waits for a task.
LEMMA NoReinviteLeft ==
    ASSUME EngineTypes, Taken \/ WindowCalls \/ out' = <<>> PROVE RoomForReinvite'
<1>1. CASE Taken
  <2>1. CASE out = <<>>
    BY <1>1, <2>1 DEF Taken, RoomForReinvite
  <2>2. CASE out # <<>>
    <3>1. out \in Seq(Event) /\ out' = Tail(out)
      BY <1>1, <2>2 DEF Taken, EngineTypes, TypeOK
    <3>2. \A i \in 1 .. Len(out') : out'[i].ev # "REINVITE_SDP"
      BY <2>2, <3>1 DEF EngineTypes, NewsType, ReinviteAlone
    <3> QED BY <3>2 DEF RoomForReinvite
  <2> QED BY <2>1, <2>2
<1>2. CASE WindowCalls
  BY <1>2, WindowCallsReport DEF EngineTypes, RoomForReinvite, Report
<1>3. CASE out' = <<>>
  BY <1>3 DEF RoomForReinvite
<1> QED BY <1>1, <1>2, <1>3

LEMMA FailedTypes ==
    ASSUME MediaTypes, fail_webrtc PROVE MediaTypes' /\ (Taken \/ WindowCalls)
BY DEF fail_webrtc, clear_webrtc, WithActiveEngine, WindowCalls, MediaTypes, MaybeSession, SdpKept

LEMMA NewWebrtcTypes ==
    ASSUME PeerTypes, NEW s \in MaybeSession, NEW role \in {"offerer", "answerer"},
           NewWebrtc(role, s)
    PROVE  MediaTypes' /\ PeerTypes'
<1>1. [peer EXCEPT ![s] = NoHandle] \in [Sessions -> MaybeHandle]
  BY DEF PeerTypes, MaybeHandle
<1> QED BY <1>1, KeptPeers DEF NewWebrtc, MediaTypes, SdpKept

\* What an action leaves alone keeps its type.
LEMMA SameTypes ==
    ASSUME WindowTypes
    PROVE  /\ UNCHANGED buttonVars /\ UNCHANGED given_up => ButtonTypes'
           /\ UNCHANGED mediaVars => MediaTypes'
           /\ UNCHANGED peer => PeerTypes'
           /\ UNCHANGED tasks => TaskTypes'
           /\ Kept => PeerTypes'
<1>1. Kept => PeerTypes'
  BY KeptPeers DEF Kept, WindowTypes, PeerTypes
<1> QED BY <1>1 DEF WindowTypes, ButtonTypes, MediaTypes, PeerTypes, TaskTypes, buttonVars, mediaVars

LEMMA EventTypes ==
    ASSUME EngineTypes, WindowTypes, HandleSipEvent PROVE WindowTypes'
<1>0. out \in Seq(Event) /\ NewsType(out)
  BY DEF EngineTypes, TypeOK
<1>1. CASE OnIncomingCall
  <2>1. PICK s \in MaybeSession : NewWebrtc("answerer", s)
    BY <1>1 DEF OnIncomingCall, MaybeSession
  <2>2. ButtonTypes' /\ TaskTypes'
    BY <1>1, SameTypes DEF OnIncomingCall, WindowTypes, ButtonTypes
  <2>3. MediaTypes' /\ PeerTypes'
    BY <2>1, NewWebrtcTypes DEF WindowTypes
  <2>4. RoomForReinvite'
    BY <1>1, NoReinviteLeft DEF OnIncomingCall
  <2> QED BY <2>2, <2>3, <2>4 DEF WindowTypes
<1>2. CASE OnRemoteSdp
  <2>0. out # <<>> /\ Head(out).ev = "REMOTE_SDP" /\ Head(out).leg \in Handles
    BY <1>0, <1>2 DEF OnRemoteSdp, Taking, NewsType, SdpHasLeg
  <2>1. ButtonTypes' /\ TaskTypes'
    BY <1>2, SameTypes DEF OnRemoteSdp
  <2>2. PICK sdp \in PeerSdps :
           \/ Taken /\ UNCHANGED <<mediaVars, session, peer>>
           \/ \E r : /\ (Taken /\ UNCHANGED mediaVars) \/ fail_webrtc
                     /\ KeepSessions(With(webrtc_session, r.session),
                                     PeerWith(webrtc_session, Head(out).leg))
           \/ /\ Taken
              /\ pending_remote_offer' = <<Head(out).leg, sdp>>
              /\ UNCHANGED <<webrtc_session, sdp_role, session, peer>>
    BY <1>2 DEF OnRemoteSdp
  <2>3. RoomForReinvite'
    BY <2>2, NoReinviteLeft, FailedTypes DEF WindowTypes
  <2>4. MediaTypes'
    BY <2>0, <2>2, FailedTypes DEF WindowTypes, MediaTypes, SdpKept, mediaVars
  <2>5. PeerTypes'
    <3>1. PeerWith(webrtc_session, Head(out).leg) \in [Sessions -> MaybeHandle]
      BY <2>0, PutPeer DEF WindowTypes, MaybeHandle
    <3> QED BY <2>2, <3>1, KeptPeers, SameTypes
  <2> QED BY <2>1, <2>3, <2>4, <2>5 DEF WindowTypes
<1>3. CASE OnReinviteSdp
  <2>1. ButtonTypes' /\ MediaTypes' /\ PeerTypes' /\ RoomForReinvite'
    BY <1>3, SameTypes, NoReinviteLeft DEF OnReinviteSdp
  <2>2. CASE webrtc_session = NoSession
    BY <1>3, <2>1, <2>2, SameTypes DEF OnReinviteSdp, WindowTypes
  <2>3. CASE webrtc_session # NoSession
    <3>1. Head(out).leg \in MaybeHandle /\ Head(out) = out[1] /\ 1 \in 1 .. Len(out)
      <4>1. out # <<>>
        BY <1>3 DEF OnReinviteSdp, Taking
      <4>2. 1 \in 1 .. Len(out) /\ Head(out) = out[1] /\ out[1] \in Event
        BY <1>0, <4>1
      <4> QED BY <4>2 DEF Event
    <3>2. RoomForTask
      BY <1>3, <3>1 DEF OnReinviteSdp, Taking, WindowTypes, RoomForReinvite
    <3>3. TaskTypes'
      BY <1>3, <2>3, <3>1, <3>2, SpawnedTypes
         DEF OnReinviteSdp, WindowTypes, MediaTypes, MaybeSession
    <3> QED BY <2>1, <3>3 DEF WindowTypes
  <2> QED BY <2>2, <2>3
<1>4. CASE OnCallConnected
  <2>1. ButtonTypes'
    BY <1>4 DEF OnCallConnected, WindowTypes, ButtonTypes
  <2> QED BY <1>4, <2>1, SameTypes, NoReinviteLeft DEF OnCallConnected, sessionVars, WindowTypes
<1>5. CASE OnCallOver
  <2>1. ButtonTypes'
    BY <1>5 DEF OnCallOver, WindowTypes, ButtonTypes
  <2>2. MediaTypes'
    BY <1>5 DEF OnCallOver, clear_webrtc, MediaTypes, MaybeSession, SdpKept
  <2> QED BY <1>5, <2>1, <2>2, SameTypes, NoReinviteLeft DEF OnCallOver, WindowTypes
<1> QED BY <1>1, <1>2, <1>3, <1>4, <1>5 DEF HandleSipEvent

LEMMA UserTypes ==
    ASSUME EngineTypes, WindowTypes, out = <<>>, User PROVE WindowTypes'
<1>1. CASE StartCall
  <2>1. ButtonTypes' /\ RoomForReinvite'
    BY <1>1, NoReinviteLeft DEF StartCall, WindowTypes, ButtonTypes, vars
  <2>2. CASE \E s \in Sessions : Spawn("offer", s, NoHandle, <<>>) /\ NewWebrtc("offerer", s)
    <3>1. PICK s \in Sessions : Spawn("offer", s, NoHandle, <<>>) /\ NewWebrtc("offerer", s)
      BY <2>2
    <3>2. MediaTypes' /\ PeerTypes'
      BY <3>1, NewWebrtcTypes DEF WindowTypes, MaybeSession
    <3>3. TaskTypes'
      BY <1>1, <3>1, SpawnedTypes DEF StartCall, WindowTypes, MaybeHandle
    <3> QED BY <2>1, <3>2, <3>3 DEF WindowTypes
  <2>3. CASE clear_webrtc /\ UNCHANGED tasks /\ Kept
    <3>1. MediaTypes'
      BY <2>3 DEF clear_webrtc, MediaTypes, MaybeSession, SdpKept
    <3> QED BY <2>1, <2>3, <3>1, SameTypes DEF WindowTypes
  <2> QED BY <1>1, <2>2, <2>3 DEF StartCall
<1>2. CASE AnswerCall
  <2>1. ButtonTypes'
    BY <1>2, SameTypes DEF AnswerCall
  <2>2. CASE webrtc_session # NoSession /\ pending_remote_offer # <<>>
    <3>1. /\ Spawn("answer", webrtc_session, pending_remote_offer[1], pending_remote_offer[2])
          /\ UNCHANGED <<vars, mediaVars, session, peer>> /\ RoomForTask
      BY <1>2, <2>2 DEF AnswerCall
    <3>2. pending_remote_offer \in Handles \X PeerSdps /\ webrtc_session \in Sessions
      BY <2>2 DEF WindowTypes, MediaTypes, SdpKept, MaybeSession
    <3>3. pending_remote_offer[1] \in MaybeHandle /\ pending_remote_offer[2] \in PeerSdps
      BY <3>2 DEF MaybeHandle
    <3>4. TaskTypes'
      BY <3>1, <3>2, <3>3, SpawnedTypes DEF WindowTypes
    <3> QED BY <2>1, <3>1, <3>4, SameTypes, NoReinviteLeft DEF WindowTypes, vars
  <2>3. CASE fail_webrtc /\ UNCHANGED tasks /\ Kept
    BY <2>1, <2>3, FailedTypes, NoReinviteLeft, SameTypes DEF WindowTypes
  <2> QED BY <1>2, <2>2, <2>3 DEF AnswerCall
<1>3. CASE HangupCall
  <2>1. ButtonTypes' /\ WindowCalls
    BY <1>3 DEF HangupCall, WindowTypes, ButtonTypes, buttonVars, WindowCalls
  <2> QED BY <1>3, <2>1, SameTypes, NoReinviteLeft DEF HangupCall, sessionVars, WindowTypes
<1>4. ASSUME NEW on \in BOOLEAN, MuteToggled(on) PROVE WindowTypes'
  <2>1. ButtonTypes' /\ RoomForReinvite'
    BY <1>4, NoReinviteLeft DEF MuteToggled, WindowTypes, ButtonTypes, vars
  <2>2. PeerTypes'
    BY <1>4, SameTypes, KeptPeers DEF MuteToggled, WindowTypes, PeerTypes
  <2> QED BY <1>4, <2>1, <2>2, SameTypes DEF MuteToggled, WindowTypes
<1>5. ASSUME NEW on \in BOOLEAN, HoldToggled(on) PROVE WindowTypes'
  <2>1. ButtonTypes'
    BY <1>5 DEF HoldToggled, WindowTypes, ButtonTypes
  <2>2. RoomForReinvite'
    BY <1>5, NoReinviteLeft DEF HoldToggled, WindowCalls, vars
  <2>3. PeerTypes'
    BY <1>5, SameTypes, KeptPeers DEF HoldToggled, WindowTypes, PeerTypes, sessionVars
  <2>4. TaskTypes'
    <3>1. CASE webrtc_session = NoSession
      BY <1>5, <3>1, SameTypes DEF HoldToggled, sessionVars
    <3>2. CASE webrtc_session # NoSession
      BY <1>5, <3>2, SpawnedTypes DEF HoldToggled, WindowTypes, MediaTypes, MaybeSession, MaybeHandle
    <3> QED BY <3>1, <3>2
  <2> QED BY <1>5, <2>1, <2>2, <2>3, <2>4, SameTypes DEF HoldToggled, WindowTypes
<1> QED BY <1>1, <1>2, <1>3, <1>4, <1>5 DEF User

\* A task that ends, ends as one of those there were.
LEMMA ResumedTypes ==
    ASSUME WindowTypes, NEW i, NEW kind, Resumed(i, kind)
    PROVE  ButtonTypes' /\ TaskTypes'
<1>1. TaskTypes /\ MaxTasks \in Nat /\ i \in DOMAIN tasks /\ tasks' = Dropped(i)
  BY WebRtcAssumption DEF Resumed, WindowTypes
<1>2. Len(tasks) \in Nat /\ Len(tasks) <= MaxTasks
  BY <1>1 DEF TaskTypes
<1>3. tasks' \in Seq(Task) /\ Len(tasks') = Len(tasks) - 1
  BY <1>1, DroppedTypes
<1>4. TaskTypes'
  BY <1>1, <1>2, <1>3 DEF TaskTypes
<1> QED BY <1>4, SameTypes DEF Resumed

LEMMA AppliedPeers ==
    ASSUME WindowTypes, NEW i \in DOMAIN tasks, NEW x, KeepApplied(i, x) PROVE PeerTypes'
<1>1. tasks[i] \in Task
  BY DEF WindowTypes, TaskTypes
<1>2. PeerWith(tasks[i].session, tasks[i].leg) \in [Sessions -> MaybeHandle]
  BY <1>1, PutPeer DEF Task, WindowTypes
<1> QED BY <1>2, KeptPeers DEF KeepApplied

LEMMA TaskStepTypes ==
    ASSUME EngineTypes, WindowTypes, out = <<>>, NEW i \in DOMAIN tasks, TaskReady(i)
    PROVE  WindowTypes'
<1>1. CASE AnswerPolled(i)
  <2>1. PICK r \in create_answer(Still(i), tasks[i].sdp) :
           /\ \/ /\ tasks' = [tasks EXCEPT ![i].kind = "answering"]
                 /\ UNCHANGED <<vars, buttonVars, mediaVars, given_up>>
              \/ /\ Resumed(i, "answer")
                 /\ UNCHANGED <<vars, mediaVars>> \/ fail_webrtc
           /\ KeepApplied(i, r.session)
    BY <1>1 DEF AnswerPolled
  <2>2. PeerTypes'
    BY <2>1, AppliedPeers
  <2>3. CASE /\ tasks' = [tasks EXCEPT ![i].kind = "answering"]
             /\ UNCHANGED <<vars, buttonVars, mediaVars, given_up>>
    <3>0. tasks[i] \in Task
      BY DEF WindowTypes, TaskTypes
    <3>1. [tasks[i] EXCEPT !.kind = "answering"] \in Task
      BY <3>0 DEF Task
    <3>2. tasks' = [tasks EXCEPT ![i] = [tasks[i] EXCEPT !.kind = "answering"]]
      BY <2>3
    <3>3. TaskTypes'
      BY <3>1, <3>2 DEF WindowTypes, TaskTypes
    <3> QED BY <2>2, <2>3, <3>3, SameTypes, NoReinviteLeft DEF WindowTypes, vars
  <2>4. CASE Resumed(i, "answer") /\ (UNCHANGED <<vars, mediaVars>> \/ fail_webrtc)
    <3>1. RoomForReinvite' /\ MediaTypes'
      BY <2>4, FailedTypes, NoReinviteLeft, SameTypes DEF WindowTypes, vars
    <3> QED BY <2>2, <2>4, <3>1, ResumedTypes DEF WindowTypes
  <2> QED BY <2>1, <2>3, <2>4
<1>2. ASSUME NEW described,
             \/ OfferReady(i, described) \/ AnswerReady(i, described)
             \/ HoldReady(i, described) \/ ReinviteReady(i, described)
      PROVE  WindowTypes'
  <2>1. ButtonTypes' /\ TaskTypes'
    BY <1>2, ResumedTypes DEF OfferReady, AnswerReady, HoldReady, ReinviteReady
  <2>2. /\ out' = <<>> \/ Taken \/ WindowCalls
        /\ UNCHANGED mediaVars \/ fail_webrtc
    BY <1>2 DEF OfferReady, AnswerReady, HoldReady, ReinviteReady, WithActiveEngine,
                WindowCalls, fail_webrtc, vars
  <2>3. RoomForReinvite' /\ MediaTypes'
    BY <2>2, NoReinviteLeft, FailedTypes, SameTypes DEF WindowTypes
  <2>4. PeerTypes'
    BY <1>2, SameTypes, AppliedPeers DEF OfferReady, AnswerReady, HoldReady, ReinviteReady
  <2> QED BY <2>1, <2>3, <2>4 DEF WindowTypes
<1> QED BY <1>1, <1>2 DEF TaskReady

\* The window's part and the engine's are inductive together.
LEMMA TypesInvariant == PhoneSpec => [](EngineTypes /\ WindowTypes)
<1>1. PhoneInit => EngineTypes /\ WindowTypes
  <2>1. ASSUME PhoneInit PROVE EngineTypes /\ WindowTypes
    <3>1. TypeOK
      BY <2>1, InitTypeOK DEF PhoneInit
    <3>2. NewsType(out)
      BY <2>1 DEF PhoneInit, Init, NewsType, SdpHasLeg, ReinviteAlone
    <3>3. ButtonTypes /\ MediaTypes
      BY <2>1 DEF PhoneInit, ButtonTypes, MediaTypes, MaybeSession, SdpKept
    <3>5. peer = [s \in Sessions |-> NoHandle] /\ out = <<>>
      BY <2>1 DEF PhoneInit, Init
    <3>6. PeerTypes /\ RoomForReinvite
      BY <3>5 DEF PeerTypes, RoomForReinvite, MaybeHandle
    <3>4. TaskTypes
      BY <2>1, WebRtcAssumption DEF PhoneInit, TaskTypes
    <3> QED BY <3>1, <3>2, <3>3, <3>4, <3>6 DEF EngineTypes, WindowTypes
  <2> QED BY <2>1
<1>2. EngineTypes /\ WindowTypes /\ [PhoneNext]_phoneVars => EngineTypes' /\ WindowTypes'
  <2>1. ASSUME EngineTypes, WindowTypes, PhoneNext PROVE WindowTypes'
    <3>1. ASSUME NEW nh \in Handles, Sofia(nh) PROVE WindowTypes'
      <4>1. RoomForReinvite'
        BY <3>1 DEF Sofia, Reinvited, RoomForReinvite, RoomForTask, windowVars, sessionVars
      <4>2. UNCHANGED buttonVars /\ UNCHANGED given_up /\ UNCHANGED mediaVars
        BY <3>1 DEF Sofia, windowVars
      <4>3. UNCHANGED peer /\ UNCHANGED tasks
        BY <3>1 DEF Sofia, windowVars, sessionVars
      <4>4. PeerTypes' /\ TaskTypes'
        BY <2>1, <4>3, SameTypes
      <4>5. ButtonTypes' /\ MediaTypes'
        BY <2>1, <4>2, SameTypes
      <4> QED BY <4>1, <4>4, <4>5 DEF WindowTypes
    <3> QED BY <2>1, <3>1, EventTypes, UserTypes, TaskStepTypes DEF PhoneNext
  <2>2. ASSUME EngineTypes, WindowTypes, UNCHANGED phoneVars PROVE WindowTypes'
    BY <2>2, SameTypes DEF WindowTypes, RoomForReinvite, RoomForTask, phoneVars, windowVars,
       sessionVars, vars
  <2> QED BY <2>1, <2>2, EngineTypesKept
<1> QED BY <1>1, <1>2, PTL DEF PhoneSpec

\* Every variable keeps its type; in particular no order of clicks, re-INVITEs and
\* answers spawns more tasks than the bound, and an SDP put aside has its leg.
THEOREM WebRtcTypeCorrect == PhoneSpec => []WebRtcTypeOK
<1>1. EngineTypes /\ WindowTypes /\ MicsFollowFlags => WebRtcTypeOK
  BY DEF EngineTypes, WindowTypes, MicsFollowFlags, AllQuiet, WebRtcTypeOK, ButtonTypes,
         MediaTypes, PeerTypes, TaskTypes, MaybeSession, SdpKept
<1> QED BY <1>1, TypesInvariant, MicsStayQuiet, PTL

-----------------------------------------------------------------------------
\* Re-INVITEs of ours are accepted and our BYE does not cross the peer's.
NoGlare == Env \cap {"bye_glare", "reinvite_fail"} = {}

\* No earlier call has tasks left when a call begins, and none rings while an offer
\* gathers candidates.
OneAtATime == Races \cap {"stale", "crossed"} = {}

\* This phone has one leg at a time, its primary call's, and transfers nothing.
OneLeg ==
    /\ consult_nh = NoHandle
    /\ \A h \in Handles :
          /\ leg[h].st # "idle" <=> h = call_nh
          /\ leg[h].reinv => leg[h].st \in {"up", "closing"}
          /\ leg[h].refer = "none"

\* What the flags of glue.c say of that leg.
FlagsAgree ==
    call_nh # NoHandle =>
        /\ leg[call_nh].st = "up" => call_established
        /\ leg[call_nh].st = "ringing" => ~call_established
        /\ call_is_incoming /\ ~call_established => leg[call_nh].st = "ringing"

OneCall == OneLeg /\ FlagsAgree

\* The leg the window may negotiate media with.
Current(h) == h = call_nh /\ h # NoHandle /\ leg[h].st \in {"ringing", "up", "closing"}

Ringing == call_nh # NoHandle /\ leg[call_nh].st = "ringing"

\* SDP is reported of that leg, and a re-INVITE of an answered one.
NewsOfCall(s) ==
    \A i \in 1 .. Len(s) :
        /\ s[i].ev \in {"REMOTE_SDP", "REINVITE_SDP"} => Current(s[i].leg)
        /\ s[i].ev = "REINVITE_SDP" => ~Ringing

\* What every handler of the engine keeps: media that was the call's still is, unless the
\* window is told that the call is over; nothing begins to ring unless there was no call.
CurrentKept == \A h \in Handles : Current(h) => Current(h)' \/ CloseComing'
RingKept == Ringing' => (Ringing /\ call_nh' = call_nh) \/ (Rang /\ call_nh = NoHandle)
RangAnew == Rang => call_nh = NoHandle \/ out # <<>>
NoAnswer == \A h \in Handles : leg[h].st = "ringing" => leg'[h].st # "up"

EngineKeeps == OneCall' /\ CurrentKept /\ RingKept /\ RangAnew /\ NewsOfCall(out)'

\* The call is over, and the window is told.
CallGone ==
    /\ call_nh # NoHandle /\ call_nh' = NoHandle /\ consult_nh' = NoHandle
    /\ leg' = Over(leg, call_nh)
    /\ \E ev \in {"CALL_ENDED", "CALL_FAILED"} : out' = Fire(ev, call_nh)

LEMMA CallGoneKeeps ==
    ASSUME TypeOK, OneCall, CallGone PROVE EngineKeeps /\ NoAnswer
<1>0. leg \in Legs /\ call_nh \in Handles /\ call_nh \in MaybeHandle
  BY DEF TypeOK, Legs, MaybeHandle, CallGone
<1>1. \A g \in Handles :
         /\ leg'[g].st = IF g = call_nh THEN "idle" ELSE leg[g].st
         /\ leg'[g].reinv = (g # call_nh /\ leg[g].reinv)
         /\ leg'[g].refer = leg[g].refer
  BY <1>0, NuaEffects, ReferEffects DEF CallGone
<1>2. OneCall'
  BY <1>0, <1>1, ConstantsAssumption DEF CallGone, OneCall, OneLeg, FlagsAgree
<1>3. CloseComing'
  BY <1>0 DEF CallGone, CloseComing, Closing
<1>4. \E ev \in {"CALL_ENDED", "CALL_FAILED"}, h \in Handles : out' = <<[ev |-> ev, leg |-> h]>>
  BY <1>0 DEF CallGone, Fire
<1>5. ~Rang /\ NewsOfCall(out)'
  BY <1>4 DEF Rang, NewsOfCall
<1>6. NoAnswer
  BY <1>1 DEF NoAnswer
<1> QED BY <1>2, <1>3, <1>5, <1>6 DEF EngineKeeps, CurrentKept, RingKept, RangAnew, Ringing, CallGone

\* The call's own leg answers.
LEMMA AnsweredKeepsOne ==
    ASSUME TypeOK, OneCall, NEW nh \in Handles, NEW sdp \in BOOLEAN, RInviteOk(nh, sdp)
    PROVE  EngineKeeps /\ NoAnswer
<1>0. leg \in Legs /\ leg[nh] \in Leg /\ nh # NoHandle
  BY FieldTypes, ConstantsAssumption
<1>1. \A g \in Handles :
         /\ leg'[g].st = IF g = nh /\ ~leg[nh].reinv THEN "up" ELSE leg[g].st
         /\ leg'[g].reinv = (g # nh /\ leg[g].reinv)
         /\ leg'[g].refer = leg[g].refer
  BY <1>0 DEF RInviteOk, Legs, Leg
<1>2. nh = call_nh /\ leg[nh].st \in {"calling", "cancelled", "up", "closing"}
  BY <1>0 DEF RInviteOk, Inviting, OneCall, OneLeg
<1>3. CallAnswered(nh, sdp)
  BY <1>0, <1>2 DEF RInviteOk, OneCall, OneLeg
<1>4. call_nh' = call_nh /\ call_established' /\ consult_nh' = NoHandle
      /\ call_is_incoming' = call_is_incoming
  BY <1>3 DEF CallAnswered, consultVars, OneCall, OneLeg, TypeOK
<1>5. OneCall'
  BY <1>0, <1>1, <1>2, <1>4 DEF OneCall, OneLeg, FlagsAgree
<1>6. Current(nh)' /\ ~Ringing'
  BY <1>0, <1>1, <1>2, <1>4 DEF Current, Ringing, OneCall, OneLeg
<1>7. \/ out' = <<>> \/ out' = <<Report("CALL_CONNECTED", nh)>>
      \/ out' = <<Report("CALL_CONNECTED", nh), Report("REMOTE_SDP", nh)>>
  <2> DEFINE both == Fire("CALL_CONNECTED", nh) \o FireSdp("REMOTE_SDP", nh, sdp)
  <2>1. out' = <<>> \/ out' = both
    BY <1>3, WebRtcAssumption DEF CallAnswered
  <2>2. \/ both = <<Report("CALL_CONNECTED", nh)>>
        \/ both = <<Report("CALL_CONNECTED", nh), Report("REMOTE_SDP", nh)>>
    BY FireReports
  <2> HIDE DEF both
  <2> QED BY <2>1, <2>2
<1>8. ~Rang /\ NewsOfCall(out)'
  BY <1>6, <1>7 DEF Rang, NewsOfCall, Report
<1>9. CurrentKept /\ NoAnswer
  BY <1>0, <1>1, <1>2, <1>6 DEF CurrentKept, NoAnswer, Current, OneCall, OneLeg
<1> QED BY <1>5, <1>6, <1>8, <1>9 DEF EngineKeeps, RingKept, RangAnew

\* An INVITE comes in, while there is a call or for the next one.
LEMMA RingKeepsOne ==
    ASSUME TypeOK, OneCall, NEW nh \in Handles, NEW sdp \in BOOLEAN, IInvite(nh, sdp)
    PROVE  EngineKeeps /\ NoAnswer
<1>0. leg \in Legs /\ leg[nh] \in Leg /\ nh # NoHandle /\ leg[nh] = IdleLeg
  BY FieldTypes, ConstantsAssumption DEF IInvite, Free
<1>1. CASE call_nh # NoHandle
  <2>1. out' = <<>> /\ UNCHANGED <<leg, callVars, consultVars>>
    BY <1>1 DEF IInvite, Busy
  <2>2. OneCall'
    BY <2>1 DEF callVars, consultVars, OneCall, OneLeg, FlagsAgree
  <2>3. CurrentKept /\ NoAnswer /\ (Ringing' <=> Ringing) /\ call_nh' = call_nh
    BY <2>1 DEF callVars, CurrentKept, NoAnswer, Current, Ringing
  <2>4. ~Rang /\ NewsOfCall(out)'
    BY <2>1 DEF Rang, NewsOfCall
  <2>5. RingKept /\ RangAnew
    BY <2>3, <2>4 DEF RingKept, RangAnew
  <2> QED BY <2>2, <2>3, <2>4, <2>5 DEF EngineKeeps
<1>2. CASE call_nh = NoHandle
  <2>1. RingIn(nh, sdp) /\ leg' = [leg EXCEPT ![nh].st = "ringing"]
    BY <1>2 DEF IInvite
  <2>2. \A g \in Handles :
           /\ leg'[g].st = IF g = nh THEN "ringing" ELSE leg[g].st
           /\ leg'[g].reinv = leg[g].reinv /\ leg'[g].refer = leg[g].refer
    BY <1>0, <2>1 DEF Legs, Leg
  <2>3. call_nh' = nh /\ ~call_established' /\ consult_nh' = NoHandle
    BY <2>1 DEF RingIn, FreshCall, consultVars, OneCall, OneLeg
  <2>4. OneCall'
    BY <1>0, <1>2, <2>2, <2>3, ConstantsAssumption DEF OneCall, OneLeg, FlagsAgree, IdleLeg
  <2>5. Current(nh)' 
    BY <1>0, <2>2, <2>3 DEF Current
  <2>6. \/ out' = <<Report("INCOMING_CALL", nh)>>
        \/ out' = <<Report("INCOMING_CALL", nh), Report("REMOTE_SDP", nh)>>
    BY <2>1, FireReports DEF RingIn
  <2>7. Rang /\ NewsOfCall(out)'
    BY <2>5, <2>6 DEF Rang, NewsOfCall, Report
  <2>8. CurrentKept /\ NoAnswer
    BY <1>0, <1>2, <2>2 DEF CurrentKept, NoAnswer, Current
  <2> QED BY <1>2, <2>4, <2>7, <2>8 DEF EngineKeeps, RingKept, RangAnew
<1> QED BY <1>1, <1>2

\* The peer's re-INVITE is put to the window.
LEMMA ReinviteKeepsOne ==
    ASSUME TypeOK, OneCall, NEW nh \in Handles, NEW sdp \in BOOLEAN, IReinvite(nh, sdp)
    PROVE  EngineKeeps /\ NoAnswer
<1>0. leg \in Legs /\ leg[nh] \in Leg /\ nh # NoHandle
  BY FieldTypes, ConstantsAssumption
<1>1. leg[nh].st = "up" /\ nh = call_nh /\ call_established
  BY <1>0 DEF IReinvite, OneCall, OneLeg, FlagsAgree
<1>2. AnswerReinvite(nh, sdp)
  BY <1>1 DEF IReinvite
<1>3. leg' = [leg EXCEPT ![nh].owed = TRUE] /\ UNCHANGED <<callVars, consultVars>>
  BY <1>2, WebRtcAssumption DEF AnswerReinvite
<1>4. \A g \in Handles :
         /\ leg'[g].st = leg[g].st /\ leg'[g].reinv = leg[g].reinv
         /\ leg'[g].refer = leg[g].refer
  BY <1>0, <1>3 DEF Legs, Leg
<1>5. OneCall' /\ CurrentKept /\ NoAnswer /\ Current(nh)' /\ ~Ringing'
  BY <1>0, <1>1, <1>3, <1>4
     DEF OneCall, OneLeg, FlagsAgree, CurrentKept, NoAnswer, Current, Ringing, callVars, consultVars
<1>6. out' = <<>> \/ out' = <<Report("REINVITE_SDP", nh)>>
  BY <1>2, FireReports, WebRtcAssumption DEF AnswerReinvite
<1>7. ~Rang /\ NewsOfCall(out)'
  BY <1>5, <1>6 DEF Rang, NewsOfCall, Report
<1> QED BY <1>5, <1>7 DEF EngineKeeps, RingKept, RangAnew

\* Our INVITE is challenged: it is retried on a new leg, or the call is over.
LEMMA ChallengeKeepsOne ==
    ASSUME TypeOK, OneCall, NoGlare, NEW nh \in Handles, NEW challenge,
           RInviteChallenged(nh, challenge)
    PROVE  EngineKeeps /\ NoAnswer
<1>0. leg \in Legs /\ leg[nh] \in Leg /\ nh # NoHandle
  BY FieldTypes, ConstantsAssumption
<1>1. leg[nh].st \in {"calling", "cancelled"} /\ nh = call_nh /\ nh # consult_nh
  BY <1>0 DEF RInviteChallenged, Inviting, Reinviting, NoGlare, OneCall, OneLeg
<1>2. InviteWithDigest(nh, challenge) /\ Refused(nh) = Over(leg, nh)
  BY <1>1 DEF RInviteChallenged, Refused
<1>3. CASE GiveUp(call_auth_tried, challenge)
  BY <1>0, <1>1, <1>2, <1>3, CallGoneKeeps
     DEF InviteWithDigest, CallGone, consultVars, OneCall, OneLeg
<1>4. CASE ~GiveUp(call_auth_tried, challenge)
  <2>1. PICK h \in Free : call_nh' = h /\ leg' = [Over(leg, nh) EXCEPT ![h] = CallingLeg(TRUE)]
                          /\ out' = <<>>
    BY <1>2, <1>4 DEF InviteWithDigest
  <2>2. h \in Handles /\ h # NoHandle /\ h # call_nh
    BY FreeIsIdle
  <2>3. \A g \in Handles :
           /\ leg'[g].st = IF g = h THEN "calling" ELSE Over(leg, nh)[g].st
           /\ leg'[g].reinv = (g # h /\ Over(leg, nh)[g].reinv)
           /\ leg'[g].refer = IF g = h THEN "none" ELSE Over(leg, nh)[g].refer
    <3> DEFINE l == Over(leg, nh)
    <3>1. l \in Legs /\ leg' = [l EXCEPT ![h] = CallingLeg(TRUE)]
      BY <1>0, <2>1, NuaLegs
    <3> HIDE DEF l
    <3>2. \A g \in Handles : /\ leg'[g].st = IF g = h THEN "calling" ELSE l[g].st
                             /\ leg'[g].reinv = (g # h /\ l[g].reinv)
                             /\ leg'[g].refer = IF g = h THEN "none" ELSE l[g].refer
      BY <2>2, <3>1 DEF CallingLeg, IdleLeg, Legs, Leg
    <3> QED BY <3>2 DEF l
  <2>4. \A g \in Handles :
           /\ leg'[g].st = IF g = h THEN "calling" ELSE IF g = nh THEN "idle" ELSE leg[g].st
           /\ leg'[g].reinv = (g # h /\ g # nh /\ leg[g].reinv)
           /\ leg'[g].refer = IF g = h THEN "none" ELSE leg[g].refer
    <3>1. \A g \in Handles :
             /\ Over(leg, nh)[g].st = IF g = nh THEN "idle" ELSE leg[g].st
             /\ Over(leg, nh)[g].reinv = (g # nh /\ leg[g].reinv)
             /\ Over(leg, nh)[g].refer = leg[g].refer
      BY <1>0, NuaEffects, ReferEffects
    <3> QED BY <2>3, <3>1
  <2>5. consult_nh' = NoHandle /\ call_established' = call_established
        /\ call_is_incoming' = call_is_incoming
    BY <1>2 DEF InviteWithDigest, consultVars, OneCall, OneLeg
  <2>10. call_nh' = h /\ h \in Handles /\ nh \in Handles
    BY <2>1, <2>2
  <2>6. OneCall'
    <3>1. OneLeg'
      BY <1>0, <1>1, <2>10, <2>2, <2>4, <2>5 DEF OneCall, OneLeg
    <3>2. FlagsAgree'
      <4>1. leg'[call_nh'].st = "calling"
        BY <2>10, <2>4
      <4>2. ~(call_is_incoming /\ ~call_established)
        BY <1>0, <1>1 DEF OneCall, FlagsAgree
      <4>3. ~(call_is_incoming' /\ ~call_established')
        BY <2>5, <4>2
      <4> QED BY <4>1, <4>3 DEF FlagsAgree
    <3> QED BY <3>1, <3>2 DEF OneCall
  <2>7. CurrentKept /\ ~Ringing'
    BY <1>0, <1>1, <2>10, <2>2, <2>4 DEF CurrentKept, Current, Ringing
  <2>9. NoAnswer
    BY <2>4 DEF NoAnswer
  <2>8. ~Rang /\ NewsOfCall(out)'
    BY <2>1 DEF Rang, NewsOfCall
  <2> QED BY <2>6, <2>7, <2>8, <2>9 DEF EngineKeeps, RingKept, RangAnew
<1> QED BY <1>3, <1>4

\* The leg is over, however it came to that.
LEMMA OverKeepsOne ==
    ASSUME TypeOK, OneCall, NoGlare, NEW nh \in Handles,
           RInviteRefused(nh) \/ IBye(nh) \/ RBye(nh) \/ ICancel(nh) \/ IError(nh)
    PROVE  EngineKeeps /\ NoAnswer
<1>0. leg \in Legs /\ leg[nh] \in Leg /\ nh # NoHandle
  BY FieldTypes, ConstantsAssumption
<1>1. nh = call_nh /\ nh # consult_nh
  BY <1>0 DEF RInviteRefused, IBye, RBye, ICancel, IError, Reinviting, NoGlare, OneCall, OneLeg
<1>2. CASE RInviteRefused(nh)
  <2>1. Refused(nh) = Over(leg, nh)
    BY <1>2 DEF RInviteRefused, Refused, Reinviting, NoGlare
  <2> QED BY <1>0, <1>1, <1>2, <2>1, CallGoneKeeps
          DEF RInviteRefused, CallRefused, Release, consultVars, CallGone, OneCall, OneLeg
<1>3. CASE IBye(nh) \/ RBye(nh)
  <2>1. CallOver(nh, Over(leg, nh))
    BY <1>1, <1>3 DEF IBye, RBye, Bye, NoGlare
  <2>2. leg' = Over(leg, nh)
    BY <2>1 DEF CallOver, DropConsultLeg, DroppedLegs, OneCall, OneLeg
  <2> QED BY <1>0, <1>1, <2>1, <2>2, CallGoneKeeps
          DEF CallOver, Release, CallGone, OneCall, OneLeg
<1>4. CASE ICancel(nh)
  BY <1>0, <1>1, <1>4, CallGoneKeeps DEF ICancel, Release, consultVars, CallGone, OneCall, OneLeg
<1>5. CASE IError(nh)
  <2>1. CallError(nh)
    BY <1>1, <1>5 DEF IError
  <2>2. leg' = Over(leg, nh)
    BY <2>1 DEF CallError, DropConsultLeg, DroppedLegs, OneCall, OneLeg
  <2> QED BY <1>0, <1>1, <2>1, <2>2, CallGoneKeeps DEF CallError, CallGone, OneCall, OneLeg
<1> QED BY <1>2, <1>3, <1>4, <1>5

LEMMA CallbackKeepsOne ==
    ASSUME TypeOK, OneCall, NoGlare, NEW nh \in Handles, NuaCb(nh)
    PROVE  EngineKeeps /\ NoAnswer
<1>1. HasSdp \subseteq BOOLEAN
  BY DEF HasSdp
<1>2. ~(\E accepted : RRefer(nh, accepted)) /\ ~(\E result : INotify(nh, result))
  BY DEF RRefer, INotify, OneCall, OneLeg
<1> QED BY <1>1, <1>2, AnsweredKeepsOne, RingKeepsOne, ReinviteKeepsOne, ChallengeKeepsOne,
           OverKeepsOne DEF NuaCb

-----------------------------------------------------------------------------
\* The window's calls into the engine.  Answering is the one that ends the ringing.
LEMMA HangupKeepsOne == ASSUME TypeOK, OneCall, SofiaHangup PROVE EngineKeeps /\ NoAnswer
<1>0. leg \in Legs /\ DroppedLegs(leg) = leg /\ consult_nh' = NoHandle
  BY DEF TypeOK, Legs, DroppedLegs, OneCall, OneLeg, SofiaHangup
<1>1. CASE call_nh # NoHandle /\ ~call_established /\ call_is_incoming
  <2>1. leg[call_nh].st = "ringing"
    BY <1>1 DEF OneCall, FlagsAgree
  <2> QED BY <1>0, <1>1, <2>1, CallGoneKeeps DEF SofiaHangup, CallGone, Declined
<1>2. CASE ~(call_nh # NoHandle /\ ~call_established /\ call_is_incoming)
  <2>1. /\ out' = <<>> /\ UNCHANGED <<call_nh, call_established, call_is_incoming>>
        /\ leg' = IF call_nh = NoHandle THEN leg
                  ELSE IF call_established THEN NuaBye(leg, call_nh) ELSE NuaCancel(leg, call_nh)
    BY <1>0, <1>2 DEF SofiaHangup
  <2>2. \A g \in Handles :
           /\ \/ leg'[g].st = leg[g].st
              \/ g = call_nh /\ leg[g].st = "up" /\ leg'[g].st = "closing"
              \/ g = call_nh /\ leg[g].st = "calling" /\ leg'[g].st = "cancelled"
           /\ leg'[g].reinv = leg[g].reinv /\ leg'[g].refer = leg[g].refer
    <3>1. CASE call_nh = NoHandle
      BY <2>1, <3>1
    <3>2. CASE call_nh # NoHandle
      <4>1. call_nh \in Handles
        BY <3>2 DEF TypeOK, MaybeHandle
      <4>2. \A g \in Handles :
               /\ NuaBye(leg, call_nh)[g].refer = leg[g].refer
               /\ NuaCancel(leg, call_nh)[g].refer = leg[g].refer
        BY <1>0, <4>1, ReferEffects
      <4>3. \A g \in Handles :
               /\ NuaBye(leg, call_nh)[g].st
                     = IF g = call_nh /\ leg[g].st = "up" THEN "closing" ELSE leg[g].st
               /\ NuaBye(leg, call_nh)[g].reinv = leg[g].reinv
               /\ NuaCancel(leg, call_nh)[g].st
                     = IF g = call_nh /\ leg[g].st = "calling" THEN "cancelled" ELSE leg[g].st
               /\ NuaCancel(leg, call_nh)[g].reinv = leg[g].reinv
        BY <1>0, <4>1, NuaEffects
      <4> QED BY <2>1, <3>2, <4>2, <4>3
    <3> QED BY <3>1, <3>2
  <2>3. call_nh # NoHandle => call_nh \in Handles
    BY DEF TypeOK, MaybeHandle
  <2>4. OneCall'
    <3>1. OneLeg'
      BY <1>0, <2>1, <2>2 DEF OneCall, OneLeg
    <3>2. FlagsAgree'
      BY <2>1, <2>2, <2>3 DEF OneCall, FlagsAgree
    <3> QED BY <3>1, <3>2 DEF OneCall
  <2>5. CurrentKept /\ NoAnswer
    BY <2>1, <2>2 DEF CurrentKept, NoAnswer, Current
  <2>6. Ringing' => Ringing /\ call_nh' = call_nh
    BY <2>1, <2>2, <2>3 DEF Ringing
  <2>7. ~Rang /\ NewsOfCall(out)'
    BY <2>1 DEF Rang, NewsOfCall
  <2> QED BY <2>4, <2>5, <2>6, <2>7 DEF EngineKeeps, RingKept, RangAnew
<1> QED BY <1>1, <1>2

LEMMA DialKeepsOne ==
    ASSUME TypeOK, OneCall, SofiaCall, call_nh = NoHandle PROVE EngineKeeps /\ NoAnswer
<1>1. PICK h \in Free : call_nh' = h /\ leg' = [leg EXCEPT ![h] = CallingLeg(FALSE)]
  BY DEF SofiaCall
<1>2. h \in Handles /\ h # NoHandle /\ leg \in Legs
  BY FreeIsIdle DEF TypeOK, Legs
<1>3. \A g \in Handles :
         /\ leg'[g].st = IF g = h THEN "calling" ELSE leg[g].st
         /\ leg'[g].reinv = (g # h /\ leg[g].reinv)
         /\ leg'[g].refer = IF g = h THEN "none" ELSE leg[g].refer
  BY <1>1, <1>2 DEF CallingLeg, IdleLeg, Legs, Leg
<1>4. call_nh' = h /\ ~call_established' /\ ~call_is_incoming' /\ consult_nh' = NoHandle
      /\ out' = <<>>
  BY <1>1 DEF SofiaCall, FreshCall, consultVars, OneCall, OneLeg
<1>5. OneLeg' 
  BY <1>2, <1>3, <1>4, ConstantsAssumption DEF OneCall, OneLeg
<1>6. FlagsAgree' /\ ~Ringing'
  BY <1>2, <1>3, <1>4 DEF FlagsAgree, Ringing
<1>7. CurrentKept /\ NoAnswer
  BY <1>3 DEF CurrentKept, NoAnswer, Current
<1>8. ~Rang /\ NewsOfCall(out)'
  BY <1>4 DEF Rang, NewsOfCall
<1> QED BY <1>5, <1>6, <1>7, <1>8 DEF EngineKeeps, RingKept, RangAnew, OneCall

\* Our 200, to the INVITE (SofiaAnswer) or to a re-INVITE (SofiaRespondSdp).
LEMMA AcceptKeepsOne ==
    ASSUME TypeOK, OneCall, SofiaAnswer \/ (SofiaRespondSdp /\ ~Ringing) PROVE EngineKeeps
<1>0. leg \in Legs /\ call_nh \in Handles /\ leg' = NuaAccept(leg, call_nh)
      /\ call_nh' = call_nh /\ call_nh # NoHandle /\ consult_nh' = NoHandle
  BY DEF SofiaAnswer, SofiaRespondSdp, TypeOK, Legs, MaybeHandle, OneCall, OneLeg, callVars,
         consultVars
<1>1. \A g \in Handles :
         /\ leg'[g].st = IF g = call_nh /\ leg[g].st = "ringing" THEN "up" ELSE leg[g].st
         /\ leg'[g].reinv = leg[g].reinv /\ leg'[g].refer = leg[g].refer
  <2>1. \A g \in Handles : NuaAccept(leg, call_nh)[g].refer = leg[g].refer
    BY <1>0, ReferEffects
  <2>2. \A g \in Handles :
           /\ NuaAccept(leg, call_nh)[g].st
                 = IF g = call_nh /\ leg[g].st = "ringing" THEN "up" ELSE leg[g].st
           /\ NuaAccept(leg, call_nh)[g].reinv = leg[g].reinv
    BY <1>0, NuaEffects
  <2> QED BY <1>0, <2>1, <2>2
<1>2. \/ call_established' /\ ~call_is_incoming'
      \/ UNCHANGED <<call_established, call_is_incoming>> /\ leg[call_nh].st # "ringing"
  BY <1>0 DEF SofiaAnswer, SofiaRespondSdp, callVars, Ringing
<1>3. OneLeg'
  BY <1>0, <1>1 DEF OneCall, OneLeg
<1>4. FlagsAgree' /\ ~Ringing'
  BY <1>0, <1>1, <1>2 DEF OneCall, FlagsAgree, Ringing
<1>5. CurrentKept
  BY <1>0, <1>1 DEF CurrentKept, Current
<1>6. out' = <<>> \/ out' = <<Report("CALL_CONNECTED", call_nh)>>
  BY WebRtcAssumption DEF SofiaAnswer, SofiaRespondSdp, Fire, Report
<1>7. ~Rang /\ NewsOfCall(out)'
  BY <1>6 DEF Rang, NewsOfCall, Report
<1> QED BY <1>3, <1>4, <1>5, <1>7 DEF EngineKeeps, RingKept, RangAnew, OneCall

LEMMA HoldKeepsOne ==
    ASSUME TypeOK, OneCall, SofiaReinviteSdp \/ \E hold \in BOOLEAN : SofiaSetHold(hold)
    PROVE  EngineKeeps /\ NoAnswer
<1>0. leg \in Legs /\ call_nh \in Handles /\ call_nh # NoHandle
      /\ UNCHANGED <<call_nh, call_established, call_is_incoming>>
      /\ consult_nh' = NoHandle /\ out' = <<>>
  BY DEF SofiaReinviteSdp, SofiaSetHold, TypeOK, Legs, MaybeHandle, OneCall, OneLeg, callVars,
         consultVars, CanHold
<1>1. leg' = leg \/ \E d : leg' = NuaReinvite(leg, call_nh, d)
  BY WebRtcAssumption DEF SofiaReinviteSdp, SofiaSetHold, HeldLegs
<1>2. \A g \in Handles :
         /\ leg'[g].st = leg[g].st /\ leg'[g].refer = leg[g].refer
         /\ leg'[g].reinv => leg[g].reinv \/ leg[g].st = "up"
  <2>1. CASE leg' = leg
    BY <2>1
  <2>2. ASSUME NEW d, leg' = NuaReinvite(leg, call_nh, d)
        PROVE  \A g \in Handles :
                  /\ leg'[g].st = leg[g].st /\ leg'[g].refer = leg[g].refer
                  /\ leg'[g].reinv => leg[g].reinv \/ leg[g].st = "up"
    <3>1. \A g \in Handles :
             /\ NuaReinvite(leg, call_nh, d)[g].st = leg[g].st
             /\ NuaReinvite(leg, call_nh, d)[g].reinv
                   = ((g = call_nh /\ leg[g].st = "up") \/ leg[g].reinv)
      BY <1>0, ReinviteEffects
    <3>2. \A g \in Handles : NuaReinvite(leg, call_nh, d)[g].refer = leg[g].refer
      BY <1>0, ReferEffects
    <3> QED BY <2>2, <3>1, <3>2
  <2> QED BY <1>1, <2>1, <2>2
<1>3. OneLeg'
  BY <1>0, <1>2 DEF OneCall, OneLeg
<1>4. FlagsAgree' /\ (Ringing' => Ringing)
  BY <1>0, <1>2 DEF OneCall, FlagsAgree, Ringing
<1>5. CurrentKept /\ NoAnswer
  BY <1>0, <1>2 DEF CurrentKept, NoAnswer, Current
<1>6. ~Rang /\ NewsOfCall(out)'
  BY <1>0 DEF Rang, NewsOfCall
<1> QED BY <1>0, <1>3, <1>4, <1>5, <1>6 DEF EngineKeeps, RingKept, RangAnew, OneCall

\* A step that does not ask the engine.
LEMMA TakenKeepsOne ==
    ASSUME EngineTypes, OneCall, NewsOfCall(out), Taken \/ UNCHANGED vars
    PROVE  EngineKeeps /\ NoAnswer /\ (Ringing' => Ringing /\ call_nh' = call_nh)
<1>1. UNCHANGED <<leg, callVars, consultVars>>
  BY DEF Taken, vars
<1>2. OneCall'
  BY <1>1 DEF callVars, consultVars, OneCall, OneLeg, FlagsAgree
<1>3. /\ CurrentKept /\ NoAnswer /\ RingKept
      /\ Ringing' => Ringing /\ call_nh' = call_nh
  BY <1>1 DEF callVars, Current, Ringing, CurrentKept, NoAnswer, RingKept
<1>4. out' = out \/ (out # <<>> /\ out' = Tail(out))
  BY DEF Taken, vars
<1>5. NewsOfCall(out')
  <2>1. CASE out' = out
    BY <2>1
  <2>2. CASE out # <<>> /\ out' = Tail(out)
    <3>1. \A i \in 1 .. Len(Tail(out)) : i + 1 \in 1 .. Len(out) /\ Tail(out)[i] = out[i + 1]
      BY <2>2 DEF EngineTypes, TypeOK
    <3> QED BY <2>2, <3>1 DEF NewsOfCall
  <2> QED BY <1>4, <2>1, <2>2
<1>6. NewsOfCall(out)'
  BY <1>1, <1>5 DEF NewsOfCall, Current, Ringing, callVars
<1>7. RangAnew
  BY <1>4 DEF RangAnew, Rang
<1> QED BY <1>2, <1>3, <1>6, <1>7 DEF EngineKeeps

\* The window's calls make nothing ring, and without a call do nothing, but for SofiaCall.
RingStays == Ringing' => Ringing /\ call_nh' = call_nh

LEMMA WindowKeepsRing ==
    ASSUME TypeOK, EngineKeeps, WindowCalls PROVE RingStays
<1>1. ~Rang
  BY WindowCallsReport DEF Rang, Report
<1> QED BY <1>1 DEF EngineKeeps, RingKept, RingStays

\* The engine's part of a step of the window's that neither answers nor dials, and of
\* one that does not dial.
Spares ==
    \/ UNCHANGED vars \/ Taken \/ SofiaHangup
    \/ SofiaRespondSdp /\ ~Ringing
    \/ SofiaReinviteSdp \/ \E hold \in BOOLEAN : SofiaSetHold(hold)
Asks == Spares \/ SofiaAnswer

LEMMA IdleStays ==
    ASSUME call_nh = NoHandle, out = <<>>, Asks
    PROVE  call_nh' = NoHandle /\ out' = <<>>
<1>1. CASE UNCHANGED vars \/ Taken
  BY <1>1 DEF vars, callVars, Taken
<1>2. CASE SofiaHangup
  BY <1>2 DEF SofiaHangup
<1> QED BY <1>1, <1>2 DEF Spares, Asks, SofiaAnswer, SofiaReinviteSdp, SofiaRespondSdp,
                          SofiaSetHold, CanHold

\* Without a call sofia-sip has nothing to report but the next INVITE.
LEMMA IdleRings ==
    ASSUME TypeOK, OneCall, NoGlare, call_nh = NoHandle, NEW nh \in Handles, NuaCb(nh) PROVE Rang
<1>1. leg[nh].st = "idle" /\ ~leg[nh].reinv /\ leg[nh].refer = "none"
  BY ConstantsAssumption DEF OneCall, OneLeg
<1>2. HasSdp \subseteq BOOLEAN
  BY DEF HasSdp
<1>3. PICK sdp \in HasSdp : IInvite(nh, sdp)
  BY <1>1 DEF NuaCb, RInviteOk, IReinvite, RInviteChallenged, RInviteRefused, IBye, RBye, ICancel,
              IError, RRefer, INotify, Inviting, Reinviting
<1>4. RingIn(nh, sdp) /\ sdp \in BOOLEAN
  BY <1>2, <1>3 DEF IInvite
<1>5. \/ out' = <<Report("INCOMING_CALL", nh)>>
      \/ out' = <<Report("INCOMING_CALL", nh), Report("REMOTE_SDP", nh)>>
  BY <1>4, FireReports DEF RingIn
<1> QED BY <1>5 DEF Rang, Report

-----------------------------------------------------------------------------
(***************************************************************************)
(* The tasks and the window's session.                                     *)
(***************************************************************************)
SdpTask(i) == tasks[i].kind \in {"answer", "answering", "reinvite"}

\* An offer that gathers is the only one, and there is no call yet.
OfferAlone == \A i, j \in DOMAIN tasks :
                 tasks[i].kind = "offer" /\ tasks[j].kind = "offer" => i = j
OfferFirst == OfferAlone /\ (Gathering => call_nh = NoHandle /\ active /\ out = <<>>)

\* While a call rings only its own answer is under way.
RingAlone ==
    Ringing => \A i \in DOMAIN tasks :
                  SdpTask(i) => tasks[i].leg = call_nh /\ tasks[i].kind # "reinvite"

\* What the window's session has applied, holds or is about to apply is of the call.
PeerIsOfCall == peer[webrtc_session] # NoHandle => Current(peer[webrtc_session])
OfferIsOfCall == pending_remote_offer # <<>> => Current(pending_remote_offer[1])
TasksAreOfCall ==
    \A i \in DOMAIN tasks :
        SdpTask(i) /\ tasks[i].session = webrtc_session => Current(tasks[i].leg)

MediaIsOfCall ==
    webrtc_session # NoSession /\ ~CloseComing =>
        PeerIsOfCall /\ OfferIsOfCall /\ TasksAreOfCall

CallMedia == OneCall /\ NewsOfCall(out) /\ OfferFirst /\ RingAlone /\ MediaIsOfCall

\* Task j after the step is task k before it.
FromTask(j, k) ==
    /\ tasks'[j].session = tasks[k].session /\ tasks'[j].leg = tasks[k].leg
    /\ \/ tasks'[j].kind = tasks[k].kind
       \/ tasks[k].kind = "answer" /\ tasks'[j].kind = "answering"

\* Or it is new, with the SDP of the call.
TasksFollow ==
    \A j \in DOMAIN tasks' :
        \/ \E k \in DOMAIN tasks : FromTask(j, k)
        \/ tasks'[j].kind \in {"hold", "offer"}
        \/ Current(tasks'[j].leg) /\ tasks'[j].kind = "answer"
        \/ Current(tasks'[j].leg) /\ tasks'[j].kind = "reinvite" /\ ~Ringing'
NoNewOffer == OfferAlone' /\ (Gathering' => Gathering)

\* The window's session stays, with the SDP of the call, or goes.
MediaFollows ==
    webrtc_session' # NoSession =>
        /\ webrtc_session' = webrtc_session /\ ~CloseComing
        /\ \/ pending_remote_offer' = pending_remote_offer
           \/ Current(pending_remote_offer'[1])
        /\ \/ peer'[webrtc_session] \in {NoHandle, peer[webrtc_session]}
           \/ Current(peer'[webrtc_session])

OfferWaits == Gathering' => call_nh' = NoHandle /\ active' /\ out' = <<>>

\* An action that does no more keeps the call and its media together.
LEMMA RingStaysAlone ==
    ASSUME RingAlone, RingStays, TasksFollow PROVE RingAlone'
<1> SUFFICES ASSUME Ringing', NEW j \in DOMAIN tasks', SdpTask(j)'
             PROVE  tasks'[j].leg = call_nh' /\ tasks'[j].kind # "reinvite"
  BY DEF RingAlone
<1>1. Ringing /\ call_nh' = call_nh
  BY DEF RingStays
<1>2. ASSUME NEW k \in DOMAIN tasks, FromTask(j, k)
      PROVE  tasks'[j].leg = call_nh' /\ tasks'[j].kind # "reinvite"
  <2>1. SdpTask(k)
    BY <1>2 DEF FromTask, SdpTask
  <2> QED BY <1>1, <1>2, <2>1 DEF RingAlone, FromTask
<1>3. CASE Current(tasks'[j].leg) /\ tasks'[j].kind = "answer"
  BY <1>1, <1>3 DEF Current
<1> QED BY <1>2, <1>3 DEF TasksFollow, SdpTask

LEMMA MediaStaysOfCall ==
    ASSUME TypeOK, MediaIsOfCall, CurrentKept, TasksFollow, MediaFollows PROVE MediaIsOfCall'
<1> SUFFICES ASSUME webrtc_session' # NoSession, ~CloseComing'
             PROVE  PeerIsOfCall' /\ OfferIsOfCall' /\ TasksAreOfCall'
  BY DEF MediaIsOfCall
<1>1. /\ webrtc_session' = webrtc_session /\ webrtc_session # NoSession
      /\ PeerIsOfCall /\ OfferIsOfCall /\ TasksAreOfCall
  BY DEF MediaFollows, MediaIsOfCall
<1>2. ASSUME NEW h, Current(h) PROVE Current(h)'
  <2>1. h \in Handles
    BY <1>2 DEF Current, TypeOK, MaybeHandle
  <2> QED BY <1>2, <2>1 DEF CurrentKept
<1>3. PeerIsOfCall'
  <2> SUFFICES ASSUME peer'[webrtc_session] # NoHandle PROVE Current(peer'[webrtc_session])
    BY <1>1, <1>2 DEF PeerIsOfCall
  <2> QED BY <1>1 DEF MediaFollows, PeerIsOfCall
<1>4. OfferIsOfCall'
  <2> SUFFICES ASSUME pending_remote_offer' # <<>> PROVE Current(pending_remote_offer'[1])
    BY <1>2 DEF OfferIsOfCall
  <2> QED BY <1>1 DEF MediaFollows, OfferIsOfCall
<1>5. TasksAreOfCall'
  <2> SUFFICES ASSUME NEW j \in DOMAIN tasks', SdpTask(j)', tasks'[j].session = webrtc_session
               PROVE  Current(tasks'[j].leg)
    BY <1>1, <1>2 DEF TasksAreOfCall
  <2>1. ASSUME NEW k \in DOMAIN tasks, FromTask(j, k) PROVE Current(tasks'[j].leg)
    <3>1. SdpTask(k) /\ tasks[k].session = webrtc_session /\ tasks[k].leg = tasks'[j].leg
      BY <2>1 DEF FromTask, SdpTask
    <3> QED BY <1>1, <3>1 DEF TasksAreOfCall
  <2> QED BY <2>1 DEF TasksFollow, SdpTask
<1> QED BY <1>3, <1>4, <1>5

Follows == /\ EngineKeeps /\ RingStays /\ TasksFollow /\ MediaFollows
           /\ OfferAlone' /\ OfferWaits

LEMMA FollowsKeeps ==
    ASSUME TypeOK, CallMedia, Follows PROVE CallMedia'
<1>1. RingAlone' /\ MediaIsOfCall'
  BY RingStaysAlone, MediaStaysOfCall DEF CallMedia, Follows, EngineKeeps
<1> QED BY <1>1 DEF CallMedia, Follows, EngineKeeps, OfferFirst, OfferWaits

-----------------------------------------------------------------------------
\* What becomes of the list of tasks.
LEMMA SameTasks ==
    ASSUME OfferAlone, UNCHANGED tasks PROVE TasksFollow /\ NoNewOffer
<1>1. \A j \in DOMAIN tasks' : j \in DOMAIN tasks /\ FromTask(j, j)
  BY DEF FromTask
<1>2. TasksFollow
  BY <1>1 DEF TasksFollow
<1> QED BY <1>2 DEF NoNewOffer, OfferAlone, Gathering

LEMMA DroppedTasks ==
    ASSUME TaskTypes, OfferAlone, NEW i \in DOMAIN tasks, tasks' = Dropped(i)
    PROVE  TasksFollow /\ NoNewOffer /\ (tasks[i].kind = "offer" => ~Gathering')
<1> DEFINE from(j) == IF j < i THEN j ELSE j + 1
<1>0. /\ tasks \in Seq(Task) /\ Len(tasks) \in Nat /\ DOMAIN tasks = 1 .. Len(tasks)
      /\ i \in 1 .. Len(tasks)
  BY DEF TaskTypes
<1>1. DOMAIN tasks' = 1 .. Len(tasks) - 1
  <2>1. tasks' \in Seq(Task) /\ Len(tasks') = Len(tasks) - 1
    BY DroppedTypes
  <2> QED BY <2>1
<1>2. \A j \in DOMAIN tasks' : tasks'[j] = tasks[from(j)]
  BY <1>1, DroppedTypes
<1>3. \A j \in DOMAIN tasks' :
         from(j) \in DOMAIN tasks /\ from(j) # i /\ j \in Nat
  BY <1>0, <1>1
<1>4. \A j, l \in DOMAIN tasks' : from(j) = from(l) => j = l
  BY <1>0, <1>3
<1> HIDE DEF from
<1>5. TasksFollow
  BY <1>2, <1>3 DEF TasksFollow, FromTask
<1>6. OfferAlone'
  BY <1>2, <1>3, <1>4 DEF OfferAlone
<1>7. Gathering' => \E k \in DOMAIN tasks : k # i /\ tasks[k].kind = "offer"
  BY <1>2, <1>3 DEF Gathering
<1> QED BY <1>5, <1>6, <1>7 DEF NoNewOffer, OfferAlone, Gathering

LEMMA PolledTasks ==
    ASSUME TaskTypes, OfferAlone, NEW i \in DOMAIN tasks, tasks[i].kind = "answer",
           tasks' = [tasks EXCEPT ![i].kind = "answering"]
    PROVE  TasksFollow /\ NoNewOffer
<1>0. tasks \in Seq(Task) /\ tasks[i] \in Task
  BY DEF TaskTypes
<1>1. DOMAIN tasks' = DOMAIN tasks
  BY <1>0
<1>2. \A j \in DOMAIN tasks :
         tasks'[j] = IF j = i THEN [tasks[i] EXCEPT !.kind = "answering"] ELSE tasks[j]
  BY <1>0
<1>3. [tasks[i] EXCEPT !.kind = "answering"].kind = "answering"
      /\ [tasks[i] EXCEPT !.kind = "answering"].session = tasks[i].session
      /\ [tasks[i] EXCEPT !.kind = "answering"].leg = tasks[i].leg
  BY <1>0 DEF Task
<1>4. \A j \in DOMAIN tasks : FromTask(j, j) /\ (tasks'[j].kind = "offer" <=> tasks[j].kind = "offer")
  BY <1>2, <1>3 DEF FromTask
<1>5. TasksFollow
  BY <1>1, <1>4 DEF TasksFollow
<1> QED BY <1>1, <1>4, <1>5 DEF NoNewOffer, OfferAlone, Gathering

LEMMA SpawnedTasks ==
    ASSUME TaskTypes, NEW kind, NEW s, NEW h, NEW sdp, Spawn(kind, s, h, sdp)
    PROVE  /\ DOMAIN tasks' = DOMAIN tasks \cup {Len(tasks) + 1}
           /\ Len(tasks) + 1 \notin DOMAIN tasks
           /\ \A j \in DOMAIN tasks : tasks'[j] = tasks[j]
           /\ tasks'[Len(tasks) + 1].kind = kind
           /\ tasks'[Len(tasks) + 1].leg = h
           /\ tasks'[Len(tasks) + 1].session = s
<1> DEFINE t == [kind |-> kind, session |-> s, leg |-> h, sdp |-> sdp]
<1>0. tasks \in Seq(Task) /\ Len(tasks) \in Nat /\ tasks' = Append(tasks, t)
  BY DEF TaskTypes, Spawn
<1>1. t.kind = kind /\ t.leg = h /\ t.session = s
  OBVIOUS
<1> HIDE DEF t
<1>2. /\ DOMAIN tasks = 1 .. Len(tasks) /\ DOMAIN tasks' = 1 .. Len(tasks) + 1
      /\ \A j \in 1 .. Len(tasks) : tasks'[j] = tasks[j]
      /\ tasks'[Len(tasks) + 1] = t
  BY <1>0
<1> QED BY <1>0, <1>1, <1>2

\* One more task that is no offer.
LEMMA SpawnFollows ==
    ASSUME TaskTypes, OfferAlone, NEW kind \in {"answer", "hold", "reinvite"}, NEW s, NEW h, NEW sdp,
           Spawn(kind, s, h, sdp),
           kind # "hold" => Current(h), kind = "reinvite" => ~Ringing'
    PROVE  TasksFollow /\ NoNewOffer
<1> DEFINE n == Len(tasks) + 1
<1>1. /\ DOMAIN tasks' = DOMAIN tasks \cup {n} /\ n \notin DOMAIN tasks
      /\ \A j \in DOMAIN tasks : tasks'[j] = tasks[j]
      /\ tasks'[n].kind = kind /\ tasks'[n].leg = h
  BY SpawnedTasks
<1> HIDE DEF n
<1>2. \A j \in DOMAIN tasks : FromTask(j, j)
  BY <1>1 DEF FromTask
<1>3. TasksFollow
  BY <1>1, <1>2 DEF TasksFollow
<1> QED BY <1>1, <1>3 DEF NoNewOffer, OfferAlone, Gathering

\* An offer that waited still does, whatever the window asks of the engine.
LEMMA StillWaits ==
    ASSUME OfferFirst, NoNewOffer, UNCHANGED active, Asks
    PROVE  OfferAlone' /\ OfferWaits
BY IdleStays DEF OfferFirst, NoNewOffer, OfferWaits

\* With events on their way none gathers.
LEMMA NoneGathers ==
    ASSUME OfferFirst, NoNewOffer, out # <<>> PROVE OfferAlone' /\ OfferWaits
BY DEF OfferFirst, NoNewOffer, OfferWaits

\* What the window asks of the engine but for dialling.
LEMMA AskedKeeps ==
    ASSUME EngineTypes, CallMedia, Asks
    PROVE  EngineKeeps /\ RingStays
<1>1. CASE UNCHANGED vars \/ Taken
  BY <1>1, TakenKeepsOne DEF CallMedia, RingStays
<1>2. CASE ~(UNCHANGED vars \/ Taken)
  <2>1. EngineKeeps
    BY <1>2, HangupKeepsOne, AcceptKeepsOne, HoldKeepsOne DEF Spares, Asks, CallMedia, EngineTypes
  <2>2. WindowCalls
    BY <1>2 DEF Spares, Asks, WindowCalls
  <2> QED BY <2>1, <2>2, WindowKeepsRing DEF EngineTypes
<1> QED BY <1>1, <1>2

LEMMA FailedAsks ==
    ASSUME fail_webrtc
    PROVE  /\ Taken \/ SofiaHangup
           /\ webrtc_session' = NoSession
BY DEF fail_webrtc, clear_webrtc, WithActiveEngine

\* Media as it was, or gone.
LEMMA SameFollows ==
    ASSUME ~CloseComing, UNCHANGED mediaVars,
           webrtc_session # NoSession =>
              \/ peer'[webrtc_session] \in {NoHandle, peer[webrtc_session]}
              \/ Current(peer'[webrtc_session])
    PROVE  MediaFollows
BY DEF MediaFollows, mediaVars

LEMMA QuietIsOpen == ASSUME out = <<>> PROVE ~CloseComing
BY DEF CloseComing, Fire

\* A session that is kept has its peer or none, one that was given a peer that one.
LEMMA KeptPeer ==
    ASSUME NEW f, NEW p, KeepSessions(f, p), NEW s \in Sessions
    PROVE  peer'[s] \in {NoHandle, p[s]}
BY DEF KeepSessions

LEMMA PeerFollows ==
    ASSUME WindowTypes, ~CloseComing, UNCHANGED mediaVars,
           UNCHANGED peer \/ \E f : KeepSessions(f, peer)
    PROVE  MediaFollows
<1>1. webrtc_session # NoSession => peer'[webrtc_session] \in {NoHandle, peer[webrtc_session]}
  BY KeptPeer DEF WindowTypes, MediaTypes, MaybeSession
<1> QED BY <1>1, SameFollows

\* The peer a task gives its session is the call's, if the session is the window's.
LEMMA AppliedFollows ==
    ASSUME WindowTypes, MediaIsOfCall, ~CloseComing, UNCHANGED mediaVars,
           NEW i \in DOMAIN tasks, SdpTask(i), NEW x, KeepApplied(i, x)
    PROVE  MediaFollows
<1> SUFFICES ASSUME webrtc_session # NoSession
             PROVE  \/ peer'[webrtc_session] \in {NoHandle, peer[webrtc_session]}
                    \/ Current(peer'[webrtc_session])
  BY SameFollows
<1>0. webrtc_session \in Sessions /\ peer \in [Sessions -> MaybeHandle]
  BY DEF WindowTypes, MediaTypes, MaybeSession, PeerTypes
<1> DEFINE p == PeerWith(tasks[i].session, tasks[i].leg)
<1>1. peer'[webrtc_session] \in {NoHandle, p[webrtc_session]}
  BY <1>0, KeptPeer DEF KeepApplied
<1>2. CASE tasks[i].session = webrtc_session
  <2>1. p[webrtc_session] = tasks[i].leg
    BY <1>0, <1>2 DEF PeerWith
  <2>2. Current(tasks[i].leg)
    BY <1>2 DEF MediaIsOfCall, TasksAreOfCall
  <2> HIDE DEF p
  <2> QED BY <1>1, <2>1, <2>2
<1>3. CASE tasks[i].session # webrtc_session
  <2>1. p[webrtc_session] = peer[webrtc_session]
    BY <1>0, <1>3 DEF PeerWith
  <2> HIDE DEF p
  <2> QED BY <1>1, <2>1
<1> QED BY <1>2, <1>3

\* A new session has met nobody.
LEMMA NewMediaIsOfCall ==
    ASSUME PeerTypes, NEW role, NEW s \in MaybeSession, NewWebrtc(role, s),
           \A j \in DOMAIN tasks' : SdpTask(j)' => \E k \in DOMAIN tasks : FromTask(j, k)
    PROVE  MediaIsOfCall'
<1> SUFFICES ASSUME s # NoSession PROVE PeerIsOfCall' /\ OfferIsOfCall' /\ TasksAreOfCall'
  BY DEF NewWebrtc, MediaIsOfCall
<1>1. webrtc_session' = s /\ s \in Sessions /\ pending_remote_offer' = <<>> /\ s \notin TaskSessions
  BY DEF NewWebrtc, MaybeSession
<1>2. peer'[s] = NoHandle
  <2>1. peer'[s] \in {NoHandle, [peer EXCEPT ![s] = NoHandle][s]}
    BY <1>1, KeptPeer DEF NewWebrtc
  <2>2. [peer EXCEPT ![s] = NoHandle][s] = NoHandle
    BY <1>1 DEF PeerTypes
  <2> QED BY <2>1, <2>2
<1>3. TasksAreOfCall'
  BY <1>1 DEF TasksAreOfCall, FromTask, TaskSessions
<1> QED BY <1>1, <1>2, <1>3 DEF PeerIsOfCall, OfferIsOfCall

-----------------------------------------------------------------------------
LEMMA EventKeepsMedia ==
    ASSUME EngineTypes, WindowTypes, CallMedia, HandleSipEvent, out # <<>> PROVE CallMedia'
<1> USE DEF CallMedia
<1>0. OfferAlone /\ TypeOK
  BY DEF OfferFirst, EngineTypes
<1>1. CASE OnIncomingCall
  <2>1. PICK s \in MaybeSession : NewWebrtc("answerer", s)
    BY <1>1 DEF OnIncomingCall, MaybeSession
  <2>2. Taken /\ UNCHANGED tasks
    BY <1>1 DEF OnIncomingCall
  <2>3. EngineKeeps /\ RingStays
    BY <2>2, AskedKeeps DEF Spares, Asks
  <2>4. TasksFollow /\ NoNewOffer
    BY <1>0, <2>2, SameTasks
  <2>5. MediaIsOfCall'
    <3>1. \A j \in DOMAIN tasks' : j \in DOMAIN tasks /\ FromTask(j, j)
      BY <2>2 DEF FromTask
    <3> QED BY <2>1, <3>1, NewMediaIsOfCall DEF WindowTypes
  <2> QED BY <2>3, <2>4, <2>5, NoneGathers, RingStaysAlone DEF EngineKeeps, OfferFirst, OfferWaits
<1>2. CASE OnRemoteSdp
  <2>1. UNCHANGED tasks /\ Taking("REMOTE_SDP")
    BY <1>2 DEF OnRemoteSdp
  <2>2. TasksFollow /\ NoNewOffer
    BY <1>0, <2>1, SameTasks
  <2>3. OfferAlone' /\ OfferWaits
    BY <2>2, NoneGathers
  <2>4. Current(Head(out).leg) /\ ~CloseComing
    <3>1. Head(out) = out[1] /\ 1 \in 1 .. Len(out) /\ out[1].ev = "REMOTE_SDP"
      BY <1>0, <2>1 DEF Taking, TypeOK
    <3> QED BY <3>1 DEF NewsOfCall, CloseComing, Fire, Closing
  <2>5. (Taken \/ SofiaHangup) /\ MediaFollows
    <3>1. PICK sdp \in PeerSdps :
             \/ webrtc_session = NoSession /\ Taken /\ UNCHANGED <<mediaVars, session, peer>>
             \/ \E r \in apply_answer(session[webrtc_session], sdp) :
                   /\ IF r.ok THEN Taken /\ UNCHANGED mediaVars ELSE fail_webrtc
                   /\ KeepSessions(With(webrtc_session, r.session),
                                   PeerWith(webrtc_session, Head(out).leg))
             \/ /\ Taken
                /\ pending_remote_offer' = <<Head(out).leg, sdp>>
                /\ UNCHANGED <<webrtc_session, sdp_role, session, peer>>
      BY <1>2 DEF OnRemoteSdp
    <3>2. CASE webrtc_session = NoSession /\ Taken /\ UNCHANGED <<mediaVars, session, peer>>
      BY <3>2 DEF MediaFollows, mediaVars
    <3>3. ASSUME NEW r, IF r.ok THEN Taken /\ UNCHANGED mediaVars ELSE fail_webrtc,
                 KeepSessions(With(webrtc_session, r.session),
                              PeerWith(webrtc_session, Head(out).leg))
          PROVE  (Taken \/ SofiaHangup) /\ MediaFollows
      <4>1. CASE fail_webrtc
        BY <4>1, FailedAsks DEF MediaFollows
      <4>2. CASE Taken /\ UNCHANGED mediaVars
        <5>1. ASSUME webrtc_session # NoSession
              PROVE  \/ peer'[webrtc_session] = NoHandle
                     \/ peer'[webrtc_session] = Head(out).leg
          <6>1. webrtc_session \in Sessions /\ peer \in [Sessions -> MaybeHandle]
            BY <5>1 DEF WindowTypes, MediaTypes, MaybeSession, PeerTypes
          <6>2. PeerWith(webrtc_session, Head(out).leg)[webrtc_session] = Head(out).leg
            BY <6>1 DEF PeerWith
          <6>3. peer'[webrtc_session]
                   \in {NoHandle, PeerWith(webrtc_session, Head(out).leg)[webrtc_session]}
            BY <3>3, <6>1, KeptPeer
          <6> QED BY <6>2, <6>3
        <5> QED BY <2>4, <4>2, <5>1, SameFollows
      <4> QED BY <3>3, <4>1, <4>2
    <3>4. CASE /\ Taken
               /\ pending_remote_offer' = <<Head(out).leg, sdp>>
               /\ UNCHANGED <<webrtc_session, sdp_role, session, peer>>
      BY <2>4, <3>4 DEF MediaFollows
    <3> QED BY <3>1, <3>2, <3>3, <3>4
  <2>6. EngineKeeps /\ RingStays
    BY <2>5, AskedKeeps DEF Spares, Asks
  <2> QED BY <1>0, <2>2, <2>3, <2>5, <2>6, FollowsKeeps DEF Follows
<1>3. CASE OnReinviteSdp
  <2>1. Taken /\ UNCHANGED mediaVars /\ UNCHANGED peer /\ Taking("REINVITE_SDP")
    BY <1>3 DEF OnReinviteSdp
  <2>2. EngineKeeps /\ RingStays
    BY <2>1, AskedKeeps DEF Spares, Asks
  <2>3. Current(Head(out).leg) /\ ~CloseComing /\ ~Ringing
    <3>1. Head(out) = out[1] /\ 1 \in 1 .. Len(out) /\ out[1].ev = "REINVITE_SDP"
      BY <1>0, <2>1 DEF Taking, TypeOK
    <3> QED BY <3>1 DEF NewsOfCall, CloseComing, Fire, Closing
  <2>4. MediaFollows
    BY <2>1, <2>3, SameFollows
  <2>5. TasksFollow /\ NoNewOffer
    <3>1. CASE webrtc_session = NoSession
      BY <1>0, <1>3, <3>1, SameTasks DEF OnReinviteSdp
    <3>2. CASE webrtc_session # NoSession
      <4>1. Spawn("reinvite", webrtc_session, Head(out).leg, <<>>)
        BY <1>3, <3>2 DEF OnReinviteSdp
      <4>2. ~Ringing'
        BY <2>2, <2>3 DEF RingStays
      <4> QED BY <1>0, <2>3, <4>1, <4>2, SpawnFollows DEF WindowTypes
    <3> QED BY <3>1, <3>2
  <2>6. OfferAlone' /\ OfferWaits
    BY <2>5, NoneGathers
  <2> QED BY <1>0, <2>2, <2>4, <2>5, <2>6, FollowsKeeps DEF Follows
<1>4. CASE OnCallConnected \/ OnCallOver
  <2>1. Taken /\ UNCHANGED tasks
    BY <1>4 DEF OnCallConnected, OnCallOver, sessionVars
  <2>2. EngineKeeps /\ RingStays
    BY <2>1, AskedKeeps DEF Spares, Asks
  <2>3. TasksFollow /\ NoNewOffer
    BY <1>0, <2>1, SameTasks
  <2>4. OfferAlone' /\ OfferWaits
    BY <2>3, NoneGathers
  <2>5. MediaFollows
    <3>1. CASE OnCallConnected
      <4>1. ~CloseComing
        BY <3>1 DEF OnCallConnected, Taking, CloseComing, Closing, Fire
      <4> QED BY <3>1, <4>1 DEF OnCallConnected, MediaFollows, mediaVars, sessionVars
    <3>2. CASE OnCallOver
      BY <3>2 DEF OnCallOver, clear_webrtc, MediaFollows
    <3> QED BY <1>4, <3>1, <3>2
  <2> QED BY <1>0, <2>2, <2>3, <2>4, <2>5, FollowsKeeps DEF Follows
<1> QED BY <1>1, <1>2, <1>3, <1>4 DEF HandleSipEvent

-----------------------------------------------------------------------------
\* The call screen opens for a call of ours: no other offer gathers, since one would
\* have it open.
LEMMA StartKeepsMedia ==
    ASSUME EngineTypes, WindowTypes, CallMedia, out = <<>>, StartCall PROVE CallMedia'
<1>1. TaskTypes /\ OfferAlone /\ ~Gathering /\ UNCHANGED vars /\ call_nh = NoHandle
  BY DEF CallMedia, WindowTypes, OfferFirst, StartCall
<1>2. EngineKeeps /\ call_nh' = NoHandle /\ out' = <<>> /\ active'
  BY <1>1, AskedKeeps DEF Spares, Asks, StartCall, vars, callVars
<1>3. RingAlone'
  BY <1>2 DEF RingAlone, Ringing
<1>4. OfferFirst' /\ MediaIsOfCall'
  <2>1. ASSUME NEW s \in Sessions, Spawn("offer", s, NoHandle, <<>>), NewWebrtc("offerer", s)
        PROVE  OfferFirst' /\ MediaIsOfCall'
    <3> DEFINE n == Len(tasks) + 1
    <3>1. /\ DOMAIN tasks' = DOMAIN tasks \cup {n}
          /\ \A j \in DOMAIN tasks : tasks'[j] = tasks[j]
          /\ tasks'[n].kind = "offer"
      BY <1>1, <2>1, SpawnedTasks
    <3> HIDE DEF n
    <3>2. OfferAlone'
      BY <1>1, <3>1 DEF OfferAlone, Gathering
    <3>3. \A j \in DOMAIN tasks' : SdpTask(j)' => j \in DOMAIN tasks /\ FromTask(j, j)
      BY <3>1 DEF SdpTask, FromTask
    <3>4. MediaIsOfCall'
      BY <2>1, <3>3, NewMediaIsOfCall DEF WindowTypes, MaybeSession
    <3> QED BY <1>2, <3>2, <3>4 DEF OfferFirst
  <2>2. CASE clear_webrtc /\ UNCHANGED tasks
    <3>1. NoNewOffer
      BY <1>1, <2>2, SameTasks
    <3> QED BY <1>1, <2>2, <3>1 DEF OfferFirst, NoNewOffer, clear_webrtc, MediaIsOfCall
  <2> QED BY <2>1, <2>2 DEF StartCall
<1> QED BY <1>2, <1>3, <1>4 DEF CallMedia, EngineKeeps

\* Any other step of the user's or a task's.
LEMMA StepKeepsMedia ==
    ASSUME EngineTypes, CallMedia, out = <<>>, Asks, UNCHANGED active,
           TasksFollow, NoNewOffer, MediaFollows
    PROVE  CallMedia'
<1>1. EngineKeeps /\ RingStays /\ OfferAlone' /\ OfferWaits
  BY AskedKeeps, StillWaits DEF CallMedia
<1> QED BY <1>1, FollowsKeeps DEF Follows, EngineTypes

LEMMA UserKeepsMedia ==
    ASSUME EngineTypes, WindowTypes, CallMedia, out = <<>>, User PROVE CallMedia'
<1>0. OfferAlone /\ TaskTypes /\ ~CloseComing
  BY QuietIsOpen DEF CallMedia, OfferFirst, WindowTypes
<1>1. CASE StartCall
  BY <1>1, StartKeepsMedia
<1>2. CASE AnswerCall
  <2>1. UNCHANGED active
    BY <1>2 DEF AnswerCall, buttonVars
  <2>2. CASE webrtc_session # NoSession /\ pending_remote_offer # <<>>
    <3>1. /\ Spawn("answer", webrtc_session, pending_remote_offer[1], pending_remote_offer[2])
          /\ UNCHANGED vars /\ UNCHANGED mediaVars /\ UNCHANGED peer
      BY <1>2, <2>2 DEF AnswerCall
    <3>2. Current(pending_remote_offer[1])
      BY <1>0, <2>2 DEF CallMedia, MediaIsOfCall, OfferIsOfCall
    <3>3. TasksFollow /\ NoNewOffer
      BY <1>0, <3>1, <3>2, SpawnFollows
    <3>4. MediaFollows
      BY <1>0, <3>1, SameFollows
    <3> QED BY <2>1, <3>1, <3>3, <3>4, StepKeepsMedia DEF Spares, Asks
  <2>3. CASE fail_webrtc /\ UNCHANGED tasks
    <3>1. (Taken \/ SofiaHangup) /\ MediaFollows
      BY <2>3, FailedAsks DEF MediaFollows
    <3>2. TasksFollow /\ NoNewOffer
      BY <1>0, <2>3, SameTasks
    <3> QED BY <2>1, <3>1, <3>2, StepKeepsMedia DEF Spares, Asks
  <2> QED BY <1>2, <2>2, <2>3 DEF AnswerCall
<1>3. CASE HangupCall
  <2>1. SofiaHangup /\ UNCHANGED mediaVars /\ UNCHANGED active /\ UNCHANGED tasks /\ UNCHANGED peer
    BY <1>3 DEF HangupCall, buttonVars, sessionVars
  <2>2. TasksFollow /\ NoNewOffer /\ MediaFollows
    BY <1>0, <2>1, SameTasks, SameFollows
  <2> QED BY <2>1, <2>2, StepKeepsMedia DEF Spares, Asks
<1>4. ASSUME NEW on \in BOOLEAN, MuteToggled(on) PROVE CallMedia'
  <2>1. UNCHANGED vars /\ UNCHANGED mediaVars /\ UNCHANGED active /\ UNCHANGED tasks
    BY <1>4 DEF MuteToggled
  <2>2. TasksFollow /\ NoNewOffer
    BY <1>0, <2>1, SameTasks
  <2>3. MediaFollows
    BY <1>0, <1>4, <2>1, PeerFollows DEF MuteToggled
  <2> QED BY <2>1, <2>2, <2>3, StepKeepsMedia DEF Spares, Asks
<1>5. ASSUME NEW on \in BOOLEAN, HoldToggled(on) PROVE CallMedia'
  <2>1. /\ UNCHANGED mediaVars /\ UNCHANGED active
        /\ SofiaSetHold(on) \/ UNCHANGED vars
    BY <1>5 DEF HoldToggled
  <2>2. TasksFollow /\ NoNewOffer
    <3>1. CASE webrtc_session = NoSession
      BY <1>0, <1>5, <3>1, SameTasks DEF HoldToggled, sessionVars
    <3>2. CASE webrtc_session # NoSession
      BY <1>0, <1>5, <3>2, SpawnFollows DEF HoldToggled
    <3> QED BY <3>1, <3>2
  <2>3. MediaFollows
    BY <1>0, <1>5, <2>1, PeerFollows DEF HoldToggled, sessionVars
  <2> QED BY <2>1, <2>2, <2>3, StepKeepsMedia DEF Spares, Asks
<1> QED BY <1>1, <1>2, <1>3, <1>4, <1>5 DEF User

LEMMA TaskKeepsMedia ==
    ASSUME EngineTypes, WindowTypes, CallMedia, out = <<>>, NEW i \in DOMAIN tasks, TaskReady(i)
    PROVE  CallMedia'
<1>0. OfferAlone /\ TaskTypes /\ MediaIsOfCall /\ ~CloseComing
  BY QuietIsOpen DEF CallMedia, OfferFirst, WindowTypes
<1>1. ASSUME NEW kind, Resumed(i, kind)
      PROVE  /\ TasksFollow /\ NoNewOffer /\ (kind = "offer" => ~Gathering')
             /\ UNCHANGED active /\ tasks[i].kind = kind
  BY <1>0, <1>1, DroppedTasks DEF Resumed, buttonVars
<1>2. CASE AnswerPolled(i)
  <2>1. PICK r \in create_answer(Still(i), tasks[i].sdp) :
           /\ \/ /\ tasks' = [tasks EXCEPT ![i].kind = "answering"]
                 /\ UNCHANGED vars /\ UNCHANGED mediaVars /\ UNCHANGED active
              \/ /\ Resumed(i, "answer")
                 /\ \/ UNCHANGED vars /\ UNCHANGED mediaVars
                    \/ fail_webrtc
           /\ KeepApplied(i, r.session)
    BY <1>2 DEF AnswerPolled, buttonVars
  <2>2. tasks[i].kind = "answer" /\ SdpTask(i)
    BY <1>2 DEF AnswerPolled, SdpTask
  <2>3. TasksFollow /\ NoNewOffer /\ UNCHANGED active
    BY <1>0, <1>1, <2>1, <2>2, PolledTasks
  <2>4. CASE UNCHANGED vars /\ UNCHANGED mediaVars
    <3>1. MediaFollows
      BY <1>0, <2>1, <2>2, <2>4, AppliedFollows
    <3> QED BY <2>3, <2>4, <3>1, StepKeepsMedia DEF Spares, Asks
  <2>5. CASE fail_webrtc
    <3>1. (Taken \/ SofiaHangup) /\ MediaFollows
      BY <2>5, FailedAsks DEF MediaFollows
    <3> QED BY <2>3, <3>1, StepKeepsMedia DEF Spares, Asks
  <2> QED BY <2>1, <2>4, <2>5
<1>3. ASSUME NEW described, OfferReady(i, described) PROVE CallMedia'
  <2>1. TasksFollow /\ NoNewOffer /\ ~Gathering' /\ UNCHANGED active /\ Gathering
    BY <1>1, <1>3 DEF OfferReady, Gathering
  <2>2. UNCHANGED mediaVars => MediaFollows
    BY <1>0, <1>3, PeerFollows DEF OfferReady, Kept
  <2>3. CASE SofiaCall /\ UNCHANGED mediaVars
    <3>1. EngineKeeps /\ RingStays
      <4>1. call_nh = NoHandle /\ WindowCalls /\ OneCall /\ TypeOK
        BY <2>1, <2>3 DEF CallMedia, OfferFirst, WindowCalls, EngineTypes
      <4> QED BY <2>3, <4>1, DialKeepsOne, WindowKeepsRing
    <3>2. OfferAlone' /\ OfferWaits
      BY <2>1 DEF NoNewOffer, OfferWaits
    <3> QED BY <2>1, <2>2, <2>3, <3>1, <3>2, FollowsKeeps DEF Follows, EngineTypes
  <2>4. CASE UNCHANGED vars /\ UNCHANGED mediaVars
    BY <2>1, <2>2, <2>4, StepKeepsMedia DEF Spares, Asks
  <2>5. CASE fail_webrtc
    <3>1. (Taken \/ SofiaHangup) /\ MediaFollows
      BY <2>5, FailedAsks DEF MediaFollows
    <3> QED BY <2>1, <3>1, StepKeepsMedia DEF Spares, Asks
  <2> QED BY <1>3, <2>3, <2>4, <2>5 DEF OfferReady
<1>4. ASSUME NEW described, AnswerReady(i, described) \/ HoldReady(i, described) PROVE CallMedia'
  <2>1. TasksFollow /\ NoNewOffer /\ UNCHANGED active
    BY <1>1, <1>4 DEF AnswerReady, HoldReady
  <2>2. UNCHANGED mediaVars => MediaFollows
    BY <1>0, <1>4, PeerFollows DEF AnswerReady, HoldReady, Kept
  <2>3. CASE fail_webrtc
    <3>1. (Taken \/ SofiaHangup) /\ MediaFollows
      BY <2>3, FailedAsks DEF MediaFollows
    <3> QED BY <2>1, <3>1, StepKeepsMedia DEF Spares, Asks
  <2>4. CASE ~fail_webrtc
    <3>1. UNCHANGED mediaVars /\ Asks
      BY <1>4, <2>4 DEF AnswerReady, HoldReady, WithActiveEngine, Spares, Asks
    <3> QED BY <2>1, <2>2, <3>1, StepKeepsMedia
  <2> QED BY <2>3, <2>4
<1>5. ASSUME NEW described, ReinviteReady(i, described) PROVE CallMedia'
  <2>1. TasksFollow /\ NoNewOffer /\ UNCHANGED active /\ tasks[i].kind = "reinvite"
    BY <1>1, <1>5 DEF ReinviteReady
  <2>2. SdpTask(i) /\ ~Ringing
    BY <2>1 DEF SdpTask, CallMedia, RingAlone
  <2>3. UNCHANGED mediaVars => MediaFollows
    BY <1>0, <1>5, <2>2, AppliedFollows DEF ReinviteReady
  <2>4. CASE fail_webrtc
    <3>1. (Taken \/ SofiaHangup) /\ MediaFollows
      BY <2>4, FailedAsks DEF MediaFollows
    <3> QED BY <2>1, <3>1, StepKeepsMedia DEF Spares, Asks
  <2>5. CASE ~fail_webrtc
    <3>1. UNCHANGED mediaVars /\ Asks
      BY <1>5, <2>2, <2>5 DEF ReinviteReady, WithActiveEngine, Spares, Asks
    <3> QED BY <2>1, <2>3, <3>1, StepKeepsMedia
  <2> QED BY <2>4, <2>5
<1> QED BY <1>2, <1>3, <1>4, <1>5 DEF TaskReady

\* sofia-sip's callbacks.  An INVITE that rings finds no task of an earlier call and no
\* offer, and where an offer gathers there is no call to hear of.
LEMMA SofiaKeepsMedia ==
    ASSUME NoGlare, OneAtATime, EngineTypes, WindowTypes, CallMedia, out = <<>>,
           NEW nh \in Handles, Sofia(nh)
    PROVE  CallMedia'
<1>0. OfferAlone /\ OneCall /\ TypeOK /\ NuaCb(nh) /\ ~CloseComing
  BY QuietIsOpen DEF CallMedia, OfferFirst, EngineTypes, Sofia
<1>1. UNCHANGED tasks /\ UNCHANGED mediaVars /\ UNCHANGED peer /\ UNCHANGED active
  BY DEF Sofia, windowVars, sessionVars, buttonVars
<1>2. EngineKeeps
  BY <1>0, CallbackKeepsOne
<1>3. TasksFollow /\ NoNewOffer /\ MediaFollows
  BY <1>0, <1>1, SameTasks, SameFollows
<1>4. Rang => tasks = <<>>
  BY DEF Sofia, OneAtATime, Gathering
<1>5. ~Gathering'
  <2>1. Gathering => Rang
    BY <1>0, IdleRings DEF CallMedia, OfferFirst
  <2>2. ~Gathering
    BY <1>4, <2>1 DEF Gathering
  <2> QED BY <1>3, <2>2 DEF NoNewOffer
<1>6. RingAlone'
  <2>1. CASE Rang
    BY <1>1, <1>4, <2>1 DEF RingAlone
  <2>2. CASE ~Rang
    <3>1. RingStays
      BY <1>2, <2>2 DEF EngineKeeps, RingKept, RingStays
    <3> QED BY <1>3, <3>1, RingStaysAlone DEF CallMedia
  <2> QED BY <2>1, <2>2
<1>7. MediaIsOfCall'
  BY <1>0, <1>2, <1>3, MediaStaysOfCall DEF CallMedia, EngineKeeps
<1> QED BY <1>2, <1>3, <1>5, <1>6, <1>7 DEF CallMedia, EngineKeeps, OfferFirst, NoNewOffer

\* Together with the types the invariant is inductive.
LEMMA CallMediaInvariant ==
    ASSUME NoGlare, OneAtATime
    PROVE  PhoneSpec => [](EngineTypes /\ WindowTypes /\ CallMedia)
<1>1. PhoneInit => CallMedia
  <2> SUFFICES ASSUME PhoneInit PROVE CallMedia
    OBVIOUS
  <2>1. /\ call_nh = NoHandle /\ consult_nh = NoHandle /\ out = <<>> /\ tasks = <<>>
        /\ webrtc_session = NoSession /\ leg = [h \in Handles |-> IdleLeg]
    BY DEF PhoneInit, Init
  <2>2. OneCall
    BY <2>1, ConstantsAssumption DEF OneCall, OneLeg, FlagsAgree, IdleLeg
  <2>3. NewsOfCall(out)
    BY <2>1 DEF NewsOfCall
  <2>4. OfferFirst /\ RingAlone /\ MediaIsOfCall
    BY <2>1 DEF OfferFirst, OfferAlone, Gathering, RingAlone, Ringing, MediaIsOfCall
  <2> QED BY <2>2, <2>3, <2>4 DEF CallMedia
<1>2. EngineTypes /\ WindowTypes /\ CallMedia /\ [PhoneNext]_phoneVars => CallMedia'
  <2> SUFFICES ASSUME EngineTypes, WindowTypes, CallMedia, [PhoneNext]_phoneVars PROVE CallMedia'
    OBVIOUS
  <2>1. CASE HandleSipEvent
    <3>1. out # <<>>
      BY <2>1 DEF HandleSipEvent, OnIncomingCall, OnRemoteSdp, OnReinviteSdp, OnCallConnected,
                  OnCallOver, Taking
    <3> QED BY <2>1, <3>1, EventKeepsMedia
  <2>2. CASE out = <<>> /\ (User \/ (\E i \in DOMAIN tasks : TaskReady(i))
                                 \/ \E nh \in Handles : Sofia(nh))
    BY <2>2, UserKeepsMedia, TaskKeepsMedia, SofiaKeepsMedia
  <2>3. CASE UNCHANGED phoneVars
    BY <2>3 DEF phoneVars, vars, callVars, consultVars, windowVars, buttonVars, mediaVars,
                sessionVars, CallMedia, OneCall, OneLeg, FlagsAgree, NewsOfCall, Current, Ringing,
                OfferFirst, OfferAlone, Gathering, RingAlone, SdpTask, MediaIsOfCall, CloseComing,
                PeerIsOfCall, OfferIsOfCall, TasksAreOfCall
  <2> QED BY <2>1, <2>2, <2>3 DEF PhoneNext
<1> QED BY <1>1, <1>2, TypesInvariant, PTL DEF PhoneSpec

\* Where calls do not overlap, the session the window shows has applied the SDP of the
\* call's own leg or none: neither a digest retry, which replaces the leg, nor a hold, a
\* re-INVITE or a failure along the way leaves it with the SDP of a leg that is gone.
THEOREM MediaStaysWithCall ==
    ASSUME NoGlare, OneAtATime PROVE PhoneSpec => []MediaOfCall
<1>1. CallMedia => MediaOfCall
  BY QuietIsOpen DEF CallMedia, MediaOfCall, AtRest, MediaIsOfCall, PeerIsOfCall, Current
<1> QED BY <1>1, CallMediaInvariant, PTL

-----------------------------------------------------------------------------
\* Whatever is asked of the engine but to dial and to answer, nobody's call is answered.
LEMMA SparesAnswerNone ==
    ASSUME EngineTypes, CallMedia, Spares PROVE NoAnswer
<1>0. TypeOK /\ OneCall /\ NewsOfCall(out)
  BY DEF EngineTypes, CallMedia
<1>1. CASE SofiaRespondSdp /\ ~Ringing
  <2>1. leg \in Legs /\ call_nh \in Handles /\ leg' = NuaAccept(leg, call_nh)
    BY <1>0, <1>1 DEF SofiaRespondSdp, TypeOK, Legs, MaybeHandle
  <2>2. \A g \in Handles :
           NuaAccept(leg, call_nh)[g].st
              = IF g = call_nh /\ leg[g].st = "ringing" THEN "up" ELSE leg[g].st
    BY <2>1, NuaEffects
  <2>3. leg[call_nh].st # "ringing"
    BY <1>1, <2>1, ConstantsAssumption DEF Ringing
  <2> QED BY <2>1, <2>2, <2>3 DEF NoAnswer
<1> QED BY <1>0, <1>1, TakenKeepsOne, HangupKeepsOne, HoldKeepsOne DEF Spares

\* The window's events and the user answer nothing themselves.
LEMMA WindowSpares ==
    ASSUME HandleSipEvent \/ User PROVE Spares
<1>1. CASE HandleSipEvent
  BY <1>1 DEF HandleSipEvent, OnIncomingCall, OnRemoteSdp, OnReinviteSdp, OnCallConnected,
              OnCallOver, fail_webrtc, WithActiveEngine, Spares
<1>2. CASE User
  BY <1>2 DEF User, StartCall, AnswerCall, HangupCall, MuteToggled, HoldToggled,
              fail_webrtc, WithActiveEngine, Spares
<1> QED BY <1>1, <1>2

\* A task does, when it is the answer's; and an offer's dials, when there is no call.
LEMMA TaskAsks ==
    ASSUME CallMedia, NEW i \in DOMAIN tasks, TaskReady(i)
    PROVE  \/ Spares
           \/ SofiaCall /\ call_nh = NoHandle
           \/ SofiaAnswer /\ tasks[i].kind = "answering"
<1>1. CASE AnswerPolled(i)
  BY <1>1 DEF AnswerPolled, fail_webrtc, WithActiveEngine, Spares
<1>2. ASSUME NEW described, OfferReady(i, described)
      PROVE  Spares \/ (SofiaCall /\ call_nh = NoHandle)
  <2>1. call_nh = NoHandle
    BY <1>2 DEF OfferReady, Resumed, CallMedia, OfferFirst, Gathering
  <2> QED BY <1>2, <2>1 DEF OfferReady, fail_webrtc, WithActiveEngine, Spares
<1>3. ASSUME NEW described, AnswerReady(i, described)
      PROVE  Spares \/ (SofiaAnswer /\ tasks[i].kind = "answering")
  BY <1>3 DEF AnswerReady, Resumed, fail_webrtc, WithActiveEngine, Spares
<1>4. ASSUME NEW described, HoldReady(i, described) PROVE Spares
  BY <1>4 DEF HoldReady, WithActiveEngine, Spares
<1>5. ASSUME NEW described, ReinviteReady(i, described) PROVE Spares
  <2>1. ~Ringing
    BY <1>5 DEF ReinviteReady, Resumed, SdpTask, CallMedia, RingAlone
  <2> QED BY <1>5, <2>1 DEF ReinviteReady, fail_webrtc, WithActiveEngine, Spares
<1> QED BY <1>1, <1>2, <1>3, <1>4, <1>5 DEF TaskReady

\* Where no task outlives its call, a call that rings is answered by the user's own
\* answer to that call and by nothing else: no answer meant for another call, no
\* re-INVITE's and no hold's lets a caller in.
THEOREM OnlyTheAnswerAnswers ==
    ASSUME NoGlare, OneAtATime PROVE PhoneSpec => OnlyAnsweredGoesUp
<1> DEFINE Answered == \A h \in Handles : leg[h].st = "ringing" /\ leg'[h].st = "up" =>
                          \E i \in DOMAIN tasks : Answers(i, h)
<1>1. EngineTypes /\ WindowTypes /\ CallMedia /\ [PhoneNext]_phoneVars => [Answered]_phoneVars
  <2> SUFFICES ASSUME EngineTypes, WindowTypes, CallMedia, PhoneNext PROVE Answered
    OBVIOUS
  <2>0. TypeOK /\ OneCall
    BY DEF EngineTypes, CallMedia
  <2>1. NoAnswer => Answered
    BY DEF NoAnswer
  <2>2. ASSUME NEW i \in DOMAIN tasks, SofiaAnswer, tasks[i].kind = "answering" PROVE Answered
    <3>1. leg \in Legs /\ call_nh \in Handles /\ leg' = NuaAccept(leg, call_nh)
      BY <2>0, <2>2 DEF SofiaAnswer, TypeOK, Legs, MaybeHandle
    <3>2. \A g \in Handles :
             NuaAccept(leg, call_nh)[g].st
                = IF g = call_nh /\ leg[g].st = "ringing" THEN "up" ELSE leg[g].st
      BY <3>1, NuaEffects
    <3>3. leg[call_nh].st = "ringing" => tasks[i].leg = call_nh
      BY <2>2, <3>1, ConstantsAssumption DEF CallMedia, RingAlone, Ringing, SdpTask
    <3> QED BY <2>2, <3>1, <3>2, <3>3 DEF Answers
  <2>3. CASE HandleSipEvent \/ User
    BY <2>1, <2>3, WindowSpares, SparesAnswerNone
  <2>4. ASSUME NEW i \in DOMAIN tasks, TaskReady(i) PROVE Answered
    <3>1. (SofiaCall /\ call_nh = NoHandle) => NoAnswer
      BY <2>0, DialKeepsOne
    <3> HIDE DEF Answered
    <3> QED BY <2>1, <2>2, <2>4, <3>1, TaskAsks, SparesAnswerNone
  <2>5. ASSUME NEW nh \in Handles, Sofia(nh) PROVE Answered
    BY <2>0, <2>1, <2>5, CallbackKeepsOne DEF Sofia
  <2> QED BY <2>3, <2>4, <2>5 DEF PhoneNext
<1> QED BY <1>1, CallMediaInvariant, PTL DEF PhoneSpec, OnlyAnsweredGoesUp

-----------------------------------------------------------------------------
(***************************************************************************)
(* The buttons, when nothing of one call overlaps the next (OneAfterOther).*)
(* A session is made with neither flag set, so the toggles must be up when *)
(* it is made; they are put up when a call is over, and the screen of a    *)
(* call that was given up never stays for the next one.                    *)
(***************************************************************************)
OneAfterOther == Races = {}

Silent == ~mute_button /\ ~hold_button
ClosedIsSilent == ~active => Silent
RingIsFresh == ~NoRing(out) => Silent

\* Media is of a call that is there, is being dialled, or is about to be reported over.
MediaHasCall == webrtc_session # NoSession => call_nh # NoHandle \/ Gathering \/ CloseComing

\* The flags of the call's session are its buttons, from the moment the window has taken
\* the INCOMING_CALL.
FlagsAre(x, muted, hold) == x.user_muted = muted /\ x.on_hold = hold
FlagsAreButtons ==
    webrtc_session # NoSession /\ NoRing(out) =>
        FlagsAre(session[webrtc_session], mute_button, hold_button)

ScreenSilent == ClosedIsSilent /\ RingIsFresh /\ FlagsAreButtons
CallBehind == RingHasCall /\ MediaHasCall

-----------------------------------------------------------------------------
\* Every step gives a call up or rings in the open.
LEMMA StepKeepsCall ==
    ASSUME TypeOK, RingHasCall, [PhoneNext]_phoneVars PROVE KeepsCall /\ RingHasCall'
<1>1. CASE UNCHANGED vars
  BY <1>1 DEF vars, callVars, KeepsCall, RingHasCall, NoRing
<1>2. CASE Taken
  <2>1. NoRing(out) => NoRing(out')
    <3>1. CASE out = <<>>
      BY <1>2, <3>1 DEF Taken
    <3>2. CASE out # <<>>
      BY <1>2, <3>2, NoRingTail DEF Taken, TypeOK
    <3> QED BY <3>1, <3>2
  <2> QED BY <1>2, <2>1 DEF Taken, callVars, KeepsCall, RingHasCall, NoRing
<1>3. CASE WindowCalls
  BY <1>3, ApiKeepsCall DEF WindowCalls, Api
<1>4. ASSUME NEW nh \in Handles, NuaCb(nh) PROVE KeepsCall /\ RingHasCall'
  BY <1>4, CallbackKeepsCall
<1> QED BY <1>1, <1>2, <1>3, <1>4, EngineSteps DEF phoneVars

\* An offer gathers until its own task goes on.
LEMMA StillGathers ==
    ASSUME TaskTypes, Gathering,
           \/ UNCHANGED tasks
           \/ \E kind, s, h, sdp : Spawn(kind, s, h, sdp)
           \/ \E i \in DOMAIN tasks : /\ tasks[i].kind # "offer"
                                      /\ \/ tasks' = Dropped(i)
                                         \/ tasks' = [tasks EXCEPT ![i].kind = "answering"]
    PROVE  Gathering'
<1>0. PICK k \in DOMAIN tasks : tasks[k].kind = "offer"
  BY DEF Gathering
<1>1. CASE UNCHANGED tasks
  BY <1>0, <1>1 DEF Gathering
<1>2. ASSUME NEW kind, NEW s, NEW h, NEW sdp, Spawn(kind, s, h, sdp) PROVE Gathering'
  <2>1. k \in DOMAIN tasks' /\ tasks'[k] = tasks[k]
    BY <1>0, <1>2, SpawnedTasks
  <2> QED BY <1>0, <2>1 DEF Gathering
<1>3. ASSUME NEW i \in DOMAIN tasks, tasks[i].kind # "offer", tasks' = Dropped(i) PROVE Gathering'
  <2> DEFINE j == IF k < i THEN k ELSE k - 1
             n == Len(tasks)
  <2>1. n \in Nat /\ i \in 1 .. n /\ k \in 1 .. n /\ k # i
    BY <1>0, <1>3 DEF TaskTypes
  <2>2. j \in 1 .. n - 1 /\ (IF j < i THEN j ELSE j + 1) = k
    BY <2>1
  <2>3. tasks'[j] = tasks[k] /\ tasks' \in Seq(Task) /\ Len(tasks') = n - 1
    BY <1>3, <2>2, DroppedTypes
  <2>4. j \in DOMAIN tasks'
    BY <2>2, <2>3
  <2> QED BY <1>0, <2>3, <2>4 DEF Gathering
<1>4. ASSUME NEW i \in DOMAIN tasks, tasks[i].kind # "offer",
             tasks' = [tasks EXCEPT ![i].kind = "answering"]
      PROVE  Gathering'
  <2>1. k \in DOMAIN tasks' /\ tasks'[k] = tasks[k]
    BY <1>0, <1>4
  <2> QED BY <1>0, <2>1 DEF Gathering
<1> QED BY <1>1, <1>2, <1>3, <1>4

\* Media that stays has its call as before.
LEMMA MediaKeepsCall ==
    ASSUME MediaHasCall, KeepsCall,
           webrtc_session' # NoSession =>
              /\ webrtc_session' = webrtc_session
              /\ Gathering => Gathering' \/ call_nh' # NoHandle
              /\ ~CloseComing
    PROVE  MediaHasCall'
BY DEF MediaHasCall, KeepsCall

LEMMA EventKeepsCall ==
    ASSUME EngineTypes, WindowTypes, CallBehind, KeepsCall, HandleSipEvent PROVE MediaHasCall'
<1>0. MediaHasCall /\ RingHasCall /\ TaskTypes /\ out \in Seq(Event)
  BY DEF CallBehind, EngineTypes, TypeOK, WindowTypes
<1>1. CASE OnIncomingCall
  <2>1. out # <<>> /\ Head(out).ev = "INCOMING_CALL" /\ Head(out) = out[1] /\ 1 \in 1 .. Len(out)
    BY <1>0, <1>1 DEF OnIncomingCall, Taking
  <2>2. call_nh # NoHandle
    BY <1>0, <2>1 DEF RingHasCall, NoRing
  <2> QED BY <1>1, <2>2 DEF OnIncomingCall, Taken, callVars, MediaHasCall
<1>2. CASE OnRemoteSdp \/ OnReinviteSdp \/ OnCallConnected
  <2>1. ~CloseComing
    BY <1>2 DEF OnRemoteSdp, OnReinviteSdp, OnCallConnected, Taking, CloseComing, Closing, Fire
  <2>2. UNCHANGED tasks \/ \E kind, s, h, sdp : Spawn(kind, s, h, sdp)
    BY <1>2 DEF OnRemoteSdp, OnReinviteSdp, OnCallConnected, sessionVars
  <2>3. webrtc_session' \in {webrtc_session, NoSession}
    BY <1>2 DEF OnRemoteSdp, OnReinviteSdp, OnCallConnected, mediaVars, fail_webrtc, clear_webrtc
  <2> QED BY <1>0, <2>1, <2>2, <2>3, StillGathers, MediaKeepsCall
<1>3. CASE OnCallOver
  BY <1>3 DEF OnCallOver, clear_webrtc, MediaHasCall
<1> QED BY <1>1, <1>2, <1>3 DEF HandleSipEvent

LEMMA UserKeepsCall ==
    ASSUME EngineTypes, WindowTypes, CallBehind, KeepsCall, out = <<>>, User PROVE MediaHasCall'
<1>0. MediaHasCall /\ TaskTypes /\ ~CloseComing
  BY QuietIsOpen DEF CallBehind, WindowTypes
<1>1. CASE StartCall
  <2>1. ASSUME NEW s \in Sessions, Spawn("offer", s, NoHandle, <<>>) PROVE Gathering'
    <3> DEFINE n == Len(tasks) + 1
    <3>1. n \in DOMAIN tasks' /\ tasks'[n].kind = "offer"
      BY <1>0, <2>1, SpawnedTasks
    <3> QED BY <3>1 DEF Gathering
  <2> QED BY <1>1, <2>1 DEF StartCall, clear_webrtc, MediaHasCall
<1>2. CASE ~StartCall
  <2>1. UNCHANGED tasks \/ \E kind, s, h, sdp : Spawn(kind, s, h, sdp)
    BY <1>2 DEF User, AnswerCall, HangupCall, MuteToggled, HoldToggled, sessionVars
  <2>2. webrtc_session' \in {webrtc_session, NoSession}
    BY <1>2 DEF User, AnswerCall, HangupCall, MuteToggled, HoldToggled, mediaVars,
                fail_webrtc, clear_webrtc
  <2> QED BY <1>0, <2>1, <2>2, StillGathers, MediaKeepsCall
<1> QED BY <1>1, <1>2

LEMMA TaskKeepsCall ==
    ASSUME EngineTypes, WindowTypes, CallBehind, KeepsCall, out = <<>>,
           NEW i \in DOMAIN tasks, TaskReady(i)
    PROVE  MediaHasCall'
<1>0. MediaHasCall /\ TaskTypes /\ ~CloseComing /\ TypeOK
  BY QuietIsOpen DEF CallBehind, WindowTypes, EngineTypes
<1>1. ASSUME NEW described, OfferReady(i, described) PROVE MediaHasCall'
  <2>1. \/ webrtc_session' = NoSession
        \/ SofiaCall /\ UNCHANGED webrtc_session
    BY <1>1 DEF OfferReady, fail_webrtc, clear_webrtc, mediaVars
  <2>2. SofiaCall => call_nh' # NoHandle
    BY <1>0, ApiKeepsCall DEF Api
  <2> QED BY <2>1, <2>2 DEF MediaHasCall
<1>2. CASE \/ AnswerPolled(i)
           \/ \E described : \/ AnswerReady(i, described) \/ HoldReady(i, described)
                             \/ ReinviteReady(i, described)
  <2>1. tasks[i].kind # "offer"
    BY <1>2 DEF AnswerPolled, AnswerReady, HoldReady, ReinviteReady, Resumed
  <2>2. tasks' = Dropped(i) \/ tasks' = [tasks EXCEPT ![i].kind = "answering"]
    BY <1>2 DEF AnswerPolled, AnswerReady, HoldReady, ReinviteReady, Resumed
  <2>3. webrtc_session' \in {webrtc_session, NoSession}
    BY <1>2 DEF AnswerPolled, AnswerReady, HoldReady, ReinviteReady, mediaVars, fail_webrtc,
                clear_webrtc
  <2> QED BY <1>0, <2>1, <2>2, <2>3, StillGathers, MediaKeepsCall
<1> QED BY <1>1, <1>2 DEF TaskReady

LEMMA CallBehindKept ==
    ASSUME EngineTypes, WindowTypes, CallBehind, [PhoneNext]_phoneVars PROVE CallBehind'
<1>0. KeepsCall /\ RingHasCall'
  BY StepKeepsCall DEF EngineTypes, CallBehind
<1>1. ASSUME NEW nh \in Handles, Sofia(nh), out = <<>> PROVE MediaHasCall'
  <2>1. UNCHANGED webrtc_session /\ (Gathering => Gathering') /\ ~CloseComing
    BY <1>1, QuietIsOpen DEF Sofia, windowVars, mediaVars, sessionVars, Gathering
  <2> QED BY <1>0, <2>1, MediaKeepsCall DEF CallBehind
<1>2. ASSUME UNCHANGED phoneVars PROVE MediaHasCall'
  BY <1>2 DEF phoneVars, vars, callVars, windowVars, mediaVars, sessionVars, CallBehind,
              MediaHasCall, Gathering, CloseComing
<1>3. MediaHasCall'
  <2>1. CASE HandleSipEvent
    BY <1>0, <2>1, EventKeepsCall
  <2>2. CASE out = <<>> /\ (User \/ \E i \in DOMAIN tasks : TaskReady(i))
    BY <1>0, <2>2, UserKeepsCall, TaskKeepsCall
  <2> QED BY <1>1, <1>2, <2>1, <2>2 DEF PhoneNext, CallBehind
<1> QED BY <1>0, <1>3 DEF CallBehind

-----------------------------------------------------------------------------
\* What the negotiation does to a session leaves its flags alone.
LEMMA NegotiationKeepsFlags ==
    ASSUME NEW x \in Session, NEW sdp,
           NEW r \in attach_send_chain(x, sdp) \cup create_answer(x, sdp)
    PROVE  FlagsAre(r.session, x.user_muted, x.on_hold)
<1>1. \A y : Ok(y).session = y /\ Err(y).session = y
  BY DEF Ok, Err
<1>2. r = Ok(x) \/ r = Err(x) \/ r = Ok(apply_mute([x EXCEPT !.mic = "live"]))
  BY DEF attach_send_chain, create_answer, MayFail
<1>3. FlagsAre(apply_mute([x EXCEPT !.mic = "live"]), x.user_muted, x.on_hold)
  BY DEF FlagsAre, apply_mute, Session
<1> QED BY <1>1, <1>2, <1>3 DEF FlagsAre

\* The toggles set them.
LEMMA ToggleFlags ==
    ASSUME NEW x \in Session, NEW on \in BOOLEAN
    PROVE  /\ FlagsAre(set_muted(x, on), on, x.on_hold)
           /\ FlagsAre(set_hold(x, on), x.user_muted, on)
BY DEF FlagsAre, set_muted, set_hold, apply_mute, Session

\* The window's own session is always kept.
LEMMA OwnIsKept ==
    ASSUME NEW f, NEW p, KeepSessions(f, p), webrtc_session' \in Sessions
    PROVE  session'[webrtc_session'] = f[webrtc_session']
BY DEF KeepSessions

\* A step that leaves the buttons alone.
LEMMA FlagsStay ==
    ASSUME FlagsAreButtons, UNCHANGED <<mute_button, hold_button>>, NoRing(out') => NoRing(out),
           webrtc_session' # NoSession =>
              /\ webrtc_session' = webrtc_session
              /\ FlagsAre(session'[webrtc_session], session[webrtc_session].user_muted,
                          session[webrtc_session].on_hold)
    PROVE  FlagsAreButtons'
BY DEF FlagsAreButtons, FlagsAre

\* Keeping the sessions as they are does.
LEMMA KeptFlags ==
    ASSUME WindowTypes, webrtc_session' # NoSession => webrtc_session' = webrtc_session,
           UNCHANGED session \/ \E p : KeepSessions(session, p)
    PROVE  webrtc_session' # NoSession =>
              FlagsAre(session'[webrtc_session], session[webrtc_session].user_muted,
                       session[webrtc_session].on_hold)
<1> SUFFICES ASSUME webrtc_session' # NoSession
             PROVE  session'[webrtc_session] = session[webrtc_session]
  BY DEF FlagsAre
<1>1. webrtc_session' \in Sessions
  BY DEF WindowTypes, MediaTypes, MaybeSession
<1> QED BY <1>1, OwnIsKept

\* As does replacing one that has the flags of before.
LEMMA PutFlags ==
    ASSUME WindowTypes, MicsFollowFlags, NEW s \in Sessions, NEW x, NEW p,
           FlagsAre(x, session[s].user_muted, session[s].on_hold), KeepSessions(With(s, x), p),
           webrtc_session' # NoSession => webrtc_session' = webrtc_session
    PROVE  webrtc_session' # NoSession =>
              FlagsAre(session'[webrtc_session], session[webrtc_session].user_muted,
                       session[webrtc_session].on_hold)
<1> SUFFICES ASSUME webrtc_session' # NoSession
             PROVE  FlagsAre(session'[webrtc_session], session[webrtc_session].user_muted,
                             session[webrtc_session].on_hold)
  OBVIOUS
<1>1. webrtc_session' = webrtc_session /\ webrtc_session \in Sessions
      /\ session \in [Sessions -> Session]
  BY DEF WindowTypes, MediaTypes, MaybeSession, MicsFollowFlags, AllQuiet
<1>2. session'[webrtc_session] = With(s, x)[webrtc_session]
  BY <1>1, OwnIsKept
<1>3. With(s, x)[webrtc_session] = IF webrtc_session = s THEN x ELSE session[webrtc_session]
  BY <1>1 DEF With
<1> QED BY <1>2, <1>3 DEF FlagsAre

\* A new session has neither flag.
LEMMA NewFlags ==
    ASSUME ButtonTypes, Silent, NEW role, NEW s \in MaybeSession, MicsFollowFlags, NewWebrtc(role, s),
           UNCHANGED <<mute_button, hold_button>>
    PROVE  FlagsAreButtons'
<1> SUFFICES ASSUME s # NoSession PROVE FlagsAre(session'[s], FALSE, FALSE) /\ webrtc_session' = s
  BY DEF FlagsAreButtons, NewWebrtc, Silent, FlagsAre, ButtonTypes
<1>1. webrtc_session' = s /\ s \in Sessions
  BY DEF NewWebrtc, MaybeSession
<1>2. session'[s] = [session EXCEPT ![s] = NewSession][s]
  BY <1>1, OwnIsKept DEF NewWebrtc
<1>3. [session EXCEPT ![s] = NewSession][s] = NewSession
  BY <1>1 DEF MicsFollowFlags, AllQuiet
<1> QED BY <1>1, <1>2, <1>3 DEF FlagsAre, NewSession

-----------------------------------------------------------------------------
\* An INCOMING_CALL that waits behind another event goes on waiting.
LEMMA RingWaits ==
    ASSUME out \in Seq(Event), out # <<>>, Head(out).ev # "INCOMING_CALL", NoRing(Tail(out))
    PROVE  NoRing(out)
<1>1. ASSUME NEW i \in 1 .. Len(out) PROVE out[i].ev # "INCOMING_CALL"
  <2>1. CASE i = 1
    BY <2>1
  <2>2. CASE i # 1
    <3>1. i - 1 \in 1 .. Len(Tail(out)) /\ Tail(out)[i - 1] = out[i]
      BY <2>2
    <3> QED BY <3>1 DEF NoRing
  <2> QED BY <2>1, <2>2
<1> QED BY <1>1 DEF NoRing

LEMMA EventKeepsSilent ==
    ASSUME EngineTypes, WindowTypes, MicsFollowFlags, ScreenSilent, HandleSipEvent
    PROVE  ScreenSilent'
<1>0. out \in Seq(Event) /\ ButtonTypes /\ TypeOK
  BY DEF EngineTypes, TypeOK, WindowTypes
<1>1. CASE OnIncomingCall
  <2>1. /\ Taken /\ active' /\ UNCHANGED <<mute_button, hold_button>>
        /\ out # <<>> /\ Head(out).ev = "INCOMING_CALL"
    BY <1>1 DEF OnIncomingCall, Taking
  <2>2. Silent
    <3>1. Head(out) = out[1] /\ 1 \in 1 .. Len(out)
      BY <1>0, <2>1
    <3> QED BY <2>1, <3>1 DEF ScreenSilent, RingIsFresh, NoRing
  <2>3. PICK s \in MaybeSession : NewWebrtc("answerer", s)
    BY <1>1 DEF OnIncomingCall, MaybeSession
  <2> QED BY <1>0, <2>1, <2>2, <2>3, NewFlags DEF ScreenSilent, ClosedIsSilent, RingIsFresh, Silent
<1>2. CASE OnRemoteSdp \/ OnReinviteSdp \/ OnCallConnected
  <2>1. /\ UNCHANGED <<active, mute_button, hold_button>> /\ out # <<>>
        /\ Head(out).ev # "INCOMING_CALL"
    BY <1>2 DEF OnRemoteSdp, OnReinviteSdp, OnCallConnected, Taking, buttonVars
  <2>2. Taken \/ (SofiaHangup /\ webrtc_session' = NoSession)
    BY <1>2 DEF OnRemoteSdp, OnReinviteSdp, OnCallConnected, fail_webrtc, clear_webrtc,
                WithActiveEngine
  <2>3. NoRing(out) => NoRing(out')
    <3>1. CASE Taken
      BY <1>0, <2>1, <3>1, NoRingTail DEF Taken
    <3>2. CASE SofiaHangup
      <4>1. out' \in {<<>>, <<Report("CALL_ENDED", call_nh)>>, <<Report("CALL_CONNECTED", call_nh)>>}
        BY <1>0, <3>2, WindowCallsReport DEF WindowCalls
      <4> QED BY <4>1 DEF NoRing, Report
    <3> QED BY <2>2, <3>1, <3>2
  <2>4. Taken /\ NoRing(out') => NoRing(out)
    BY <1>0, <2>1, RingWaits DEF Taken
  <2>5. webrtc_session' # NoSession => webrtc_session' = webrtc_session
    BY <1>2 DEF OnRemoteSdp, OnReinviteSdp, OnCallConnected, mediaVars, fail_webrtc, clear_webrtc
  <2>6. webrtc_session' # NoSession =>
           FlagsAre(session'[webrtc_session], session[webrtc_session].user_muted,
                    session[webrtc_session].on_hold)
    <3>1. CASE OnReinviteSdp \/ OnCallConnected
      <4>1. UNCHANGED session
        BY <3>1 DEF OnReinviteSdp, OnCallConnected, sessionVars
      <4> QED BY <2>5, <4>1, KeptFlags
    <3>2. CASE OnRemoteSdp
      <4>1. PICK sdp \in PeerSdps :
               \/ UNCHANGED session
               \/ \E r \in apply_answer(session[webrtc_session], sdp) : \E p :
                     KeepSessions(With(webrtc_session, r.session), p)
        BY <3>2 DEF OnRemoteSdp
      <4>2. ASSUME NEW r \in apply_answer(session[webrtc_session], sdp), NEW p,
                   KeepSessions(With(webrtc_session, r.session), p),
                   webrtc_session' # NoSession
            PROVE  FlagsAre(session'[webrtc_session], session[webrtc_session].user_muted,
                            session[webrtc_session].on_hold)
        <5>1. webrtc_session \in Sessions /\ session[webrtc_session] \in Session
          BY <2>5, <4>2 DEF WindowTypes, MediaTypes, MaybeSession, MicsFollowFlags, AllQuiet
        <5>2. FlagsAre(r.session, session[webrtc_session].user_muted,
                       session[webrtc_session].on_hold)
          BY <5>1, NegotiationKeepsFlags DEF apply_answer
        <5> QED BY <2>5, <4>2, <5>1, <5>2, PutFlags
      <4> QED BY <2>5, <4>1, <4>2, KeptFlags
    <3> QED BY <1>2, <3>1, <3>2
  <2>7. FlagsAreButtons'
    <3>1. CASE Taken
      BY <2>1, <2>4, <2>5, <2>6, <3>1, FlagsStay DEF ScreenSilent
    <3>2. CASE webrtc_session' = NoSession
      BY <3>2 DEF FlagsAreButtons
    <3> QED BY <2>2, <3>1, <3>2
  <2> QED BY <2>1, <2>3, <2>7 DEF ScreenSilent, ClosedIsSilent, RingIsFresh, Silent
<1>3. CASE OnCallOver
  BY <1>3 DEF OnCallOver, clear_webrtc, ScreenSilent, ClosedIsSilent, RingIsFresh, Silent,
              FlagsAreButtons
<1> QED BY <1>1, <1>2, <1>3 DEF HandleSipEvent

\* Without a callback nothing rings.
LEMMA AskedIsQuiet ==
    ASSUME TypeOK, out = <<>>, UNCHANGED vars \/ Taken \/ WindowCalls
    PROVE  NoRing(out) /\ NoRing(out')
<1>1. out' \in {<<>>, <<Report("CALL_ENDED", call_nh)>>, <<Report("CALL_CONNECTED", call_nh)>>}
  BY WindowCallsReport DEF vars, Taken
<1> QED BY <1>1 DEF NoRing, Report

LEMMA UserKeepsSilent ==
    ASSUME EngineTypes, WindowTypes, MicsFollowFlags, ScreenSilent, out = <<>>, User
    PROVE  ScreenSilent'
<1>0. TypeOK /\ ButtonTypes /\ session \in [Sessions -> Session]
  BY DEF EngineTypes, WindowTypes, MicsFollowFlags, AllQuiet
<1>1. NoRing(out) /\ NoRing(out')
  <2>1. UNCHANGED vars \/ Taken \/ WindowCalls
    BY WindowSpares DEF Spares, WindowCalls
  <2> QED BY <1>0, <2>1, AskedIsQuiet
<1>2. RingIsFresh'
  BY <1>1 DEF RingIsFresh
<1>3. CASE StartCall
  <2>1. Silent /\ active' /\ UNCHANGED <<mute_button, hold_button>>
    BY <1>3 DEF StartCall, ScreenSilent, ClosedIsSilent
  <2>2. FlagsAreButtons'
    <3>1. ASSUME NEW s \in Sessions, NewWebrtc("offerer", s) PROVE FlagsAreButtons'
      BY <1>0, <2>1, <3>1, NewFlags DEF MaybeSession
    <3>2. CASE clear_webrtc
      BY <3>2 DEF clear_webrtc, FlagsAreButtons
    <3> QED BY <1>3, <3>1, <3>2 DEF StartCall
  <2> QED BY <1>2, <2>1, <2>2 DEF ScreenSilent, ClosedIsSilent
<1>4. CASE AnswerCall \/ HangupCall
  <2>1. /\ UNCHANGED <<active, mute_button, hold_button>>
        /\ webrtc_session' # NoSession => webrtc_session' = webrtc_session
        /\ UNCHANGED session \/ Kept
    BY <1>4 DEF AnswerCall, HangupCall, buttonVars, mediaVars, sessionVars, fail_webrtc, clear_webrtc
  <2>2. FlagsAreButtons'
    BY <1>1, <2>1, KeptFlags, FlagsStay DEF Kept, ScreenSilent
  <2> QED BY <1>2, <2>1, <2>2 DEF ScreenSilent, ClosedIsSilent, Silent
<1>5. ASSUME NEW on \in BOOLEAN, MuteToggled(on) \/ HoldToggled(on) PROVE ScreenSilent'
  <2>1. active /\ active' /\ UNCHANGED webrtc_session
    BY <1>5 DEF MuteToggled, HoldToggled, mediaVars
  <2>2. FlagsAreButtons'
    <3> SUFFICES ASSUME webrtc_session # NoSession
                 PROVE  FlagsAre(session'[webrtc_session], mute_button', hold_button')
      BY <2>1 DEF FlagsAreButtons
    <3>1. webrtc_session \in Sessions /\ session[webrtc_session] \in Session
      BY <1>0 DEF WindowTypes, MediaTypes, MaybeSession
    <3>2. FlagsAre(session[webrtc_session], mute_button, hold_button)
      BY <1>1 DEF ScreenSilent, FlagsAreButtons
    <3>3. \A x : With(webrtc_session, x)[webrtc_session] = x
      BY <1>0, <3>1 DEF With
    <3>4. CASE MuteToggled(on)
      <4>1. /\ mute_button' = on /\ hold_button' = hold_button
            /\ KeepSessions(With(webrtc_session, set_muted(session[webrtc_session], on)), peer)
        BY <3>4 DEF MuteToggled
      <4>2. session'[webrtc_session] = set_muted(session[webrtc_session], on)
        BY <2>1, <3>1, <3>3, <4>1, OwnIsKept
      <4> QED BY <3>1, <3>2, <4>1, <4>2, ToggleFlags DEF FlagsAre
    <3>5. CASE HoldToggled(on)
      <4>1. /\ hold_button' = on /\ mute_button' = mute_button
            /\ KeepSessions(With(webrtc_session, set_hold(session[webrtc_session], on)), peer)
        BY <3>5 DEF HoldToggled
      <4>2. session'[webrtc_session] = set_hold(session[webrtc_session], on)
        BY <2>1, <3>1, <3>3, <4>1, OwnIsKept
      <4> QED BY <3>1, <3>2, <4>1, <4>2, ToggleFlags DEF FlagsAre
    <3> QED BY <1>5, <3>4, <3>5
  <2> QED BY <1>2, <2>1, <2>2 DEF ScreenSilent, ClosedIsSilent
<1> QED BY <1>3, <1>4, <1>5 DEF User

LEMMA TaskKeepsSilent ==
    ASSUME EngineTypes, WindowTypes, MicsFollowFlags, ScreenSilent, out = <<>>,
           NEW i \in DOMAIN tasks, TaskReady(i)
    PROVE  ScreenSilent'
<1>0. TypeOK /\ tasks[i].session \in Sessions /\ Still(i) \in Session
  <2>1. tasks[i] \in Task
    BY DEF WindowTypes, TaskTypes
  <2> QED BY <2>1 DEF EngineTypes, Task, Still, MicsFollowFlags, AllQuiet
<1>1. NoRing(out) /\ NoRing(out')
  <2>1. UNCHANGED vars \/ Taken \/ WindowCalls
    <3>1. CASE AnswerPolled(i)
      BY <3>1 DEF AnswerPolled, fail_webrtc, WithActiveEngine, WindowCalls
    <3>2. ASSUME NEW described,
                 \/ OfferReady(i, described) \/ AnswerReady(i, described)
                 \/ HoldReady(i, described) \/ ReinviteReady(i, described)
          PROVE  UNCHANGED vars \/ Taken \/ WindowCalls
      BY <3>2 DEF OfferReady, AnswerReady, HoldReady, ReinviteReady, fail_webrtc,
                  WithActiveEngine, WindowCalls
    <3> QED BY <3>1, <3>2 DEF TaskReady
  <2> QED BY <1>0, <2>1, AskedIsQuiet
<1>2. /\ UNCHANGED <<active, mute_button, hold_button>>
      /\ webrtc_session' # NoSession => webrtc_session' = webrtc_session
  <2>1. CASE AnswerPolled(i)
    BY <2>1 DEF AnswerPolled, Resumed, buttonVars, mediaVars, fail_webrtc, clear_webrtc
  <2>2. ASSUME NEW described,
               \/ OfferReady(i, described) \/ AnswerReady(i, described)
               \/ HoldReady(i, described) \/ ReinviteReady(i, described)
        PROVE  /\ UNCHANGED <<active, mute_button, hold_button>>
               /\ webrtc_session' # NoSession => webrtc_session' = webrtc_session
    BY <2>2 DEF OfferReady, AnswerReady, HoldReady, ReinviteReady, Resumed, buttonVars,
                mediaVars, fail_webrtc, clear_webrtc
  <2> QED BY <2>1, <2>2 DEF TaskReady
<1>3. webrtc_session' # NoSession =>
         FlagsAre(session'[webrtc_session], session[webrtc_session].user_muted,
                  session[webrtc_session].on_hold)
  <2>1. ASSUME NEW described, OfferReady(i, described) \/ AnswerReady(i, described)
                              \/ HoldReady(i, described)
        PROVE  Kept
    BY <2>1 DEF OfferReady, AnswerReady, HoldReady
  <2>2. ASSUME NEW x, FlagsAre(x, Still(i).user_muted, Still(i).on_hold), KeepApplied(i, x)
        PROVE  webrtc_session' # NoSession =>
                  FlagsAre(session'[webrtc_session], session[webrtc_session].user_muted,
                           session[webrtc_session].on_hold)
    BY <1>0, <1>2, <2>2, PutFlags DEF KeepApplied, Still
  <2>3. CASE AnswerPolled(i)
    <3>1. PICK r \in create_answer(Still(i), tasks[i].sdp) : KeepApplied(i, r.session)
      BY <2>3 DEF AnswerPolled
    <3> QED BY <1>0, <2>2, <3>1, NegotiationKeepsFlags
  <2>4. ASSUME NEW described, ReinviteReady(i, described) PROVE KeepApplied(i, Still(i))
    BY <2>4 DEF ReinviteReady
  <2>5. FlagsAre(Still(i), Still(i).user_muted, Still(i).on_hold)
    BY DEF FlagsAre
  <2>6. Kept => (webrtc_session' # NoSession =>
                   FlagsAre(session'[webrtc_session], session[webrtc_session].user_muted,
                            session[webrtc_session].on_hold))
    BY <1>2, KeptFlags DEF Kept
  <2> QED BY <2>1, <2>2, <2>3, <2>4, <2>5, <2>6 DEF TaskReady
<1>4. FlagsAreButtons'
  BY <1>1, <1>2, <1>3, FlagsStay DEF ScreenSilent
<1> QED BY <1>1, <1>2, <1>4 DEF ScreenSilent, ClosedIsSilent, RingIsFresh, Silent

\* An INVITE that rings finds the screen closed, and so the toggles up.
LEMMA SofiaKeepsSilent ==
    ASSUME NoGlare, OneAfterOther, EngineTypes, WindowTypes, CallMedia, CallBehind, ScreenSilent,
           out = <<>>, NEW nh \in Handles, Sofia(nh)
    PROVE  ScreenSilent'
<1>1. UNCHANGED <<active, mute_button, hold_button, webrtc_session, session, tasks>>
  BY DEF Sofia, windowVars, buttonVars, mediaVars, sessionVars
<1>2. TypeOK /\ OneCall /\ NuaCb(nh) /\ TypeOK'
  BY TypeStep DEF EngineTypes, CallMedia, Sofia, Next
<1>3. ~NoRing(out') => Rang
  <2>1. out' \in Seq(Event)
    BY <1>2 DEF TypeOK
  <2> QED BY <2>1 DEF NoRing, Rang
<1>4. Rang => ~active
  <2> SUFFICES ASSUME Rang PROVE ~active
    OBVIOUS
  <2>1. call_nh = NoHandle
    BY <1>2, CallbackKeepsOne DEF EngineKeeps, RangAnew
  <2>2. ~Gathering /\ (webrtc_session # NoSession \/ ~active)
    BY DEF Sofia, OneAfterOther
  <2>3. webrtc_session = NoSession
    BY <2>1, <2>2, QuietIsOpen DEF CallBehind, MediaHasCall
  <2> QED BY <2>2, <2>3
<1>5. NoRing(out)
  BY DEF NoRing
<1> QED BY <1>1, <1>3, <1>4, <1>5 DEF ScreenSilent, ClosedIsSilent, RingIsFresh, Silent,
                                      FlagsAreButtons

\* Where nothing of one call overlaps the next, the microphone of the call on the screen
\* is what the two toggles say: whenever they were pressed, whichever side called, and
\* whatever was renegotiated since.
THEOREM MicIsTheButtons ==
    ASSUME NoGlare, OneAfterOther PROVE PhoneSpec => []MicFollowsButtons
<1>0. OneAtATime
  BY DEF OneAfterOther, OneAtATime
<1>1. PhoneInit => CallBehind /\ ScreenSilent
  BY DEF PhoneInit, Init, CallBehind, RingHasCall, MediaHasCall, NoRing, ScreenSilent,
         ClosedIsSilent, RingIsFresh, Silent, FlagsAreButtons
<1>2. EngineTypes /\ WindowTypes /\ CallBehind /\ [PhoneNext]_phoneVars => CallBehind'
  BY CallBehindKept
<1>3. EngineTypes /\ WindowTypes /\ CallMedia /\ MicsFollowFlags /\ CallBehind /\ ScreenSilent
      /\ [PhoneNext]_phoneVars => ScreenSilent'
  <2> SUFFICES ASSUME EngineTypes, WindowTypes, CallMedia, MicsFollowFlags, CallBehind,
                      ScreenSilent, [PhoneNext]_phoneVars
               PROVE  ScreenSilent'
    OBVIOUS
  <2>1. CASE UNCHANGED phoneVars
    BY <2>1 DEF phoneVars, vars, windowVars, buttonVars, mediaVars, sessionVars, ScreenSilent,
                ClosedIsSilent, RingIsFresh, Silent, FlagsAreButtons, NoRing, FlagsAre
  <2> QED BY <2>1, EventKeepsSilent, UserKeepsSilent, TaskKeepsSilent, SofiaKeepsSilent
          DEF PhoneNext
<1>4. WindowTypes /\ MicsFollowFlags /\ ScreenSilent => MicFollowsButtons
  <2> SUFFICES ASSUME WindowTypes, MicsFollowFlags, ScreenSilent, out = <<>>,
                      webrtc_session # NoSession, session[webrtc_session].mic # "none"
               PROVE  session[webrtc_session].mic
                         = IF mute_button \/ hold_button THEN "muted" ELSE "live"
    BY DEF MicFollowsButtons, AtRest
  <2>1. webrtc_session \in Sessions
    BY DEF WindowTypes, MediaTypes, MaybeSession
  <2>2. FlagsAre(session[webrtc_session], mute_button, hold_button)
    BY DEF ScreenSilent, FlagsAreButtons, NoRing
  <2> QED BY <2>1, <2>2 DEF MicsFollowFlags, AllQuiet, Quiet, FlagsAre
<1>5. PhoneSpec => [](EngineTypes /\ WindowTypes /\ CallMedia)
  BY <1>0, CallMediaInvariant
<1> QED BY <1>1, <1>2, <1>3, <1>4, <1>5, MicsStayQuiet, PTL DEF PhoneSpec
=============================================================================
