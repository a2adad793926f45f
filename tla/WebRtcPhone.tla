---------------------------- MODULE WebRtcPhone ----------------------------
(***************************************************************************)
(* One WebRTC account of the phone: SipGlue with webrtcbin's SDP, composed *)
(* with the sessions of webrtc.rs and the half of src/src/window.rs that   *)
(* negotiates them.                                                        *)
(*                                                                         *)
(* Dialling, answering, holding and answering a re-INVITE each run a task  *)
(* on the main loop that awaits webrtcbin.  A task keeps its session alive *)
(* and is never cancelled; when it goes on it asks the window's state of   *)
(* that moment which call it is about.                                     *)
(*                                                                         *)
(* Transfers need no session of their own and are SoftPhone's; the window  *)
(* refuses a consultation on such an account (412-424).                    *)
(***************************************************************************)
EXTENDS SipGlue, WebrtcSession

CONSTANTS
    Sessions,    \* identities of the sessions alive at a time
    NoSession,
    PeerSdps,    \* SDPs a peer may send
    Races,       \* what may overlap, see below
    MaxTasks     \* bound: tasks at a time

(***************************************************************************)
(* Overlaps a configuration may admit:                                     *)
(*   stale     a call starts while tasks of an earlier one still run       *)
(*   crossed   an INVITE arrives while an offer of ours gathers candidates *)
(*   stuck     an INVITE arrives when a failed offer has left the call     *)
(*             screen open without a call                                  *)
(* In Failing, "offer" is an outgoing call's session or offer.             *)
(***************************************************************************)
ASSUME WebRtcAssumption ==
    /\ WebRtc /\ NoSession \notin Sessions
    /\ Races \subseteq {"stale", "crossed", "stuck"} /\ MaxTasks \in Nat

VARIABLES
    active,                 \* active_account_id is set, and the call screen revealed
    answer_button, hold_button, mute_button,   \* as SoftPhone's
    webrtc_session, sdp_role,
    pending_remote_offer,   \* <<leg, SDP>>, or <<>>
    session,                \* the sessions' states
    peer,                   \* the leg whose SDP a session applied, or NoHandle
    tasks,                  \* in the order they were spawned
    given_up                \* the user clicked Hang up and there was no call to end

buttonVars == <<active, answer_button, hold_button, mute_button>>
mediaVars == <<webrtc_session, sdp_role, pending_remote_offer>>
sessionVars == <<session, peer, tasks>>
windowVars == <<buttonVars, mediaVars, sessionVars, given_up>>
phoneVars == <<vars, windowVars>>

\* `leg' tells the call whose SDP a task has; the code's tasks do not know it.  Only
\* create_answer looks into the SDP.
Task == [kind : {"offer", "answer", "answering", "hold", "reinvite"}, session : Sessions,
         leg : MaybeHandle, sdp : PeerSdps \cup {<<>>}]

PhoneInit ==
    /\ Init
    /\ active = FALSE /\ answer_button = FALSE /\ hold_button = FALSE /\ mute_button = FALSE
    /\ webrtc_session = NoSession /\ sdp_role = "none" /\ pending_remote_offer = <<>>
    /\ session = [s \in Sessions |-> NewSession] /\ peer = [s \in Sessions |-> NoHandle]
    /\ tasks = <<>> /\ given_up = FALSE

-----------------------------------------------------------------------------
Dropped(i) == SubSeq(tasks, 1, i - 1) \o SubSeq(tasks, i + 1, Len(tasks))
TaskSessions == {tasks[i].session : i \in DOMAIN tasks}

\* The sessions' states become s; one whose last Rc is gone is dropped.
KeepSessions(s, p) ==
    \E alive \in {TaskSessions' \cup {webrtc_session'}} :
        /\ session' = [i \in Sessions |-> IF i \in alive THEN s[i] ELSE NewSession]
        /\ peer' = [i \in Sessions |-> IF i \in alive THEN p[i] ELSE NoHandle]

Kept == KeepSessions(session, peer)
With(s, x) == [session EXCEPT ![s] = x]
PeerWith(s, h) == [peer EXCEPT ![s] = h]
Spawn(kind, s, h, sdp) ==
    tasks' = Append(tasks, [kind |-> kind, session |-> s, leg |-> h, sdp |-> sdp])

\* Mutant of clear_webrtc: the role and the offer only.
ClearRoleOnly == webrtc_session' = webrtc_session /\ pending_remote_offer' = <<>> /\ sdp_role' = "none"

clear_webrtc == webrtc_session' = NoSession /\ pending_remote_offer' = <<>> /\ sdp_role' = "none"

Taking(ev) == out # <<>> /\ Head(out).ev = ev

\* The engine is not called; the event of `out' that was handled, if one was, is gone.
Taken == /\ out' = IF out = <<>> THEN out ELSE Tail(out)
         /\ UNCHANGED <<callVars, rtpVars, consultVars, transfer_in_progress, leg>>

\* with_active_engine.  A is what the engine does where `can' holds, and else nothing.
\* A handler that calls the engine handles the last event there is.
WithActiveEngine(can, A) == IF active /\ can THEN A ELSE Taken

\* Mutant of fail_webrtc: only the media goes.
FailQuietly == Taken /\ clear_webrtc

fail_webrtc == WithActiveEngine(TRUE, SofiaHangup) /\ clear_webrtc

-----------------------------------------------------------------------------
(***************************************************************************)
(* handle_sip_event                                                        *)
(***************************************************************************)
\* A new session as the window's, or no session when it cannot be made.
NewWebrtc(role, s) ==
    /\ webrtc_session' = s /\ pending_remote_offer' = <<>>
    /\ sdp_role' = IF s = NoSession THEN "none" ELSE role
    /\ s \notin TaskSessions
    /\ KeepSessions([session EXCEPT ![s] = NewSession], [peer EXCEPT ![s] = NoHandle])

OnIncomingCall ==
    /\ Taking("INCOMING_CALL") /\ Taken
    /\ UNCHANGED tasks
    /\ \E s \in Sessions \cup (IF "new" \in Failing THEN {NoSession} ELSE {}) :
          NewWebrtc("answerer", s)
    /\ active' = TRUE /\ answer_button' = TRUE /\ given_up' = FALSE
    /\ UNCHANGED <<hold_button, mute_button>>

OnRemoteSdp ==
    /\ Taking("REMOTE_SDP")
    /\ UNCHANGED <<buttonVars, tasks, given_up>>
    /\ \E sdp \in PeerSdps :
        \/ webrtc_session = NoSession /\ Taken /\ UNCHANGED <<mediaVars, session, peer>>
        \/ /\ sdp_role = "offerer"
           /\ \E r \in apply_answer(session[webrtc_session], sdp) :
                /\ IF r.ok THEN Taken /\ UNCHANGED mediaVars ELSE fail_webrtc
                /\ KeepSessions(With(webrtc_session, r.session),
                                PeerWith(webrtc_session, Head(out).leg))
        \/ /\ sdp_role = "answerer" /\ Taken
           /\ pending_remote_offer' = <<Head(out).leg, sdp>>
           /\ UNCHANGED <<webrtc_session, sdp_role, session, peer>>

OnReinviteSdp ==
    /\ Taking("REINVITE_SDP") /\ Taken
    /\ IF webrtc_session = NoSession THEN UNCHANGED tasks
       ELSE Spawn("reinvite", webrtc_session, Head(out).leg, <<>>)
    /\ UNCHANGED <<buttonVars, mediaVars, session, peer, given_up>>

OnCallConnected ==
    /\ Taking("CALL_CONNECTED") /\ Taken
    /\ answer_button' = FALSE
    /\ UNCHANGED <<active, hold_button, mute_button, mediaVars, sessionVars, given_up>>

\* CallEnded and CallFailed.  stop_timer releases the toggles after the
\* session is gone.
OnCallOver ==
    /\ Taking("CALL_ENDED") \/ Taking("CALL_FAILED")
    /\ Taken
    /\ clear_webrtc /\ UNCHANGED tasks /\ Kept
    /\ active' = FALSE /\ hold_button' = FALSE /\ mute_button' = FALSE
    /\ given_up' = FALSE
    /\ UNCHANGED answer_button

HandleSipEvent ==
    \/ OnIncomingCall \/ OnRemoteSdp \/ OnReinviteSdp
    \/ OnCallConnected \/ OnCallOver

-----------------------------------------------------------------------------
(***************************************************************************)
(* The user.                                                               *)
(***************************************************************************)
RoomForTask == Len(tasks) < MaxTasks

\* start_call, once the engine has released the last call (SoftPhone has the other
\* case).  The INVITE waits for the offer.  Without a session fail_webrtc finds
\* no call to hang up either, and the call screen stays.
StartCall ==
    /\ ~active /\ call_nh = NoHandle /\ RoomForTask
    /\ "stale" \in Races \/ tasks = <<>>
    /\ active' = TRUE /\ answer_button' = FALSE /\ given_up' = FALSE
    /\ UNCHANGED <<hold_button, mute_button, vars>>
    /\ \/ \E s \in Sessions : /\ Spawn("offer", s, NoHandle, <<>>)
                              /\ NewWebrtc("offerer", s)
       \/ "offer" \in Failing /\ clear_webrtc /\ UNCHANGED tasks /\ Kept

\* answer_call.  The button stays until CALL_CONNECTED and may be clicked again.
AnswerCall ==
    /\ active /\ answer_button /\ RoomForTask
    /\ UNCHANGED <<buttonVars, given_up>>
    /\ IF webrtc_session # NoSession /\ pending_remote_offer # <<>>
       THEN /\ Spawn("answer", webrtc_session, pending_remote_offer[1], pending_remote_offer[2])
            /\ UNCHANGED <<vars, mediaVars, session, peer>>
       ELSE fail_webrtc /\ UNCHANGED tasks /\ Kept

HangupCall ==
    /\ active /\ SofiaHangup
    /\ given_up' = (call_nh = NoHandle)
    /\ UNCHANGED <<buttonVars, mediaVars, sessionVars>>

MuteToggled(muted) ==
    /\ active /\ mute_button # muted /\ mute_button' = muted
    /\ UNCHANGED <<vars, active, answer_button, hold_button, mediaVars, tasks, given_up>>
    /\ IF webrtc_session = NoSession THEN UNCHANGED <<session, peer>>
       ELSE KeepSessions(With(webrtc_session, set_muted(session[webrtc_session], muted)), peer)

\* Mutant of HoldToggled: it renegotiates without a session, too.
HoldToggledAnyway(hold) ==
    /\ active /\ hold_button # hold /\ hold_button' = hold /\ RoomForTask
    /\ IF CanHold THEN SofiaSetHold(hold) ELSE UNCHANGED vars
    /\ UNCHANGED <<active, answer_button, mute_button, mediaVars, given_up>>
    /\ Spawn("hold", webrtc_session, NoHandle, <<>>)
    /\ IF webrtc_session = NoSession THEN UNCHANGED <<session, peer>>
       ELSE KeepSessions(With(webrtc_session, set_hold(session[webrtc_session], hold)), peer)

HoldToggled(hold) ==
    /\ active /\ hold_button # hold /\ hold_button' = hold /\ RoomForTask
    /\ IF CanHold THEN SofiaSetHold(hold) ELSE UNCHANGED vars
    /\ UNCHANGED <<active, answer_button, mute_button, mediaVars, given_up>>
    /\ IF webrtc_session = NoSession THEN UNCHANGED sessionVars
       ELSE /\ Spawn("hold", webrtc_session, NoHandle, <<>>)
            /\ KeepSessions(With(webrtc_session, set_hold(session[webrtc_session], hold)), peer)

User ==
    \/ StartCall \/ AnswerCall \/ HangupCall
    \/ \E on \in BOOLEAN : MuteToggled(on) \/ HoldToggled(on)

-----------------------------------------------------------------------------
(***************************************************************************)
(* The tasks, from what webrtcbin replies to their end.                    *)
(***************************************************************************)
\* Task i goes on to its end.
Resumed(i, kind) ==
    /\ i \in DOMAIN tasks /\ tasks[i].kind = kind
    /\ tasks' = Dropped(i)
    /\ UNCHANGED <<buttonVars, given_up>>

\* Its session is then in state s, and has applied the peer's SDP.
KeepApplied(i, s) ==
    KeepSessions(With(tasks[i].session, s), PeerWith(tasks[i].session, tasks[i].leg))

Still(i) == session[tasks[i].session]

OfferReady(i, described) ==
    /\ Resumed(i, "offer")
    /\ IF webrtc_session = NoSession THEN UNCHANGED <<vars, mediaVars>>
       ELSE IF described THEN SofiaCall /\ UNCHANGED mediaVars
       ELSE fail_webrtc
    /\ Kept

\* What create_answer does before its first await, and the end of a task it fails.
AnswerPolled(i) ==
    /\ tasks[i].kind = "answer"
    /\ \E r \in create_answer(Still(i), tasks[i].sdp) :
        /\ IF r.ok
           THEN /\ tasks' = [tasks EXCEPT ![i].kind = "answering"]
                /\ UNCHANGED <<vars, buttonVars, mediaVars, given_up>>
           ELSE /\ Resumed(i, "answer")
                /\ IF webrtc_session = NoSession THEN UNCHANGED <<vars, mediaVars>> ELSE fail_webrtc
        /\ KeepApplied(i, r.session)

AnswerReady(i, described) ==
    /\ Resumed(i, "answering")
    /\ IF webrtc_session = NoSession THEN UNCHANGED <<vars, mediaVars>>
       ELSE IF described
       THEN WithActiveEngine(call_nh # NoHandle, SofiaAnswer) /\ UNCHANGED mediaVars
       ELSE fail_webrtc
    /\ Kept

\* A failure only shows a toast: the microphone is silent already.
HoldReady(i, described) ==
    /\ Resumed(i, "hold")
    /\ WithActiveEngine(CanHold /\ described, SofiaReinviteSdp)
    /\ UNCHANGED mediaVars
    /\ Kept

\* Mutant of ReinviteReady: a failure only shows a toast.
ReinviteReadyToast(i, described) ==
    /\ Resumed(i, "reinvite")
    /\ WithActiveEngine(call_nh # NoHandle /\ described, SofiaRespondSdp)
    /\ UNCHANGED mediaVars
    /\ KeepApplied(i, Still(i))

ReinviteReady(i, described) ==
    /\ Resumed(i, "reinvite")
    /\ IF described
       THEN WithActiveEngine(call_nh # NoHandle, SofiaRespondSdp) /\ UNCHANGED mediaVars
       ELSE fail_webrtc
    /\ KeepApplied(i, Still(i))

TaskReady(i) ==
    \/ AnswerPolled(i)
    \/ \E described \in {TRUE} \cup (IF "offer" \in Failing THEN {FALSE} ELSE {}) :
          OfferReady(i, described)
    \/ \E described \in Described :
          AnswerReady(i, described) \/ HoldReady(i, described) \/ ReinviteReady(i, described)

-----------------------------------------------------------------------------
\* Handles that something here still remembers: no new call gets one of them.
Remembered == {tasks[i].leg : i \in DOMAIN tasks}
              \cup {peer[s] : s \in Sessions} \cup {o[1] : o \in {pending_remote_offer} \ {<<>>}}

Started == {h \in Handles : leg[h].st = "idle" /\ leg'[h].st # "idle"}

Gathering == \E i \in DOMAIN tasks : tasks[i].kind = "offer"

Rang == \E i \in DOMAIN out' : out'[i].ev = "INCOMING_CALL"
Reinvited == \E i \in DOMAIN out' : out'[i].ev = "REINVITE_SDP"

Sofia(nh) ==
    /\ NuaCb(nh) /\ UNCHANGED windowVars
    /\ Rang => /\ "stale" \in Races \/ tasks = <<>> \/ Gathering
               /\ "crossed" \in Races \/ ~Gathering
               /\ "stuck" \in Races \/ webrtc_session # NoSession \/ ~active
               /\ Sessions \ TaskSessions # {}
    /\ Reinvited => RoomForTask

PhoneNext ==
    /\ \/ HandleSipEvent
       \/ out = <<>> /\ (User \/ (\E i \in DOMAIN tasks : TaskReady(i))
                              \/ \E nh \in Handles : Sofia(nh))
    /\ Started \cap Remembered = {}

PhoneSpec == PhoneInit /\ [][PhoneNext]_phoneVars

(***************************************************************************)
(* Fairness.  Events reach the window, webrtcbin keeps or breaks its       *)
(* promises and gathers to an end, and every request of ours gets its      *)
(* final answer.  Tasks and callbacks share the loop with all else, hence  *)
(* SF.  The user and the peer need not do anything.                        *)
(***************************************************************************)
Callback(A) == out = <<>> /\ A /\ UNCHANGED windowVars

PhoneFairness ==
    /\ WF_phoneVars(HandleSipEvent)
    /\ SF_phoneVars(out = <<>> /\ tasks # <<>> /\ TaskReady(1) /\ Started \cap Remembered = {})
    /\ \A nh \in Handles :
        /\ SF_phoneVars(Callback(RBye(nh)))
        /\ SF_phoneVars(Callback(leg[nh].st = "cancelled" /\ RInviteRefused(nh)))

FairPhoneSpec == PhoneSpec /\ PhoneFairness

-----------------------------------------------------------------------------
(***************************************************************************)
(* Properties.  "At rest" is between two handlers.                         *)
(***************************************************************************)
AtRest == out = <<>>
Answers(i, h) == tasks[i].kind \in {"answer", "answering"} /\ tasks[i].leg = h

\* Every variable has its type.
WebRtcTypeOK ==
    /\ TypeOK
    /\ {active, answer_button, hold_button, mute_button, given_up} \subseteq BOOLEAN
    /\ webrtc_session \in Sessions \cup {NoSession}
    /\ sdp_role \in {"none", "offerer", "answerer"}
    /\ pending_remote_offer \in {<<>>} \cup (Handles \X PeerSdps)
    /\ session \in [Sessions -> Session]
    /\ peer \in [Sessions -> MaybeHandle]
    /\ tasks \in Seq(Task) /\ Len(tasks) <= MaxTasks

\* The microphone of the call on the screen is what the two buttons say, whether they
\* were pressed before or after the codec was known and the send chain built
\* (webrtc.rs 586), and whatever else was negotiated in between.
MicFollowsButtons ==
    AtRest /\ webrtc_session # NoSession /\ session[webrtc_session].mic # "none" =>
        session[webrtc_session].mic = IF mute_button \/ hold_button THEN "muted" ELSE "live"

\* The media session and its role live exactly as long as each other and not longer
\* than the call screen; an offer is kept for an incoming call only (window.rs 590-594).
SessionHasCall ==
    AtRest => /\ webrtc_session # NoSession => active
              /\ (webrtc_session = NoSession) <=> (sdp_role = "none")
              /\ pending_remote_offer # <<>> => sdp_role = "answerer"

\* The session the window shows talks to the peer of the primary call: no answer or
\* offer of another leg is ever applied to it.
MediaOfCall ==
    AtRest /\ webrtc_session # NoSession => peer[webrtc_session] \in {call_nh, NoHandle}

\* window.rs 845-846: an incoming call is held until the user answers that call.
OnlyAnsweredGoesUp ==
    [][\A h \in Handles : leg[h].st = "ringing" /\ leg'[h].st = "up" =>
           \E i \in DOMAIN tasks : Answers(i, h)]_phoneVars

\* window.rs 1190: a call the user hung up while ICE was gathering is not dialled.
HungUpIsNotDialled ==
    [][\A h \in Handles : leg[h].st = "idle" /\ leg'[h].st = "calling" => ~given_up]_phoneVars

\* An answer the user asked for comes to an end: the call is up, or it is refused or
\* gone; a negotiation that fails never leaves the caller ringing (window.rs 1226).
AnswerConcludes ==
    \A h \in Handles :
        (leg[h].st = "ringing" /\ \E i \in DOMAIN tasks : Answers(i, h)) ~> leg[h].st # "ringing"

\* glue.c 865-868 defers the answer to a re-INVITE: it is given, or the call ends.
ReinviteAnswered == \A h \in Handles : leg[h].owed ~> ~leg[h].owed

-----------------------------------------------------------------------------
SmallSdps ==
    [fmts : UNION {[1 .. n -> {0, 8, 96, 111}] : n \in 0 .. 2},
     rtpmap : UNION {[1 .. n -> {0, 96} \X {"OPUS", "PCMA", "G722"}] : n \in 0 .. 2},
     dir : {"sendrecv"}]

CodecsAgree ==
    \A offer \in SmallSdps \cup {OurOffer} :
        LET chosen == resolve_codec(offer)
        IN  chosen # <<>> => /\ resolve_codec(OurAnswer(chosen)) = chosen
                             /\ \E i \in DOMAIN offer.fmts : offer.fmts[i] = chosen[2]

\* Where this phone answers, the two agree: what the caller resolves from our answer to
\* its offer is the codec we built our chain for, under a payload type the caller
\* offered, whatever the offer of up to two formats says.
NegotiationAgrees == sdp_role = "answerer" => CodecsAgree
=============================================================================
