------------------------------ MODULE SipGlue ------------------------------
(***************************************************************************)
(* The call half of src/src/sip/glue.c: one SofiaCtx, i.e. one account's   *)
(* primary call, its consultation leg, the attended and blind transfer and *)
(* the hand-written digest retry of INVITE.  REGISTER has its own handle   *)
(* and flags and is left to a module of its own.                           *)
(*                                                                         *)
(* glue.c is a set of handlers over one struct: nua_cb runs one case per   *)
(* sofia-sip event, and the sofia_*() functions run when the window calls  *)
(* them.  All of it happens on the GLib main thread, so a handler is one   *)
(* action.  Events for the window go out by a synchronous callback; `out'  *)
(* holds the events the last handler fired, in order.                      *)
(*                                                                         *)
(* sofia-sip and the peers are external: `leg' is what they know of each   *)
(* nua handle.  nua_handle_unref() drops the pointer only: it sends        *)
(* nothing, and the leg it leaves behind goes on and still reports.        *)
(***************************************************************************)
EXTENDS Sequences, FiniteSets

CONSTANTS
    Handles,    \* the nua handles there may be at a time
    NoHandle,   \* NULL
    WebRtc,     \* ctx->webrtc: the SDP is webrtcbin's, not glue.c's
    Env         \* what the network and the peers may do beyond an orderly call

(***************************************************************************)
(* The behaviours of the environment that a configuration may admit:       *)
(*   cancel_race    a final answer or challenge crosses our CANCEL         *)
(*   bye_glare      the peer's BYE crosses ours                            *)
(*   reinvite_fail  our re-INVITE is refused or challenged                 *)
(*   leg_reinvite   the peer of a leg other than the primary re-INVITEs    *)
(*   sdp_less       an INVITE or a 2xx carries no SDP                      *)
(*   error          nua_i_error on a live leg (a transaction timed out)    *)
(*   refer_other    a transfer ends with a 3xx or 6xx sipfrag              *)
(*   redial         the user dials while a call is on the screen           *)
(*   audio_error    GStreamer cannot start a media session                 *)
(***************************************************************************)
AllEnv == {"cancel_race", "bye_glare", "reinvite_fail", "leg_reinvite", "sdp_less",
           "error", "refer_other", "redial", "audio_error"}

ASSUME ConstantsAssumption ==
    /\ NoHandle \notin Handles
    /\ WebRtc \in BOOLEAN
    /\ Env \subseteq AllEnv

VARIABLES
    call_nh, call_established, call_is_incoming, call_on_hold, call_auth_tried,
    local_rtp,      \* local_rtp_port > 0
    remote_rtp,     \* the leg whose SDP gave remote_rtp_ip/port, NoHandle for 0
    consult_nh, consult_established, consult_auth_tried, consult_ended,
    consult_to,     \* consult_to # NULL
    consult_dialog, \* the leg consult_call_id and the two tags name
    consult_rtp,    \* as remote_rtp, for the consultation
    transfer_in_progress,
    leg, out

callVars == <<call_nh, call_established, call_is_incoming, call_on_hold, call_auth_tried>>
rtpVars == <<local_rtp, remote_rtp>>
consultVars == <<consult_nh, consult_established, consult_auth_tried,
                 consult_ended, consult_to, consult_dialog, consult_rtp>>
vars == <<callVars, rtpVars, consultVars, transfer_in_progress, leg, out>>

MaybeHandle == Handles \cup {NoHandle}

-----------------------------------------------------------------------------
(***************************************************************************)
(* sofia-sip and the peers.  A leg is                                      *)
(*   st     idle, calling (our INVITE is out), cancelled (and our CANCEL), *)
(*          ringing (theirs is in), up, closing (our BYE is out)           *)
(*   reinv  our re-INVITE is unanswered                                    *)
(*   owed   their re-INVITE is unanswered                                  *)
(*   refer  none, sent, accepted (a final NOTIFY is still to come)         *)
(*   dir    the media direction we last signalled                          *)
(*   retry  this INVITE carries our digest answer                          *)
(***************************************************************************)
LegStates == {"idle", "calling", "cancelled", "ringing", "up", "closing"}

Leg == [st : LegStates, reinv : BOOLEAN, owed : BOOLEAN,
        refer : {"none", "sent", "accepted"},
        dir : {"none", "sendrecv", "sendonly"}, retry : BOOLEAN]

IdleLeg == [st |-> "idle", reinv |-> FALSE, owed |-> FALSE, refer |-> "none",
            dir |-> "none", retry |-> FALSE]

CallingLeg(retry) == [IdleLeg EXCEPT !.st = "calling", !.dir = "sendrecv", !.retry = retry]

\* Handles a new dialog may get: nothing remembers them.
Free == {h \in Handles : /\ leg[h] = IdleLeg
                         /\ h \notin {call_nh, consult_nh, consult_dialog,
                                      remote_rtp, consult_rtp}}

\* Legs after nua_bye, nua_cancel, nua_invite (re-INVITE) and nua_refer on h.
NuaBye(l, h) == IF l[h].st = "up" THEN [l EXCEPT ![h].st = "closing"] ELSE l
NuaCancel(l, h) == IF l[h].st = "calling" THEN [l EXCEPT ![h].st = "cancelled"] ELSE l
NuaReinvite(l, h, d) ==
    IF l[h].st = "up" THEN [l EXCEPT ![h].reinv = TRUE, ![h].dir = d] ELSE l
NuaRefer(l, h) == IF l[h].refer = "none" THEN [l EXCEPT ![h].refer = "sent"] ELSE l

\* Our 200 to an INVITE or a re-INVITE on h.
NuaAccept(l, h) ==
    [l EXCEPT ![h].st = IF @ = "ringing" THEN "up" ELSE @,
              ![h].owed = FALSE, ![h].dir = "sendrecv"]

\* The dialog is over; the REFER's implicit subscription outlives it.
Over(l, h) == [l EXCEPT ![h] = [IdleLeg EXCEPT !.refer = l[h].refer]]

Inviting(h) == leg[h].st = "calling" \/ (leg[h].st = "cancelled" /\ "cancel_race" \in Env)
Reinviting(h) == leg[h].reinv /\ "reinvite_fail" \in Env

\* A refused INVITE ends its dialog, a refused re-INVITE leaves it as it was.
Refused(h) == IF leg[h].st \in {"calling", "cancelled"}
              THEN Over(leg, h) ELSE [leg EXCEPT ![h].reinv = FALSE]

HasSdp == IF "sdp_less" \in Env THEN BOOLEAN ELSE {TRUE}

-----------------------------------------------------------------------------
Events == {"INCOMING_CALL", "CALL_CONNECTED", "CALL_MEDIA", "CALL_ENDED", "CALL_FAILED",
           "REMOTE_SDP", "REINVITE_SDP", "TRANSFER_OK", "TRANSFER_FAILED",
           "CONSULT_CONNECTED", "CONSULT_MEDIA", "CONSULT_REMOTE_SDP", "CONSULT_ENDED"}

\* ctx->cb.  The code's events carry no handle: `leg' is the one the handler ran
\* for or, for the two media events, the one whose RTP address it reports.
Event == [ev : Events, leg : MaybeHandle]
Fire(ev, h) == <<[ev |-> ev, leg |-> h]>>

FireSdp(ev, h, sdp) == IF WebRtc /\ sdp THEN Fire(ev, h) ELSE <<>>
FireMedia(ev, src) == IF src # NoHandle THEN Fire(ev, src) ELSE <<>>

\* extract_rtp_into: without a body the stored address stays.
Extract(sdp, h, old) == IF sdp THEN h ELSE old

\* drop_consult_leg, starting from the legs l.  It keeps the handle, and
\* consult_ended makes the handler that releases it stay silent.
DroppedLegs(l) ==
    IF consult_nh = NoHandle THEN l
    ELSE IF consult_established THEN NuaBye(l, consult_nh) ELSE NuaCancel(l, consult_nh)

DropConsultLeg(l) ==
    /\ leg' = DroppedLegs(l)
    /\ consult_ended' = (consult_ended \/ consult_nh # NoHandle)
    /\ consult_established' = (consult_established /\ consult_nh = NoHandle)

Release(nh) == call_nh' = IF call_nh = nh THEN NoHandle ELSE call_nh

\* Mutant of ConsultGone: the test of consult_ended is inverted.
ConsultGoneInverted(nh) == IF consult_ended THEN Fire("CONSULT_ENDED", nh) ELSE <<>>

\* The event of a consultation that ends, unless the window was told already.
ConsultGone(nh) == IF consult_ended THEN <<>> ELSE Fire("CONSULT_ENDED", nh)

\* Mutant of ClearCall: the address of the call's peer stays.
ClearCallButMedia ==
    /\ call_established' = FALSE /\ call_on_hold' = FALSE
    /\ local_rtp' = FALSE /\ UNCHANGED remote_rtp

\* What the end of the primary call resets.
ClearCall ==
    /\ call_established' = FALSE /\ call_on_hold' = FALSE
    /\ local_rtp' = FALSE /\ remote_rtp' = NoHandle

\* What a new primary call resets.
FreshCall(incoming) ==
    /\ call_established' = FALSE /\ call_auth_tried' = FALSE
    /\ call_on_hold' = FALSE /\ call_is_incoming' = incoming

-----------------------------------------------------------------------------
Init ==
    /\ call_nh = NoHandle /\ consult_nh = NoHandle
    /\ call_established = FALSE /\ call_is_incoming = FALSE
    /\ call_on_hold = FALSE /\ call_auth_tried = FALSE
    /\ local_rtp = FALSE /\ remote_rtp = NoHandle
    /\ consult_established = FALSE /\ consult_auth_tried = FALSE
    /\ consult_ended = FALSE /\ consult_to = FALSE
    /\ consult_dialog = NoHandle /\ consult_rtp = NoHandle
    /\ transfer_in_progress = FALSE
    /\ leg = [h \in Handles |-> IdleLeg]
    /\ out = <<>>

-----------------------------------------------------------------------------
(***************************************************************************)
(* nua_r_invite: the answers to our INVITEs and re-INVITEs.                *)
(***************************************************************************)
ConsultAnswered(nh, sdp) ==
    /\ UNCHANGED <<callVars, rtpVars, consult_nh, consult_auth_tried, consult_ended,
                   consult_to, transfer_in_progress>>
    /\ IF consult_established
       THEN /\ out' = <<>>
            /\ UNCHANGED <<consult_established, consult_rtp, consult_dialog>>
       ELSE /\ consult_established' = TRUE
            /\ consult_rtp' = Extract(sdp, nh, consult_rtp)
            /\ consult_dialog' = nh
            /\ out' = Fire("CONSULT_CONNECTED", nh) \o
                      (IF WebRtc THEN FireSdp("CONSULT_REMOTE_SDP", nh, sdp)
                                 ELSE FireMedia("CONSULT_MEDIA", consult_rtp'))

CallAnswered(nh, sdp) ==
    /\ UNCHANGED <<call_nh, call_is_incoming, call_on_hold, call_auth_tried, local_rtp,
                   consultVars, transfer_in_progress>>
    /\ IF call_established
       THEN out' = <<>> /\ UNCHANGED <<call_established, remote_rtp>>
       ELSE /\ call_established' = TRUE
            /\ remote_rtp' = Extract(sdp, nh, remote_rtp)
            /\ out' = Fire("CALL_CONNECTED", nh) \o
                      (IF WebRtc THEN FireSdp("REMOTE_SDP", nh, sdp)
                       ELSE IF local_rtp THEN FireMedia("CALL_MEDIA", remote_rtp') ELSE <<>>)

RInviteOk(nh, sdp) ==
    /\ Inviting(nh) \/ leg[nh].reinv
    /\ leg' = [leg EXCEPT ![nh].st = IF leg[nh].reinv THEN @ ELSE "up", ![nh].reinv = FALSE]
    /\ IF nh = consult_nh THEN ConsultAnswered(nh, sdp) ELSE CallAnswered(nh, sdp)

\* Mutant of GiveUp: nothing limits the retries.
GiveUpUnchallenged(tried, challenge) == ~challenge

\* A challenge is answered once, and only when it says what to answer.
GiveUp(tried, challenge) == tried \/ ~challenge

\* invite_with_digest.  The retry is a new handle on the same Call-ID, and it
\* replaces ctx->call_nh whichever handle was challenged.
InviteWithDigest(nh, challenge) ==
    /\ UNCHANGED <<call_established, call_is_incoming, call_on_hold, remote_rtp,
                   consultVars, transfer_in_progress>>
    /\ call_auth_tried' = TRUE
    /\ IF GiveUp(call_auth_tried, challenge)
       THEN /\ out' = Fire("CALL_FAILED", nh)
            /\ call_nh' = NoHandle
            /\ leg' = Refused(nh)
            /\ UNCHANGED local_rtp
       ELSE \E h \in Free :
            /\ call_nh' = h
            /\ leg' = [Refused(nh) EXCEPT ![h] = CallingLeg(TRUE)]
            /\ local_rtp' = (local_rtp \/ ~WebRtc)
            /\ out' = <<>>

ConsultWithDigest(nh, challenge) ==
    /\ UNCHANGED <<callVars, rtpVars, consult_established, consult_ended, consult_to,
                   consult_dialog, consult_rtp, transfer_in_progress>>
    /\ consult_auth_tried' = TRUE
    /\ IF GiveUp(consult_auth_tried, challenge)
       THEN /\ out' = Fire("CONSULT_ENDED", nh)
            /\ consult_nh' = NoHandle
            /\ leg' = Refused(nh)
       ELSE \E h \in Free :
            /\ consult_nh' = h
            /\ leg' = [Refused(nh) EXCEPT ![h] = CallingLeg(TRUE)]
            /\ out' = <<>>

\* Mutant of RInviteChallenged: whose INVITE was challenged goes unchecked.
RInviteChallengedUnchecked(nh, challenge) ==
    (Inviting(nh) \/ Reinviting(nh)) /\ InviteWithDigest(nh, challenge)

\* 401 or 407; `challenge': it holds the header that goes with its status.
RInviteChallenged(nh, challenge) ==
    /\ Inviting(nh) \/ Reinviting(nh)
    /\ IF nh = consult_nh THEN ConsultWithDigest(nh, challenge)
                          ELSE InviteWithDigest(nh, challenge)

ConsultRefused(nh) ==
    /\ out' = ConsultGone(nh)
    /\ consult_ended' = FALSE /\ consult_established' = FALSE /\ consult_nh' = NoHandle
    /\ UNCHANGED <<callVars, consult_auth_tried, consult_to, consult_dialog, consult_rtp>>

\* Mutant of CallRefused: the window is not told.
CallRefusedSilently(nh) ==
    /\ out' = <<>>
    /\ Release(nh)
    /\ UNCHANGED <<call_established, call_is_incoming, call_on_hold, call_auth_tried,
                   consultVars>>

CallRefused(nh) ==
    /\ out' = Fire("CALL_FAILED", nh)
    /\ Release(nh)
    /\ UNCHANGED <<call_established, call_is_incoming, call_on_hold, call_auth_tried,
                   consultVars>>

\* Any other final answer of 300 or more, the 487 after a CANCEL included.
RInviteRefused(nh) ==
    /\ leg[nh].st \in {"calling", "cancelled"} \/ Reinviting(nh)
    /\ leg' = Refused(nh)
    /\ IF nh = consult_nh THEN ConsultRefused(nh) ELSE CallRefused(nh)
    /\ UNCHANGED <<rtpVars, transfer_in_progress>>

-----------------------------------------------------------------------------
(***************************************************************************)
(* nua_i_invite.                                                           *)
(***************************************************************************)
RingIn(nh, sdp) ==
    /\ call_nh' = nh
    /\ FreshCall(TRUE)
    /\ remote_rtp' = Extract(sdp, nh, remote_rtp)
    /\ out' = Fire("INCOMING_CALL", nh) \o FireSdp("REMOTE_SDP", nh, sdp)
    /\ UNCHANGED <<local_rtp, consultVars, transfer_in_progress>>

\* 486: nothing of ours changes.
Busy(l) == leg' = l /\ out' = <<>> /\ UNCHANGED <<callVars, rtpVars, consultVars, transfer_in_progress>>

\* Mutant of IInvite: no 486, the new call takes the place of the old one.
IInviteClobbers(nh, sdp) ==
    nh \in Free /\ RingIn(nh, sdp) /\ leg' = [leg EXCEPT ![nh].st = "ringing"]

\* A new dialog.
IInvite(nh, sdp) ==
    /\ nh \in Free
    /\ IF call_nh # NoHandle
       THEN Busy(leg)
       ELSE RingIn(nh, sdp) /\ leg' = [leg EXCEPT ![nh].st = "ringing"]

AnswerReinvite(nh, sdp) ==
    /\ UNCHANGED <<callVars, local_rtp, consultVars, transfer_in_progress>>
    /\ IF WebRtc
       THEN /\ out' = FireSdp("REINVITE_SDP", nh, sdp)
            /\ leg' = [leg EXCEPT ![nh].owed = TRUE]
            /\ UNCHANGED remote_rtp
       ELSE /\ out' = <<>>
            /\ remote_rtp' = Extract(sdp, nh, remote_rtp)
            /\ leg' = NuaAccept(leg, nh)

\* A re-INVITE.  One on another leg than the primary falls through to the code
\* for a new call.
IReinvite(nh, sdp) ==
    /\ leg[nh].st = "up" /\ ~leg[nh].owed
    /\ nh = call_nh \/ "leg_reinvite" \in Env
    /\ IF call_established /\ call_nh = nh THEN AnswerReinvite(nh, sdp)
       ELSE IF call_nh \notin {nh, NoHandle} THEN Busy(leg)
       ELSE RingIn(nh, sdp) /\ leg' = [leg EXCEPT ![nh].owed = TRUE]

-----------------------------------------------------------------------------
(***************************************************************************)
(* nua_i_bye, nua_r_bye, nua_i_cancel and nua_i_error.                     *)
(***************************************************************************)
ConsultOver(nh, l) ==
    /\ out' = ConsultGone(nh)
    /\ consult_established' = FALSE /\ consult_ended' = FALSE
    /\ consult_nh' = NoHandle
    /\ leg' = l
    /\ UNCHANGED <<callVars, rtpVars, consult_auth_tried, consult_to, consult_dialog,
                   transfer_in_progress>>

\* Any handle that is not the consultation's ends the primary call here.
CallOver(nh, l) ==
    /\ out' = Fire("CALL_ENDED", nh)
    /\ IF transfer_in_progress
       THEN leg' = l /\ UNCHANGED <<consult_ended, consult_established>>
       ELSE DropConsultLeg(l)
    /\ ClearCall
    /\ Release(nh)
    /\ UNCHANGED <<call_is_incoming, call_auth_tried, consult_nh, consult_auth_tried,
                   consult_to, consult_dialog, consult_rtp, transfer_in_progress>>

\* Mutant of Bye: whose BYE it is goes unchecked.
ByeUnchecked(nh, l) == CallOver(nh, l)

Bye(nh, l) ==
    IF nh = consult_nh THEN ConsultOver(nh, l) /\ consult_rtp' = NoHandle ELSE CallOver(nh, l)

\* The peer's BYE.  When it crosses ours the answer to ours is still to come.
IBye(nh) ==
    \/ leg[nh].st = "up" /\ Bye(nh, Over(leg, nh))
    \/ leg[nh].st = "closing" /\ "bye_glare" \in Env /\ Bye(nh, leg)

RBye(nh) == leg[nh].st = "closing" /\ Bye(nh, Over(leg, nh))

\* The consultation is always our own INVITE: nobody else can CANCEL it.
ICancel(nh) ==
    /\ leg[nh].st = "ringing"
    /\ leg' = Over(leg, nh)
    /\ out' = Fire("CALL_ENDED", nh)
    /\ ClearCall
    /\ Release(nh)
    /\ UNCHANGED <<call_is_incoming, call_auth_tried, consultVars, transfer_in_progress>>

CallError(nh) ==
    /\ out' = Fire("CALL_FAILED", nh)
    /\ IF transfer_in_progress
       THEN leg' = Over(leg, nh) /\ UNCHANGED <<consult_ended, consult_established>>
       ELSE DropConsultLeg(Over(leg, nh))
    /\ call_nh' = NoHandle
    /\ UNCHANGED <<call_established, call_is_incoming, call_on_hold, call_auth_tried, rtpVars,
                   consult_nh, consult_auth_tried, consult_to, consult_dialog, consult_rtp,
                   transfer_in_progress>>

IError(nh) ==
    /\ "error" \in Env
    /\ leg[nh].st \in {"up", "ringing"}
    /\ IF nh = consult_nh THEN ConsultOver(nh, Over(leg, nh)) /\ UNCHANGED consult_rtp
       ELSE IF nh = call_nh THEN CallError(nh)
       ELSE Busy(Over(leg, nh))

-----------------------------------------------------------------------------
(***************************************************************************)
(* nua_r_refer and nua_i_notify.                                           *)
(***************************************************************************)
\* Mutant of TransferOver: the flag is not reset.
TransferOverStillOn(nh, events) ==
    /\ leg' = [leg EXCEPT ![nh].refer = "none"]
    /\ out' = events
    /\ UNCHANGED <<callVars, rtpVars, consultVars, transfer_in_progress>>

TransferOver(nh, events) ==
    /\ leg' = [leg EXCEPT ![nh].refer = "none"]
    /\ transfer_in_progress' = FALSE
    /\ out' = events
    /\ UNCHANGED <<callVars, rtpVars, consultVars>>

RRefer(nh, accepted) ==
    /\ leg[nh].refer = "sent"
    /\ IF accepted
       THEN /\ leg' = [leg EXCEPT ![nh].refer = "accepted"]
            /\ out' = <<>>
            /\ UNCHANGED <<callVars, rtpVars, consultVars, transfer_in_progress>>
       ELSE TransferOver(nh, Fire("TRANSFER_FAILED", nh))

\* The final NOTIFY; its sipfrag is 2xx ("ok"), 4xx/5xx ("failed") or, looked
\* at by nobody, 3xx/6xx ("other").
INotify(nh, result) ==
    /\ leg[nh].refer = "accepted"
    /\ \/ result = "ok" /\ TransferOver(nh, Fire("TRANSFER_OK", nh))
       \/ result = "failed" /\ TransferOver(nh, Fire("TRANSFER_FAILED", nh))
       \/ /\ result = "other" /\ "refer_other" \in Env
          /\ leg' = [leg EXCEPT ![nh].refer = "none"]
          /\ out' = <<>>
          /\ UNCHANGED <<callVars, rtpVars, consultVars, transfer_in_progress>>

-----------------------------------------------------------------------------
(***************************************************************************)
(* The public API, called by the window.                                   *)
(***************************************************************************)
\* do_invite.  A call that is still there is unref'd, not ended.
SofiaCall ==
    \E h \in Free :
        /\ call_nh' = h
        /\ leg' = [leg EXCEPT ![h] = CallingLeg(FALSE)]
        /\ FreshCall(FALSE)
        /\ transfer_in_progress' = FALSE
        /\ local_rtp' = TRUE
        /\ out' = <<>>
        /\ UNCHANGED <<remote_rtp, consultVars>>

\* do_answer.
SofiaAnswer ==
    /\ call_nh # NoHandle
    /\ leg' = NuaAccept(leg, call_nh)
    /\ call_established' = TRUE /\ call_is_incoming' = FALSE /\ call_on_hold' = FALSE
    /\ transfer_in_progress' = FALSE
    /\ local_rtp' = (local_rtp \/ ~WebRtc)
    /\ out' = Fire("CALL_CONNECTED", call_nh) \o
              (IF WebRtc THEN <<>> ELSE FireMedia("CALL_MEDIA", remote_rtp))
    /\ UNCHANGED <<call_nh, call_auth_tried, remote_rtp, consultVars>>

\* Mutant of Declined: the window waits for an event sofia-sip never sends.
DeclinedSilently == <<>>

\* The event of a call we decline: sofia-sip reports nothing of our own 603.
Declined == Fire("CALL_ENDED", call_nh)

\* sofia_hangup: BYE, CANCEL, or 603.
SofiaHangup ==
    LET l == DroppedLegs(leg) IN
    /\ consult_ended' = (consult_ended \/ consult_nh # NoHandle)
    /\ consult_established' = (consult_established /\ consult_nh = NoHandle)
    /\ UNCHANGED <<call_auth_tried, consult_nh, consult_auth_tried, consult_to,
                   consult_dialog, consult_rtp, transfer_in_progress>>
    /\ IF call_nh # NoHandle /\ ~call_established /\ call_is_incoming
       THEN /\ leg' = IF l[call_nh].st = "ringing" THEN Over(l, call_nh)
                      ELSE [l EXCEPT ![call_nh].owed = FALSE]
            /\ call_nh' = NoHandle
            /\ call_is_incoming' = FALSE
            /\ ClearCall
            /\ out' = Declined
       ELSE /\ leg' = IF call_nh = NoHandle THEN l
                      ELSE IF call_established THEN NuaBye(l, call_nh)
                      ELSE NuaCancel(l, call_nh)
            /\ out' = <<>>
            /\ UNCHANGED <<call_nh, call_established, call_is_incoming, call_on_hold, rtpVars>>

\* Mutant of CanHold: an unanswered call may be held.
CanHoldUnanswered == call_nh # NoHandle

CanHold == call_nh # NoHandle /\ call_established

\* sofia_set_hold on the legs l: the flag, and a re-INVITE unless webrtcbin
\* has to make the offer.
HeldLegs(l, hold) ==
    IF WebRtc THEN l
    ELSE NuaReinvite(l, call_nh, IF hold THEN "sendonly" ELSE "sendrecv")

SofiaSetHold(hold) ==
    /\ CanHold
    /\ call_on_hold' = hold
    /\ leg' = HeldLegs(leg, hold)
    /\ out' = <<>>
    /\ UNCHANGED <<call_nh, call_established, call_is_incoming, call_auth_tried, rtpVars,
                   consultVars, transfer_in_progress>>

SofiaBlindTransfer ==
    /\ CanHold
    /\ leg' = NuaRefer(leg, call_nh)
    /\ out' = <<>>
    /\ UNCHANGED <<callVars, rtpVars, consultVars, transfer_in_progress>>

\* do_consultation.  The last consultation's handle is unref'd, not ended, and
\* neither its dialog identifiers nor consult_ended is reset.
SofiaStartConsultation ==
    /\ call_established
    /\ call_on_hold' = (call_on_hold \/ call_nh # NoHandle)
    /\ \E h \in Free :
        /\ consult_nh' = h
        /\ leg' = [IF call_nh = NoHandle THEN leg ELSE HeldLegs(leg, TRUE)
                     EXCEPT ![h] = CallingLeg(FALSE)]
    /\ consult_established' = FALSE /\ consult_auth_tried' = FALSE /\ consult_to' = TRUE
    /\ transfer_in_progress' = FALSE
    /\ out' = <<>>
    /\ UNCHANGED <<call_nh, call_established, call_is_incoming, call_auth_tried, rtpVars,
                   consult_ended, consult_dialog, consult_rtp>>

\* sofia_complete_transfer: REFER to consult_to, replacing consult_dialog.
SofiaCompleteTransfer ==
    /\ call_nh # NoHandle /\ consult_to
    /\ transfer_in_progress' = TRUE
    /\ leg' = NuaRefer(leg, call_nh)
    /\ out' = <<>>
    /\ UNCHANGED <<callVars, rtpVars, consultVars>>

SofiaCancelConsultation ==
    /\ consult_nh # NoHandle
    /\ consult_ended' = TRUE /\ consult_established' = FALSE
    /\ call_on_hold' = (call_on_hold /\ ~CanHold)
    /\ leg' = IF CanHold THEN HeldLegs(DroppedLegs(leg), FALSE) ELSE DroppedLegs(leg)
    /\ out' = Fire("CONSULT_ENDED", consult_nh)
    /\ UNCHANGED <<call_nh, call_established, call_is_incoming, call_auth_tried, rtpVars,
                   consult_nh, consult_auth_tried, consult_to, consult_dialog, consult_rtp,
                   transfer_in_progress>>

\* WebRTC only: webrtcbin's offer for a hold, and its answer to a re-INVITE.
SofiaReinviteSdp ==
    /\ WebRtc /\ CanHold
    /\ leg' = NuaReinvite(leg, call_nh, IF call_on_hold THEN "sendonly" ELSE "sendrecv")
    /\ out' = <<>>
    /\ UNCHANGED <<callVars, rtpVars, consultVars, transfer_in_progress>>

SofiaRespondSdp ==
    /\ WebRtc /\ call_nh # NoHandle
    /\ leg' = NuaAccept(leg, call_nh)
    /\ out' = <<>>
    /\ UNCHANGED <<callVars, rtpVars, consultVars, transfer_in_progress>>

-----------------------------------------------------------------------------
\* What sofia-sip may report of a handle.
NuaCb(nh) ==
    \/ \E sdp \in HasSdp : RInviteOk(nh, sdp) \/ IInvite(nh, sdp) \/ IReinvite(nh, sdp)
    \/ \E challenge \in BOOLEAN : RInviteChallenged(nh, challenge)
    \/ RInviteRefused(nh)
    \/ IBye(nh) \/ RBye(nh) \/ ICancel(nh) \/ IError(nh)
    \/ \E accepted \in BOOLEAN : RRefer(nh, accepted)
    \/ \E result \in {"ok", "failed", "other"} : INotify(nh, result)

Api ==
    \/ SofiaCall \/ SofiaAnswer \/ SofiaHangup
    \/ \E hold \in BOOLEAN : SofiaSetHold(hold)
    \/ SofiaBlindTransfer \/ SofiaStartConsultation
    \/ SofiaCompleteTransfer \/ SofiaCancelConsultation
    \/ SofiaReinviteSdp \/ SofiaRespondSdp

Next == Api \/ \E nh \in Handles : NuaCb(nh)

Spec == Init /\ [][Next]_vars

-----------------------------------------------------------------------------
TypeOK ==
    /\ {call_nh, consult_nh, remote_rtp, consult_rtp, consult_dialog} \subseteq MaybeHandle
    /\ {call_established, call_is_incoming, call_on_hold, call_auth_tried, local_rtp,
        consult_established, consult_auth_tried, consult_ended, consult_to,
        transfer_in_progress} \subseteq BOOLEAN
    /\ leg \in [Handles -> Leg]
    /\ out \in Seq(Event)

\* Only a call that was answered is on hold, so sofia_set_hold's re-INVITE never
\* goes out on a dialog that is not established (glue.c 898-900).
HoldNeedsAnswer == call_on_hold => call_established
=============================================================================
