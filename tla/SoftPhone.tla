----------------------------- MODULE SoftPhone -----------------------------
(***************************************************************************)
(* One plain-RTP account of the phone: SipGlue composed with the call      *)
(* state of src/src/window.rs and the buttons of the call screen.          *)
(*                                                                         *)
(* glue.c calls the window synchronously.  Here a glue handler leaves the  *)
(* events it fired in `out', and until handle_sip_event has taken every    *)
(* one of them nothing else runs.                                          *)
(***************************************************************************)
EXTENDS SipGlue, Naturals

\* The REMOTE_SDP events and webrtc.rs are not modelled here.
ASSUME PlainRtp == ~WebRtc

VARIABLES
    active,         \* active_account_id is set, and the call screen revealed
    answer_button,  \* the Answer button is visible
    hold_button,    \* the Hold toggle is pressed
    consult_mode,   \* Complete and Cancel consultation are revealed
    pending,        \* pending_call: its direction, or "none"
    connected,      \* its connected_at is set
    record,         \* the status this or the last call left in the call log
    timers,         \* running 1 s timers of the call screen (2: several)
    timer_id,       \* timer_id is set
    audio,          \* audio_session: the leg whose address it talks to
    audio_hold,     \* its on_hold: the microphone is silenced
    consult_audio,  \* consult_session, likewise
    overwritten     \* history: a new INVITE took the place of a handle still held

logVars == <<pending, connected, record>>
timerVars == <<timers, timer_id>>
screenVars == <<active, answer_button, hold_button, consult_mode, timerVars>>
audioVars == <<audio, audio_hold, consult_audio>>
uiVars == <<screenVars, logVars, audioVars, overwritten>>
phoneVars == <<vars, uiVars>>

PhoneInit ==
    /\ Init
    /\ active = FALSE /\ answer_button = FALSE /\ hold_button = FALSE
    /\ consult_mode = FALSE /\ timers = 0 /\ timer_id = FALSE
    /\ pending = "none" /\ connected = FALSE /\ record = "none"
    /\ audio = NoHandle /\ audio_hold = FALSE /\ consult_audio = NoHandle
    /\ overwritten = FALSE

-----------------------------------------------------------------------------
(***************************************************************************)
(* handle_sip_event                                                        *)
(***************************************************************************)
Taking(ev) == out # <<>> /\ Head(out).ev = ev

\* The handler calls nothing of the engine.
Taken == /\ out' = Tail(out)
         /\ UNCHANGED <<callVars, rtpVars, consultVars, transfer_in_progress, leg, overwritten>>

OnIncomingCall ==
    /\ Taking("INCOMING_CALL") /\ Taken
    /\ active' = TRUE /\ answer_button' = TRUE
    /\ pending' = "incoming" /\ connected' = FALSE /\ record' = "none"
    /\ UNCHANGED <<hold_button, consult_mode, timerVars, audioVars>>

\* start_timer adds a timer and overwrites timer_id.  The model tells one timer
\* from several and stops counting there.
TimerBound == 2

OnCallConnected ==
    /\ Taking("CALL_CONNECTED") /\ Taken
    /\ answer_button' = FALSE
    /\ timers' = IF timers = TimerBound THEN timers ELSE timers + 1
    /\ timer_id' = TRUE
    /\ connected' = (pending # "none")
    /\ UNCHANGED <<active, hold_button, consult_mode, pending, record, audioVars>>

OnCallMedia ==
    /\ Taking("CALL_MEDIA") /\ Taken
    /\ \/ audio' = Head(out).leg /\ audio_hold' = FALSE
       \/ "audio_error" \in Env /\ UNCHANGED <<audio, audio_hold>>
    /\ UNCHANGED <<screenVars, logVars, consult_audio>>

\* Mutant of CallStatus: the direction is looked at before the answer.
CallStatusByDirection == IF pending = "incoming" THEN "missed"
                         ELSE IF connected THEN "answered" ELSE "failed"

\* finalize_pending_call
CallStatus == IF connected THEN "answered"
              ELSE IF pending = "incoming" THEN "missed" ELSE "failed"

FinalizePendingCall ==
    IF pending = "none" THEN UNCHANGED logVars
    ELSE /\ pending' = "none" /\ connected' = FALSE
         /\ record' = CallStatus

\* Mutant of Stopped: stop_timer without its test of timer_id.
StoppedTwice == timers - 1

\* The timers stop_timer leaves running: it knows of the last one only.
Stopped == IF timer_id THEN timers - 1 ELSE timers

\* CallEnded, CallFailed and TransferOk.  stop_timer releases the Hold toggle;
\* its handler finds no active engine and no session any more.
OnCallOver ==
    /\ \/ Taking("CALL_ENDED") \/ Taking("CALL_FAILED") \/ Taking("TRANSFER_OK")
    /\ Taken
    /\ active' = FALSE /\ hold_button' = FALSE /\ consult_mode' = FALSE
    /\ timers' = Stopped
    /\ timer_id' = FALSE
    /\ audio' = NoHandle /\ audio_hold' = FALSE /\ consult_audio' = NoHandle
    /\ FinalizePendingCall
    /\ UNCHANGED answer_button

OnTransferFailed ==
    /\ Taking("TRANSFER_FAILED")
    /\ IF active /\ consult_nh # NoHandle THEN SofiaCancelConsultation ELSE Taken
    /\ UNCHANGED uiVars

OnConsultConnected ==
    /\ Taking("CONSULT_CONNECTED") /\ Taken
    /\ consult_mode' = TRUE
    /\ UNCHANGED <<active, answer_button, hold_button, timerVars, logVars, audioVars>>

OnConsultMedia ==
    /\ Taking("CONSULT_MEDIA") /\ Taken
    /\ \/ consult_audio' = Head(out).leg
       \/ "audio_error" \in Env /\ UNCHANGED consult_audio
    /\ UNCHANGED <<screenVars, logVars, audio, audio_hold>>

OnConsultEnded ==
    /\ Taking("CONSULT_ENDED") /\ Taken
    /\ consult_audio' = NoHandle /\ consult_mode' = FALSE
    /\ audio_hold' = FALSE
    /\ UNCHANGED <<active, answer_button, hold_button, timerVars, logVars, audio>>

HandleSipEvent ==
    \/ OnIncomingCall \/ OnCallConnected \/ OnCallMedia \/ OnCallOver
    \/ OnTransferFailed \/ OnConsultConnected \/ OnConsultMedia \/ OnConsultEnded

-----------------------------------------------------------------------------
(***************************************************************************)
(* The user.  with_active_engine reaches the engine only while `active'.   *)
(***************************************************************************)
\* start_call, from the dialpad, a quickdial or a call-log row.  It tests nothing:
\* the call screen covers them for the pointer but not for the keyboard, and once
\* it is closed the engine may still hold the last call (after a TRANSFER_OK).
StartCall ==
    /\ ~active \/ "redial" \in Env
    /\ SofiaCall
    /\ overwritten' = (overwritten \/ call_nh # NoHandle)
    /\ active' = TRUE /\ answer_button' = FALSE
    /\ pending' = "outgoing" /\ connected' = FALSE /\ record' = "none"
    /\ UNCHANGED <<hold_button, consult_mode, timerVars, audioVars>>

AnswerCall == active /\ answer_button /\ SofiaAnswer /\ UNCHANGED uiVars

HangupCall == active /\ SofiaHangup /\ UNCHANGED uiVars

HoldToggled(hold) ==
    /\ active /\ hold_button # hold
    /\ IF CanHold THEN SofiaSetHold(hold) ELSE UNCHANGED vars
    /\ hold_button' = hold
    /\ audio_hold' = (hold /\ audio # NoHandle)
    /\ UNCHANGED <<active, answer_button, consult_mode, timerVars, logVars, audio,
                   consult_audio, overwritten>>

BlindTransfer == active /\ SofiaBlindTransfer /\ UNCHANGED uiVars

\* The transfer dialog offers a consultation whatever became of the last one.
StartConsultation ==
    /\ active
    /\ SofiaStartConsultation
    /\ overwritten' = (overwritten \/ consult_nh # NoHandle)
    /\ UNCHANGED <<screenVars, logVars, audioVars>>

CompleteTransfer == active /\ consult_mode /\ SofiaCompleteTransfer /\ UNCHANGED uiVars

CancelConsultation == active /\ consult_mode /\ SofiaCancelConsultation /\ UNCHANGED uiVars

User ==
    \/ StartCall \/ AnswerCall \/ HangupCall
    \/ \E hold \in BOOLEAN : HoldToggled(hold)
    \/ BlindTransfer \/ StartConsultation \/ CompleteTransfer \/ CancelConsultation

-----------------------------------------------------------------------------
Sofia(nh) == NuaCb(nh) /\ UNCHANGED uiVars

PhoneNext ==
    \/ HandleSipEvent
    \/ out = <<>> /\ (User \/ \E nh \in Handles : Sofia(nh))

PhoneSpec == PhoneInit /\ [][PhoneNext]_phoneVars

-----------------------------------------------------------------------------
(***************************************************************************)
(* Fairness.  The main loop hands every queued event to the window, and    *)
(* every request of ours gets its final answer: sofia-sip makes one up     *)
(* (408) when the peer stays silent.  Callbacks share the loop with all    *)
(* else, hence SF.  That a transfer's last NOTIFY arrives is the peer's    *)
(* duty.  The user need not do anything.                                   *)
(***************************************************************************)
Callback(A) == out = <<>> /\ A /\ UNCHANGED uiVars

ByeAnswered(nh) == Callback(RBye(nh))
CancelAnswered(nh) == Callback(leg[nh].st = "cancelled" /\ RInviteRefused(nh))
ReferAnswered(nh) == Callback(\E accepted \in BOOLEAN : RRefer(nh, accepted))
TransferReported(nh) == Callback(\E result \in {"ok", "failed", "other"} : INotify(nh, result))

PhoneFairness ==
    /\ WF_phoneVars(HandleSipEvent)
    /\ \A nh \in Handles :
        /\ SF_phoneVars(ByeAnswered(nh)) /\ SF_phoneVars(CancelAnswered(nh))
        /\ SF_phoneVars(ReferAnswered(nh)) /\ SF_phoneVars(TransferReported(nh))

FairPhoneSpec == PhoneSpec /\ PhoneFairness

-----------------------------------------------------------------------------
(***************************************************************************)
(* Properties.  "At rest" is between two handlers: no event is on its way  *)
(* to the window.                                                          *)
(***************************************************************************)
AtRest == out = <<>>

\* Every variable has its type; the timer count never goes below zero, that is,
\* stop_timer never removes a timer twice.
PhoneTypeOK ==
    /\ TypeOK
    /\ {active, answer_button, hold_button, consult_mode, connected, timer_id,
        audio_hold, overwritten} \subseteq BOOLEAN
    /\ pending \in {"none", "incoming", "outgoing"}
    /\ record \in {"none", "answered", "missed", "failed"}
    /\ timers \in 0 .. TimerBound
    /\ {audio, consult_audio} \subseteq MaybeHandle

\* While the call screen is shown the engine has a call for its buttons to act
\* on: whatever ended the call also told the window (window.rs 1006-1057).
NoStuckScreen == AtRest /\ active => call_nh # NoHandle

(***************************************************************************)
(* do_invite and do_consultation overwrite a handle that is still held     *)
(* (glue.c 1471 and 1672), which two ordinary acts of the user make them   *)
(* do: a dial after a TRANSFER_OK, and a second consultation before the    *)
(* first is released.  A live leg is then out of reach, and what it        *)
(* reports is taken for the new call's: its BYE closes the new call's      *)
(* screen (1032), the 200 to its re-INVITE marks the new call answered     *)
(* (989).  The properties of legs, flags and media below are about a phone *)
(* to which that has not happened yet.                                     *)
(***************************************************************************)
Intact == ~overwritten

\* Every live dialog but those we are already ending is the primary call's or the
\* consultation's: of the many handlers that release a handle (glue.c 496, 984,
\* 1029, 1050, 1106, ...) none releases that of a leg that is still up.
NoOrphanLeg ==
    AtRest /\ Intact => \A h \in Handles :
        leg[h].st \in {"calling", "ringing", "up"} => h \in {call_nh, consult_nh}

\* call_established says what sofia-sip says of the primary's dialog: it decides
\* between BYE and CANCEL (glue.c 1576-1596) and whether a re-INVITE may be sent.
EstablishedIsUp ==
    AtRest /\ Intact /\ call_nh # NoHandle =>
        (call_established <=> leg[call_nh].st \in {"up", "closing"})

\* The microphone streams to the peer of the primary call, never to that of a call
\* before it: extract_rtp_into keeps the old address when a message has no SDP
\* (glue.c 253), and an end that clears it lies between any two calls.
MediaOfPrimary == AtRest /\ Intact /\ audio # NoHandle => audio = call_nh

\* Complete transfer, once offered, replaces the consultation that is up now: the
\* dialog identifiers stored for Replaces, which nothing clears (glue.c 1672-1700),
\* are not those of an earlier consultation.
TransferReplacesConsultation ==
    AtRest /\ Intact /\ active /\ consult_mode /\ leg[call_nh].st = "up" =>
        consult_dialog = consult_nh /\ leg[consult_nh].st = "up"

\* The microphone of a call is silent exactly while the engine has it on hold, as
\* long as no consultation was ever started.
HoldSilencesMic ==
    AtRest /\ Intact /\ audio # NoHandle /\ ~consult_to => (call_on_hold <=> audio_hold)

\* What ends the call on the screen is the end of its own leg or of its own
\* transfer: the BYE, the refusal or the NOTIFY of another leg never closes it
\* (glue.c 940, 1020 and 1066).  The one exception is a REFER whose dialog is over
\* by the time its outcome arrives: glue.c does not ask whose REFER it was.
OnlyOwnLegEndsCall ==
    [][\A i \in 1 .. Len(out') :
          out = <<>> /\ ~overwritten' /\ out'[i].ev \in {"CALL_ENDED", "CALL_FAILED", "TRANSFER_OK"}
             => \/ out'[i].leg = call_nh
                \/ out'[i].ev = "TRANSFER_OK" /\ leg[out'[i].leg].st = "idle"]_vars

\* A digest answer that is challenged again is not answered again: glue.c never
\* loops with a server that rejects the password.
OneDigestRetry ==
    [][~overwritten' /\ (\E h \in Handles : leg[h].st = "idle" /\ leg'[h].retry) =>
           ~\E g \in Handles : leg[g].retry /\ leg'[g].st = "idle"]_vars

\* A call the user hung up leaves the screen: the answer to our BYE or CANCEL
\* always reaches a handler that tells the window.
HangupEnds ==
    (active /\ call_nh # NoHandle /\ leg[call_nh].st \in {"closing", "cancelled"})
        ~> (~active \/ overwritten)

\* glue.c 1716-1719: transfer_in_progress is cleared when the transfer concludes.
TransferConcludes == transfer_in_progress ~> (~transfer_in_progress \/ overwritten)

\* The phone implements PhoneLine: one call at a time, each leaving exactly one
\* record that tells how far it got (finalize_pending_call, window.rs 1236-1266).
Line == INSTANCE PhoneLine WITH
    phase <- IF pending = "none" THEN "idle" ELSE IF connected THEN "talking"
             ELSE IF pending = "incoming" THEN "ringing" ELSE "calling"
OneRecordPerCall == Line!Spec
=============================================================================
