----------------------------- MODULE CallProofs -----------------------------
(***************************************************************************)
(* The phone: glue.c, the window and the user together.                    *)
(*                                                                         *)
(* Whatever the environment may do (Env), the call screen is never left    *)
(* without a call.  ScreenInv: an active screen has a call or an event on  *)
(* its way that closes it, and the event that opens it finds a call.       *)
(*                                                                         *)
(* LineInv, of every phone: the screen and the log agree on whether there  *)
(* is a call, and one that was answered is not taken for a new one.        *)
(*                                                                         *)
(* The rest is about a phone whose re-INVITEs are accepted and whose BYEs  *)
(* do not cross the peer's (Orderly), up to the moment, if it ever comes,  *)
(* at which a new INVITE overwrites a handle still held (Intact).  Answers *)
(* may cross our CANCELs, SDP may be missing, transactions may time out,   *)
(* transfers may end in any way and media sessions may fail.  LegInv: the  *)
(* flags of glue.c say what sofia-sip knows of its two legs, and there are *)
(* no others.  WindowInv: what the window shows, logs and plays matches,   *)
(* or the event that changes it is queued.                                 *)
(*                                                                         *)
(* What glue.c remembers of one leg and uses later is of the right leg:    *)
(* the RTP address the microphone streams to, and the dialog a transfer    *)
(* replaces.  Neither is cleared when its leg ends, so that they are not   *)
(* those of an earlier leg takes an argument about the whole call          *)
(* (MediaInv, TransferInv).                                                *)
(***************************************************************************)
EXTENDS SoftPhone, SipGlueProofs

ScreenHasCall == active => call_nh # NoHandle \/ CloseComing

ScreenInv == TypeOK /\ ScreenHasCall /\ RingHasCall

-----------------------------------------------------------------------------
\* While the window takes an event nothing takes its call away.
LEMMA EventKeepsScreen ==
    ASSUME ScreenInv, HandleSipEvent PROVE ScreenInv'
<1>0. out # <<>> /\ out \in Seq(Event)
  BY DEF HandleSipEvent, Taking, OnIncomingCall, OnCallConnected, OnCallMedia, OnCallOver,
         OnTransferFailed, OnConsultConnected, OnConsultMedia, OnConsultEnded, ScreenInv, TypeOK
<1>1. CASE Taken
  <2>1. Tail(out) \in Seq(Event)
    BY <1>0
  <2>2. TypeOK'
    BY <1>1, <2>1 DEF Taken, TypeOK, MaybeHandle, callVars, rtpVars, consultVars, ScreenInv
  <2>3. RingHasCall'
    BY <1>0, <1>1, NoRingTail DEF Taken, RingHasCall, ScreenInv, callVars
  <2>4. ScreenHasCall'
    <3>1. CASE OnIncomingCall
      <4>1. ~NoRing(out)
        BY <1>0, <3>1 DEF OnIncomingCall, Taking, NoRing
      <4> QED BY <1>1, <4>1 DEF Taken, callVars, ScreenInv, RingHasCall, ScreenHasCall
    <3>2. CASE OnCallOver
      BY <3>2 DEF OnCallOver, ScreenHasCall
    <3>3. CASE ~OnIncomingCall /\ ~OnCallOver
      <4>1. active' = active
        BY <3>3 DEF HandleSipEvent, OnCallConnected, OnCallMedia, OnTransferFailed,
                    OnConsultConnected, OnConsultMedia, OnConsultEnded, screenVars, uiVars
      <4>2. ~CloseComing
        <5>1. Head(out).ev \notin Closing
          BY <3>3 DEF HandleSipEvent, OnCallConnected, OnCallMedia, OnTransferFailed,
                      OnConsultConnected, OnConsultMedia, OnConsultEnded, Taking, Closing
        <5> QED BY <5>1, FireIsOne DEF CloseComing
      <4> QED BY <1>1, <4>1, <4>2 DEF ScreenInv, ScreenHasCall, Taken, callVars
    <3> QED BY <3>1, <3>2, <3>3
  <2> QED BY <2>2, <2>3, <2>4 DEF ScreenInv
<1>2. CASE OnTransferFailed /\ SofiaCancelConsultation
  <2>1. TypeOK'
    BY <1>2, CancelConsultationType DEF ScreenInv
  <2>2. KeepsCall /\ RingHasCall'
    BY <1>2, ApiKeepsCall DEF Api, ScreenInv
  <2>3. ~CloseComing
    <3>1. Head(out).ev \notin Closing
      BY <1>2 DEF OnTransferFailed, Taking, Closing
    <3> QED BY <3>1, FireIsOne DEF CloseComing
  <2>4. active' = active
    BY <1>2 DEF OnTransferFailed, uiVars, screenVars
  <2> QED BY <2>1, <2>2, <2>3, <2>4 DEF ScreenInv, ScreenHasCall, KeepsCall
<1> QED BY <1>1, <1>2 DEF HandleSipEvent, OnIncomingCall, OnCallConnected, OnCallMedia,
           OnCallOver, OnTransferFailed, OnConsultConnected, OnConsultMedia, OnConsultEnded

\* The user's actions keep the invariant between two events.
LEMMA UserKeepsScreen ==
    ASSUME ScreenInv, out = <<>>, User PROVE ScreenInv'
<1>0. ~CloseComing
  BY FireIsOne DEF CloseComing
<1>1. Api \/ UNCHANGED vars
  BY DEF User, StartCall, AnswerCall, HangupCall, HoldToggled, BlindTransfer,
         StartConsultation, CompleteTransfer, CancelConsultation, Api
<1>2. TypeOK'
  <2>1. CASE UNCHANGED vars
    BY <2>1 DEF ScreenInv, TypeOK, MaybeHandle, vars, callVars, rtpVars, consultVars
  <2> QED BY <1>1, <2>1, TypeStep DEF ScreenInv, Next
<1>3. KeepsCall /\ RingHasCall'
  <2>1. CASE UNCHANGED vars
    BY <2>1 DEF ScreenInv, KeepsCall, RingHasCall, vars, callVars
  <2> QED BY <1>1, <2>1, ApiKeepsCall DEF ScreenInv
<1>4. active' => active \/ SofiaCall
  BY DEF User, StartCall, AnswerCall, HangupCall, HoldToggled, BlindTransfer,
         StartConsultation, CompleteTransfer, CancelConsultation, uiVars, screenVars
<1>5. SofiaCall => call_nh' # NoHandle
  BY ApiKeepsCall DEF Api, ScreenInv
<1> QED BY <1>0, <1>2, <1>3, <1>4, <1>5 DEF ScreenInv, ScreenHasCall, KeepsCall

\* Hence a callback keeps the invariant: it does not touch the window.
LEMMA CallbackKeepsScreen ==
    ASSUME ScreenInv, out = <<>>, NEW nh \in Handles, Sofia(nh) PROVE ScreenInv'
<1>1. ~CloseComing
  BY FireIsOne DEF CloseComing
<1>2. TypeOK'
  BY TypeStep DEF Sofia, Next, ScreenInv
<1>3. KeepsCall /\ RingHasCall'
  BY CallbackKeepsCall DEF Sofia, ScreenInv
<1>4. active' = active
  BY DEF Sofia, uiVars, screenVars
<1> QED BY <1>1, <1>2, <1>3, <1>4 DEF ScreenInv, ScreenHasCall, KeepsCall

\* The invariant holds in every state of the phone.
LEMMA ScreenInvariant == PhoneSpec => []ScreenInv
<1>1. ASSUME PhoneInit PROVE ScreenInv
  <2>1. TypeOK
    BY <1>1, InitTypeOK DEF PhoneInit
  <2> QED BY <1>1, <2>1 DEF PhoneInit, Init, ScreenInv, ScreenHasCall, RingHasCall, NoRing
<1>2. ScreenInv /\ [PhoneNext]_phoneVars => ScreenInv'
  <2> SUFFICES ASSUME ScreenInv, [PhoneNext]_phoneVars PROVE ScreenInv'
    OBVIOUS
  <2>1. CASE UNCHANGED phoneVars
    BY <2>1 DEF phoneVars, vars, callVars, rtpVars, consultVars, uiVars, screenVars, ScreenInv,
                TypeOK, MaybeHandle, ScreenHasCall, RingHasCall, CloseComing
  <2>2. CASE PhoneNext
    BY <2>2, EventKeepsScreen, UserKeepsScreen, CallbackKeepsScreen DEF PhoneNext
  <2> QED BY <2>1, <2>2
<1> QED BY <1>1, <1>2, PTL DEF PhoneSpec

\* The call screen is never left without a call.
THEOREM ScreenNeverStuck == PhoneSpec => []NoStuckScreen
<1>1. ScreenInv => NoStuckScreen
  BY FireIsOne DEF ScreenInv, ScreenHasCall, NoStuckScreen, AtRest, CloseComing
<1> QED BY <1>1, ScreenInvariant, PTL

-----------------------------------------------------------------------------
\* The timer stop_timer knows of is running.
UiInv == PhoneTypeOK /\ (timer_id => timers # 0)

\* The window's handlers keep their own types and never remove a timer twice.
LEMMA EventKeepsUi ==
    ASSUME UiInv, TypeOK', HandleSipEvent PROVE UiInv'
<1> USE DEF UiInv, PhoneTypeOK, TimerBound
<1>0. overwritten' = overwritten
  BY DEF HandleSipEvent, OnIncomingCall, OnCallConnected, OnCallMedia, OnCallOver, Taken,
         OnTransferFailed, OnConsultConnected, OnConsultMedia, OnConsultEnded, uiVars
<1>1. CASE OnIncomingCall
  BY <1>0, <1>1 DEF OnIncomingCall, timerVars, audioVars
<1>2. CASE OnCallConnected
  <2>1. timers' \in 0 .. TimerBound /\ timers' # 0
    BY <1>2 DEF OnCallConnected
  <2>2. {answer_button', timer_id', connected'} \subseteq BOOLEAN
    BY <1>2 DEF OnCallConnected
  <2>3. UNCHANGED <<active, hold_button, consult_mode, pending, record, audioVars>>
    BY <1>2 DEF OnCallConnected
  <2> QED BY <1>0, <2>1, <2>2, <2>3 DEF audioVars
<1>3. CASE OnCallMedia \/ OnConsultMedia
  <2>1. out # <<>> /\ out \in Seq(Event)
    BY <1>3 DEF OnCallMedia, OnConsultMedia, Taking, TypeOK
  <2>2. Head(out) \in Event
    BY <2>1
  <2>3. Head(out).leg \in MaybeHandle
    BY <2>2 DEF Event
  <2>4. {audio', consult_audio'} \subseteq MaybeHandle /\ audio_hold' \in BOOLEAN
    BY <1>3, <2>3 DEF OnCallMedia, OnConsultMedia
  <2>5. UNCHANGED <<screenVars, logVars>>
    BY <1>3 DEF OnCallMedia, OnConsultMedia
  <2> QED BY <1>0, <2>4, <2>5 DEF screenVars, timerVars, logVars
<1>4. CASE OnCallOver
  <2>1. timers' \in 0 .. TimerBound /\ timer_id' = FALSE
    BY <1>4 DEF OnCallOver, Stopped
  <2>2. /\ pending' \in {"none", "incoming", "outgoing"} /\ connected' \in BOOLEAN
        /\ record' \in {"none", "answered", "missed", "failed"}
    BY <1>4 DEF OnCallOver, FinalizePendingCall, CallStatus, logVars
  <2> QED BY <1>0, <1>4, <2>1, <2>2 DEF OnCallOver, MaybeHandle
<1>5. CASE OnTransferFailed
  BY <1>5 DEF OnTransferFailed, uiVars, screenVars, timerVars, logVars, audioVars
<1>6. CASE OnConsultConnected
  <2>1. consult_mode' \in BOOLEAN
    BY <1>6 DEF OnConsultConnected
  <2>2. UNCHANGED <<active, answer_button, hold_button, timerVars, logVars, audioVars>>
    BY <1>6 DEF OnConsultConnected
  <2> QED BY <1>0, <2>1, <2>2 DEF timerVars, logVars, audioVars
<1>7. CASE OnConsultEnded
  <2>1. consult_audio' \in MaybeHandle /\ {consult_mode', audio_hold'} \subseteq BOOLEAN
    BY <1>7 DEF OnConsultEnded, MaybeHandle
  <2>2. UNCHANGED <<active, answer_button, hold_button, timerVars, logVars, audio>>
    BY <1>7 DEF OnConsultEnded
  <2> QED BY <1>0, <2>1, <2>2 DEF timerVars, logVars
<1> QED BY <1>1, <1>2, <1>3, <1>4, <1>5, <1>6, <1>7 DEF HandleSipEvent

\* So do the user's actions.
LEMMA UserKeepsUi ==
    ASSUME UiInv, TypeOK', User PROVE UiInv'
<1> USE DEF UiInv, PhoneTypeOK
<1>1. CASE StartCall
  BY <1>1 DEF StartCall, timerVars, audioVars
<1>2. ASSUME NEW hold \in BOOLEAN, HoldToggled(hold) PROVE UiInv'
  <2>1. hold_button' \in BOOLEAN /\ audio_hold' \in BOOLEAN
    BY <1>2 DEF HoldToggled
  <2>2. UNCHANGED <<active, answer_button, consult_mode, timerVars, logVars, audio,
                    consult_audio, overwritten>>
    BY <1>2 DEF HoldToggled
  <2> QED BY <2>1, <2>2 DEF timerVars, logVars
<1>3. CASE UNCHANGED uiVars
  BY <1>3 DEF uiVars, screenVars, timerVars, logVars, audioVars
<1>4. CASE StartConsultation
  <2>1. overwritten' \in BOOLEAN /\ UNCHANGED <<screenVars, logVars, audioVars>>
    BY <1>4 DEF StartConsultation
  <2> QED BY <2>1 DEF screenVars, timerVars, logVars, audioVars
<1> QED BY <1>1, <1>2, <1>3, <1>4 DEF User, AnswerCall, HangupCall, BlindTransfer,
                                      CompleteTransfer, CancelConsultation

\* Type correctness of the composition: no timer is removed twice.
THEOREM PhoneTypeCorrect == PhoneSpec => []PhoneTypeOK
<1>1. PhoneInit => UiInv
  <2> SUFFICES ASSUME PhoneInit PROVE UiInv
    OBVIOUS
  <2>1. TypeOK
    BY InitTypeOK DEF PhoneInit
  <2>2. NoHandle \in MaybeHandle /\ 0 \in 0 .. TimerBound
    BY DEF MaybeHandle, TimerBound
  <2> QED BY <2>1, <2>2 DEF PhoneInit, UiInv, PhoneTypeOK
<1>2. UiInv /\ ScreenInv' /\ [PhoneNext]_phoneVars => UiInv'
  <2> SUFFICES ASSUME UiInv, TypeOK', [PhoneNext]_phoneVars PROVE UiInv'
    BY DEF ScreenInv
  <2>1. CASE UNCHANGED uiVars
    BY <2>1 DEF UiInv, PhoneTypeOK, uiVars, screenVars, timerVars, logVars, audioVars
  <2> QED BY <2>1, EventKeepsUi, UserKeepsUi DEF PhoneNext, Sofia, phoneVars
<1>3. UiInv => PhoneTypeOK
  BY DEF UiInv
<1> QED BY <1>1, <1>2, <1>3, ScreenInvariant, PTL DEF PhoneSpec

-----------------------------------------------------------------------------
(***************************************************************************)
(* Orderly phones.                                                         *)
(***************************************************************************)
Orderly == Env \cap {"bye_glare", "reinvite_fail", "leg_reinvite"} = {}

\* glue.c has a handle for every leg that is not over, and for no other.
LegsHeld == \A h \in Handles : leg[h].st # "idle" <=> h \in {call_nh, consult_nh}
TwoLegs == call_nh = consult_nh => call_nh = NoHandle

Ringing == call_nh # NoHandle /\ leg[call_nh].st = "ringing"

\* What the flags say of the primary call's leg.
PrimaryFlags ==
    call_nh # NoHandle =>
        /\ call_established <=> leg[call_nh].st \in {"up", "closing"}
        /\ call_is_incoming /\ ~call_established <=> Ringing

\* The consultation is our own INVITE, and never put on hold.
ConsultIsOurs ==
    consult_nh # NoHandle => leg[consult_nh].st # "ringing" /\ ~leg[consult_nh].reinv

ReinvIsUp == \A h \in Handles : leg[h].reinv => leg[h].st \in {"up", "closing"}

\* A leg that answers a challenge has used up its call's only retry.
RetryTried ==
    \A h \in Handles : leg[h].retry =>
        /\ leg[h].st # "idle"
        /\ h = call_nh => call_auth_tried
        /\ h = consult_nh => consult_auth_tried

\* A consultation has the target a transfer would refer to.
ConsultHasTarget == consult_nh # NoHandle => consult_to

LegFacts == /\ LegsHeld /\ TwoLegs /\ PrimaryFlags /\ ConsultIsOurs
            /\ ReinvIsUp /\ RetryTried /\ ConsultHasTarget
LegInv == TypeOK /\ HoldNeedsAnswer /\ LegFacts

-----------------------------------------------------------------------------
\* What a handler may mean to the window.  The call of the screen is over;
Ended == \E ev \in Closing, h \in MaybeHandle :
            /\ out' = Fire(ev, h)
            /\ ev # "TRANSFER_OK" => h = call_nh
            /\ ev = "TRANSFER_OK" => h \in Handles /\ leg[h].refer = "accepted"

\* or there was none and one rings;
Rang == /\ call_nh = NoHandle /\ Ringing'
        /\ \E h \in Handles : out' = Fire("INCOMING_CALL", h)

\* or it is answered, by either side;
Answered == /\ call_nh' = call_nh /\ ~CanHold /\ CanHold' /\ ~call_on_hold'
            /\ \E h \in Handles :
                  \/ out' = Fire("CALL_CONNECTED", h)
                  \/ \E g \in Handles : out' = Fire("CALL_CONNECTED", h) \o Fire("CALL_MEDIA", g)

\* or it goes on as it was, whatever became of the consultation.
CallNews == Closing \cup {"INCOMING_CALL", "CALL_CONNECTED", "CALL_MEDIA"}

Carried ==
    /\ Ringing' <=> Ringing
    /\ CanHold' <=> CanHold
    /\ CanHold => call_nh' = call_nh /\ (consult_to' \/ call_on_hold' = call_on_hold)
    /\ \/ out' = <<>>
       \/ \E ev \in Events \ CallNews, h \in Handles :
             out' = Fire(ev, h) /\ (ev = "CONSULT_ENDED" => consult_to)
       \/ \E h \in Handles, g \in Handles :
             out' = Fire("CONSULT_CONNECTED", h) \o Fire("CONSULT_MEDIA", g)

Effect == (consult_to => consult_to') /\ (Ended \/ Rang \/ Answered \/ Carried)

Keeps == LegFacts' /\ Effect

\* A leg that is not over and not the consultation's is the primary call's.
LEMMA OtherLegIsPrimary ==
    ASSUME LegInv, NEW h \in Handles, leg[h].st # "idle", h # consult_nh PROVE h = call_nh
BY DEF LegInv, LegFacts, LegsHeld

\* A 2xx answers the INVITE it belongs to: the consultation's or the call's.
LEMMA AnsweredKeeps ==
    ASSUME LegInv, Orderly, NEW nh \in Handles, NEW sdp \in BOOLEAN, RInviteOk(nh, sdp)
    PROVE  Keeps
<1>0. leg \in Legs /\ leg[nh] \in Leg /\ nh # NoHandle
  BY FieldTypes, ConstantsAssumption DEF LegInv
<1>1. \A g \in Handles :
         /\ leg'[g].st = IF g = nh /\ ~leg[nh].reinv THEN "up" ELSE leg[g].st
         /\ leg'[g].reinv = (g # nh /\ leg[g].reinv)
         /\ leg'[g].retry = leg[g].retry
  BY <1>0 DEF RInviteOk, Legs, Leg
<1>2. leg[nh].st \in {"calling", "cancelled"} \/ leg[nh].reinv
  BY DEF RInviteOk, Inviting
<1>3. CASE nh = consult_nh
  <2>1. ConsultAnswered(nh, sdp)
    BY <1>3 DEF RInviteOk
  <2>2. UNCHANGED <<call_nh, call_established, call_is_incoming, call_on_hold, call_auth_tried,
                    consult_nh, consult_auth_tried, consult_to>>
    BY <2>1 DEF ConsultAnswered, callVars
  <2>3. nh # call_nh
    BY <1>0, <1>3 DEF LegInv, LegFacts, TwoLegs
  <2>4. LegFacts'
    <3>1. LegsHeld' /\ TwoLegs' /\ ConsultHasTarget'
      BY <1>0, <1>1, <1>2, <1>3, <2>2, <2>3
         DEF LegInv, LegFacts, LegsHeld, TwoLegs, ConsultHasTarget, TypeOK, MaybeHandle
    <3>2. PrimaryFlags'
      BY <1>0, <1>1, <1>2, <1>3, <2>2, <2>3
         DEF LegInv, LegFacts, LegsHeld, PrimaryFlags, Ringing, TypeOK, MaybeHandle
    <3>3. ConsultIsOurs' /\ ReinvIsUp'
      BY <1>0, <1>1, <1>2, <1>3, <2>2, <2>3
         DEF LegInv, LegFacts, LegsHeld, ConsultIsOurs, ReinvIsUp, TypeOK, MaybeHandle
    <3>4. RetryTried'
      BY <1>0, <1>1, <1>2, <1>3, <2>2, <2>3 DEF LegInv, LegFacts, RetryTried
    <3> QED BY <3>1, <3>2, <3>3, <3>4 DEF LegFacts
  <2>5. \/ out' = <<>>
        \/ out' = Fire("CONSULT_CONNECTED", nh)
        \/ \E g \in Handles : out' = Fire("CONSULT_CONNECTED", nh) \o Fire("CONSULT_MEDIA", g)
    <3>1. consult_rtp' \in MaybeHandle
      BY <2>1, ExtractType DEF ConsultAnswered, LegInv, TypeOK
    <3>2. Fire("CONSULT_CONNECTED", nh) \o <<>> = Fire("CONSULT_CONNECTED", nh)
      BY DEF Fire
    <3> QED BY <2>1, <3>1, <3>2, PlainRtp DEF ConsultAnswered, FireMedia, MaybeHandle
  <2>6. Carried
    <3>1. (Ringing' <=> Ringing) /\ (CanHold' <=> CanHold)
      BY <1>1, <2>2, <2>3 DEF Ringing, CanHold, LegInv, TypeOK, MaybeHandle
    <3>2. "CONSULT_CONNECTED" \in Events \ CallNews
      BY DEF Events, CallNews, Closing
    <3> QED BY <2>2, <2>5, <3>1, <3>2 DEF Carried
  <2> QED BY <2>2, <2>4, <2>6 DEF Keeps, Effect
<1>4. CASE nh # consult_nh
  <2>0. nh = call_nh
    BY <1>0, <1>2, <1>4, OtherLegIsPrimary DEF LegInv, LegFacts, ReinvIsUp
  <2>1. CallAnswered(nh, sdp)
    BY <1>4 DEF RInviteOk
  <2>2. UNCHANGED <<call_nh, call_is_incoming, call_on_hold, call_auth_tried,
                    consult_nh, consult_auth_tried, consult_to>> /\ call_established'
    BY <2>1 DEF CallAnswered, consultVars
  <2>3. LegFacts'
    <3>1. LegsHeld' /\ TwoLegs' /\ ConsultHasTarget'
      BY <1>0, <1>1, <1>2, <1>4, <2>0, <2>2
         DEF LegInv, LegFacts, LegsHeld, TwoLegs, ConsultHasTarget, TypeOK, MaybeHandle
    <3>2. PrimaryFlags'
      <4>1. leg'[call_nh].st \in {"up", "closing"}
        BY <1>0, <1>1, <1>2, <2>0 DEF LegInv, LegFacts, ReinvIsUp
      <4> QED BY <2>0, <2>2, <4>1 DEF PrimaryFlags, Ringing
    <3>3. ConsultIsOurs' /\ ReinvIsUp'
      BY <1>0, <1>1, <1>2, <1>4, <2>0, <2>2
         DEF LegInv, LegFacts, LegsHeld, ConsultIsOurs, ReinvIsUp, TypeOK, MaybeHandle
    <3>4. RetryTried'
      BY <1>0, <1>1, <1>2, <1>4, <2>0, <2>2 DEF LegInv, LegFacts, RetryTried
    <3> QED BY <3>1, <3>2, <3>3, <3>4 DEF LegFacts
  <2>4. CASE call_established
    BY <1>0, <1>1, <1>2, <2>0, <2>1, <2>2, <2>3, <2>4
       DEF CallAnswered, Keeps, Effect, Carried, Ringing, CanHold, LegInv, LegFacts, PrimaryFlags
  <2>5. CASE ~call_established
    <3>1. \/ out' = Fire("CALL_CONNECTED", nh)
          \/ \E g \in Handles : out' = Fire("CALL_CONNECTED", nh) \o Fire("CALL_MEDIA", g)
      <4>1. remote_rtp' \in MaybeHandle
        BY <2>1, ExtractType DEF CallAnswered, LegInv, TypeOK
      <4>2. Fire("CALL_CONNECTED", nh) \o <<>> = Fire("CALL_CONNECTED", nh)
        BY DEF Fire
      <4> QED BY <2>1, <2>5, <4>1, <4>2, PlainRtp DEF CallAnswered, FireMedia, MaybeHandle
    <3>2. ~Ringing /\ ~call_on_hold
      BY <1>2, <2>0, <2>5 DEF Ringing, LegInv, LegFacts, ReinvIsUp, PrimaryFlags, HoldNeedsAnswer
    <3> QED BY <1>0, <2>0, <2>2, <2>3, <2>5, <3>1, <3>2 DEF Keeps, Effect, Answered, CanHold
  <2> QED BY <2>4, <2>5
<1> QED BY <1>3, <1>4

\* The legs after an INVITE was refused.
LEMMA RefusedEffects ==
    ASSUME LegInv, NEW h \in Handles, leg[h].st \in {"calling", "cancelled"}, NEW g \in Handles
    PROVE  /\ Refused(h)[g].st = IF g = h THEN "idle" ELSE leg[g].st
           /\ Refused(h)[g].reinv = (g # h /\ leg[g].reinv)
           /\ Refused(h)[g].retry = (g # h /\ leg[g].retry)
<1>1. leg \in Legs
  BY FieldTypes DEF LegInv
<1> QED BY <1>1, NuaEffects DEF Refused

\* A challenge is answered on a new handle that takes the old one's place, or ends the
\* call or the consultation whose INVITE it refuses.
LEMMA ChallengedKeeps ==
    ASSUME LegInv, Orderly, NEW nh \in Handles, NEW challenge \in BOOLEAN,
           RInviteChallenged(nh, challenge)
    PROVE  Keeps
<1>0. /\ nh # NoHandle /\ NoHandle \notin Handles
      /\ leg[nh].st \in {"calling", "cancelled"} /\ Refused(nh) \in Legs
  BY ConstantsAssumption, RefusedType DEF RInviteChallenged, Inviting, Reinviting, Orderly, LegInv
<1>1. \A g \in Handles :
         /\ Refused(nh)[g].st = IF g = nh THEN "idle" ELSE leg[g].st
         /\ Refused(nh)[g].reinv = (g # nh /\ leg[g].reinv)
         /\ Refused(nh)[g].retry = (g # nh /\ leg[g].retry)
  BY <1>0, RefusedEffects
<1>2. CASE nh = consult_nh
  <2>1. ConsultWithDigest(nh, challenge) /\ nh # call_nh
    BY <1>0, <1>2 DEF RInviteChallenged, LegInv, LegFacts, TwoLegs
  <2>2. UNCHANGED <<call_nh, call_established, call_is_incoming, call_on_hold, call_auth_tried,
                    consult_to>> /\ consult_auth_tried'
    BY <2>1 DEF ConsultWithDigest, callVars
  <2>3. CASE GiveUp(consult_auth_tried, challenge)
    <3>1. consult_nh' = NoHandle /\ out' = Fire("CONSULT_ENDED", nh)
      BY <2>1, <2>3 DEF ConsultWithDigest
    <3>a. \A g \in Handles : /\ leg'[g].st = IF g = nh THEN "idle" ELSE leg[g].st
                             /\ leg'[g].reinv = (g # nh /\ leg[g].reinv)
                             /\ leg'[g].retry = (g # nh /\ leg[g].retry)
      BY <1>1, <2>1, <2>3 DEF ConsultWithDigest
    <3>2. LegFacts'
      <4>1. LegsHeld' /\ TwoLegs' /\ ConsultHasTarget'
        BY <1>0, <1>2, <2>1, <2>2, <3>1, <3>a
           DEF LegInv, LegFacts, LegsHeld, TwoLegs, ConsultHasTarget, TypeOK, MaybeHandle
      <4>2. PrimaryFlags'
        BY <1>0, <1>2, <2>1, <2>2, <3>1, <3>a
           DEF LegInv, LegFacts, LegsHeld, PrimaryFlags, Ringing, TypeOK, MaybeHandle
      <4>3. ConsultIsOurs' /\ ReinvIsUp'
        BY <1>0, <1>2, <2>1, <2>2, <3>1, <3>a
           DEF LegInv, LegFacts, LegsHeld, ConsultIsOurs, ReinvIsUp, TypeOK, MaybeHandle
      <4>4. RetryTried'
        BY <1>0, <1>2, <2>1, <2>2, <3>1, <3>a DEF LegInv, LegFacts, RetryTried
      <4> QED BY <4>1, <4>2, <4>3, <4>4 DEF LegFacts
    <3>3. (Ringing' <=> Ringing) /\ (CanHold' <=> CanHold)
      BY <2>1, <2>2, <3>a DEF Ringing, CanHold, LegInv, TypeOK, MaybeHandle
    <3>4. "CONSULT_ENDED" \in Events \ CallNews /\ consult_to
      BY <1>0, <1>2 DEF Events, CallNews, Closing, LegInv, LegFacts, ConsultHasTarget
    <3> QED BY <2>2, <3>1, <3>2, <3>3, <3>4 DEF Keeps, Effect, Carried
  <2>4. CASE ~GiveUp(consult_auth_tried, challenge)
    <3>1. PICK h \in Free : /\ consult_nh' = h
                            /\ leg' = [Refused(nh) EXCEPT ![h] = CallingLeg(TRUE)]
                            /\ out' = <<>>
      BY <2>1, <2>4 DEF ConsultWithDigest
    <3>2. h \in Handles /\ h # NoHandle /\ h # nh /\ h # call_nh /\ leg[h].st = "idle" /\ consult_nh' = h
      BY <1>0, <3>1, FreeIsIdle
    <3>a. \A g \in Handles :
            /\ leg'[g].st = IF g = h THEN "calling" ELSE Refused(nh)[g].st
            /\ leg'[g].reinv = (g # h /\ Refused(nh)[g].reinv)
            /\ leg'[g].retry = (g = h \/ (g # h /\ Refused(nh)[g].retry))
      <4> DEFINE l == Refused(nh)
      <4>1. l \in Legs /\ leg' = [l EXCEPT ![h] = CallingLeg(TRUE)]
        BY <1>0, <3>1
      <4> HIDE DEF l
      <4>2. \A g \in Handles : /\ leg'[g].st = IF g = h THEN "calling" ELSE l[g].st
                               /\ leg'[g].reinv = (g # h /\ l[g].reinv)
                               /\ leg'[g].retry = (g = h \/ (g # h /\ l[g].retry))
        BY <3>2, <4>1 DEF CallingLeg, IdleLeg, Legs, Leg
      <4> QED BY <4>2 DEF l
    <3>3. LegFacts'
      <4>1. LegsHeld' /\ TwoLegs'
        BY <1>0, <1>1, <1>2, <2>1, <2>2, <3>2, <3>a DEF LegInv, LegFacts, LegsHeld, TwoLegs
      <4>2. PrimaryFlags'
        BY <1>0, <1>1, <1>2, <2>1, <2>2, <3>2, <3>a DEF LegInv, LegFacts, PrimaryFlags, Ringing, TypeOK, MaybeHandle
      <4>3. ConsultIsOurs' /\ ReinvIsUp'
        BY <1>0, <1>1, <1>2, <2>1, <2>2, <3>2, <3>a DEF LegInv, LegFacts, ConsultIsOurs, ReinvIsUp
      <4>4. RetryTried'
        <5>1. ASSUME NEW g \in Handles, leg'[g].retry
              PROVE  leg'[g].st # "idle" /\ (g # h => g # nh /\ leg[g].retry)
          BY <1>0, <1>1, <3>2, <3>a, <5>1 DEF LegInv, LegFacts, RetryTried
        <5> QED BY <1>2, <2>2, <3>2, <5>1 DEF LegInv, LegFacts, RetryTried
      <4>5. ConsultHasTarget'
        BY <1>0, <1>1, <1>2, <2>1, <2>2, <3>2, <3>a DEF LegInv, LegFacts, ConsultHasTarget
      <4> QED BY <4>1, <4>2, <4>3, <4>4, <4>5 DEF LegFacts
    <3>4. (Ringing' <=> Ringing) /\ (CanHold' <=> CanHold)
      BY <1>1, <2>1, <2>2, <3>2, <3>a DEF Ringing, CanHold, LegInv, TypeOK, MaybeHandle
    <3> QED BY <2>2, <3>1, <3>3, <3>4 DEF Keeps, Effect, Carried
  <2> QED BY <2>3, <2>4
<1>3. CASE nh # consult_nh
  <2>1. InviteWithDigest(nh, challenge) /\ nh = call_nh
    BY <1>0, <1>3, OtherLegIsPrimary DEF RInviteChallenged
  <2>2. UNCHANGED <<call_established, call_is_incoming, call_on_hold, consult_nh,
                    consult_auth_tried, consult_to>> /\ call_auth_tried'
    BY <2>1 DEF InviteWithDigest, consultVars
  <2>3. ~call_established /\ ~Ringing /\ ~CanHold
    BY <1>0, <2>1 DEF LegInv, LegFacts, PrimaryFlags, Ringing, CanHold
  <2>4. CASE GiveUp(call_auth_tried, challenge)
    <3>1. call_nh' = NoHandle /\ leg' = Refused(nh) /\ out' = Fire("CALL_FAILED", nh)
      BY <2>1, <2>4 DEF InviteWithDigest
    <3>2. LegFacts'
      BY <1>0, <1>1, <1>3, <2>1, <2>2, <3>1
         DEF LegInv, LegFacts, LegsHeld, TwoLegs, PrimaryFlags, ConsultIsOurs, ReinvIsUp,
             RetryTried, ConsultHasTarget, Ringing, TypeOK, MaybeHandle
    <3>3. Ended
      BY <2>1, <3>1 DEF Ended, Closing, MaybeHandle
    <3> QED BY <2>2, <3>2, <3>3 DEF Keeps, Effect
  <2>5. CASE ~GiveUp(call_auth_tried, challenge)
    <3>1. PICK h \in Free : /\ call_nh' = h
                            /\ leg' = [Refused(nh) EXCEPT ![h] = CallingLeg(TRUE)]
                            /\ out' = <<>>
      BY <2>1, <2>5 DEF InviteWithDigest
    <3>2. h \in Handles /\ h # NoHandle /\ h # nh /\ h # consult_nh /\ leg[h].st = "idle" /\ call_nh' = h
      BY <1>0, <3>1, FreeIsIdle
    <3>a. \A g \in Handles :
            /\ leg'[g].st = IF g = h THEN "calling" ELSE Refused(nh)[g].st
            /\ leg'[g].reinv = (g # h /\ Refused(nh)[g].reinv)
            /\ leg'[g].retry = (g = h \/ (g # h /\ Refused(nh)[g].retry))
      <4> DEFINE l == Refused(nh)
      <4>1. l \in Legs /\ leg' = [l EXCEPT ![h] = CallingLeg(TRUE)]
        BY <1>0, <3>1
      <4> HIDE DEF l
      <4>2. \A g \in Handles : /\ leg'[g].st = IF g = h THEN "calling" ELSE l[g].st
                               /\ leg'[g].reinv = (g # h /\ l[g].reinv)
                               /\ leg'[g].retry = (g = h \/ (g # h /\ l[g].retry))
        BY <3>2, <4>1 DEF CallingLeg, IdleLeg, Legs, Leg
      <4> QED BY <4>2 DEF l
    <3>3. LegFacts'
      BY <1>0, <1>1, <1>3, <2>1, <2>2, <2>3, <3>2, <3>a
         DEF LegInv, LegFacts, LegsHeld, TwoLegs, PrimaryFlags, ConsultIsOurs, ReinvIsUp,
             RetryTried, ConsultHasTarget, Ringing, TypeOK, MaybeHandle
    <3>4. ~Ringing' /\ ~CanHold'
      BY <2>2, <2>3, <3>2, <3>a DEF Ringing, CanHold
    <3> QED BY <2>2, <2>3, <3>1, <3>3, <3>4 DEF Keeps, Effect, Carried
  <2> QED BY <2>4, <2>5
<1> QED BY <1>2, <1>3

\* The end of the consultation's leg: the window hears of it once.
LEMMA ConsultationGoneKeeps ==
    ASSUME LegInv, NEW nh \in Handles, nh = consult_nh, leg[nh].st # "idle",
           consult_nh' = NoHandle, out' = ConsultGone(nh),
           UNCHANGED <<callVars, consult_auth_tried, consult_to>>,
           \A g \in Handles : /\ leg'[g].st = IF g = nh THEN "idle" ELSE leg[g].st
                              /\ leg'[g].reinv = (g # nh /\ leg[g].reinv)
                              /\ leg'[g].retry = (g # nh /\ leg[g].retry)
    PROVE  Keeps
<1>0. nh # NoHandle /\ NoHandle \notin Handles /\ nh # call_nh
  BY ConstantsAssumption DEF LegInv, LegFacts, TwoLegs
<1>1. LegFacts'
  <2>1. LegsHeld' /\ TwoLegs' /\ ConsultHasTarget'
    BY <1>0 DEF LegInv, LegFacts, LegsHeld, TwoLegs, ConsultHasTarget, callVars
  <2>2. PrimaryFlags'
    BY <1>0 DEF LegInv, LegFacts, PrimaryFlags, Ringing, TypeOK, MaybeHandle, callVars
  <2>3. ConsultIsOurs' /\ ReinvIsUp'
    BY <1>0 DEF LegInv, LegFacts, ConsultIsOurs, ReinvIsUp
  <2>4. RetryTried'
    BY <1>0 DEF LegInv, LegFacts, RetryTried, callVars
  <2> QED BY <2>1, <2>2, <2>3, <2>4 DEF LegFacts
<1>2. (Ringing' <=> Ringing) /\ (CanHold' <=> CanHold)
  BY <1>0 DEF Ringing, CanHold, LegInv, TypeOK, MaybeHandle, callVars
<1>3. out' = <<>> \/ (out' = Fire("CONSULT_ENDED", nh) /\ consult_to)
  BY <1>0 DEF ConsultGone, LegInv, LegFacts, ConsultHasTarget
<1>4. "CONSULT_ENDED" \in Events \ CallNews
  BY DEF Events, CallNews, Closing
<1> QED BY <1>1, <1>2, <1>3, <1>4 DEF Keeps, Effect, Carried, callVars

\* A refusal ends the leg it is about.
LEMMA RefusedKeeps ==
    ASSUME LegInv, Orderly, NEW nh \in Handles, RInviteRefused(nh) PROVE Keeps
<1>0. /\ nh # NoHandle /\ NoHandle \notin Handles
      /\ leg[nh].st \in {"calling", "cancelled"}
  BY ConstantsAssumption DEF RInviteRefused, Reinviting, Orderly
<1>1. \A g \in Handles : /\ leg'[g].st = IF g = nh THEN "idle" ELSE leg[g].st
                         /\ leg'[g].reinv = (g # nh /\ leg[g].reinv)
                         /\ leg'[g].retry = (g # nh /\ leg[g].retry)
  BY <1>0, RefusedEffects DEF RInviteRefused
<1>2. CASE nh = consult_nh
  BY <1>0, <1>1, <1>2, ConsultationGoneKeeps DEF RInviteRefused, ConsultRefused
<1>3. CASE nh # consult_nh
  <2>1. nh = call_nh
    BY <1>0, <1>3, OtherLegIsPrimary
  <2>2. /\ out' = Fire("CALL_FAILED", nh) /\ call_nh' = NoHandle
        /\ UNCHANGED <<call_established, call_is_incoming, call_auth_tried, consult_nh,
                       consult_auth_tried, consult_to>>
    BY <1>3, <2>1 DEF RInviteRefused, CallRefused, Release, consultVars
  <2>3. LegFacts'
    BY <1>0, <1>1, <1>3, <2>1, <2>2
       DEF LegInv, LegFacts, LegsHeld, TwoLegs, PrimaryFlags, ConsultIsOurs, ReinvIsUp,
           RetryTried, ConsultHasTarget, Ringing, TypeOK, MaybeHandle
  <2>4. Ended
    BY <2>1, <2>2 DEF Ended, Closing, MaybeHandle
  <2> QED BY <2>2, <2>3, <2>4 DEF Keeps, Effect
<1> QED BY <1>2, <1>3

\* A new call rings when there is none, and is refused with 486 when there is; a re-INVITE
\* of the peer leaves the call as it is.
LEMMA IncomingKeeps ==
    ASSUME LegInv, Orderly, NEW nh \in Handles, NEW sdp \in BOOLEAN,
           IInvite(nh, sdp) \/ IReinvite(nh, sdp)
    PROVE  Keeps
<1>0. leg \in Legs /\ nh # NoHandle /\ NoHandle \notin Handles
  BY FieldTypes, ConstantsAssumption DEF LegInv
<1>1. CASE Busy(leg)
  <2>1. UNCHANGED <<leg, callVars, consultVars>> /\ out' = <<>>
    BY <1>1 DEF Busy
  <2> QED BY <2>1 DEF Keeps, Effect, Carried, LegInv, LegFacts, LegsHeld, TwoLegs, PrimaryFlags,
              ConsultIsOurs, ReinvIsUp, RetryTried, ConsultHasTarget, Ringing, CanHold,
              callVars, consultVars
<1>2. CASE /\ call_nh = NoHandle /\ nh \in Free
           /\ RingIn(nh, sdp) /\ leg' = [leg EXCEPT ![nh].st = "ringing"]
  <2>1. \A g \in Handles : /\ leg'[g].st = IF g = nh THEN "ringing" ELSE leg[g].st
                           /\ leg'[g].reinv = leg[g].reinv /\ leg'[g].retry = leg[g].retry
    BY <1>0, <1>2 DEF Legs, Leg
  <2>2. /\ call_nh' = nh /\ ~call_established' /\ call_is_incoming'
        /\ UNCHANGED <<consult_nh, consult_auth_tried, consult_to>>
    BY <1>2 DEF RingIn, FreshCall, consultVars
  <2>3. nh \notin {call_nh, consult_nh} /\ ~leg[nh].retry /\ ~leg[nh].reinv
    BY <1>2, FreeIsIdle
  <2>4. LegFacts'
    BY <1>0, <1>2, <2>1, <2>2, <2>3
       DEF LegInv, LegFacts, LegsHeld, TwoLegs, PrimaryFlags, ConsultIsOurs, ReinvIsUp,
           RetryTried, ConsultHasTarget, Ringing, TypeOK, MaybeHandle
  <2>5. Fire("INCOMING_CALL", nh) \o <<>> = Fire("INCOMING_CALL", nh)
    BY DEF Fire
  <2>6. Rang
    BY <1>0, <1>2, <2>1, <2>2, <2>5, PlainRtp DEF RingIn, FireSdp, Rang, Ringing
  <2> QED BY <2>2, <2>4, <2>6 DEF Keeps, Effect
<1>3. CASE AnswerReinvite(nh, sdp) /\ call_nh = nh /\ call_established /\ leg[nh].st = "up"
  <2>1. \A g \in Handles : /\ leg'[g].st = leg[g].st
                           /\ leg'[g].reinv = leg[g].reinv /\ leg'[g].retry = leg[g].retry
    <3>1. leg' = NuaAccept(leg, nh)
      BY <1>3, PlainRtp DEF AnswerReinvite
    <3> QED BY <1>0, <1>3, <3>1, NuaEffects
  <2>2. out' = <<>> /\ UNCHANGED <<callVars, consultVars>>
    BY <1>3, PlainRtp DEF AnswerReinvite
  <2>3. LegFacts'
    BY <2>1, <2>2
       DEF LegInv, LegFacts, LegsHeld, TwoLegs, PrimaryFlags, ConsultIsOurs, ReinvIsUp,
           RetryTried, ConsultHasTarget, Ringing, TypeOK, MaybeHandle, callVars, consultVars
  <2>4. (Ringing' <=> Ringing) /\ (CanHold' <=> CanHold)
    BY <1>3, <2>1, <2>2 DEF Ringing, CanHold, callVars
  <2> QED BY <2>2, <2>3, <2>4 DEF Keeps, Effect, Carried, callVars, consultVars
<1>4. CASE IInvite(nh, sdp)
  BY <1>1, <1>2, <1>4 DEF IInvite
<1>5. CASE IReinvite(nh, sdp)
  <2>1. nh = call_nh /\ leg[nh].st = "up"
    BY <1>5 DEF IReinvite, Orderly
  <2>2. call_established
    BY <1>0, <2>1 DEF LegInv, LegFacts, PrimaryFlags
  <2> QED BY <1>3, <1>5, <2>1, <2>2 DEF IReinvite
<1> QED BY <1>4, <1>5

\* drop_consult_leg sends the consultation a BYE or a CANCEL, and nobody else.
LEMMA DroppedEffects ==
    ASSUME TypeOK, NEW l \in Legs, NEW g \in Handles
    PROVE  /\ \/ DroppedLegs(l)[g].st = l[g].st
              \/ /\ g = consult_nh
                 /\ \/ l[g].st = "up" /\ DroppedLegs(l)[g].st = "closing"
                    \/ l[g].st = "calling" /\ DroppedLegs(l)[g].st = "cancelled"
           /\ DroppedLegs(l)[g].reinv = l[g].reinv /\ DroppedLegs(l)[g].retry = l[g].retry
<1>1. CASE consult_nh = NoHandle
  BY <1>1 DEF DroppedLegs
<1>2. CASE consult_nh # NoHandle
  <2>1. consult_nh \in Handles
    BY <1>2 DEF TypeOK, MaybeHandle
  <2> QED BY <1>2, <2>1, NuaEffects DEF DroppedLegs
<1> QED BY <1>1, <1>2

\* The end of the primary call: its own leg is over, the consultation's may be told to end.
LEMMA PrimaryOverKeeps ==
    ASSUME LegInv, NEW nh \in Handles, nh = call_nh, nh # consult_nh, call_nh' = NoHandle,
           \E ev \in {"CALL_ENDED", "CALL_FAILED"} : out' = Fire(ev, nh),
           leg' \in {Over(leg, nh), DroppedLegs(Over(leg, nh))},
           UNCHANGED <<consult_nh, consult_auth_tried, consult_to>>
    PROVE  Keeps
<1>0. nh # NoHandle /\ NoHandle \notin Handles /\ leg \in Legs /\ Over(leg, nh) \in Legs
  BY ConstantsAssumption, FieldTypes, NuaLegs DEF LegInv
<1>1. \A g \in Handles :
        /\ Over(leg, nh)[g].st = IF g = nh THEN "idle" ELSE leg[g].st
        /\ Over(leg, nh)[g].reinv = (g # nh /\ leg[g].reinv)
        /\ Over(leg, nh)[g].retry = (g # nh /\ leg[g].retry)
  BY <1>0, NuaEffects
<1>2. \A g \in Handles :
        /\ \/ leg'[g].st = IF g = nh THEN "idle" ELSE leg[g].st
           \/ g = consult_nh /\ leg[g].st # "idle" /\ leg'[g].st \in {"closing", "cancelled"}
        /\ leg'[g].reinv = (g # nh /\ leg[g].reinv)
        /\ leg'[g].retry = (g # nh /\ leg[g].retry)
  <2>1. CASE leg' = Over(leg, nh)
    BY <1>1, <2>1
  <2>2. CASE leg' = DroppedLegs(Over(leg, nh))
    BY <1>0, <1>1, <2>2, DroppedEffects DEF LegInv
  <2> QED BY <2>1, <2>2
<1>3. LegFacts'
  <2>1. LegsHeld' /\ TwoLegs'
    BY <1>0, <1>2 DEF LegInv, LegFacts, LegsHeld, TwoLegs
  <2>2. ReinvIsUp'
    BY <1>0, <1>2 DEF LegInv, LegFacts, ReinvIsUp, ConsultIsOurs
  <2>3. PrimaryFlags' /\ ConsultHasTarget'
    BY DEF PrimaryFlags, ConsultHasTarget, LegInv, LegFacts
  <2>4. ConsultIsOurs'
    BY <1>0, <1>2 DEF LegInv, LegFacts, ConsultIsOurs, TypeOK, MaybeHandle
  <2>5. RetryTried'
    BY <1>0, <1>2 DEF LegInv, LegFacts, RetryTried
  <2> QED BY <2>1, <2>2, <2>3, <2>4, <2>5 DEF LegFacts
<1>4. Ended
  BY DEF Ended, Closing, MaybeHandle
<1> QED BY <1>3, <1>4 DEF Keeps, Effect

\* nua_i_bye, nua_r_bye, nua_i_cancel and nua_i_error, each on a leg of ours.
LEMMA OverKeeps ==
    ASSUME LegInv, Orderly, NEW nh \in Handles, IBye(nh) \/ RBye(nh) \/ ICancel(nh) \/ IError(nh)
    PROVE  Keeps
<1>0. nh # NoHandle /\ leg \in Legs /\ leg[nh].st # "idle"
  BY ConstantsAssumption, FieldTypes DEF IBye, RBye, ICancel, IError, LegInv
<1>1. nh = call_nh \/ nh = consult_nh
  BY <1>0, OtherLegIsPrimary
<1>2. nh = call_nh => nh # consult_nh
  BY <1>0 DEF LegInv, LegFacts, TwoLegs
<1>3. ASSUME nh = consult_nh, ConsultOver(nh, Over(leg, nh)) PROVE Keeps
  <2>1. \A g \in Handles : /\ leg'[g].st = IF g = nh THEN "idle" ELSE leg[g].st
                           /\ leg'[g].reinv = (g # nh /\ leg[g].reinv)
                           /\ leg'[g].retry = (g # nh /\ leg[g].retry)
    BY <1>0, <1>3, NuaEffects DEF ConsultOver
  <2> QED BY <1>0, <1>3, <2>1, ConsultationGoneKeeps DEF ConsultOver
<1>4. ASSUME nh # consult_nh, CallOver(nh, Over(leg, nh)) PROVE Keeps
  BY <1>1, <1>4, PrimaryOverKeeps DEF CallOver, Release, DropConsultLeg
<1>5. CASE IBye(nh) \/ RBye(nh)
  BY <1>3, <1>4, <1>5 DEF IBye, RBye, Bye, Orderly
<1>6. CASE ICancel(nh)
  <2>1. nh # consult_nh
    BY <1>0, <1>6 DEF ICancel, LegInv, LegFacts, ConsultIsOurs
  <2> QED BY <1>1, <1>6, <2>1, PrimaryOverKeeps DEF ICancel, Release, consultVars
<1>7. CASE IError(nh)
  <2>1. CASE nh = consult_nh
    BY <1>3, <1>7, <2>1 DEF IError
  <2>2. CASE nh # consult_nh
    <3>1. CallError(nh)
      BY <1>1, <1>7, <2>2 DEF IError
    <3> QED BY <1>1, <2>2, <3>1, PrimaryOverKeeps DEF CallError, DropConsultLeg
  <2> QED BY <2>1, <2>2
<1> QED BY <1>5, <1>6, <1>7

\* A transfer's outcome changes no leg that LegFacts knows.
LEMMA TransferKeeps ==
    ASSUME LegInv, NEW nh \in Handles, NEW accepted \in BOOLEAN, NEW result,
           RRefer(nh, accepted) \/ INotify(nh, result)
    PROVE  Keeps
<1>1. \A g \in Handles : /\ leg'[g].st = leg[g].st
                         /\ leg'[g].reinv = leg[g].reinv /\ leg'[g].retry = leg[g].retry
  <2>1. PICK r \in {"none", "accepted"} : leg' = [leg EXCEPT ![nh].refer = r]
    BY DEF RRefer, INotify, TransferOver
  <2> QED BY <2>1, FieldTypes DEF LegInv, Legs, Leg
<1>2. UNCHANGED <<callVars, consultVars>>
  BY DEF RRefer, INotify, TransferOver
<1>3. LegFacts'
  BY <1>1, <1>2
     DEF LegInv, LegFacts, LegsHeld, TwoLegs, PrimaryFlags, ConsultIsOurs, ReinvIsUp,
         RetryTried, ConsultHasTarget, Ringing, TypeOK, MaybeHandle, callVars, consultVars
<1>4. (Ringing' <=> Ringing) /\ (CanHold' <=> CanHold)
  BY <1>1, <1>2 DEF Ringing, CanHold, LegInv, TypeOK, MaybeHandle, callVars
<1>5. out' = <<>> \/ out' = Fire("TRANSFER_OK", nh) \/ out' = Fire("TRANSFER_FAILED", nh)
  BY DEF RRefer, INotify, TransferOver
<1>6. out' # Fire("TRANSFER_OK", nh) => Carried
  <2>1. "TRANSFER_FAILED" \in Events \ CallNews
    BY DEF Events, CallNews, Closing
  <2> QED BY <1>2, <1>4, <1>5, <2>1 DEF Carried, callVars
<1>7. ASSUME out' = Fire("TRANSFER_OK", nh) PROVE Ended
  <2>1. out' # <<>> /\ out' # Fire("TRANSFER_FAILED", nh)
    BY <1>7, FireIsOne
  <2>2. leg[nh].refer = "accepted"
    BY <2>1 DEF RRefer, INotify, TransferOver
  <2> QED BY <1>7, <2>2 DEF Ended, Closing, MaybeHandle
<1> QED BY <1>2, <1>3, <1>6, <1>7 DEF Keeps, Effect, consultVars

\* Hence what sofia-sip may report of any handle.
LEMMA CallbackKeeps ==
    ASSUME LegInv, Orderly, NEW nh \in Handles, NuaCb(nh) PROVE Keeps
<1>1. \A sdp \in HasSdp : sdp \in BOOLEAN
  BY DEF HasSdp
<1>2. ASSUME NEW sdp \in HasSdp, RInviteOk(nh, sdp) \/ IInvite(nh, sdp) \/ IReinvite(nh, sdp)
      PROVE  Keeps
  BY <1>1, <1>2, AnsweredKeeps, IncomingKeeps
<1>3. ASSUME NEW challenge \in BOOLEAN, RInviteChallenged(nh, challenge) PROVE Keeps
  BY <1>3, ChallengedKeeps
<1>4. CASE RInviteRefused(nh) \/ IBye(nh) \/ RBye(nh) \/ ICancel(nh) \/ IError(nh)
  BY <1>4, RefusedKeeps, OverKeeps
<1>5. ASSUME NEW accepted \in BOOLEAN, NEW result, RRefer(nh, accepted) \/ INotify(nh, result)
      PROVE  Keeps
  BY <1>5, TransferKeeps
<1> QED BY <1>2, <1>3, <1>4, <1>5 DEF NuaCb

-----------------------------------------------------------------------------
\* sofia_call with no call there: a new leg, and nothing the window waits for.
LEMMA CallKeeps ==
    ASSUME LegInv, call_nh = NoHandle, SofiaCall PROVE Keeps
<1>1. PICK h \in Free : call_nh' = h /\ leg' = [leg EXCEPT ![h] = CallingLeg(FALSE)]
  BY DEF SofiaCall
<1>2. /\ h \in Handles /\ h # NoHandle /\ h # consult_nh /\ NoHandle \notin Handles
      /\ call_nh' = h /\ leg[h].st = "idle" /\ leg \in Legs
  BY <1>1, FreeIsIdle, FieldTypes, ConstantsAssumption DEF LegInv
<1>3. \A g \in Handles : /\ leg'[g].st = IF g = h THEN "calling" ELSE leg[g].st
                         /\ leg'[g].reinv = (g # h /\ leg[g].reinv)
                         /\ leg'[g].retry = (g # h /\ leg[g].retry)
  BY <1>1, <1>2 DEF CallingLeg, IdleLeg, Legs, Leg
<1>4. /\ ~call_established' /\ ~call_is_incoming' /\ out' = <<>>
      /\ UNCHANGED <<consult_nh, consult_auth_tried, consult_to>>
  BY DEF SofiaCall, FreshCall, consultVars
<1>5. LegFacts'
  <2>1. LegsHeld' /\ TwoLegs'
    BY <1>2, <1>3, <1>4 DEF LegInv, LegFacts, LegsHeld, TwoLegs
  <2>2. PrimaryFlags' /\ ConsultHasTarget'
    BY <1>2, <1>3, <1>4 DEF LegInv, LegFacts, PrimaryFlags, ConsultHasTarget, Ringing
  <2>3. ReinvIsUp'
    BY <1>3 DEF LegInv, LegFacts, ReinvIsUp
  <2>4. ConsultIsOurs'
    BY <1>2, <1>3, <1>4 DEF LegInv, LegFacts, ConsultIsOurs, TypeOK, MaybeHandle
  <2>5. RetryTried'
    BY <1>2, <1>3, <1>4 DEF LegInv, LegFacts, RetryTried
  <2> QED BY <2>1, <2>2, <2>3, <2>4, <2>5 DEF LegFacts
<1>6. ~Ringing /\ ~Ringing' /\ ~CanHold /\ ~CanHold'
  BY <1>2, <1>3, <1>4 DEF Ringing, CanHold
<1> QED BY <1>4, <1>5, <1>6 DEF Keeps, Effect, Carried

\* sofia_answer of a ringing call.
LEMMA AnswerKeeps ==
    ASSUME LegInv, Ringing, SofiaAnswer PROVE Keeps
<1>0. call_nh \in Handles /\ call_nh # NoHandle /\ leg \in Legs
  BY FieldTypes DEF Ringing, LegInv, TypeOK, MaybeHandle, Legs
<1>1. \A g \in Handles : /\ leg'[g].st = IF g = call_nh THEN "up" ELSE leg[g].st
                         /\ leg'[g].reinv = leg[g].reinv /\ leg'[g].retry = leg[g].retry
  BY <1>0, NuaEffects DEF SofiaAnswer, Ringing
<1>2. /\ call_established' /\ ~call_is_incoming' /\ ~call_on_hold'
      /\ UNCHANGED <<call_nh, call_auth_tried, consult_nh, consult_auth_tried, consult_to>>
  BY DEF SofiaAnswer, consultVars
<1>3. LegFacts'
  BY <1>0, <1>1, <1>2
     DEF LegInv, LegFacts, LegsHeld, TwoLegs, PrimaryFlags, ConsultIsOurs, ReinvIsUp,
         RetryTried, ConsultHasTarget, Ringing, TypeOK, MaybeHandle
<1>4. \/ out' = Fire("CALL_CONNECTED", call_nh)
      \/ \E g \in Handles : out' = Fire("CALL_CONNECTED", call_nh) \o Fire("CALL_MEDIA", g)
  <2>1. Fire("CALL_CONNECTED", call_nh) \o <<>> = Fire("CALL_CONNECTED", call_nh)
    BY DEF Fire
  <2> QED BY <2>1, PlainRtp DEF SofiaAnswer, FireMedia, LegInv, TypeOK, MaybeHandle
<1>5. ~CanHold
  BY DEF CanHold, Ringing, LegInv, LegFacts, PrimaryFlags
<1> QED BY <1>0, <1>2, <1>3, <1>4, <1>5 DEF Keeps, Effect, Answered, CanHold

\* sofia_hangup: 603 to a ringing call, CANCEL to one that is calling, BYE to one that is up.
LEMMA HangupKeeps ==
    ASSUME LegInv, SofiaHangup PROVE Keeps
<1> DEFINE l == DroppedLegs(leg)
<1>0. l \in Legs /\ NoHandle \notin Handles
  BY DroppedLegsType, FieldTypes, ConstantsAssumption DEF LegInv, TypeOK, Legs
<1>1. \A g \in Handles :
        /\ l[g].st = leg[g].st
              \/ (g = consult_nh /\ leg[g].st # "idle" /\ l[g].st \in {"closing", "cancelled"})
        /\ l[g].reinv = leg[g].reinv /\ l[g].retry = leg[g].retry
  BY DroppedEffects DEF LegInv, TypeOK, Legs
<1>2. UNCHANGED <<call_auth_tried, consult_nh, consult_auth_tried, consult_to>>
  BY DEF SofiaHangup
<1>3. CASE call_nh # NoHandle /\ ~call_established /\ call_is_incoming
  <2>0. call_nh \in Handles /\ call_nh # consult_nh /\ Ringing
    BY <1>3 DEF LegInv, LegFacts, TwoLegs, PrimaryFlags, TypeOK, MaybeHandle
  <2>1. l[call_nh].st = "ringing"
    BY <1>1, <2>0 DEF Ringing
  <2>2. /\ leg' = Over(l, call_nh) /\ call_nh' = NoHandle
        /\ out' = Fire("CALL_ENDED", call_nh)
    BY <1>3, <2>1 DEF SofiaHangup, Declined
  <2>3. \A g \in Handles : /\ leg'[g].st = IF g = call_nh THEN "idle" ELSE l[g].st
                           /\ leg'[g].reinv = (g # call_nh /\ l[g].reinv)
                           /\ leg'[g].retry = (g # call_nh /\ l[g].retry)
    BY <1>0, <2>0, <2>2, NuaEffects
  <2>4. LegFacts'
    <3> HIDE DEF l
    <3>1. LegsHeld' /\ TwoLegs'
      BY <1>0, <1>1, <1>2, <2>0, <2>2, <2>3 DEF LegInv, LegFacts, LegsHeld, TwoLegs
    <3>2. ReinvIsUp'
      <4>1. ASSUME NEW g \in Handles, leg'[g].reinv
            PROVE  leg'[g].st = l[g].st /\ l[g].reinv
        BY <2>3, <4>1
      <4>2. ASSUME NEW g \in Handles, l[g].reinv
            PROVE  l[g].st = leg[g].st /\ leg[g].reinv
        BY <1>0, <1>1, <4>2 DEF LegInv, LegFacts, ConsultIsOurs
      <4> QED BY <4>1, <4>2 DEF LegInv, LegFacts, ReinvIsUp
    <3>a. ConsultIsOurs'
      BY <1>1, <1>2, <2>3 DEF LegInv, LegFacts, ConsultIsOurs, TypeOK, MaybeHandle
    <3>3. PrimaryFlags' /\ ConsultHasTarget'
      BY <1>2, <2>2 DEF PrimaryFlags, ConsultHasTarget, LegInv, LegFacts
    <3>4. RetryTried'
      <4>1. ASSUME NEW g \in Handles, leg'[g].retry
            PROVE  leg'[g].st # "idle" /\ leg[g].retry
        <5>1. leg[g].retry
          BY <1>1, <2>3, <4>1
        <5>2. leg[g].st # "idle"
          BY <5>1 DEF LegInv, LegFacts, RetryTried
        <5> QED BY <1>1, <2>3, <4>1, <5>1, <5>2
      <4> QED BY <1>0, <1>2, <2>2, <4>1 DEF LegInv, LegFacts, RetryTried
    <3> QED BY <3>1, <3>2, <3>a, <3>3, <3>4 DEF LegFacts
  <2>5. Ended
    BY <2>0, <2>2 DEF Ended, Closing, MaybeHandle
  <2> QED BY <1>2, <2>4, <2>5 DEF Keeps, Effect
<1>4. CASE ~(call_nh # NoHandle /\ ~call_established /\ call_is_incoming)
  <2>1. /\ out' = <<>>
        /\ UNCHANGED <<call_nh, call_established, call_is_incoming, call_on_hold>>
    BY <1>4 DEF SofiaHangup
  <2>2. \A g \in Handles :
          /\ \/ leg'[g].st = leg[g].st
             \/ /\ g = consult_nh \/ (g = call_nh /\ call_established)
                /\ leg[g].st # "idle" /\ leg'[g].st = "closing"
             \/ /\ g = consult_nh \/ (g = call_nh /\ ~call_established /\ ~call_is_incoming)
                /\ leg[g].st # "idle" /\ leg'[g].st = "cancelled"
          /\ leg'[g].reinv = leg[g].reinv /\ leg'[g].retry = leg[g].retry
    <3>1. CASE call_nh = NoHandle
      BY <1>1, <1>4, <3>1 DEF SofiaHangup
    <3>2. CASE call_nh # NoHandle
      <4>1. call_nh \in Handles /\ call_nh # consult_nh
        BY <3>2 DEF LegInv, LegFacts, TwoLegs, TypeOK, MaybeHandle
      <4>2. leg' = IF call_established THEN NuaBye(l, call_nh) ELSE NuaCancel(l, call_nh)
        BY <1>4, <3>2 DEF SofiaHangup
      <4> HIDE DEF l
      <4> QED BY <1>0, <1>1, <1>4, <3>2, <4>1, <4>2, NuaEffects
    <3> QED BY <3>1, <3>2
  <2>3. LegFacts'
    <3>1. LegsHeld' /\ TwoLegs'
      BY <1>2, <2>1, <2>2 DEF LegInv, LegFacts, LegsHeld, TwoLegs
    <3>2. ReinvIsUp'
      BY <1>0, <2>2 DEF LegInv, LegFacts, ReinvIsUp, ConsultIsOurs, PrimaryFlags
    <3>a. ConsultIsOurs'
      BY <1>2, <2>1, <2>2 DEF LegInv, LegFacts, ConsultIsOurs, TypeOK, MaybeHandle
    <3>3. PrimaryFlags' /\ ConsultHasTarget'
      BY <1>2, <2>1, <2>2 DEF PrimaryFlags, ConsultHasTarget, LegInv, LegFacts, Ringing, TwoLegs,
                              TypeOK, MaybeHandle
    <3>4. RetryTried'
      BY <1>2, <2>1, <2>2 DEF LegInv, LegFacts, RetryTried
    <3> QED BY <3>1, <3>2, <3>a, <3>3, <3>4 DEF LegFacts
  <2>4. (Ringing' <=> Ringing) /\ (CanHold' <=> CanHold)
    BY <1>4, <2>1, <2>2 DEF Ringing, CanHold, LegInv, LegFacts, PrimaryFlags, TwoLegs, TypeOK,
                            MaybeHandle
  <2> QED BY <1>2, <2>1, <2>3, <2>4 DEF Keeps, Effect, Carried
<1> QED BY <1>3, <1>4

\* A re-INVITE of the primary changes no leg's state; it is out on a leg that is up.
LEMMA HeldEffects ==
    ASSUME TypeOK, call_nh # NoHandle, NEW l \in Legs, NEW hold \in BOOLEAN, NEW g \in Handles
    PROVE  /\ HeldLegs(l, hold)[g].st = l[g].st
           /\ HeldLegs(l, hold)[g].reinv = ((g = call_nh /\ l[g].st = "up") \/ l[g].reinv)
           /\ HeldLegs(l, hold)[g].retry = l[g].retry
<1>1. call_nh \in Handles
  BY DEF TypeOK, MaybeHandle
<1> QED BY <1>1, ReinviteEffects, PlainRtp DEF HeldLegs

\* An API call that re-INVITEs or refers the primary, at most.
LEMMA ReinvitedKeeps ==
    ASSUME LegInv, call_nh # NoHandle,
           \A g \in Handles :
              /\ leg'[g].st = leg[g].st /\ leg'[g].retry = leg[g].retry
              /\ leg'[g].reinv => leg[g].reinv \/ (g = call_nh /\ leg[g].st = "up"),
           UNCHANGED <<call_nh, call_established, call_is_incoming, call_auth_tried,
                       consult_nh, consult_auth_tried, consult_to>>
    PROVE  LegFacts' /\ (Ringing' <=> Ringing) /\ (CanHold' <=> CanHold)
<1>1. LegsHeld' /\ TwoLegs'
  BY DEF LegInv, LegFacts, LegsHeld, TwoLegs
<1>2. PrimaryFlags' /\ ConsultHasTarget'
  BY DEF LegInv, LegFacts, PrimaryFlags, ConsultHasTarget, Ringing, TypeOK, MaybeHandle
<1>3. ReinvIsUp'
  BY DEF LegInv, LegFacts, ReinvIsUp
<1>4. ConsultIsOurs'
  BY DEF LegInv, LegFacts, ConsultIsOurs, TwoLegs, TypeOK, MaybeHandle
<1>5. RetryTried'
  BY DEF LegInv, LegFacts, RetryTried
<1>6. (Ringing' <=> Ringing) /\ (CanHold' <=> CanHold)
  BY DEF Ringing, CanHold, LegInv, TypeOK, MaybeHandle
<1> QED BY <1>1, <1>2, <1>3, <1>4, <1>5, <1>6 DEF LegFacts

\* sofia_set_hold.
LEMMA HoldKeeps ==
    ASSUME LegInv, NEW hold \in BOOLEAN, SofiaSetHold(hold)
    PROVE  /\ LegFacts' /\ (Ringing' <=> Ringing) /\ CanHold /\ CanHold'
           /\ call_on_hold' = hold /\ out' = <<>>
           /\ UNCHANGED <<call_nh, consult_nh, consult_to>>
<1>1. CanHold /\ call_nh # NoHandle
  BY DEF SofiaSetHold, CanHold
<1>2. \A g \in Handles :
         /\ leg'[g].st = leg[g].st /\ leg'[g].retry = leg[g].retry
         /\ leg'[g].reinv => leg[g].reinv \/ (g = call_nh /\ leg[g].st = "up")
  <2>1. leg' = HeldLegs(leg, hold)
    BY DEF SofiaSetHold
  <2>2. leg \in Legs
    BY DEF LegInv, TypeOK, Legs
  <2>3. \A g \in Handles :
           /\ HeldLegs(leg, hold)[g].st = leg[g].st
           /\ HeldLegs(leg, hold)[g].retry = leg[g].retry
           /\ HeldLegs(leg, hold)[g].reinv
                 => leg[g].reinv \/ (g = call_nh /\ leg[g].st = "up")
    BY <1>1, <2>2, HeldEffects DEF LegInv
  <2> QED BY <2>1, <2>3
<1>3. /\ call_on_hold' = hold /\ out' = <<>>
      /\ UNCHANGED <<call_nh, call_established, call_is_incoming, call_auth_tried,
                     consult_nh, consult_auth_tried, consult_to>>
  BY DEF SofiaSetHold, consultVars
<1> QED BY <1>1, <1>2, <1>3, ReinvitedKeeps

\* A REFER on the primary, blind or to replace the consultation.
LEMMA ReferKeeps ==
    ASSUME LegInv, SofiaBlindTransfer \/ SofiaCompleteTransfer PROVE Keeps
<1>1. call_nh \in Handles /\ call_nh # NoHandle /\ leg \in Legs
  BY DEF SofiaBlindTransfer, SofiaCompleteTransfer, CanHold, LegInv, TypeOK, MaybeHandle, Legs
<1>2. leg' = NuaRefer(leg, call_nh) /\ out' = <<>> /\ UNCHANGED <<callVars, consultVars>>
  BY DEF SofiaBlindTransfer, SofiaCompleteTransfer
<1>3. \A g \in Handles :
         /\ leg'[g].st = leg[g].st /\ leg'[g].retry = leg[g].retry
         /\ leg'[g].reinv => leg[g].reinv \/ (g = call_nh /\ leg[g].st = "up")
  BY <1>1, <1>2, NuaEffects
<1>4. LegFacts' /\ (Ringing' <=> Ringing) /\ (CanHold' <=> CanHold)
  BY <1>1, <1>2, <1>3, ReinvitedKeeps DEF callVars, consultVars
<1> QED BY <1>2, <1>4 DEF Keeps, Effect, Carried, callVars, consultVars

\* sofia_start_consultation with no consultation there: the call is put on hold and stays,
\* and a second leg is ours.
LEMMA ConsultKeeps ==
    ASSUME LegInv, consult_nh = NoHandle, call_nh # NoHandle, SofiaStartConsultation PROVE Keeps
<1> DEFINE l == HeldLegs(leg, TRUE)
<1>1. PICK h \in Free : consult_nh' = h /\ leg' = [l EXCEPT ![h] = CallingLeg(FALSE)]
  BY DEF SofiaStartConsultation
<1>2. /\ h \in Handles /\ h # NoHandle /\ h # call_nh /\ NoHandle \notin Handles
      /\ consult_nh' = h /\ leg[h].st = "idle" /\ l \in Legs
  BY <1>1, FreeIsIdle, HeldLegsType, ConstantsAssumption DEF LegInv, TypeOK, Legs
<1>3. \A g \in Handles : /\ l[g].st = leg[g].st /\ l[g].retry = leg[g].retry
                         /\ l[g].reinv = ((g = call_nh /\ leg[g].st = "up") \/ leg[g].reinv)
  BY HeldEffects DEF LegInv, TypeOK, Legs
<1> HIDE DEF l
<1>4. \A g \in Handles : /\ leg'[g].st = IF g = h THEN "calling" ELSE l[g].st
                         /\ leg'[g].reinv = (g # h /\ l[g].reinv)
                         /\ leg'[g].retry = (g # h /\ l[g].retry)
  BY <1>1, <1>2 DEF CallingLeg, IdleLeg, Legs, Leg
<1>5. /\ consult_to' = TRUE /\ out' = <<>> /\ call_established
      /\ UNCHANGED <<call_nh, call_established, call_is_incoming, call_auth_tried>>
  BY DEF SofiaStartConsultation
<1>6. LegFacts'
  <2>1. LegsHeld' /\ TwoLegs'
    BY <1>2, <1>3, <1>4, <1>5 DEF LegInv, LegFacts, LegsHeld, TwoLegs
  <2>2. PrimaryFlags' /\ ConsultHasTarget'
    BY <1>2, <1>3, <1>4, <1>5
       DEF LegInv, LegFacts, PrimaryFlags, ConsultHasTarget, Ringing, TypeOK, MaybeHandle
  <2>3. ReinvIsUp'
    BY <1>3, <1>4 DEF LegInv, LegFacts, ReinvIsUp
  <2>4. ConsultIsOurs'
    BY <1>2, <1>4 DEF ConsultIsOurs
  <2>5. RetryTried'
    BY <1>2, <1>3, <1>4, <1>5 DEF LegInv, LegFacts, RetryTried
  <2> QED BY <2>1, <2>2, <2>3, <2>4, <2>5 DEF LegFacts
<1>7. (Ringing' <=> Ringing) /\ (CanHold' <=> CanHold)
  BY <1>2, <1>3, <1>4, <1>5 DEF Ringing, CanHold, LegInv, TypeOK, MaybeHandle
<1> QED BY <1>5, <1>6, <1>7 DEF Keeps, Effect, Carried

\* sofia_cancel_consultation: its leg is told to end, and the call is retrieved.
LEMMA CancelKeeps ==
    ASSUME LegInv, SofiaCancelConsultation PROVE Keeps
<1> DEFINE l == DroppedLegs(leg)
<1>0. /\ l \in Legs /\ consult_nh \in Handles /\ consult_nh # NoHandle /\ consult_nh # call_nh
      /\ consult_to
  BY DroppedLegsType DEF LegInv, LegFacts, TwoLegs, ConsultHasTarget, TypeOK, MaybeHandle, Legs,
                         SofiaCancelConsultation
<1>1. \A g \in Handles :
        /\ l[g].st = leg[g].st
              \/ (g = consult_nh /\ leg[g].st # "idle" /\ l[g].st \in {"closing", "cancelled"})
        /\ l[g].reinv = leg[g].reinv /\ l[g].retry = leg[g].retry
  BY DroppedEffects DEF LegInv, TypeOK, Legs
<1>2. leg' = IF CanHold THEN HeldLegs(l, FALSE) ELSE l
  BY DEF SofiaCancelConsultation
<1> HIDE DEF l
<1>3. \A g \in Handles :
        /\ leg'[g].st = l[g].st /\ leg'[g].retry = l[g].retry
        /\ leg'[g].reinv => l[g].reinv \/ (g = call_nh /\ l[g].st = "up")
  BY <1>0, <1>2, HeldEffects DEF CanHold, LegInv
<1>4. /\ out' = Fire("CONSULT_ENDED", consult_nh)
      /\ UNCHANGED <<call_nh, call_established, call_is_incoming, call_auth_tried,
                     consult_nh, consult_auth_tried, consult_to>>
  BY DEF SofiaCancelConsultation
<1>5. \A g \in Handles :
        /\ leg'[g].st = leg[g].st
              \/ (g = consult_nh /\ leg[g].st # "idle" /\ leg'[g].st \in {"closing", "cancelled"})
        /\ leg'[g].retry = leg[g].retry
        /\ leg'[g].reinv => leg[g].reinv \/ (g = call_nh /\ leg[g].st = "up")
  BY <1>0, <1>1, <1>3
<1>6. LegFacts'
  <2>1. LegsHeld' /\ TwoLegs'
    BY <1>4, <1>5 DEF LegInv, LegFacts, LegsHeld, TwoLegs
  <2>2. PrimaryFlags' /\ ConsultHasTarget'
    BY <1>0, <1>4, <1>5
       DEF LegInv, LegFacts, PrimaryFlags, ConsultHasTarget, Ringing, TypeOK, MaybeHandle
  <2>3. ReinvIsUp' /\ ConsultIsOurs'
    BY <1>0, <1>4, <1>5 DEF LegInv, LegFacts, ReinvIsUp, ConsultIsOurs
  <2>4. RetryTried'
    BY <1>4, <1>5 DEF LegInv, LegFacts, RetryTried
  <2> QED BY <2>1, <2>2, <2>3, <2>4 DEF LegFacts
<1>7. (Ringing' <=> Ringing) /\ (CanHold' <=> CanHold)
  BY <1>0, <1>4, <1>5 DEF Ringing, CanHold, LegInv, TypeOK, MaybeHandle
<1>8. "CONSULT_ENDED" \in Events \ CallNews
  BY DEF Events, CallNews, Closing
<1> QED BY <1>0, <1>4, <1>6, <1>7, <1>8 DEF Keeps, Effect, Carried

-----------------------------------------------------------------------------
(***************************************************************************)
(* What the window shows, logs and plays while the events of a handler are *)
(* on their way.                                                           *)
(***************************************************************************)
\* A handler reports one event, or that somebody answered and his media.
Pair(first, second) == \E h \in Handles, g \in Handles : out = Fire(first, h) \o Fire(second, g)

Reports == \/ out = <<>>
           \/ \E ev \in Events, h \in MaybeHandle : out = Fire(ev, h)
           \/ Pair("CALL_CONNECTED", "CALL_MEDIA")
           \/ Pair("CONSULT_CONNECTED", "CONSULT_MEDIA")

MediaComing == Taking("CALL_MEDIA") \/ Pair("CALL_CONNECTED", "CALL_MEDIA")

ScreenIsPending == active <=> pending # "none"
RingIsNew == Taking("INCOMING_CALL") => Ringing /\ ~active
AnswerIsWanted ==
    answer_button /\ active => Ringing \/ CloseComing \/ Taking("CALL_CONNECTED")

\* The microphone is on for a call that is answered, and silent while it is on hold.
AudioHasCall == audio # NoHandle => CanHold \/ CloseComing
MediaIsLive == MediaComing => CanHold /\ ~call_on_hold
MicIsHeld == audio # NoHandle /\ ~consult_to => (call_on_hold <=> audio_hold) \/ CloseComing

EndedHadTarget == Taking("CONSULT_ENDED") => consult_to

WindowInv == /\ Reports /\ ScreenIsPending /\ RingIsNew /\ AnswerIsWanted
             /\ AudioHasCall /\ MediaIsLive /\ MicIsHeld /\ EndedHadTarget

CallInv == LegInv /\ ScreenInv /\ PhoneTypeOK /\ WindowInv

\* Two reports in a row are taken one by one.
LEMMA PairIsTwo ==
    ASSUME NEW a, NEW h, NEW b, NEW g
    PROVE  /\ Fire(a, h) \o Fire(b, g) # <<>>
           /\ Head(Fire(a, h) \o Fire(b, g)).ev = a
           /\ Tail(Fire(a, h) \o Fire(b, g)) = Fire(b, g)
<1>1. ASSUME NEW e, NEW f
      PROVE <<e>> \o <<f>> # <<>> /\ Head(<<e>> \o <<f>>) = e /\ Tail(<<e>> \o <<f>>) = <<f>>
  <2>1. <<e, f>> # <<>> /\ Head(<<e, f>>) = e /\ Tail(<<e, f>>) = <<f>>
    OBVIOUS
  <2> QED BY <2>1, TwoInOne
<1> QED BY <1>1 DEF Fire

\* Which event a report is taken for.
LEMMA TakenFor ==
    ASSUME NEW x, NEW a, NEW h
    PROVE  /\ out = <<>> => ~Taking(x)
           /\ out = Fire(a, h) => (Taking(x) <=> x = a)
           /\ \A b, g : out = Fire(a, h) \o Fire(b, g) => (Taking(x) <=> x = a)
BY FireIsOne, PairIsTwo DEF Taking

\* One event is not two.
LEMMA OneOrTwo ==
    ASSUME NEW a, NEW b
    PROVE  /\ out = <<>> => ~Pair(a, b) /\ ~CloseComing
           /\ \A x, h : out = Fire(x, h) => ~Pair(a, b)
           /\ Pair(a, b) => ~CloseComing
           /\ \A x, h : out = Fire(x, h) => (CloseComing => x \in Closing)
BY FireIsOne, PairIsTwo DEF Pair, CloseComing

\* A handler that leaves the window alone keeps what the window shows in step with the
\* engine: by the event it fires, where it has to.
LEMMA EffectKeepsWindow ==
    ASSUME CallInv, out = <<>>, Effect, UNCHANGED <<screenVars, logVars, audioVars>>
    PROVE  WindowInv'
<1> USE DEF CallInv, WindowInv
<1>1. /\ active = (pending # "none") /\ UNCHANGED <<active, pending, answer_button, audio, audio_hold>>
  BY DEF ScreenIsPending, PhoneTypeOK, screenVars, logVars, audioVars
<1>2. /\ answer_button /\ active => Ringing
      /\ audio # NoHandle => CanHold
      /\ audio # NoHandle /\ ~consult_to => (call_on_hold <=> audio_hold)
      /\ active => call_nh # NoHandle
  BY OneOrTwo, TakenFor DEF AnswerIsWanted, AudioHasCall, MicIsHeld, ScreenInv, ScreenHasCall
<1>3. ScreenIsPending' /\ (consult_to => consult_to')
  BY <1>1 DEF ScreenIsPending, Effect
<1>4. CASE Ended
  <2>1. PICK ev \in Closing, h \in MaybeHandle : out' = Fire(ev, h)
    BY <1>4 DEF Ended
  <2>2. CloseComing' /\ Reports'
    BY <2>1 DEF CloseComing, Reports, Closing, Events
  <2>3. \A x : Taking(x)' => x \in Closing
    BY <2>1, FireIsOne DEF Taking
  <2>4. ~Pair("CALL_CONNECTED", "CALL_MEDIA")'
    BY <2>1, FireIsOne, PairIsTwo DEF Pair
  <2> QED BY <1>3, <2>2, <2>3, <2>4
          DEF RingIsNew, AnswerIsWanted, AudioHasCall, MediaIsLive, MediaComing, MicIsHeld,
              EndedHadTarget, Closing
<1>5. CASE Rang
  <2>1. PICK h \in Handles : out' = Fire("INCOMING_CALL", h)
    BY <1>5 DEF Rang
  <2>2. Reports'
    BY <2>1 DEF Reports, Events, MaybeHandle
  <2>3. \A x : Taking(x)' => x = "INCOMING_CALL"
    BY <2>1, FireIsOne DEF Taking
  <2>4. ~Pair("CALL_CONNECTED", "CALL_MEDIA")'
    BY <2>1, FireIsOne, PairIsTwo DEF Pair
  <2>5. ~active /\ audio = NoHandle /\ Ringing'
    BY <1>2, <1>5 DEF Rang, CanHold
  <2> QED BY <1>1, <1>3, <2>2, <2>3, <2>4, <2>5
          DEF RingIsNew, AnswerIsWanted, AudioHasCall, MediaIsLive, MediaComing, MicIsHeld,
              EndedHadTarget
<1>6. CASE Answered
  <2>1. PICK h \in Handles :
          \/ out' = Fire("CALL_CONNECTED", h)
          \/ \E g \in Handles : out' = Fire("CALL_CONNECTED", h) \o Fire("CALL_MEDIA", g)
    BY <1>6 DEF Answered
  <2>2. Reports'
    BY <2>1 DEF Reports, Pair, Events, MaybeHandle
  <2>3. \A x : Taking(x)' <=> x = "CALL_CONNECTED"
    BY <2>1, FireIsOne, PairIsTwo DEF Taking
  <2>4. audio = NoHandle /\ CanHold' /\ ~call_on_hold'
    BY <1>2, <1>6 DEF Answered
  <2> QED BY <1>1, <1>3, <2>2, <2>3, <2>4
          DEF RingIsNew, AnswerIsWanted, AudioHasCall, MediaIsLive, MediaComing, MicIsHeld,
              EndedHadTarget
<1>7. CASE Carried
  <2> DEFINE NoCallNews == /\ Reports' /\ ~MediaComing'
                           /\ \A x : Taking(x)' => x \notin CallNews
                           /\ Taking("CONSULT_ENDED")' => consult_to
  <2>1. NoCallNews
    <3>1. CASE out' = <<>>
      BY <3>1, FireIsOne, PairIsTwo DEF Reports, MediaComing, Pair, Taking
    <3>2. ASSUME NEW ev \in Events \ CallNews, NEW h \in Handles,
                 out' = Fire(ev, h), ev = "CONSULT_ENDED" => consult_to
          PROVE  NoCallNews
      <4>1. \A x : Taking(x)' <=> x = ev
        BY <3>2, FireIsOne DEF Taking
      <4>2. ~Pair("CALL_CONNECTED", "CALL_MEDIA")'
        BY <3>2, FireIsOne, PairIsTwo DEF Pair
      <4>3. Reports'
        BY <3>2 DEF Reports, MaybeHandle
      <4> QED BY <3>2, <4>1, <4>2, <4>3 DEF MediaComing, CallNews
    <3>3. ASSUME NEW h \in Handles, NEW g \in Handles,
                 out' = Fire("CONSULT_CONNECTED", h) \o Fire("CONSULT_MEDIA", g)
          PROVE  NoCallNews
      <4>1. \A x : Taking(x)' <=> x = "CONSULT_CONNECTED"
        BY <3>3, PairIsTwo DEF Taking
      <4>2. ~Pair("CALL_CONNECTED", "CALL_MEDIA")'
        BY <3>3, PairIsTwo DEF Pair
      <4>3. Reports'
        BY <3>3 DEF Reports, Pair
      <4> QED BY <4>1, <4>2, <4>3 DEF MediaComing, CallNews, Closing
    <3> QED BY <1>7, <3>1, <3>2, <3>3 DEF Carried
  <2>2. /\ Ringing' <=> Ringing
        /\ CanHold' <=> CanHold
        /\ CanHold => consult_to' \/ call_on_hold' = call_on_hold
    BY <1>7 DEF Carried
  <2>3. RingIsNew' /\ AnswerIsWanted'
    BY <1>1, <1>2, <2>1, <2>2 DEF RingIsNew, AnswerIsWanted, CallNews
  <2>4. AudioHasCall' /\ MediaIsLive' /\ MicIsHeld' /\ EndedHadTarget'
    BY <1>1, <1>2, <1>3, <2>1, <2>2 DEF AudioHasCall, MediaIsLive, MicIsHeld, EndedHadTarget
  <2> QED BY <1>3, <2>1, <2>3, <2>4
<1> QED BY <1>4, <1>5, <1>6, <1>7 DEF Effect

\* At rest nothing is queued.
LEMMA QuietWindow ==
    ASSUME out = <<>>
    PROVE  /\ Reports /\ ~MediaComing /\ ~CloseComing
           /\ \A x : ~Taking(x)
BY OneOrTwo DEF Reports, MediaComing, Taking

\* Dialling opens the screen on a new call.
LEMMA StartCallKeeps ==
    ASSUME CallInv, Orderly, out = <<>>, StartCall, Intact'
    PROVE  LegFacts' /\ WindowInv' /\ out' = <<>>
<1>1. call_nh = NoHandle /\ SofiaCall
  BY DEF StartCall, Intact
<1>2. LegFacts'
  BY <1>1, CallKeeps DEF CallInv, Keeps
<1>3. out' = <<>>
  BY <1>1 DEF SofiaCall
<1>4. /\ Reports' /\ ~MediaComing' /\ ~Taking("INCOMING_CALL")' /\ ~Taking("CONSULT_ENDED")'
  BY <1>3, FireIsOne, PairIsTwo DEF Reports, MediaComing, Taking, Pair
<1>5. audio = NoHandle /\ audio' = NoHandle
  BY <1>1, QuietWindow DEF CallInv, WindowInv, AudioHasCall, CanHold, StartCall, audioVars
<1>6. active' = TRUE /\ answer_button' = FALSE /\ pending' = "outgoing"
  BY DEF StartCall
<1> QED BY <1>2, <1>3, <1>4, <1>5, <1>6
        DEF WindowInv, ScreenIsPending, RingIsNew, AnswerIsWanted, AudioHasCall, MediaIsLive,
            MicIsHeld, EndedHadTarget

\* The Hold toggle silences the microphone and puts the call on hold together.
LEMMA HoldToggledKeeps ==
    ASSUME CallInv, out = <<>>, NEW hold \in BOOLEAN, HoldToggled(hold)
    PROVE  LegFacts' /\ WindowInv' /\ out' = <<>>
<1>0. /\ answer_button /\ active => Ringing
      /\ audio # NoHandle => CanHold
  BY QuietWindow DEF CallInv, WindowInv, AnswerIsWanted, AudioHasCall
<1>1. /\ audio_hold' = (hold /\ audio # NoHandle)
      /\ UNCHANGED <<active, answer_button, pending, audio>>
  BY DEF HoldToggled, logVars
<1>2. /\ LegFacts' /\ (Ringing' <=> Ringing) /\ out' = <<>> /\ consult_to' = consult_to
      /\ CanHold' <=> CanHold
      /\ CanHold => call_on_hold' = hold
  <2>1. CASE CanHold
    BY <2>1, HoldKeeps DEF HoldToggled, CallInv
  <2>2. CASE ~CanHold
    <3>1. UNCHANGED vars
      BY <2>2 DEF HoldToggled
    <3>2. UNCHANGED <<callVars, consultVars, leg, out>>
      BY <3>1 DEF vars
    <3> QED BY <2>2, <3>2 DEF CallInv, LegInv, LegFacts, LegsHeld, TwoLegs, PrimaryFlags,
              ConsultIsOurs, ReinvIsUp, RetryTried, ConsultHasTarget, Ringing, CanHold,
              callVars, consultVars
  <2> QED BY <2>1, <2>2
<1>3. /\ Reports' /\ ~MediaComing' /\ ~Taking("INCOMING_CALL")' /\ ~Taking("CONSULT_ENDED")'
  BY <1>2, FireIsOne, PairIsTwo DEF Reports, MediaComing, Taking, Pair
<1>4. ScreenIsPending'
  BY <1>1 DEF CallInv, WindowInv, ScreenIsPending
<1>5. AnswerIsWanted' /\ AudioHasCall'
  BY <1>0, <1>1, <1>2 DEF AnswerIsWanted, AudioHasCall
<1>6. MicIsHeld'
  BY <1>0, <1>1, <1>2 DEF MicIsHeld
<1> QED BY <1>2, <1>3, <1>4, <1>5, <1>6 DEF WindowInv, RingIsNew, MediaIsLive, EndedHadTarget

\* The buttons of the call screen but Hold: the window leaves the engine to it.
Buttons == \/ AnswerCall \/ HangupCall \/ BlindTransfer
           \/ StartConsultation \/ CompleteTransfer \/ CancelConsultation

\* They keep the legs' facts.
LEMMA ButtonsKeep ==
    ASSUME CallInv, Orderly, out = <<>>, Buttons, Intact'
    PROVE  Keeps /\ UNCHANGED <<screenVars, logVars, audioVars>>
<1> USE DEF uiVars
<1>0. LegInv /\ (active => call_nh # NoHandle)
  BY QuietWindow DEF CallInv, ScreenInv, ScreenHasCall
<1>1. CASE AnswerCall
  <2>1. Ringing
    BY <1>1, QuietWindow DEF AnswerCall, CallInv, WindowInv, AnswerIsWanted
  <2> QED BY <1>0, <1>1, <2>1, AnswerKeeps DEF AnswerCall
<1>2. CASE HangupCall
  BY <1>0, <1>2, HangupKeeps DEF HangupCall
<1>3. CASE BlindTransfer \/ CompleteTransfer
  BY <1>0, <1>3, ReferKeeps DEF BlindTransfer, CompleteTransfer
<1>4. CASE StartConsultation
  BY <1>0, <1>4, ConsultKeeps DEF StartConsultation, Intact
<1>5. CASE CancelConsultation
  BY <1>0, <1>5, CancelKeeps DEF CancelConsultation
<1> QED BY <1>1, <1>2, <1>3, <1>4, <1>5 DEF Buttons

\* Every action of the user keeps the legs' facts and the window's.
LEMMA UserKeepsCall ==
    ASSUME CallInv, Orderly, out = <<>>, User, Intact'
    PROVE  LegFacts' /\ WindowInv' /\ (Effect \/ out' = <<>>)
<1>1. CASE StartCall
  BY <1>1, StartCallKeeps
<1>2. ASSUME NEW hold \in BOOLEAN, HoldToggled(hold) PROVE LegFacts' /\ WindowInv' /\ out' = <<>>
  BY <1>2, HoldToggledKeeps
<1>3. CASE Buttons
  BY <1>3, ButtonsKeep, EffectKeepsWindow DEF Keeps
<1> QED BY <1>1, <1>2, <1>3 DEF User, Buttons

\* What is left of a report when its first event is taken.
LEMMA TailOfReports ==
    ASSUME Reports, out # <<>>, out' = Tail(out)
    PROVE  /\ Reports'
           /\ \A x : Taking(x)' => x \in {"CALL_MEDIA", "CONSULT_MEDIA"}
           /\ MediaComing' => Pair("CALL_CONNECTED", "CALL_MEDIA")
           /\ ~CloseComing'
<1>1. ASSUME NEW ev \in Events, NEW h \in MaybeHandle, out = Fire(ev, h)
      PROVE  out' = <<>>
  BY <1>1, FireIsOne
<1>2. ASSUME out' = <<>>
      PROVE  Reports' /\ ~MediaComing' /\ ~CloseComing' /\ \A x : ~Taking(x)'
  BY <1>2, FireIsOne, PairIsTwo DEF Reports, MediaComing, Pair, Taking, CloseComing
<1>3. ASSUME NEW a, NEW h \in Handles, NEW g \in Handles,
             NEW b \in {"CALL_MEDIA", "CONSULT_MEDIA"}, out = Fire(a, h) \o Fire(b, g)
      PROVE  /\ Reports' /\ ~CloseComing'
             /\ \A x : Taking(x)' <=> x = b
             /\ ~Pair("CALL_CONNECTED", "CALL_MEDIA")'
  <2>1. out' = Fire(b, g)
    BY <1>3, PairIsTwo
  <2>2. \A x : Taking(x)' <=> x = b
    BY <2>1, FireIsOne DEF Taking
  <2>3. Reports'
    BY <2>1 DEF Reports, Events, MaybeHandle
  <2>4. ~Pair("CALL_CONNECTED", "CALL_MEDIA")' /\ ~CloseComing'
    <3>1. ~Pair("CALL_CONNECTED", "CALL_MEDIA")'
      BY <2>1, FireIsOne, PairIsTwo DEF Pair
    <3>2. ~CloseComing'
      BY <2>1, FireIsOne DEF CloseComing, Closing
    <3> QED BY <3>1, <3>2
  <2> QED BY <2>2, <2>3, <2>4
<1>4. CASE Pair("CALL_CONNECTED", "CALL_MEDIA")
  BY <1>3, <1>4 DEF Pair, MediaComing
<1>5. CASE Pair("CONSULT_CONNECTED", "CONSULT_MEDIA")
  BY <1>3, <1>5 DEF Pair, MediaComing
<1> QED BY <1>1, <1>2, <1>4, <1>5 DEF Reports

\* Taking an event changes nothing of the engine.
LEMMA TakenKeepsLegs ==
    ASSUME LegInv, Taken
    PROVE  /\ LegFacts' /\ (Ringing' <=> Ringing) /\ (CanHold' <=> CanHold)
           /\ UNCHANGED <<call_nh, call_on_hold, consult_to>>
<1>1. UNCHANGED <<callVars, consultVars, leg>>
  BY DEF Taken
<1> QED BY <1>1 DEF LegInv, LegFacts, LegsHeld, TwoLegs, PrimaryFlags, ConsultIsOurs, ReinvIsUp,
                    RetryTried, ConsultHasTarget, Ringing, CanHold, callVars, consultVars

\* The handlers of the call's own events.
LEMMA CallEventKeeps ==
    ASSUME CallInv, OnIncomingCall \/ OnCallConnected \/ OnCallMedia \/ OnCallOver
    PROVE  WindowInv'
<1> USE DEF CallInv
<1>0. /\ out # <<>> /\ out' = Tail(out) /\ (Ringing' <=> Ringing) /\ (CanHold' <=> CanHold)
      /\ UNCHANGED <<call_nh, call_on_hold, consult_to>>
  BY TakenKeepsLegs DEF OnIncomingCall, OnCallConnected, OnCallMedia, OnCallOver, Taken, Taking
<1>1. /\ Reports' /\ ~CloseComing'
      /\ \A x : Taking(x)' => x \in {"CALL_MEDIA", "CONSULT_MEDIA"}
      /\ MediaComing' => Pair("CALL_CONNECTED", "CALL_MEDIA")
  BY <1>0, TailOfReports DEF WindowInv
<1>2. RingIsNew' /\ EndedHadTarget'
  BY <1>1 DEF RingIsNew, EndedHadTarget
<1>3. MediaIsLive'
  BY <1>0, <1>1 DEF MediaIsLive, WindowInv, MediaComing
<1>4. \A x \in {"INCOMING_CALL", "CALL_CONNECTED", "CALL_MEDIA"} : Taking(x) => ~CloseComing
  BY FireIsOne DEF Taking, CloseComing, Closing
<1>5. CASE OnIncomingCall
  <2>1. Ringing /\ ~CanHold /\ ~CloseComing
    <3>1. Ringing /\ ~CloseComing
      BY <1>4, <1>5 DEF OnIncomingCall, WindowInv, RingIsNew
    <3> QED BY <3>1 DEF LegInv, LegFacts, PrimaryFlags, Ringing, CanHold
  <2>2. audio = NoHandle /\ audio' = audio
    BY <1>5, <2>1 DEF OnIncomingCall, audioVars, WindowInv, AudioHasCall
  <2>3. active' = TRUE /\ pending' = "incoming"
    BY <1>5 DEF OnIncomingCall
  <2> QED BY <1>0, <1>1, <1>2, <1>3, <2>1, <2>2, <2>3
          DEF WindowInv, ScreenIsPending, AnswerIsWanted, AudioHasCall, MicIsHeld
<1>6. CASE OnCallConnected
  <2>1. ~CloseComing /\ answer_button' = FALSE /\ UNCHANGED <<active, pending, audio, audio_hold>>
    BY <1>4, <1>6 DEF OnCallConnected, audioVars
  <2> QED BY <1>0, <1>1, <1>2, <1>3, <2>1
          DEF WindowInv, ScreenIsPending, AnswerIsWanted, AudioHasCall, MicIsHeld
<1>7. CASE OnCallMedia
  <2>1. Taking("CALL_MEDIA") /\ ~CloseComing /\ CanHold /\ ~call_on_hold
    BY <1>4, <1>7 DEF OnCallMedia, WindowInv, MediaIsLive, MediaComing
  <2>2. UNCHANGED <<active, pending, answer_button>>
    BY <1>7 DEF OnCallMedia, screenVars, logVars
  <2>3. ~Taking("CALL_CONNECTED")
    BY <2>1 DEF Taking
  <2>4. ScreenIsPending' /\ AnswerIsWanted' /\ AudioHasCall'
    BY <1>0, <2>1, <2>2, <2>3 DEF WindowInv, ScreenIsPending, AnswerIsWanted, AudioHasCall
  <2>5. MicIsHeld'
    BY <1>0, <1>7, <2>1 DEF OnCallMedia, WindowInv, MicIsHeld
  <2> QED BY <1>1, <1>2, <1>3, <2>4, <2>5 DEF WindowInv
<1>8. CASE OnCallOver
  <2>1. active' = FALSE /\ audio' = NoHandle
    BY <1>8 DEF OnCallOver
  <2>2. pending' = "none"
    BY <1>8 DEF OnCallOver, FinalizePendingCall, logVars
  <2> QED BY <1>1, <1>2, <1>3, <2>1, <2>2
          DEF WindowInv, ScreenIsPending, AnswerIsWanted, AudioHasCall, MicIsHeld
<1> QED BY <1>5, <1>6, <1>7, <1>8

\* The handlers of the consultation's events.
LEMMA ConsultEventKeeps ==
    ASSUME CallInv, Taken, OnTransferFailed \/ OnConsultConnected \/ OnConsultMedia \/ OnConsultEnded
    PROVE  WindowInv'
<1> USE DEF CallInv
<1>0. /\ out # <<>> /\ out' = Tail(out) /\ (Ringing' <=> Ringing) /\ (CanHold' <=> CanHold)
      /\ UNCHANGED <<call_nh, call_on_hold, consult_to>>
  BY TakenKeepsLegs DEF OnTransferFailed, OnConsultConnected, OnConsultMedia, OnConsultEnded,
                        Taken, Taking
<1>1. /\ Reports' /\ ~CloseComing'
      /\ \A x : Taking(x)' => x \in {"CALL_MEDIA", "CONSULT_MEDIA"}
      /\ MediaComing' => Pair("CALL_CONNECTED", "CALL_MEDIA")
  BY <1>0, TailOfReports DEF WindowInv
<1>2. RingIsNew' /\ EndedHadTarget'
  BY <1>1 DEF RingIsNew, EndedHadTarget
<1>3. MediaIsLive'
  BY <1>0, <1>1 DEF MediaIsLive, WindowInv, MediaComing
<1>4. ~CloseComing /\ ~Taking("CALL_CONNECTED")
  BY FireIsOne DEF OnTransferFailed, OnConsultConnected, OnConsultMedia, OnConsultEnded,
                   Taking, CloseComing, Closing
<1>5. UNCHANGED <<active, pending, answer_button, audio>>
  BY DEF OnTransferFailed, OnConsultConnected, OnConsultMedia, OnConsultEnded, uiVars,
         screenVars, logVars, audioVars
<1>6. ScreenIsPending' /\ AnswerIsWanted' /\ AudioHasCall'
  BY <1>0, <1>4, <1>5 DEF WindowInv, ScreenIsPending, AnswerIsWanted, AudioHasCall
<1>7. MicIsHeld'
  <2>1. audio_hold' = audio_hold \/ consult_to
    BY DEF OnTransferFailed, OnConsultConnected, OnConsultMedia, OnConsultEnded, uiVars,
           audioVars, WindowInv, EndedHadTarget
  <2> QED BY <1>0, <1>4, <1>5, <2>1 DEF WindowInv, MicIsHeld
<1> QED BY <1>1, <1>2, <1>3, <1>6, <1>7 DEF WindowInv

\* TRANSFER_FAILED retrieves the call by cancelling the consultation.
LEMMA RetrievedKeeps ==
    ASSUME CallInv, OnTransferFailed, SofiaCancelConsultation PROVE LegFacts' /\ WindowInv'
<1> USE DEF CallInv
<1>1. LegFacts' /\ consult_to'
  BY CancelKeeps DEF Keeps, Effect, SofiaCancelConsultation, LegInv, LegFacts, ConsultHasTarget
<1>2. /\ out' = Fire("CONSULT_ENDED", consult_nh) /\ consult_nh \in MaybeHandle
      /\ CanHold' <=> CanHold
  BY DEF SofiaCancelConsultation, CanHold, LegInv, TypeOK
<1>3. Ringing => Ringing'
  <2>1. Carried \/ Ended \/ Rang \/ Answered
    BY CancelKeeps DEF Keeps, Effect
  <2>2. ~Ended /\ ~Rang /\ ~Answered
    <3>1. ~Ended
      BY <1>2, FireIsOne DEF Ended, Closing
    <3>2. ~Rang
      BY <1>2, FireIsOne DEF Rang
    <3>3. ~Answered
      BY <1>2 DEF Answered
    <3> QED BY <3>1, <3>2, <3>3
  <2> QED BY <2>1, <2>2 DEF Carried
<1>4. UNCHANGED <<active, pending, answer_button, audio>>
  BY DEF OnTransferFailed, uiVars, screenVars, logVars, audioVars
<1>5. ~CloseComing /\ ~Taking("CALL_CONNECTED")
  BY FireIsOne DEF OnTransferFailed, Taking, CloseComing, Closing
<1>6. Reports'
  BY <1>2 DEF Reports, Events
<1>7. \A x : Taking(x)' <=> x = "CONSULT_ENDED"
  BY <1>2, FireIsOne DEF Taking
<1>8. ~MediaComing'
  BY <1>2, <1>7, FireIsOne, PairIsTwo DEF MediaComing, Pair
<1>9. ScreenIsPending' /\ AnswerIsWanted' /\ AudioHasCall' /\ MicIsHeld'
  BY <1>1, <1>2, <1>3, <1>4, <1>5 DEF WindowInv, ScreenIsPending, AnswerIsWanted, AudioHasCall, MicIsHeld
<1> QED BY <1>1, <1>6, <1>7, <1>8, <1>9 DEF WindowInv, RingIsNew, MediaIsLive, EndedHadTarget

\* So the window's handlers, together.
LEMMA EventKeepsCall ==
    ASSUME CallInv, HandleSipEvent PROVE LegFacts' /\ WindowInv'
<1>1. CASE OnIncomingCall \/ OnCallConnected \/ OnCallMedia \/ OnCallOver
  <2>1. Taken
    BY <1>1 DEF OnIncomingCall, OnCallConnected, OnCallMedia, OnCallOver
  <2> QED BY <1>1, <2>1, TakenKeepsLegs, CallEventKeeps DEF CallInv
<1>2. CASE Taken /\ (OnTransferFailed \/ OnConsultConnected \/ OnConsultMedia \/ OnConsultEnded)
  BY <1>2, TakenKeepsLegs, ConsultEventKeeps DEF CallInv
<1>3. CASE OnTransferFailed /\ SofiaCancelConsultation
  BY <1>3, RetrievedKeeps
<1> QED BY <1>1, <1>2, <1>3 DEF HandleSipEvent, OnTransferFailed, OnConsultConnected,
                                OnConsultMedia, OnConsultEnded

-----------------------------------------------------------------------------
\* A handle that was overwritten stays so.
LEMMA IntactBefore == ASSUME Intact', [PhoneNext]_phoneVars PROVE Intact
<1>1. CASE overwritten' = overwritten
  BY <1>1 DEF Intact
<1>2. CASE StartCall \/ StartConsultation
  BY <1>2 DEF StartCall, StartConsultation, Intact
<1>3. HandleSipEvent => overwritten' = overwritten
  BY DEF HandleSipEvent, OnIncomingCall, OnCallConnected, OnCallMedia, OnCallOver, Taken,
         OnTransferFailed, OnConsultConnected, OnConsultMedia, OnConsultEnded, uiVars
<1>4. User /\ ~StartCall /\ ~StartConsultation => overwritten' = overwritten
  BY DEF User, AnswerCall, HangupCall, HoldToggled, BlindTransfer, CompleteTransfer,
         CancelConsultation, uiVars
<1>5. (\E nh \in Handles : Sofia(nh)) \/ UNCHANGED phoneVars => overwritten' = overwritten
  BY DEF Sofia, phoneVars, uiVars
<1> QED BY <1>1, <1>2, <1>3, <1>4, <1>5 DEF PhoneNext

\* The invariant holds in every state of an orderly phone until it overwrites a handle.
LEMMA CallInvariant == ASSUME Orderly PROVE PhoneSpec => [](Intact => CallInv)
<1> DEFINE Inv == Intact => LegFacts /\ HoldNeedsAnswer /\ WindowInv
<1>1. PhoneInit => Inv
  <2> SUFFICES ASSUME PhoneInit PROVE Inv
    OBVIOUS
  <2>1. \A h \in Handles : leg[h] = IdleLeg
    BY DEF PhoneInit, Init
  <2>2. LegFacts /\ HoldNeedsAnswer
    BY <2>1, ConstantsAssumption
       DEF PhoneInit, Init, IdleLeg, LegFacts, LegsHeld, TwoLegs, PrimaryFlags, ConsultIsOurs,
           ReinvIsUp, RetryTried, ConsultHasTarget, HoldNeedsAnswer
  <2>3. WindowInv
    BY QuietWindow
       DEF PhoneInit, Init, WindowInv, ScreenIsPending, RingIsNew, AnswerIsWanted, AudioHasCall,
           MediaIsLive, MicIsHeld, EndedHadTarget
  <2> QED BY <2>2, <2>3
<1>2. Inv /\ ScreenInv /\ PhoneTypeOK /\ [PhoneNext]_phoneVars => Inv'
  <2> SUFFICES ASSUME Inv, ScreenInv, PhoneTypeOK, [PhoneNext]_phoneVars, Intact'
               PROVE  LegFacts' /\ HoldNeedsAnswer' /\ WindowInv'
    OBVIOUS
  <2>0. CallInv /\ LegFacts /\ HoldNeedsAnswer /\ WindowInv
    BY IntactBefore DEF CallInv, LegInv, ScreenInv
  <2>1. CASE UNCHANGED phoneVars
    <3>1. UNCHANGED vars /\ UNCHANGED uiVars
      BY <2>1 DEF phoneVars
    <3>2. LegFacts' /\ HoldNeedsAnswer'
      BY <2>0, <3>1 DEF vars, callVars, consultVars, LegFacts, LegsHeld, TwoLegs, PrimaryFlags,
                ConsultIsOurs, ReinvIsUp, RetryTried, ConsultHasTarget, Ringing, HoldNeedsAnswer
    <3>3. WindowInv'
      BY <2>0, <3>1 DEF vars, callVars, consultVars, uiVars, screenVars, logVars, audioVars, Ringing,
                WindowInv, Reports, Pair, ScreenIsPending, RingIsNew, AnswerIsWanted,
                AudioHasCall, MediaIsLive, MicIsHeld, EndedHadTarget, MediaComing, Taking,
                CloseComing, CanHold
    <3> QED BY <3>2, <3>3
  <2>2. CASE HandleSipEvent
    <3>1. Taken \/ Next
      BY <2>2 DEF HandleSipEvent, OnIncomingCall, OnCallConnected, OnCallMedia, OnCallOver,
                  OnTransferFailed, OnConsultConnected, OnConsultMedia, OnConsultEnded, Next, Api
    <3>2. HoldNeedsAnswer'
      <4>1. CASE Taken
        BY <2>0, <4>1 DEF Taken, callVars, HoldNeedsAnswer
      <4> QED BY <2>0, <3>1, <4>1, HoldStep
    <3> QED BY <2>0, <2>2, <3>2, EventKeepsCall
  <2>3. CASE out = <<>> /\ User
    <3>1. Next \/ UNCHANGED vars
      BY <2>3 DEF User, StartCall, AnswerCall, HangupCall, HoldToggled, BlindTransfer,
                  StartConsultation, CompleteTransfer, CancelConsultation, Next, Api
    <3> QED BY <2>0, <2>3, <3>1, HoldStep, UserKeepsCall
  <2>4. ASSUME out = <<>>, NEW nh \in Handles, Sofia(nh)
        PROVE  LegFacts' /\ HoldNeedsAnswer' /\ WindowInv'
    <3>1. Next /\ Keeps
      BY <2>0, <2>4, CallbackKeeps DEF Sofia, Next, CallInv
    <3> QED BY <2>0, <2>4, <3>1, HoldStep, EffectKeepsWindow DEF Keeps, Sofia, uiVars
  <2> QED BY <2>1, <2>2, <2>3, <2>4 DEF PhoneNext
<1>3. Inv /\ ScreenInv /\ PhoneTypeOK => (Intact => CallInv)
  BY DEF CallInv, LegInv, ScreenInv
<1> HIDE DEF Inv
<1> QED BY <1>1, <1>2, <1>3, ScreenInvariant, PhoneTypeCorrect, PTL DEF PhoneSpec

\* glue.c never loses the handle of a leg that is still up.
THEOREM NoLegIsOrphan == ASSUME Orderly PROVE PhoneSpec => []NoOrphanLeg
<1>1. (Intact => CallInv) => NoOrphanLeg
  BY DEF CallInv, LegInv, LegFacts, LegsHeld, NoOrphanLeg
<1> QED BY <1>1, CallInvariant, PTL

\* The flag that decides between BYE and CANCEL agrees with sofia-sip.
THEOREM EstablishedAgrees == ASSUME Orderly PROVE PhoneSpec => []EstablishedIsUp
<1>1. (Intact => CallInv) => EstablishedIsUp
  BY DEF CallInv, LegInv, LegFacts, PrimaryFlags, EstablishedIsUp
<1> QED BY <1>1, CallInvariant, PTL

\* The microphone is silent exactly while the call is on hold.
THEOREM HoldIsSilent == ASSUME Orderly PROVE PhoneSpec => []HoldSilencesMic
<1>1. (Intact => CallInv) => HoldSilencesMic
  <2> SUFFICES ASSUME CallInv, AtRest PROVE audio # NoHandle /\ ~consult_to => (call_on_hold <=> audio_hold)
    BY DEF HoldSilencesMic
  <2> QED BY QuietWindow DEF CallInv, WindowInv, MicIsHeld, AtRest
<1> QED BY <1>1, CallInvariant, PTL

\* A handler runs between two events, has an Effect or reports nothing.
LEMMA RestEffect ==
    ASSUME CallInv, Orderly, out = <<>>, Intact', [PhoneNext]_phoneVars
    PROVE  Effect \/ out' = <<>>
<1>1. CASE UNCHANGED phoneVars
  BY <1>1 DEF phoneVars, vars
<1>2. ~HandleSipEvent
  BY DEF HandleSipEvent, OnIncomingCall, OnCallConnected, OnCallMedia, OnCallOver,
         OnTransferFailed, OnConsultConnected, OnConsultMedia, OnConsultEnded, Taking
<1>3. ASSUME NEW nh \in Handles, Sofia(nh) PROVE Effect
  BY <1>3, CallbackKeeps DEF Sofia, CallInv, Keeps
<1> QED BY <1>1, <1>2, <1>3, UserKeepsCall DEF PhoneNext

-----------------------------------------------------------------------------
\* A REFER goes out on the call's dialog, never on the consultation's.
ConsultRefersNot == consult_nh # NoHandle => leg[consult_nh].refer = "none"

\* The leg g has no REFER in m that it did not have in l.
NoNewRefer(l, m, g) == l[g].refer = "none" => m[g].refer = "none"

\* Dropping the consultation or holding the call refers nobody.
LEMMA QuietRefers ==
    ASSUME TypeOK, NEW l \in Legs, NEW g \in Handles
    PROVE  /\ NoNewRefer(l, DroppedLegs(l), g)
           /\ \A hold \in BOOLEAN : call_nh # NoHandle => NoNewRefer(l, HeldLegs(l, hold), g)
<1>1. call_nh # NoHandle => call_nh \in Handles
  BY DEF TypeOK, MaybeHandle
<1>2. consult_nh # NoHandle => consult_nh \in Handles
  BY DEF TypeOK, MaybeHandle
<1>3. NoNewRefer(l, DroppedLegs(l), g)
  BY <1>2, ReferEffects DEF DroppedLegs, NoNewRefer
<1>4. ASSUME NEW hold \in BOOLEAN, call_nh # NoHandle PROVE NoNewRefer(l, HeldLegs(l, hold), g)
  BY <1>1, <1>4, ReferEffects DEF HeldLegs, NoNewRefer
<1> QED BY <1>3, <1>4

\* A leg that is neither the call's nor refers anybody does not begin to.
LEMMA CallbackRefersNot ==
    ASSUME TypeOK, NEW nh \in Handles, NuaCb(nh), NEW g \in Handles
    PROVE  NoNewRefer(leg, leg', g)
<1> USE DEF NoNewRefer
<1>0. leg \in Legs /\ leg[nh] \in Leg /\ leg[g] \in Leg
  BY FieldTypes DEF Legs
<1>1. Over(leg, nh) \in Legs /\ Over(leg, nh)[g].refer = leg[g].refer
  BY <1>0, NuaLegs, ReferEffects
<1>2. Refused(nh) \in Legs /\ Refused(nh)[g].refer = leg[g].refer
  <2>1. Refused(nh) \in Legs
    BY <1>0, RefusedType
  <2> QED BY <1>0, <1>1, <2>1 DEF Refused, Legs, Leg
<1>3. ASSUME NEW sdp, RInviteOk(nh, sdp) PROVE NoNewRefer(leg, leg', g)
  BY <1>0, <1>3 DEF RInviteOk, Legs, Leg
<1>4. ASSUME NEW sdp, IInvite(nh, sdp) \/ IReinvite(nh, sdp) PROVE NoNewRefer(leg, leg', g)
  <2>1. \/ leg' = leg \/ leg' = NuaAccept(leg, nh)
        \/ leg' = [leg EXCEPT ![nh].st = "ringing"] \/ leg' = [leg EXCEPT ![nh].owed = TRUE]
    BY <1>4 DEF IInvite, IReinvite, Busy, AnswerReinvite
  <2>2. CASE leg' = NuaAccept(leg, nh)
    BY <1>0, <2>2, ReferEffects
  <2>3. CASE leg' = [leg EXCEPT ![nh].st = "ringing"] \/ leg' = [leg EXCEPT ![nh].owed = TRUE]
    BY <1>0, <2>3 DEF Legs, Leg
  <2> QED BY <2>1, <2>2, <2>3
<1>5. ASSUME NEW challenge, RInviteChallenged(nh, challenge) PROVE NoNewRefer(leg, leg', g)
  <2>1. leg' = Refused(nh) \/ \E h \in Free : leg' = [Refused(nh) EXCEPT ![h] = CallingLeg(TRUE)]
    BY <1>5 DEF RInviteChallenged, ConsultWithDigest, InviteWithDigest
  <2>2. ASSUME NEW h \in Free, leg' = [Refused(nh) EXCEPT ![h] = CallingLeg(TRUE)]
        PROVE  NoNewRefer(leg, leg', g)
    <3> DEFINE l == Refused(nh)
    <3>1. l \in Legs /\ l[g].refer = leg[g].refer /\ leg' = [l EXCEPT ![h] = CallingLeg(TRUE)]
      BY <1>2, <2>2
    <3>2. h \in Handles
      BY FreeIsIdle
    <3> HIDE DEF l
    <3> QED BY <3>1, <3>2, CallingIsLeg DEF Legs
  <2> QED BY <1>2, <2>1, <2>2
<1>6. CASE RInviteRefused(nh)
  BY <1>2, <1>6 DEF RInviteRefused
<1>7. CASE IBye(nh) \/ RBye(nh) \/ ICancel(nh) \/ IError(nh)
  <2>1. \E l \in {leg, Over(leg, nh)} : leg' = l \/ leg' = DroppedLegs(l)
    BY <1>7 DEF IBye, RBye, ICancel, IError, Bye, ConsultOver, CallOver, CallError, Busy,
                DropConsultLeg
  <2> QED BY <1>0, <1>1, <2>1, QuietRefers
<1>8. ASSUME NEW accepted, NEW result, RRefer(nh, accepted) \/ INotify(nh, result)
      PROVE  NoNewRefer(leg, leg', g)
  <2>1. leg[nh].refer # "none" /\ \E r : leg' = [leg EXCEPT ![nh].refer = r]
    BY <1>8 DEF RRefer, INotify, TransferOver
  <2> QED BY <1>0, <2>1 DEF Legs, Leg
<1> QED BY <1>3, <1>4, <1>5, <1>6, <1>7, <1>8 DEF NuaCb

\* Of the API, only a transfer refers: on the call's leg.
LEMMA ApiRefersNot ==
    ASSUME TypeOK, Api, NEW g \in Handles, g # call_nh PROVE NoNewRefer(leg, leg', g)
<1> USE DEF NoNewRefer
<1>0. /\ leg \in Legs /\ leg[g] \in Leg /\ DroppedLegs(leg) \in Legs
      /\ call_nh # NoHandle => call_nh \in Handles
  BY DroppedLegsType DEF TypeOK, Legs, MaybeHandle
<1>1. DroppedLegs(leg)[g].refer = "none" \/ leg[g].refer # "none"
  BY <1>0, QuietRefers
<1>2. \A h \in Free, l \in Legs : [l EXCEPT ![h] = CallingLeg(FALSE)][g].refer \in {"none", l[g].refer}
  BY FreeIsIdle, CallingIsLeg DEF Legs
<1>3. CASE SofiaCall
  BY <1>0, <1>2, <1>3 DEF SofiaCall
<1>4. CASE SofiaStartConsultation
  <2> DEFINE l == IF call_nh = NoHandle THEN leg ELSE HeldLegs(leg, TRUE)
  <2>1. PICK h \in Free : leg' = [l EXCEPT ![h] = CallingLeg(FALSE)]
    BY <1>4 DEF SofiaStartConsultation
  <2>2. l \in Legs /\ (leg[g].refer = "none" => l[g].refer = "none")
    BY <1>0, HeldLegsType, QuietRefers
  <2> HIDE DEF l
  <2> QED BY <1>2, <2>1, <2>2
<1>5. CASE SofiaHangup
  <2> DEFINE l == DroppedLegs(leg)
  <2>1. \/ leg' = l
        \/ /\ call_nh # NoHandle
           /\ \/ leg' \in {Over(l, call_nh), NuaBye(l, call_nh), NuaCancel(l, call_nh)}
              \/ leg' = [l EXCEPT ![call_nh].owed = FALSE]
    BY <1>5 DEF SofiaHangup
  <2>2. l \in Legs /\ (leg[g].refer = "none" => l[g].refer = "none")
    BY <1>0, <1>1
  <2> HIDE DEF l
  <2>3. call_nh # NoHandle =>
           /\ Over(l, call_nh)[g].refer = l[g].refer
           /\ NuaBye(l, call_nh)[g].refer = l[g].refer
           /\ NuaCancel(l, call_nh)[g].refer = l[g].refer
           /\ [l EXCEPT ![call_nh].owed = FALSE][g].refer = l[g].refer
    <3>1. [l EXCEPT ![call_nh].owed = FALSE][g].refer = l[g].refer
      BY <2>2 DEF Legs, Leg
    <3> QED BY <1>0, <2>2, <3>1, ReferEffects
  <2> QED BY <2>1, <2>2, <2>3
<1>6. CASE SofiaCancelConsultation
  <2> DEFINE l == DroppedLegs(leg)
  <2>1. leg' = l \/ (call_nh # NoHandle /\ leg' = HeldLegs(l, FALSE))
    BY <1>6 DEF SofiaCancelConsultation, CanHold
  <2>2. l \in Legs /\ (leg[g].refer = "none" => l[g].refer = "none")
    BY <1>0, <1>1
  <2> HIDE DEF l
  <2> QED BY <2>1, <2>2, QuietRefers
<1>7. CASE \/ \E hold \in BOOLEAN : SofiaSetHold(hold)
           \/ SofiaBlindTransfer \/ SofiaCompleteTransfer \/ SofiaAnswer
  <2>1. /\ call_nh # NoHandle
        /\ \/ leg' \in {NuaRefer(leg, call_nh), NuaAccept(leg, call_nh)}
           \/ \E hold \in BOOLEAN : leg' = HeldLegs(leg, hold)
    BY <1>7 DEF SofiaSetHold, SofiaBlindTransfer, SofiaCompleteTransfer, SofiaAnswer, CanHold
  <2>2. NuaRefer(leg, call_nh)[g] = leg[g] /\ NuaAccept(leg, call_nh)[g].refer = leg[g].refer
    BY <1>0, <2>1, ReferEffects DEF NuaRefer, Legs
  <2> QED BY <1>0, <2>1, <2>2, QuietRefers
<1>8. ~SofiaReinviteSdp /\ ~SofiaRespondSdp
  BY PlainRtp DEF SofiaReinviteSdp, SofiaRespondSdp
<1> QED BY <1>3, <1>4, <1>5, <1>6, <1>7, <1>8 DEF Api

\* Whatever the engine does, the consultation's handle stays, goes, or is a new leg's.
LEMMA ConsultIsNew ==
    ASSUME TypeOK, Api \/ \E nh \in Handles : NuaCb(nh),
           consult_nh' # consult_nh, consult_nh' # NoHandle
    PROVE  consult_nh' \in Free /\ leg'[consult_nh'].refer = "none"
<1>1. ~Api => \E nh \in Handles, challenge \in BOOLEAN :
                 ConsultWithDigest(nh, challenge) /\ ~GiveUp(consult_auth_tried, challenge)
  <2> SUFFICES ASSUME NEW nh \in Handles, NuaCb(nh)
               PROVE  \E challenge \in BOOLEAN :
                         ConsultWithDigest(nh, challenge) /\ ~GiveUp(consult_auth_tried, challenge)
    OBVIOUS
  <2>1. ASSUME NEW sdp, RInviteOk(nh, sdp) \/ IInvite(nh, sdp) \/ IReinvite(nh, sdp) PROVE FALSE
    BY <2>1 DEF RInviteOk, ConsultAnswered, CallAnswered, IInvite, IReinvite, RingIn, Busy,
                AnswerReinvite, consultVars
  <2>2. ~RInviteRefused(nh)
    BY DEF RInviteRefused, ConsultRefused, CallRefused, consultVars
  <2>3. ~(IBye(nh) \/ RBye(nh) \/ ICancel(nh) \/ IError(nh))
    BY DEF IBye, RBye, ICancel, IError, Bye, ConsultOver, CallOver, CallError, Busy, consultVars
  <2>4. ASSUME NEW accepted, NEW result, RRefer(nh, accepted) \/ INotify(nh, result) PROVE FALSE
    BY <2>4 DEF RRefer, INotify, TransferOver, consultVars
  <2>5. PICK challenge \in BOOLEAN : RInviteChallenged(nh, challenge)
    BY <2>1, <2>2, <2>3, <2>4 DEF NuaCb
  <2> QED BY <2>5 DEF RInviteChallenged, ConsultWithDigest, InviteWithDigest, consultVars
<1>2. Api => SofiaStartConsultation
  BY DEF Api, SofiaCall, SofiaHangup, SofiaSetHold, SofiaAnswer, SofiaBlindTransfer,
         SofiaCompleteTransfer, SofiaCancelConsultation, SofiaReinviteSdp, SofiaRespondSdp,
         consultVars
<1>3. \A l \in Legs, h \in Free, retry \in BOOLEAN :
         h \in Handles /\ [l EXCEPT ![h] = CallingLeg(retry)][h].refer = "none"
  BY FreeIsIdle, ReferEffects
<1>4. leg \in Legs /\ HeldLegs(leg, TRUE) \in Legs \cup {HeldLegs(leg, TRUE)}
  BY DEF TypeOK, Legs
<1>5. CASE Api
  <2> DEFINE l == IF call_nh = NoHandle THEN leg ELSE HeldLegs(leg, TRUE)
  <2>1. PICK h \in Free : consult_nh' = h /\ leg' = [l EXCEPT ![h] = CallingLeg(FALSE)]
    BY <1>2, <1>5 DEF SofiaStartConsultation
  <2>2. l \in Legs
    BY <1>4, HeldLegsType
  <2> HIDE DEF l
  <2> QED BY <1>3, <2>1, <2>2
<1>6. CASE ~Api
  <2>1. PICK nh \in Handles, challenge \in BOOLEAN :
           ConsultWithDigest(nh, challenge) /\ ~GiveUp(consult_auth_tried, challenge)
    BY <1>1, <1>6
  <2> DEFINE l == Refused(nh)
  <2>2. PICK h \in Free : consult_nh' = h /\ leg' = [l EXCEPT ![h] = CallingLeg(TRUE)]
    BY <2>1 DEF ConsultWithDigest
  <2>3. l \in Legs
    BY RefusedType
  <2> HIDE DEF l
  <2> QED BY <1>3, <2>2, <2>3
<1> QED BY <1>5, <1>6

\* The consultation refers nobody.
LEMMA RefersInvariant == ASSUME Orderly PROVE PhoneSpec => [](Intact => ConsultRefersNot)
<1>1. PhoneInit => ConsultRefersNot
  BY DEF PhoneInit, Init, ConsultRefersNot
<1>2. /\ (Intact => CallInv) /\ (Intact => ConsultRefersNot) /\ [PhoneNext]_phoneVars
      => (Intact' => ConsultRefersNot')
  <2> SUFFICES ASSUME CallInv, ConsultRefersNot, [PhoneNext]_phoneVars PROVE ConsultRefersNot'
    BY IntactBefore
  <2>1. TypeOK /\ (consult_nh # NoHandle => consult_nh \in Handles /\ consult_nh # call_nh)
    BY DEF CallInv, LegInv, LegFacts, TwoLegs, TypeOK, MaybeHandle
  <2>2. Api \/ (\E nh \in Handles : NuaCb(nh)) \/ UNCHANGED <<consult_nh, leg>>
    <3>1. HandleSipEvent => Api \/ Taken
      BY DEF HandleSipEvent, OnIncomingCall, OnCallConnected, OnCallMedia, OnCallOver,
             OnTransferFailed, OnConsultConnected, OnConsultMedia, OnConsultEnded, Api
    <3>2. User => Api \/ UNCHANGED vars
      BY DEF User, StartCall, AnswerCall, HangupCall, HoldToggled, BlindTransfer,
             StartConsultation, CompleteTransfer, CancelConsultation, Api
    <3>3. Taken \/ UNCHANGED vars \/ UNCHANGED phoneVars => UNCHANGED <<consult_nh, leg>>
      BY DEF Taken, phoneVars, vars, consultVars
    <3> QED BY <3>1, <3>2, <3>3 DEF PhoneNext, Sofia
  <2>3. CASE UNCHANGED <<consult_nh, leg>>
    BY <2>3 DEF ConsultRefersNot
  <2>4. CASE consult_nh' # consult_nh /\ (Api \/ \E nh \in Handles : NuaCb(nh))
    BY <2>1, <2>4, ConsultIsNew DEF ConsultRefersNot
  <2>5. CASE consult_nh' = consult_nh /\ (Api \/ \E nh \in Handles : NuaCb(nh))
    BY <2>1, <2>5, ApiRefersNot, CallbackRefersNot DEF ConsultRefersNot, NoNewRefer
  <2> QED BY <2>2, <2>3, <2>4, <2>5
<1> QED BY <1>1, <1>2, CallInvariant, PTL DEF PhoneSpec

\* Only the end of its own leg or of its own transfer closes the call on the screen, or
\* the outcome of a transfer whose dialog is over.
THEOREM OwnLegEndsCall == ASSUME Orderly PROVE PhoneSpec => OnlyOwnLegEndsCall
<1> DEFINE OwnEnds ==
      \A i \in 1 .. Len(out') :
         out = <<>> /\ Intact' /\ out'[i].ev \in Closing
             => \/ out'[i].leg = call_nh
                \/ out'[i].ev = "TRANSFER_OK" /\ leg[out'[i].leg].st = "idle"
<1>1. /\ (Intact => CallInv) /\ (Intact => ConsultRefersNot) /\ [PhoneNext]_phoneVars
      => OwnEnds
  <2> SUFFICES ASSUME CallInv, ConsultRefersNot, [PhoneNext]_phoneVars, out = <<>>, Intact',
                      NEW i \in 1 .. Len(out'), out'[i].ev \in Closing
               PROVE  \/ out'[i].leg = call_nh
                      \/ out'[i].ev = "TRANSFER_OK" /\ leg[out'[i].leg].st = "idle"
    BY IntactBefore
  <2>0. Effect
    <3>1. out' # <<>>
      OBVIOUS
    <3> QED BY <3>1, RestEffect
  <2>1. ASSUME NEW ev, NEW h, out' = Fire(ev, h)
        PROVE  out'[i].ev = ev /\ out'[i].leg = h
    <3>1. out' = <<[ev |-> ev, leg |-> h]>>
      BY <2>1 DEF Fire
    <3>2. Len(out') = 1
      BY <3>1
    <3> QED BY <3>1, <3>2
  <2>2. ASSUME NEW a, NEW h, NEW b, NEW g, out' = Fire(a, h) \o Fire(b, g)
        PROVE  out'[i].ev \in {a, b}
    <3>1. out' = <<[ev |-> a, leg |-> h], [ev |-> b, leg |-> g]>>
      BY <2>2, TwoInOne DEF Fire
    <3>2. Len(out') = 2
      BY <3>1
    <3> QED BY <3>1, <3>2
  <2>3. CASE Ended
    <3>1. PICK ev \in Closing, h \in MaybeHandle :
             /\ out' = Fire(ev, h)
             /\ ev # "TRANSFER_OK" => h = call_nh
             /\ ev = "TRANSFER_OK" => h \in Handles /\ leg[h].refer = "accepted"
      BY <2>3 DEF Ended
    <3>2. out'[i].ev = ev /\ out'[i].leg = h
      BY <2>1, <3>1
    <3>3. ev = "TRANSFER_OK" => h = call_nh \/ leg[h].st = "idle"
      <4>1. ev = "TRANSFER_OK" => h # consult_nh
        BY <3>1, ConstantsAssumption DEF ConsultRefersNot
      <4> QED BY <3>1, <4>1, OtherLegIsPrimary DEF CallInv
    <3> QED BY <3>1, <3>2, <3>3
  <2>4. ~Rang /\ ~Answered /\ ~Carried
    <3>1. ~Rang
      BY <2>1 DEF Rang, Closing
    <3>2. ~Answered
      BY <2>1, <2>2 DEF Answered, Closing
    <3>3. ~Carried
      <4>1. out' # <<>>
        OBVIOUS
      <4>2. ASSUME NEW ev, NEW h, out' = Fire(ev, h) PROVE ev \in Closing
        BY <2>1, <4>2
      <4> QED BY <2>2, <4>1, <4>2 DEF Carried, CallNews, Closing
    <3> QED BY <3>1, <3>2, <3>3
  <2> QED BY <2>0, <2>3, <2>4 DEF Effect
<1>2. OwnEnds <=>
         \A i \in 1 .. Len(out') :
            out = <<>> /\ ~overwritten' /\ out'[i].ev \in {"CALL_ENDED", "CALL_FAILED", "TRANSFER_OK"}
               => \/ out'[i].leg = call_nh
                  \/ out'[i].ev = "TRANSFER_OK" /\ leg[out'[i].leg].st = "idle"
  BY DEF Intact, Closing
<1> QED BY <1>1, <1>2, CallInvariant, RefersInvariant, PTL DEF PhoneSpec, OnlyOwnLegEndsCall

-----------------------------------------------------------------------------
\* What PhoneLine sees of the phone.
Phase == IF pending = "none" THEN "idle" ELSE IF connected THEN "talking"
         ELSE IF pending = "incoming" THEN "ringing" ELSE "calling"

\* A call that was answered is not taken for a new one: a re-INVITE of its peer, which
\* glue.c tells from an INVITE by the flag, would ring.
UpIsAnswered ==
    call_nh # NoHandle /\ leg[call_nh].st = "up" /\ ~leg[call_nh].owed => call_established

RingIsFirst == Taking("INCOMING_CALL") => ~active
OneRing == out # <<>> => NoRing(Tail(out))
CallIsAnswered == active \/ Taking("INCOMING_CALL") => UpIsAnswered \/ CloseComing

LineFacts == TwoLegs /\ ScreenIsPending /\ RingIsFirst /\ OneRing /\ CallIsAnswered
LineInv == ScreenInv /\ PhoneTypeOK /\ LineFacts

\* No re-INVITE comes on another leg than the primary's, and no call is dialled over one
\* on the screen.
OneCaller == Env \cap {"redial", "leg_reinvite"} = {}

\* What the handlers do to the re-INVITEs we owe an answer to.
LEMMA OwedEffects ==
    ASSUME NEW l \in Legs, NEW h \in Handles, NEW g \in Handles
    PROVE  /\ NuaBye(l, h)[g].owed = l[g].owed /\ NuaCancel(l, h)[g].owed = l[g].owed
           /\ NuaRefer(l, h)[g].owed = l[g].owed
           /\ \A d : NuaReinvite(l, h, d)[g].owed = l[g].owed
           /\ g # h => NuaAccept(l, h)[g] = l[g] /\ Over(l, h)[g] = l[g]
<1>1. l[h] \in Leg /\ l[g] \in Leg
  BY DEF Legs
<1> QED BY <1>1 DEF NuaBye, NuaCancel, NuaReinvite, NuaRefer, NuaAccept, Over, Legs, Leg

\* A step that leaves the call's leg alone, or its end of it.
LEMMA AnsweredStays ==
    ASSUME TypeOK, UpIsAnswered, call_nh' = call_nh, call_established => call_established',
           call_nh \in Handles => \/ leg'[call_nh].st # "up"
                                  \/ /\ leg'[call_nh].st = leg[call_nh].st
                                     /\ leg'[call_nh].owed = leg[call_nh].owed
    PROVE  UpIsAnswered'
BY DEF UpIsAnswered, TypeOK, MaybeHandle

\* Dropping the consultation and holding the call are such steps.
LEMMA CallLegStays ==
    ASSUME TypeOK, TwoLegs, NEW l \in Legs, call_nh # NoHandle
    PROVE  /\ DroppedLegs(l)[call_nh].st = l[call_nh].st
           /\ DroppedLegs(l)[call_nh].owed = l[call_nh].owed
           /\ \A hold \in BOOLEAN : /\ HeldLegs(l, hold)[call_nh].st = l[call_nh].st
                                    /\ HeldLegs(l, hold)[call_nh].owed = l[call_nh].owed
<1>1. call_nh \in Handles /\ call_nh # consult_nh
  BY DEF TypeOK, MaybeHandle, TwoLegs
<1>2. DroppedLegs(l)[call_nh].st = l[call_nh].st
  BY <1>1, DroppedEffects
<1>3. DroppedLegs(l)[call_nh].owed = l[call_nh].owed
  <2>1. consult_nh # NoHandle => consult_nh \in Handles
    BY DEF TypeOK, MaybeHandle
  <2> QED BY <1>1, <2>1, OwedEffects DEF DroppedLegs
<1>4. ASSUME NEW hold \in BOOLEAN
      PROVE  /\ HeldLegs(l, hold)[call_nh].st = l[call_nh].st
             /\ HeldLegs(l, hold)[call_nh].owed = l[call_nh].owed
  BY <1>1, HeldEffects, OwedEffects, PlainRtp DEF HeldLegs
<1> QED BY <1>2, <1>3, <1>4

\* The API ends no call behind the flag's back, and starts none that is answered.
LEMMA ApiKeepsLine ==
    ASSUME TypeOK, TwoLegs, Api
    PROVE  TwoLegs' /\ (UpIsAnswered \/ SofiaCall => UpIsAnswered')
<1>0. /\ leg \in Legs /\ DroppedLegs(leg) \in Legs /\ NoHandle \notin Handles
      /\ call_nh # NoHandle => call_nh \in Handles /\ call_nh # consult_nh
  BY DroppedLegsType, ConstantsAssumption DEF TypeOK, Legs, MaybeHandle, TwoLegs
<1>1. CASE SofiaCall
  <2>1. PICK h \in Free : call_nh' = h /\ leg' = [leg EXCEPT ![h] = CallingLeg(FALSE)]
    BY <1>1 DEF SofiaCall
  <2>2. leg'[h].st = "calling" /\ h # consult_nh
    BY <1>0, <2>1, FreeIsIdle, CallingIsLeg DEF Legs
  <2>3. consult_nh' = consult_nh
    BY <1>1 DEF SofiaCall, consultVars
  <2> QED BY <2>1, <2>2, <2>3 DEF TwoLegs, UpIsAnswered
<1>2. CASE SofiaStartConsultation
  <2> DEFINE l == IF call_nh = NoHandle THEN leg ELSE HeldLegs(leg, TRUE)
  <2>1. PICK h \in Free : consult_nh' = h /\ leg' = [l EXCEPT ![h] = CallingLeg(FALSE)]
    BY <1>2 DEF SofiaStartConsultation
  <2>2. l \in Legs /\ (call_nh # NoHandle => /\ l[call_nh].st = leg[call_nh].st
                                             /\ l[call_nh].owed = leg[call_nh].owed)
    BY <1>0, HeldLegsType, CallLegStays
  <2> HIDE DEF l
  <2>3. h \in Handles /\ h # call_nh /\ h # NoHandle
    BY FreeIsIdle
  <2>4. call_nh # NoHandle => /\ leg'[call_nh].st = leg[call_nh].st
                              /\ leg'[call_nh].owed = leg[call_nh].owed
    BY <1>0, <2>1, <2>2, <2>3 DEF Legs
  <2>5. call_nh' = call_nh /\ call_established' = call_established
    BY <1>2 DEF SofiaStartConsultation
  <2>6. ~SofiaCall
    BY <2>5, FreeIsIdle DEF SofiaCall
  <2> QED BY <1>0, <2>1, <2>3, <2>4, <2>5, <2>6, AnsweredStays DEF TwoLegs
<1>3. CASE SofiaHangup
  <2>1. UNCHANGED consult_nh /\ call_nh' \in {call_nh, NoHandle} /\ ~SofiaCall
    BY <1>3, FreeIsIdle DEF SofiaHangup, SofiaCall
  <2>2. CASE call_nh' = NoHandle
    BY <2>1, <2>2 DEF TwoLegs, UpIsAnswered
  <2>3. CASE call_nh' = call_nh /\ call_nh # NoHandle
    <3> DEFINE l == DroppedLegs(leg)
    <3>1. /\ leg' = IF call_established THEN NuaBye(l, call_nh) ELSE NuaCancel(l, call_nh)
          /\ call_established' = call_established
      BY <1>3, <2>3 DEF SofiaHangup
    <3>2. l \in Legs /\ l[call_nh].st = leg[call_nh].st /\ l[call_nh].owed = leg[call_nh].owed
      BY <1>0, <2>3, CallLegStays
    <3> HIDE DEF l
    <3>3. \/ leg'[call_nh].st # "up"
          \/ leg'[call_nh].st = leg[call_nh].st /\ leg'[call_nh].owed = leg[call_nh].owed
      BY <1>0, <2>3, <3>1, <3>2, NuaEffects, OwedEffects
    <3> QED BY <2>1, <2>3, <3>1, <3>3, AnsweredStays DEF TwoLegs
  <2> QED BY <2>1, <2>2, <2>3
<1>4. CASE SofiaAnswer
  BY <1>4 DEF SofiaAnswer, consultVars, TwoLegs, UpIsAnswered
<1>5. CASE SofiaCancelConsultation \/ SofiaBlindTransfer \/ SofiaCompleteTransfer
           \/ \E hold \in BOOLEAN : SofiaSetHold(hold)
  <2>1. UNCHANGED <<call_nh, call_established, consult_nh>>
    BY <1>5 DEF SofiaCancelConsultation, SofiaBlindTransfer, SofiaCompleteTransfer,
                SofiaSetHold, callVars, consultVars
  <2>2. ~SofiaCall
    BY <2>1, FreeIsIdle DEF SofiaCall
  <2>3. CASE call_nh = NoHandle
    BY <2>1, <2>2, <2>3 DEF TwoLegs, UpIsAnswered
  <2>4. CASE call_nh # NoHandle
    <3>1. \/ leg' = DroppedLegs(leg) \/ leg' = HeldLegs(DroppedLegs(leg), FALSE)
          \/ leg' = NuaRefer(leg, call_nh) \/ \E hold \in BOOLEAN : leg' = HeldLegs(leg, hold)
      BY <1>5 DEF SofiaCancelConsultation, SofiaBlindTransfer, SofiaCompleteTransfer, SofiaSetHold
    <3>2. NuaRefer(leg, call_nh)[call_nh].st = leg[call_nh].st
          /\ NuaRefer(leg, call_nh)[call_nh].owed = leg[call_nh].owed
      BY <1>0, <2>4, NuaEffects, OwedEffects
    <3>3. leg'[call_nh].st = leg[call_nh].st /\ leg'[call_nh].owed = leg[call_nh].owed
      BY <1>0, <2>4, <3>1, <3>2, CallLegStays
    <3> QED BY <2>1, <2>2, <3>3, AnsweredStays DEF TwoLegs
  <2> QED BY <2>3, <2>4
<1>6. ~SofiaReinviteSdp /\ ~SofiaRespondSdp
  BY PlainRtp DEF SofiaReinviteSdp, SofiaRespondSdp
<1> QED BY <1>1, <1>2, <1>3, <1>4, <1>5, <1>6 DEF Api

\* What a report of sofia-sip means to the line: it announces a call only when there is
\* none, or for a re-INVITE it takes for one; and it ends the call openly.
LineStep ==
    /\ TwoLegs'
    /\ UpIsAnswered => UpIsAnswered' \/ CloseComing'
    /\ \/ NoRing(out')
       \/ /\ \E h \in Handles : out' = Fire("INCOMING_CALL", h)
          /\ UpIsAnswered' /\ ~(call_nh # NoHandle /\ UpIsAnswered)

\* A report that touches another leg than the call's.
LEMMA OtherLegStep ==
    ASSUME TypeOK, TwoLegs, NEW nh \in Handles, nh # call_nh, NEW l, UNCHANGED callVars,
           consult_nh' \in {consult_nh, NoHandle} \cup Free, NoRing(out'),
           leg' = l \/ \E h \in Free : leg' = [l EXCEPT ![h] = CallingLeg(TRUE)],
           l \in Legs, call_nh # NoHandle => l[call_nh] = leg[call_nh]
    PROVE  LineStep
<1>1. ASSUME call_nh \in Handles PROVE call_nh # NoHandle /\ leg'[call_nh] = leg[call_nh]
  <2>1. call_nh # NoHandle /\ l[call_nh] = leg[call_nh]
    BY <1>1, ConstantsAssumption
  <2>2. ASSUME NEW h \in Free PROVE [l EXCEPT ![h] = CallingLeg(TRUE)][call_nh] = l[call_nh]
    <3>1. h # call_nh
      BY FreeIsIdle
    <3> QED BY <1>1, <3>1 DEF Legs
  <2> QED BY <2>1, <2>2
<1>2. UpIsAnswered => UpIsAnswered'
  BY <1>1, AnsweredStays DEF callVars
<1>3. TwoLegs'
  BY FreeIsIdle DEF TwoLegs, callVars
<1> QED BY <1>2, <1>3 DEF LineStep

\* A 2xx announces no call.
LEMMA AnswerRingsNot ==
    ASSUME TypeOK, NEW nh \in Handles, NEW sdp \in BOOLEAN, RInviteOk(nh, sdp)
    PROVE  NoRing(out')
<1>0. NoRing(<<>>) /\ nh \in MaybeHandle
  BY DEF NoRing, MaybeHandle
<1>1. ASSUME NEW a, NEW b, NEW src \in MaybeHandle, {a, b} \subseteq Events \ {"INCOMING_CALL"},
             out' = Fire(a, nh) \o FireMedia(b, src)
      PROVE  NoRing(out')
  <2>1. Fire(a, nh) \in Seq(Event) /\ FireMedia(b, src) \in Seq(Event)
    BY <1>0, <1>1, FireType
  <2> QED BY <1>1, <2>1, NoRingFire, NoRingJoin
<1>2. CASE nh = consult_nh
  <2>1. consult_rtp' \in MaybeHandle /\ ConsultAnswered(nh, sdp)
    BY <1>2, ExtractType DEF RInviteOk, ConsultAnswered, TypeOK
  <2> QED BY <1>0, <1>1, <2>1, PlainRtp DEF ConsultAnswered, Events
<1>3. CASE nh # consult_nh
  <2>1. remote_rtp' \in MaybeHandle /\ CallAnswered(nh, sdp)
    BY <1>3, ExtractType DEF RInviteOk, CallAnswered, TypeOK
  <2>2. Fire("CALL_CONNECTED", nh) \o <<>> = Fire("CALL_CONNECTED", nh)
    BY DEF Fire
  <2> QED BY <1>0, <1>1, <2>1, <2>2, PlainRtp, NoRingFire DEF CallAnswered, Events
<1> QED BY <1>2, <1>3

\* The answers to our INVITEs.
LEMMA InviteAnsweredLine ==
    ASSUME TypeOK, TwoLegs, NEW nh \in Handles,
           \/ \E sdp \in BOOLEAN : RInviteOk(nh, sdp)
           \/ \E challenge \in BOOLEAN : RInviteChallenged(nh, challenge)
           \/ RInviteRefused(nh)
    PROVE  LineStep
<1>0. /\ leg \in Legs /\ leg[nh] \in Leg /\ nh # NoHandle /\ nh \in MaybeHandle
      /\ nh = consult_nh => nh # call_nh
      /\ Over(leg, nh) \in Legs /\ Refused(nh) \in Legs /\ NoRing(<<>>)
      /\ \A g \in Handles : g # nh => Over(leg, nh)[g] = leg[g] /\ Refused(nh)[g] = leg[g]
  <2>1. /\ leg \in Legs /\ leg[nh] \in Leg /\ nh # NoHandle /\ nh \in MaybeHandle
        /\ Over(leg, nh) \in Legs /\ Refused(nh) \in Legs /\ NoRing(<<>>)
        /\ nh = consult_nh => nh # call_nh
    <3>1. leg \in Legs /\ leg[nh] \in Leg /\ nh # NoHandle /\ nh \in MaybeHandle
      BY FieldTypes, ConstantsAssumption DEF MaybeHandle
    <3>2. Over(leg, nh) \in Legs /\ Refused(nh) \in Legs
      BY <3>1, NuaLegs, RefusedType
    <3>3. NoRing(<<>>) /\ (nh = consult_nh => nh # call_nh)
      BY <3>1 DEF NoRing, TwoLegs
    <3> QED BY <3>1, <3>2, <3>3
  <2>2. \A g \in Handles : g # nh => Over(leg, nh)[g] = leg[g] /\ Refused(nh)[g] = leg[g]
    BY <2>1, OwedEffects DEF Refused, Legs
  <2> QED BY <2>1, <2>2
<1>1. ASSUME NEW sdp \in BOOLEAN, RInviteOk(nh, sdp) PROVE LineStep
  <2>1. NoRing(out')
    BY <1>1, AnswerRingsNot
  <2>2. CASE nh = consult_nh
    <3>1. ConsultAnswered(nh, sdp) /\ UNCHANGED <<callVars, consult_nh>>
      BY <1>1, <2>2 DEF RInviteOk, ConsultAnswered
    <3>2. leg' \in Legs /\ \A g \in Handles : g # nh => leg'[g] = leg[g]
      BY <1>0, <1>1 DEF RInviteOk, Legs, Leg, LegStates
    <3> QED BY <1>0, <2>1, <2>2, <3>1, <3>2, OtherLegStep DEF TypeOK, MaybeHandle
  <2>3. CASE nh # consult_nh
    BY <1>1, <2>1, <2>3 DEF RInviteOk, CallAnswered, consultVars, LineStep, TwoLegs, UpIsAnswered
  <2> QED BY <2>2, <2>3
<1>2. ASSUME NEW challenge \in BOOLEAN, RInviteChallenged(nh, challenge) PROVE LineStep
  <2>1. CASE nh = consult_nh
    <3>1. ConsultWithDigest(nh, challenge) /\ nh # call_nh
      BY <1>0, <1>2, <2>1 DEF RInviteChallenged
    <3>2. /\ UNCHANGED callVars /\ consult_nh' \in {NoHandle} \cup Free
          /\ leg' = Refused(nh) \/ \E h \in Free : leg' = [Refused(nh) EXCEPT ![h] = CallingLeg(TRUE)]
          /\ out' = <<>> \/ out' = Fire("CONSULT_ENDED", nh)
      BY <3>1 DEF ConsultWithDigest
    <3>3. NoRing(out') /\ (call_nh # NoHandle => Refused(nh)[call_nh] = leg[call_nh])
      <4>1. NoRing(out')
        BY <1>0, <3>2, FireIsOne
      <4> QED BY <1>0, <3>1, <4>1 DEF TypeOK, MaybeHandle
    <3> QED BY <1>0, <3>1, <3>2, <3>3, OtherLegStep
  <2>2. CASE nh # consult_nh
    <3>1. InviteWithDigest(nh, challenge) /\ UNCHANGED consult_nh
      BY <1>2, <2>2 DEF RInviteChallenged, InviteWithDigest, consultVars
    <3>2. CASE GiveUp(call_auth_tried, challenge)
      BY <1>0, <3>1, <3>2, NoRingFire
         DEF InviteWithDigest, LineStep, TwoLegs, UpIsAnswered
    <3>3. CASE ~GiveUp(call_auth_tried, challenge)
      <4> DEFINE l == Refused(nh)
      <4>1. PICK h \in Free : call_nh' = h /\ leg' = [l EXCEPT ![h] = CallingLeg(TRUE)] /\ out' = <<>>
        BY <3>1, <3>3 DEF InviteWithDigest
      <4>2. l \in Legs
        BY <1>0
      <4> HIDE DEF l
      <4>3. leg'[h].st = "calling" /\ h # consult_nh
        BY <4>1, <4>2, FreeIsIdle, CallingIsLeg DEF Legs
      <4> QED BY <1>0, <3>1, <4>1, <4>3 DEF LineStep, TwoLegs, UpIsAnswered
    <3> QED BY <3>2, <3>3
  <2> QED BY <2>1, <2>2
<1>3. CASE RInviteRefused(nh)
  <2>1. CASE nh = consult_nh
    <3>1. /\ UNCHANGED callVars /\ consult_nh' = NoHandle /\ leg' = Refused(nh) /\ nh # call_nh
          /\ out' = <<>> \/ out' = Fire("CONSULT_ENDED", nh)
      BY <1>0, <1>3, <2>1 DEF RInviteRefused, ConsultRefused, ConsultGone
    <3>2. NoRing(out') /\ (call_nh # NoHandle => Refused(nh)[call_nh] = leg[call_nh])
      BY <1>0, <3>1, NoRingFire DEF TypeOK, MaybeHandle
    <3> QED BY <1>0, <3>1, <3>2, OtherLegStep
  <2>2. CASE nh # consult_nh
    <3>1. out' = Fire("CALL_FAILED", nh) /\ UNCHANGED consult_nh /\ call_nh' \in {call_nh, NoHandle}
      BY <1>3, <2>2 DEF RInviteRefused, CallRefused, Release, consultVars
    <3> QED BY <1>0, <3>1, NoRingFire DEF LineStep, CloseComing, Closing, TwoLegs
  <2> QED BY <2>1, <2>2
<1> QED BY <1>1, <1>2, <1>3

\* INVITEs and re-INVITEs of the peers: one that rings finds no answered call.
LEMMA IncomingLine ==
    ASSUME TypeOK, TwoLegs, OneCaller, NEW nh \in Handles, NEW sdp \in BOOLEAN,
           IInvite(nh, sdp) \/ IReinvite(nh, sdp)
    PROVE  LineStep
<1>0. leg \in Legs /\ leg[nh] \in Leg /\ nh # NoHandle /\ NoRing(<<>>)
  BY FieldTypes, ConstantsAssumption DEF NoRing
<1>1. CASE Busy(leg)
  BY <1>0, <1>1 DEF Busy, callVars, consultVars, LineStep, TwoLegs, UpIsAnswered
<1>2. RingIn(nh, sdp) => /\ call_nh' = nh /\ UNCHANGED consult_nh
                         /\ out' = Fire("INCOMING_CALL", nh)
  <2>1. Fire("INCOMING_CALL", nh) \o <<>> = Fire("INCOMING_CALL", nh)
    BY DEF Fire
  <2> QED BY <2>1, PlainRtp DEF RingIn, FireSdp, consultVars
<1>3. CASE nh \in Free /\ call_nh = NoHandle /\ RingIn(nh, sdp) /\ leg' = [leg EXCEPT ![nh].st = "ringing"]
  <2>1. leg'[nh].st = "ringing" /\ nh # consult_nh
    BY <1>0, <1>3, FreeIsIdle DEF Legs, Leg
  <2> QED BY <1>0, <1>2, <1>3, <2>1 DEF LineStep, TwoLegs, UpIsAnswered
<1>4. CASE IReinvite(nh, sdp) /\ ~Busy(leg)
  <2>1. nh = call_nh /\ leg[nh].st = "up" /\ ~leg[nh].owed
    BY <1>4 DEF IReinvite, OneCaller
  <2>2. CASE call_established
    <3>1. AnswerReinvite(nh, sdp)
      BY <1>4, <2>1, <2>2 DEF IReinvite
    <3> QED BY <1>0, <2>2, <3>1, PlainRtp
            DEF AnswerReinvite, callVars, consultVars, LineStep, TwoLegs, UpIsAnswered
  <2>3. CASE ~call_established
    <3>1. RingIn(nh, sdp) /\ leg' = [leg EXCEPT ![nh].owed = TRUE]
      BY <1>4, <2>1, <2>3 DEF IReinvite
    <3>2. leg'[nh].owed
      BY <1>0, <3>1 DEF Legs, Leg
    <3> QED BY <1>0, <1>2, <2>1, <2>3, <3>1, <3>2 DEF LineStep, TwoLegs, UpIsAnswered
  <2> QED BY <2>2, <2>3
<1> QED BY <1>1, <1>3, <1>4 DEF IInvite

\* Reports that end a leg: the call's, openly, or another.
LEMMA OverLine ==
    ASSUME TypeOK, TwoLegs, NEW nh \in Handles, IBye(nh) \/ RBye(nh) \/ ICancel(nh) \/ IError(nh)
    PROVE  LineStep
<1>0. /\ leg \in Legs /\ nh # NoHandle /\ nh \in MaybeHandle /\ NoRing(<<>>)
      /\ nh = consult_nh => nh # call_nh
      /\ Over(leg, nh) \in Legs
      /\ \A g \in Handles : g # nh => Over(leg, nh)[g] = leg[g]
  <2>1. leg \in Legs /\ nh # NoHandle /\ nh \in MaybeHandle
    BY FieldTypes, ConstantsAssumption DEF MaybeHandle
  <2>2. Over(leg, nh) \in Legs /\ \A g \in Handles : g # nh => Over(leg, nh)[g] = leg[g]
    BY <2>1, NuaLegs, OwedEffects
  <2>3. NoRing(<<>>) /\ (nh = consult_nh => nh # call_nh)
    BY <2>1 DEF NoRing, TwoLegs
  <2> QED BY <2>1, <2>2, <2>3
<1>1. ASSUME NEW l \in {leg, Over(leg, nh)}, ConsultOver(nh, l), nh = consult_nh PROVE LineStep
  <2>1. /\ UNCHANGED callVars /\ consult_nh' = NoHandle /\ leg' = l /\ nh # call_nh
        /\ out' = <<>> \/ out' = Fire("CONSULT_ENDED", nh)
    BY <1>0, <1>1 DEF ConsultOver, ConsultGone
  <2>2. NoRing(out') /\ l \in Legs /\ (call_nh # NoHandle => l[call_nh] = leg[call_nh])
    BY <1>0, <2>1, NoRingFire DEF TypeOK, MaybeHandle
  <2> QED BY <1>0, <2>1, <2>2, OtherLegStep
<1>2. ASSUME out' = Fire("CALL_ENDED", nh) \/ out' = Fire("CALL_FAILED", nh),
             UNCHANGED consult_nh, call_nh' \in {call_nh, NoHandle}
      PROVE  LineStep
  BY <1>0, <1>2, NoRingFire DEF LineStep, CloseComing, Closing, TwoLegs
<1>3. ASSUME nh # call_nh, Busy(Over(leg, nh)) PROVE LineStep
  BY <1>0, <1>3, OtherLegStep DEF Busy, consultVars, TypeOK, MaybeHandle
<1>4. CASE IBye(nh) \/ RBye(nh)
  BY <1>1, <1>2, <1>4 DEF IBye, RBye, Bye, CallOver, Release
<1>5. CASE ICancel(nh)
  BY <1>2, <1>5 DEF ICancel, Release, consultVars
<1>6. CASE IError(nh)
  BY <1>1, <1>2, <1>3, <1>6 DEF IError, CallError
<1> QED BY <1>4, <1>5, <1>6

\* Hence whatever sofia-sip reports.
LEMMA CallbackKeepsLine ==
    ASSUME TypeOK, TwoLegs, OneCaller, NEW nh \in Handles, NuaCb(nh) PROVE LineStep
<1>1. \A sdp \in HasSdp : sdp \in BOOLEAN
  BY DEF HasSdp
<1>2. CASE \/ \E sdp \in HasSdp : RInviteOk(nh, sdp)
           \/ \E challenge \in BOOLEAN : RInviteChallenged(nh, challenge)
           \/ RInviteRefused(nh)
  BY <1>1, <1>2, InviteAnsweredLine
<1>3. CASE \E sdp \in HasSdp : IInvite(nh, sdp) \/ IReinvite(nh, sdp)
  BY <1>1, <1>3, IncomingLine
<1>4. CASE IBye(nh) \/ RBye(nh) \/ ICancel(nh) \/ IError(nh)
  BY <1>4, OverLine
<1>5. ASSUME NEW accepted, NEW result, RRefer(nh, accepted) \/ INotify(nh, result) PROVE LineStep
  <2>1. /\ UNCHANGED <<callVars, consultVars>> /\ \E r : leg' = [leg EXCEPT ![nh].refer = r]
        /\ \/ out' = <<>> \/ out' = Fire("TRANSFER_OK", nh) \/ out' = Fire("TRANSFER_FAILED", nh)
    BY <1>5 DEF RRefer, INotify, TransferOver
  <2>2. \A g \in Handles : leg'[g].st = leg[g].st /\ leg'[g].owed = leg[g].owed
    BY <2>1, FieldTypes DEF Legs, Leg
  <2>3. UpIsAnswered => UpIsAnswered'
    BY <2>1, <2>2, AnsweredStays DEF callVars
  <2>4. NoRing(out')
    <3>1. NoRing(<<>>)
      BY DEF NoRing
    <3> QED BY <2>1, <3>1, FireIsOne
  <2> QED BY <2>1, <2>3, <2>4 DEF LineStep, TwoLegs, callVars, consultVars
<1> QED BY <1>2, <1>3, <1>4, <1>5 DEF NuaCb

\* An API call announces nothing.
LEMMA ApiRingsNot == ASSUME TypeOK, Api PROVE NoRing(out')
<1>1. NoRing(<<>>) /\ (call_nh # NoHandle => call_nh \in Handles)
  BY DEF NoRing, TypeOK, MaybeHandle
<1>2. CASE SofiaAnswer
  <2>1. /\ Fire("CALL_CONNECTED", call_nh) \in Seq(Event)
        /\ FireMedia("CALL_MEDIA", remote_rtp) \in Seq(Event)
    BY FireType DEF Events, TypeOK
  <2> QED BY <1>2, <2>1, PlainRtp, NoRingFire, NoRingJoin DEF SofiaAnswer
<1>3. CASE ~SofiaAnswer
  <2>1. \/ out' = <<>> \/ \E h : out' = Fire("CALL_ENDED", h) \/ out' = Fire("CONSULT_ENDED", h)
    BY <1>3 DEF Api, SofiaCall, SofiaHangup, Declined, SofiaSetHold, SofiaBlindTransfer,
                SofiaStartConsultation, SofiaCompleteTransfer, SofiaCancelConsultation,
                SofiaReinviteSdp, SofiaRespondSdp
  <2> QED BY <1>1, <2>1, NoRingFire
<1> QED BY <1>2, <1>3

\* A report that does not ring asks nothing of the line.
LEMMA NoRingIsFine ==
    ASSUME out' \in Seq(Event), NoRing(out')
    PROVE  ~Taking("INCOMING_CALL")' /\ OneRing'
<1>1. ~Taking("INCOMING_CALL")'
  BY DEF Taking, NoRing
<1>2. OneRing'
  BY NoRingTail DEF OneRing
<1> QED BY <1>1, <1>2

\* The window's handlers.
LEMMA EventKeepsLine ==
    ASSUME LineInv, HandleSipEvent, TypeOK' PROVE LineFacts'
<1>0. TypeOK /\ LineFacts /\ out # <<>> /\ out \in Seq(Event)
  BY DEF LineInv, ScreenInv, TypeOK, HandleSipEvent, Taking, OnIncomingCall, OnCallConnected,
         OnCallMedia, OnCallOver, OnTransferFailed, OnConsultConnected, OnConsultMedia,
         OnConsultEnded
<1>1. ScreenIsPending'
  <2>1. CASE OnIncomingCall
    BY <2>1 DEF OnIncomingCall, ScreenIsPending
  <2>2. CASE OnCallOver
    BY <2>2 DEF OnCallOver, FinalizePendingCall, logVars, ScreenIsPending
  <2>3. CASE ~OnIncomingCall /\ ~OnCallOver
    <3>1. UNCHANGED <<active, pending>>
      BY <2>3 DEF HandleSipEvent, OnCallConnected, OnCallMedia, OnTransferFailed,
                  OnConsultConnected, OnConsultMedia, OnConsultEnded, uiVars, screenVars, logVars
    <3> QED BY <1>0, <3>1 DEF LineFacts, ScreenIsPending
  <2> QED BY <2>1, <2>2, <2>3
<1>2. CASE OnTransferFailed /\ SofiaCancelConsultation
  <2>1. TwoLegs' /\ (UpIsAnswered => UpIsAnswered') /\ NoRing(out')
    BY <1>0, <1>2, ApiKeepsLine, ApiRingsNot DEF Api, LineFacts
  <2>2. ~CloseComing /\ active' = active
    BY <1>2, FireIsOne DEF OnTransferFailed, Taking, CloseComing, Closing, uiVars, screenVars
  <2>3. ~Taking("INCOMING_CALL")' /\ OneRing'
    BY <2>1, NoRingIsFine DEF TypeOK
  <2> QED BY <1>0, <1>1, <2>1, <2>2, <2>3 DEF LineFacts, RingIsFirst, CallIsAnswered
<1>3. CASE Taken
  <2>1. out' = Tail(out) /\ UNCHANGED <<call_nh, call_established, consult_nh, leg>>
    BY <1>3 DEF Taken, callVars, consultVars
  <2>2. NoRing(out') /\ out' \in Seq(Event)
    BY <1>0, <2>1 DEF LineFacts, OneRing
  <2>3. ~Taking("INCOMING_CALL")' /\ OneRing'
    BY <2>2, NoRingIsFine
  <2>4. TwoLegs' /\ (UpIsAnswered' <=> UpIsAnswered)
    BY <1>0, <2>1 DEF LineFacts, TwoLegs, UpIsAnswered
  <2>5. CASE OnCallOver
    BY <1>1, <2>3, <2>4, <2>5 DEF OnCallOver, LineFacts, RingIsFirst, CallIsAnswered
  <2>6. CASE ~OnCallOver
    <3>1. ~CloseComing
      BY <2>6, FireIsOne
         DEF HandleSipEvent, OnIncomingCall, OnCallConnected, OnCallMedia, OnTransferFailed,
             OnConsultConnected, OnConsultMedia, OnConsultEnded, Taking, CloseComing, Closing
    <3>2. active' => active \/ Taking("INCOMING_CALL")
      BY <2>6 DEF HandleSipEvent, OnIncomingCall, OnCallConnected, OnCallMedia, OnTransferFailed,
                  OnConsultConnected, OnConsultMedia, OnConsultEnded, uiVars, screenVars
    <3> QED BY <1>0, <1>1, <2>3, <2>4, <3>1, <3>2 DEF LineFacts, RingIsFirst, CallIsAnswered
  <2> QED BY <2>5, <2>6
<1> QED BY <1>2, <1>3 DEF HandleSipEvent, OnIncomingCall, OnCallConnected, OnCallMedia,
           OnCallOver, OnTransferFailed, OnConsultConnected, OnConsultMedia, OnConsultEnded

\* The user.
LEMMA UserKeepsLine ==
    ASSUME LineInv, OneCaller, out = <<>>, User, TypeOK' PROVE LineFacts'
<1>0. TypeOK /\ LineFacts /\ ~CloseComing
  BY FireIsOne DEF LineInv, ScreenInv, CloseComing
<1>1. Api \/ UNCHANGED vars
  BY DEF User, StartCall, AnswerCall, HangupCall, HoldToggled, BlindTransfer,
         StartConsultation, CompleteTransfer, CancelConsultation, Api
<1>2. TwoLegs' /\ (UpIsAnswered \/ SofiaCall => UpIsAnswered') /\ NoRing(out')
  <2>1. CASE Api
    BY <1>0, <2>1, ApiKeepsLine, ApiRingsNot DEF LineFacts
  <2>2. CASE UNCHANGED vars
    <3>1. UNCHANGED <<call_nh, consult_nh, call_established, leg, out>>
      BY <2>2 DEF vars, callVars, consultVars
    <3>2. ~SofiaCall
      BY <3>1, FreeIsIdle DEF SofiaCall
    <3> QED BY <1>0, <3>1, <3>2 DEF LineFacts, TwoLegs, UpIsAnswered, NoRing
  <2> QED BY <1>1, <2>1, <2>2
<1>3. ~Taking("INCOMING_CALL")' /\ OneRing'
  BY <1>2, NoRingIsFine DEF TypeOK
<1>4. ScreenIsPending' /\ (active' => active \/ SofiaCall)
  <2>1. CASE StartCall
    BY <2>1 DEF StartCall, ScreenIsPending
  <2>2. CASE ~StartCall
    <3>1. UNCHANGED <<active, pending>>
      BY <2>2 DEF User, AnswerCall, HangupCall, HoldToggled, BlindTransfer, StartConsultation,
                  CompleteTransfer, CancelConsultation, uiVars, screenVars, logVars
    <3> QED BY <1>0, <3>1 DEF LineFacts, ScreenIsPending
  <2> QED BY <2>1, <2>2
<1> QED BY <1>0, <1>2, <1>3, <1>4 DEF LineFacts, RingIsFirst, CallIsAnswered

\* sofia-sip.
LEMMA SofiaKeepsLine ==
    ASSUME LineInv, OneCaller, out = <<>>, NEW nh \in Handles, Sofia(nh), TypeOK'
    PROVE  LineFacts'
<1>0. /\ TypeOK /\ LineFacts /\ UNCHANGED <<active, pending>>
      /\ active => call_nh # NoHandle /\ UpIsAnswered
  BY FireIsOne DEF LineInv, ScreenInv, ScreenHasCall, LineFacts, CallIsAnswered, CloseComing,
                   Sofia, uiVars, screenVars, logVars
<1>1. LineStep /\ ScreenIsPending'
  BY <1>0, CallbackKeepsLine DEF Sofia, LineFacts, ScreenIsPending
<1>2. CASE NoRing(out')
  <2>1. ~Taking("INCOMING_CALL")' /\ OneRing'
    BY <1>2, NoRingIsFine DEF TypeOK
  <2> QED BY <1>0, <1>1, <2>1 DEF LineStep, LineFacts, RingIsFirst, CallIsAnswered
<1>3. CASE ~NoRing(out')
  <2>1. PICK h \in Handles : out' = Fire("INCOMING_CALL", h)
    BY <1>1, <1>3 DEF LineStep
  <2>2. UpIsAnswered' /\ ~active
    BY <1>0, <1>1, <1>3 DEF LineStep
  <2>3. OneRing'
    <3>1. NoRing(<<>>)
      BY DEF NoRing
    <3> QED BY <2>1, <3>1, FireIsOne DEF OneRing
  <2> QED BY <1>0, <1>1, <2>2, <2>3 DEF LineStep, LineFacts, RingIsFirst, CallIsAnswered
<1> QED BY <1>2, <1>3

\* The line's invariant holds in every state of every phone that dials no call over one
\* on the screen.
LEMMA LineInvariant == ASSUME OneCaller PROVE PhoneSpec => []LineInv
<1>1. PhoneInit => LineFacts
  BY QuietWindow DEF PhoneInit, Init, LineFacts, TwoLegs, ScreenIsPending, RingIsFirst, OneRing,
                     CallIsAnswered
<1>2. LineFacts /\ ScreenInv /\ PhoneTypeOK /\ TypeOK' /\ [PhoneNext]_phoneVars => LineFacts'
  <2> SUFFICES ASSUME LineInv, TypeOK', [PhoneNext]_phoneVars PROVE LineFacts'
    BY DEF LineInv
  <2>1. CASE UNCHANGED phoneVars
    <3>1. UNCHANGED <<call_nh, consult_nh, call_established, leg, out, active, pending>>
      BY <2>1 DEF phoneVars, vars, callVars, consultVars, uiVars, screenVars, logVars
    <3> QED BY <3>1 DEF LineInv, LineFacts, TwoLegs, ScreenIsPending, RingIsFirst, OneRing,
                        CallIsAnswered, UpIsAnswered, Taking, CloseComing
  <2> QED BY <2>1, EventKeepsLine, UserKeepsLine, SofiaKeepsLine DEF PhoneNext
<1>3. ScreenInv => TypeOK
  BY DEF ScreenInv
<1>4. LineFacts /\ ScreenInv /\ PhoneTypeOK => LineInv
  BY DEF LineInv
<1> QED BY <1>1, <1>2, <1>3, <1>4, ScreenInvariant, PhoneTypeCorrect, PTL DEF PhoneSpec

-----------------------------------------------------------------------------
\* A step of the phone is one of the line, or none.
LEMMA StepIsLine ==
    ASSUME LineInv, OneCaller, [PhoneNext]_phoneVars
    PROVE  Line!Next \/ (Phase' = Phase /\ record' = record)
<1> USE DEF Phase
<1>0. /\ pending \in {"none", "incoming", "outgoing"}
      /\ connected \in BOOLEAN
      /\ active <=> pending # "none"
  BY DEF LineInv, LineFacts, PhoneTypeOK, ScreenIsPending
<1>1. CASE UNCHANGED logVars
  BY <1>1 DEF logVars
<1>2. CASE OnIncomingCall
  <2>1. ~active
    BY <1>2 DEF OnIncomingCall, LineInv, LineFacts, RingIsFirst
  <2>2. Line!Ring
    BY <1>0, <1>2, <2>1 DEF OnIncomingCall, Line!Ring, Line!Begin
  <2> QED BY <2>2 DEF Line!Next
<1>3. CASE OnCallConnected
  <2>1. /\ connected' = (pending # "none") /\ UNCHANGED <<pending, record>>
    BY <1>3 DEF OnCallConnected
  <2>2. CASE pending = "none" \/ connected
    BY <1>0, <2>1, <2>2
  <2>3. CASE pending # "none" /\ ~connected
    <3>1. Line!Connect
      BY <1>0, <2>1, <2>3 DEF Line!Connect
    <3> QED BY <3>1 DEF Line!Next
  <2> QED BY <2>2, <2>3
<1>4. CASE OnCallOver
  <2>1. CASE pending = "none"
    BY <1>4, <1>1, <2>1 DEF OnCallOver, FinalizePendingCall
  <2>2. CASE pending # "none"
    <3>1. Line!End
      BY <1>0, <1>4, <2>2 DEF OnCallOver, FinalizePendingCall, CallStatus, Line!End
    <3> QED BY <3>1 DEF Line!Next
  <2> QED BY <2>1, <2>2
<1>5. ASSUME out = <<>>, StartCall PROVE Line!Next
  <2>1. ~active
    BY <1>5 DEF StartCall, OneCaller
  <2>2. Line!Dial
    BY <1>0, <1>5, <2>1 DEF StartCall, Line!Dial, Line!Begin
  <2> QED BY <2>2 DEF Line!Next
<1>6. CASE OnCallMedia \/ OnTransferFailed \/ OnConsultConnected \/ OnConsultMedia \/ OnConsultEnded
  BY <1>1, <1>6 DEF OnCallMedia, OnTransferFailed, OnConsultConnected, OnConsultMedia,
                    OnConsultEnded, uiVars
<1>7. ASSUME User, ~StartCall PROVE UNCHANGED logVars
  BY <1>7 DEF User, AnswerCall, HangupCall, HoldToggled, BlindTransfer, StartConsultation,
              CompleteTransfer, CancelConsultation, uiVars
<1>8. ASSUME NEW nh, Sofia(nh) PROVE UNCHANGED logVars
  BY <1>8 DEF Sofia, uiVars
<1>9. CASE UNCHANGED phoneVars
  BY <1>1, <1>9 DEF phoneVars, uiVars
<1> QED BY <1>1, <1>2, <1>3, <1>4, <1>5, <1>6, <1>7, <1>8, <1>9 DEF PhoneNext, HandleSipEvent

\* The phone implements PhoneLine: one call at a time, one true record for each.
THEOREM PhoneImplementsLine == ASSUME OneCaller PROVE PhoneSpec => OneRecordPerCall
<1>1. PhoneInit => Line!Init
  BY DEF PhoneInit, Line!Init
<1>2. LineInv /\ [PhoneNext]_phoneVars => [Line!Next]_(Line!lineVars)
  BY StepIsLine DEF Line!lineVars, Phase
<1> QED BY <1>1, <1>2, LineInvariant, PTL DEF PhoneSpec, OneRecordPerCall, Line!Spec

-----------------------------------------------------------------------------
\* No leg starts to carry a digest answer.
NoNewRetry(l, m) == \A g \in Handles : m[g].retry => l[g].retry

\* Only a challenge makes glue.c answer one.
LEMMA CallbackRetries ==
    ASSUME LegInv, NEW nh \in Handles, NuaCb(nh),
           ~\E challenge \in BOOLEAN : RInviteChallenged(nh, challenge)
    PROVE  NoNewRetry(leg, leg')
<1> USE DEF NoNewRetry
<1>0. leg \in Legs /\ leg[nh] \in Leg
  BY FieldTypes DEF LegInv
<1>1. \A g \in Handles : Over(leg, nh)[g].retry => leg[g].retry
  BY <1>0, NuaEffects
<1>2. \A l \in Legs, g \in Handles : DroppedLegs(l)[g].retry => l[g].retry
  BY DroppedEffects DEF LegInv
<1>3. ASSUME NEW sdp, RInviteOk(nh, sdp) PROVE NoNewRetry(leg, leg')
  BY <1>0, <1>3 DEF RInviteOk, Legs, Leg
<1>4. ASSUME NEW sdp, IInvite(nh, sdp) \/ IReinvite(nh, sdp) PROVE NoNewRetry(leg, leg')
  <2>1. \/ leg' = leg \/ leg' = NuaAccept(leg, nh)
        \/ leg' = [leg EXCEPT ![nh].st = "ringing"] \/ leg' = [leg EXCEPT ![nh].owed = TRUE]
    BY <1>4 DEF IInvite, IReinvite, Busy, AnswerReinvite
  <2>2. CASE leg' = NuaAccept(leg, nh)
    BY <1>0, <2>2, NuaEffects
  <2>3. CASE leg' = [leg EXCEPT ![nh].st = "ringing"] \/ leg' = [leg EXCEPT ![nh].owed = TRUE]
    BY <1>0, <2>3 DEF Legs, Leg
  <2> QED BY <2>1, <2>2, <2>3
<1>5. ASSUME RInviteRefused(nh) PROVE NoNewRetry(leg, leg')
  <2>1. leg' = Over(leg, nh) \/ leg' = [leg EXCEPT ![nh].reinv = FALSE]
    BY <1>5 DEF RInviteRefused, Refused
  <2>2. CASE leg' = [leg EXCEPT ![nh].reinv = FALSE]
    BY <1>0, <2>2 DEF Legs, Leg
  <2> QED BY <1>1, <2>1, <2>2
<1>6. ASSUME IBye(nh) \/ RBye(nh) \/ ICancel(nh) \/ IError(nh) PROVE NoNewRetry(leg, leg')
  <2>1. \E l \in {leg, Over(leg, nh)} : leg' = l \/ leg' = DroppedLegs(l)
    BY <1>6 DEF IBye, RBye, ICancel, IError, Bye, ConsultOver, CallOver, CallError, Busy,
                DropConsultLeg
  <2>2. Over(leg, nh) \in Legs
    BY <1>0, NuaLegs
  <2> QED BY <1>0, <1>1, <1>2, <2>1, <2>2
<1>7. ASSUME NEW accepted, NEW result, RRefer(nh, accepted) \/ INotify(nh, result)
      PROVE  NoNewRetry(leg, leg')
  <2>1. PICK r \in {"none", "accepted"} : leg' = [leg EXCEPT ![nh].refer = r]
    BY <1>7 DEF RRefer, INotify, TransferOver
  <2> QED BY <1>0, <2>1 DEF Legs, Leg
<1> QED BY <1>3, <1>4, <1>5, <1>6, <1>7 DEF NuaCb

\* The API starts an INVITE without one.
LEMMA ApiRetries ==
    ASSUME LegInv, Api PROVE NoNewRetry(leg, leg')
<1> USE DEF NoNewRetry
<1>0. leg \in Legs
  BY DEF LegInv, TypeOK, Legs
<1>1. \A l \in Legs, g \in Handles : DroppedLegs(l)[g].retry => l[g].retry
  BY DroppedEffects DEF LegInv
<1>2. ASSUME NEW l \in Legs, NEW hold \in BOOLEAN, call_nh # NoHandle
      PROVE  NoNewRetry(l, HeldLegs(l, hold))
  BY <1>2, HeldEffects DEF LegInv
<1>3. ASSUME NEW l \in Legs, NEW h \in Handles PROVE NoNewRetry(l, [l EXCEPT ![h] = CallingLeg(FALSE)])
  BY DEF CallingLeg, IdleLeg, Legs
<1>4. DroppedLegs(leg) \in Legs
  BY <1>0, DroppedLegsType DEF LegInv
<1>5. call_nh # NoHandle => call_nh \in Handles
  BY DEF LegInv, TypeOK, MaybeHandle
<1>6. \A h \in Free : h \in Handles
  BY DEF Free
<1>7. CASE SofiaCall
  BY <1>0, <1>3, <1>6, <1>7 DEF SofiaCall
<1>8. CASE SofiaStartConsultation
  <2> DEFINE l == IF call_nh = NoHandle THEN leg ELSE HeldLegs(leg, TRUE)
  <2>1. PICK h \in Free : leg' = [l EXCEPT ![h] = CallingLeg(FALSE)]
    BY <1>8 DEF SofiaStartConsultation
  <2>2. l \in Legs /\ NoNewRetry(leg, l)
    BY <1>0, <1>2, HeldLegsType DEF LegInv
  <2> QED BY <1>3, <1>6, <2>1, <2>2
<1>9. CASE SofiaHangup
  <2> DEFINE l == DroppedLegs(leg)
  <2>1. \/ leg' = l
        \/ /\ call_nh # NoHandle
           /\ \/ leg' \in {Over(l, call_nh), NuaBye(l, call_nh), NuaCancel(l, call_nh)}
              \/ leg' = [l EXCEPT ![call_nh].owed = FALSE]
    BY <1>9 DEF SofiaHangup
  <2>2. l \in Legs /\ NoNewRetry(leg, l)
    BY <1>0, <1>1, <1>4
  <2> HIDE DEF l
  <2>3. CASE /\ call_nh # NoHandle
             /\ leg' \in {Over(l, call_nh), NuaBye(l, call_nh), NuaCancel(l, call_nh)}
    <3>1. \A g \in Handles : /\ NuaBye(l, call_nh)[g].retry = l[g].retry
                             /\ NuaCancel(l, call_nh)[g].retry = l[g].retry
                             /\ Over(l, call_nh)[g].retry => l[g].retry
      <4>1. call_nh \in Handles /\ l \in Legs
        BY <1>5, <2>2, <2>3
      <4>2. TAKE g \in Handles
      <4>3. NuaBye(l, call_nh)[g].retry = l[g].retry
        BY <4>1, NuaEffects
      <4>4. NuaCancel(l, call_nh)[g].retry = l[g].retry
        BY <4>1, NuaEffects
      <4>5. Over(l, call_nh)[g].retry => l[g].retry
        BY <4>1, NuaEffects
      <4> QED BY <4>3, <4>4, <4>5
    <3> QED BY <2>2, <2>3, <3>1
  <2>4. CASE call_nh # NoHandle /\ leg' = [l EXCEPT ![call_nh].owed = FALSE]
    BY <1>5, <2>2, <2>4 DEF Legs, Leg
  <2> QED BY <2>1, <2>2, <2>3, <2>4
<1>10. CASE SofiaCancelConsultation
  BY <1>0, <1>1, <1>2, <1>4, <1>10 DEF SofiaCancelConsultation, CanHold
<1>11. CASE \/ \E hold \in BOOLEAN : SofiaSetHold(hold)
            \/ SofiaBlindTransfer \/ SofiaCompleteTransfer \/ SofiaAnswer
  BY <1>0, <1>2, <1>5, <1>11, NuaEffects
     DEF SofiaSetHold, SofiaBlindTransfer, SofiaCompleteTransfer, SofiaAnswer, CanHold
<1>12. ~SofiaReinviteSdp /\ ~SofiaRespondSdp
  BY PlainRtp DEF SofiaReinviteSdp, SofiaRespondSdp
<1> QED BY <1>7, <1>8, <1>9, <1>10, <1>11, <1>12 DEF Api

\* A challenge that is answered refuses an INVITE that did not carry an answer.
LEMMA RetryIsFirst ==
    ASSUME CallInv, Orderly, NEW nh \in Handles, NEW challenge \in BOOLEAN,
           RInviteChallenged(nh, challenge),
           NEW h \in Handles, leg[h].st = "idle", leg'[h].retry
    PROVE  \A g \in Handles : leg[g].retry => leg'[g].st # "idle"
<1>0. LegInv /\ leg[nh].st \in {"calling", "cancelled"} /\ Refused(nh) \in Legs /\ nh # NoHandle
  BY ConstantsAssumption, RefusedType
     DEF RInviteChallenged, Inviting, Reinviting, Orderly, CallInv, LegInv
<1>1. \A g \in Handles : /\ Refused(nh)[g].st = IF g = nh THEN "idle" ELSE leg[g].st
                         /\ Refused(nh)[g].retry = (g # nh /\ leg[g].retry)
  BY <1>0, RefusedEffects
<1>2. \A g \in Handles : leg[g].retry => leg[g].st # "idle"
  BY <1>0 DEF LegInv, LegFacts, RetryTried
<1>3. leg' # Refused(nh)
  BY <1>1, <1>2
<1>4. nh = consult_nh \/ nh = call_nh
  BY <1>0, OtherLegIsPrimary
<1>5. \E f \in Free : leg' = [Refused(nh) EXCEPT ![f] = CallingLeg(TRUE)]
  BY <1>3 DEF RInviteChallenged, ConsultWithDigest, InviteWithDigest
<1>6. ~leg[nh].retry
  <2>1. CASE nh = consult_nh
    <3>1. ~consult_auth_tried
      BY <1>3, <2>1 DEF RInviteChallenged, ConsultWithDigest, GiveUp
    <3> QED BY <1>0, <2>1, <3>1 DEF LegInv, LegFacts, RetryTried
  <2>2. CASE nh # consult_nh
    <3>1. ~call_auth_tried
      BY <1>3, <2>2 DEF RInviteChallenged, InviteWithDigest, GiveUp
    <3> QED BY <1>0, <1>4, <2>2, <3>1 DEF LegInv, LegFacts, RetryTried
  <2> QED BY <2>1, <2>2
<1>7. ASSUME NEW g \in Handles, leg[g].retry PROVE leg'[g].st # "idle"
  <2>1. PICK f \in Free : leg' = [Refused(nh) EXCEPT ![f] = CallingLeg(TRUE)]
    BY <1>5
  <2>2. f \in Handles
    BY FreeIsIdle
  <2>3. leg'[g].st = IF g = f THEN "calling" ELSE Refused(nh)[g].st
    <3> DEFINE l == Refused(nh)
    <3>1. l \in Legs /\ leg' = [l EXCEPT ![f] = CallingLeg(TRUE)]
      BY <1>0, <2>1
    <3> HIDE DEF l
    <3>2. leg'[g].st = IF g = f THEN "calling" ELSE l[g].st
      BY <2>2, <3>1 DEF CallingLeg, IdleLeg, Legs, Leg
    <3> QED BY <3>2 DEF l
  <2> QED BY <1>1, <1>2, <1>6, <1>7, <2>3
<1> QED BY <1>7

\* A digest answer that is challenged again is not answered again.
THEOREM DigestRetriedOnce == ASSUME Orderly PROVE PhoneSpec => OneDigestRetry
<1> DEFINE Retried == \E h \in Handles : leg[h].st = "idle" /\ leg'[h].retry
           RetryOver == \E g \in Handles : leg[g].retry /\ leg'[g].st = "idle"
<1>1. (Intact => CallInv) /\ [PhoneNext]_phoneVars => (Intact' /\ Retried => ~RetryOver)
  <2> SUFFICES ASSUME CallInv, [PhoneNext]_phoneVars, Retried PROVE ~RetryOver
    BY IntactBefore
  <2>0. LegInv /\ \A g \in Handles : leg[g].retry => leg[g].st # "idle"
    BY DEF CallInv, LegInv, LegFacts, RetryTried
  <2>1. ~NoNewRetry(leg, leg')
    BY <2>0 DEF NoNewRetry
  <2>2. ~Api /\ leg' # leg
    BY <2>0, <2>1, ApiRetries DEF NoNewRetry
  <2>3. ~HandleSipEvent
    BY <2>2 DEF HandleSipEvent, OnIncomingCall, OnCallConnected, OnCallMedia, OnCallOver,
                OnTransferFailed, OnConsultConnected, OnConsultMedia, OnConsultEnded, Taken, Api
  <2>4. ~User
    BY <2>2 DEF User, StartCall, AnswerCall, HangupCall, HoldToggled, BlindTransfer,
                StartConsultation, CompleteTransfer, CancelConsultation, Api, vars
  <2>5. PICK nh \in Handles : NuaCb(nh)
    BY <2>2, <2>3, <2>4 DEF PhoneNext, phoneVars, vars, Sofia
  <2>6. PICK challenge \in BOOLEAN : RInviteChallenged(nh, challenge)
    BY <2>0, <2>1, <2>5, CallbackRetries
  <2> QED BY <2>6, RetryIsFirst
<1> QED BY <1>1, CallInvariant, PTL DEF PhoneSpec, OneDigestRetry, phoneVars, Intact

-----------------------------------------------------------------------------
\* Every INVITE and every 2xx carries an SDP: extract_rtp_into finds an address.
SdpAlways == "sdp_less" \notin Env

\* sofia-sip gives no dialog up by itself: every call ends in one of the handlers
\* that clear its address.
NoError == "error" \notin Env

-----------------------------------------------------------------------------
(***************************************************************************)
(* The address the microphone streams to.                                  *)
(***************************************************************************)
\* A call that rings has left its address.
RingHasMedia == \A h \in Handles : leg[h].st = "ringing" => remote_rtp = h

\* The address stored is that of the call, which has answered or rings, if it is any.
RtpIsOwn ==
    remote_rtp # NoHandle =>
        remote_rtp = call_nh /\ leg[call_nh].st \notin {"calling", "cancelled"}

\* Either will do.
RtpFits == (SdpAlways => RingHasMedia) /\ (NoError => RtpIsOwn)

\* The media event on its way is the primary's.
MediaIsOfCall ==
    /\ Taking("CALL_MEDIA") => Head(out).leg = call_nh
    /\ \A h \in Handles, g \in Handles :
          out = Fire("CALL_CONNECTED", h) \o Fire("CALL_MEDIA", g) => g = call_nh

AudioIsOfCall == audio # NoHandle => audio = call_nh \/ CloseComing

MediaInv == RtpFits /\ MediaIsOfCall /\ AudioIsOfCall

\* The legs m have no leg ringing that did not ring in l.
NoNewRing(l, m) == \A g \in Handles : m[g].st = "ringing" => l[g].st = "ringing"

\* Only the primary rings.
LEMMA RingIsPrimary ==
    ASSUME LegInv, NEW h \in Handles, leg[h].st = "ringing"
    PROVE  h = call_nh /\ h # consult_nh /\ ~call_established
BY ConstantsAssumption
   DEF LegInv, LegFacts, LegsHeld, ConsultIsOurs, PrimaryFlags, TypeOK, MaybeHandle

\* Dropping the consultation or holding the call makes nothing ring.
LEMMA QuietLegs ==
    ASSUME LegInv, NEW l \in Legs, NEW g \in Handles
    PROVE  /\ DroppedLegs(l)[g].st = "ringing" => l[g].st = "ringing"
           /\ \A hold \in BOOLEAN : call_nh # NoHandle => HeldLegs(l, hold)[g].st = l[g].st
BY DroppedEffects, HeldEffects DEF LegInv

\* Our own INVITE does not ring here.
LEMMA CallingIsNoRing ==
    ASSUME NEW k \in Legs, NEW l \in Legs, NoNewRing(k, l), NEW h \in Handles,
           NEW retry \in BOOLEAN
    PROVE  NoNewRing(k, [l EXCEPT ![h] = CallingLeg(retry)])
<1> DEFINE m == [l EXCEPT ![h] = CallingLeg(retry)]
<1>1. \A g \in Handles : m[g].st = IF g = h THEN "calling" ELSE l[g].st
  BY CallingEffects
<1> HIDE DEF m
<1>2. NoNewRing(k, m)
  BY <1>1 DEF NoNewRing
<1> QED BY <1>2 DEF m

\* A report of sofia-sip that starts no call: a call that rings keeps its address.
LEMMA CallbackKeepsRing ==
    ASSUME LegInv, Orderly, SdpAlways, RingHasMedia, NEW nh \in Handles, NuaCb(nh)
    PROVE  RingHasMedia'
<1>0. leg \in Legs /\ leg[nh] \in Leg /\ nh # NoHandle
  BY FieldTypes, ConstantsAssumption DEF LegInv
<1>1. ASSUME NoNewRing(leg, leg'), UNCHANGED remote_rtp PROVE RingHasMedia'
  BY <1>1 DEF NoNewRing, RingHasMedia
<1>2. \A g \in Handles : Over(leg, nh)[g].st = IF g = nh THEN "idle" ELSE leg[g].st
  BY <1>0, NuaEffects
<1>3. ASSUME NEW sdp, RInviteOk(nh, sdp) PROVE RingHasMedia'
  <2>1. \A g \in Handles : leg'[g].st = "ringing" => leg[g].st = "ringing" /\ g # nh
    BY <1>0, <1>3 DEF RInviteOk, Inviting, LegInv, LegFacts, ReinvIsUp, Legs, Leg
  <2>2. CASE remote_rtp' = remote_rtp
    BY <1>1, <2>1, <2>2 DEF NoNewRing
  <2>3. CASE remote_rtp' # remote_rtp
    <3>1. nh # consult_nh
      BY <1>3, <2>3 DEF RInviteOk, ConsultAnswered, rtpVars
    <3>2. leg[nh].st # "idle"
      BY <1>3 DEF RInviteOk, Inviting, LegInv, LegFacts, ReinvIsUp
    <3>3. nh = call_nh
      BY <3>1, <3>2, OtherLegIsPrimary
    <3> QED BY <2>1, <3>3, RingIsPrimary DEF RingHasMedia
  <2> QED BY <2>2, <2>3
<1>4. ASSUME NEW challenge, RInviteChallenged(nh, challenge) PROVE RingHasMedia'
  <2>1. leg[nh].st \in {"calling", "cancelled"} /\ Refused(nh) \in Legs
    BY <1>4, RefusedType DEF RInviteChallenged, Inviting, Reinviting, Orderly, LegInv
  <2>2. NoNewRing(leg, Refused(nh))
    BY <2>1, RefusedEffects DEF NoNewRing
  <2>3. \A h \in Free : NoNewRing(leg, [Refused(nh) EXCEPT ![h] = CallingLeg(TRUE)])
    <3> DEFINE l == Refused(nh)
    <3>1. l \in Legs /\ leg \in Legs /\ NoNewRing(leg, l)
      BY <1>0, <2>1, <2>2
    <3> HIDE DEF l
    <3>2. \A h \in Free : NoNewRing(leg, [l EXCEPT ![h] = CallingLeg(TRUE)])
      BY <3>1, FreeIsIdle, CallingIsNoRing
    <3> QED BY <3>2 DEF l
  <2> QED BY <1>1, <1>4, <2>2, <2>3
          DEF RInviteChallenged, ConsultWithDigest, InviteWithDigest, rtpVars
<1>5. CASE RInviteRefused(nh)
  <2>1. leg[nh].st \in {"calling", "cancelled"} /\ leg' = Refused(nh) /\ UNCHANGED remote_rtp
    BY <1>5 DEF RInviteRefused, Reinviting, Orderly, rtpVars
  <2> QED BY <1>1, <2>1, RefusedEffects DEF NoNewRing
<1>6. ASSUME NEW sdp \in HasSdp, IInvite(nh, sdp) PROVE RingHasMedia'
  <2>1. sdp = TRUE
    BY <1>6 DEF HasSdp, SdpAlways
  <2>2. CASE Busy(leg)
    BY <1>1, <2>2 DEF Busy, rtpVars, NoNewRing
  <2>3. CASE call_nh = NoHandle /\ RingIn(nh, sdp) /\ leg' = [leg EXCEPT ![nh].st = "ringing"]
    <3>1. remote_rtp' = nh
      BY <2>1, <2>3 DEF RingIn, Extract
    <3>2. \A g \in Handles : leg'[g].st = "ringing" => g = nh
      <4>1. \A g \in Handles : leg[g].st # "ringing"
        BY <2>3, ConstantsAssumption, RingIsPrimary
      <4> QED BY <1>0, <2>3, <4>1 DEF Legs, Leg
    <3> QED BY <3>1, <3>2 DEF RingHasMedia
  <2> QED BY <1>6, <2>2, <2>3 DEF IInvite
<1>7. ASSUME NEW sdp \in HasSdp, IReinvite(nh, sdp) PROVE RingHasMedia'
  <2>1. nh = call_nh /\ leg[nh].st = "up" /\ call_established
    BY <1>0, <1>7 DEF IReinvite, Orderly, LegInv, LegFacts, PrimaryFlags
  <2>2. leg' = NuaAccept(leg, nh)
    BY <1>7, <2>1, PlainRtp DEF IReinvite, AnswerReinvite
  <2>3. \A g \in Handles : leg'[g].st # "ringing"
    BY <1>0, <2>1, <2>2, NuaEffects, RingIsPrimary
  <2> QED BY <2>3 DEF RingHasMedia
<1>8. CASE IBye(nh) \/ RBye(nh) \/ ICancel(nh) \/ IError(nh)
  <2>0. leg[nh].st # "idle" /\ Over(leg, nh) \in Legs
    BY <1>0, <1>8, NuaLegs DEF IBye, RBye, ICancel, IError
  <2>1. leg' \in {Over(leg, nh), DroppedLegs(Over(leg, nh))}
    BY <1>8 DEF IBye, RBye, ICancel, IError, Bye, ConsultOver, CallOver, CallError, Busy,
                DropConsultLeg, Orderly
  <2>2. \A g \in Handles : leg'[g].st = "ringing" => leg[g].st = "ringing" /\ g # nh
    BY <1>2, <2>0, <2>1, QuietLegs
  <2>3. CASE nh = consult_nh
    <3>1. UNCHANGED remote_rtp
      BY <1>8, <2>3, RingIsPrimary DEF IBye, RBye, ICancel, IError, Bye, ConsultOver, rtpVars
    <3> QED BY <1>1, <2>2, <3>1 DEF NoNewRing
  <2>4. CASE nh # consult_nh
    <3>1. nh = call_nh
      BY <2>0, <2>4, OtherLegIsPrimary
    <3> QED BY <2>2, <3>1, RingIsPrimary DEF RingHasMedia
  <2> QED BY <2>3, <2>4
<1>9. ASSUME NEW accepted, NEW result, RRefer(nh, accepted) \/ INotify(nh, result)
      PROVE  RingHasMedia'
  <2>1. UNCHANGED remote_rtp /\ \E r : leg' = [leg EXCEPT ![nh].refer = r]
    BY <1>9 DEF RRefer, INotify, TransferOver, rtpVars
  <2>2. NoNewRing(leg, leg')
    BY <1>0, <2>1 DEF NoNewRing, Legs, Leg
  <2> QED BY <1>1, <2>1, <2>2
<1> QED BY <1>3, <1>4, <1>5, <1>6, <1>7, <1>8, <1>9 DEF NuaCb

\* Nor does a call of the API.
LEMMA ApiKeepsRing ==
    ASSUME LegInv, RingHasMedia, Api PROVE RingHasMedia'
<1>0. leg \in Legs /\ DroppedLegs(leg) \in Legs /\ (call_nh # NoHandle => call_nh \in Handles)
  BY DroppedLegsType DEF LegInv, TypeOK, Legs, MaybeHandle
<1>1. ASSUME NoNewRing(leg, leg'), UNCHANGED remote_rtp PROVE RingHasMedia'
  BY <1>1 DEF NoNewRing, RingHasMedia
<1>2. NoNewRing(leg, DroppedLegs(leg))
  BY <1>0, QuietLegs DEF NoNewRing
<1>3. CASE SofiaCall
  <2>1. PICK h \in Free : leg' = [leg EXCEPT ![h] = CallingLeg(FALSE)] /\ UNCHANGED remote_rtp
    BY <1>3 DEF SofiaCall
  <2>2. h \in Handles
    BY FreeIsIdle
  <2>3. NoNewRing(leg, leg)
    BY DEF NoNewRing
  <2> QED BY <1>0, <1>1, <2>1, <2>2, <2>3, CallingIsNoRing
<1>4. CASE SofiaStartConsultation
  <2> DEFINE l == IF call_nh = NoHandle THEN leg ELSE HeldLegs(leg, TRUE)
  <2>1. PICK h \in Free : leg' = [l EXCEPT ![h] = CallingLeg(FALSE)] /\ UNCHANGED remote_rtp
    BY <1>4 DEF SofiaStartConsultation, rtpVars
  <2>2. l \in Legs /\ NoNewRing(leg, l) /\ h \in Handles
    BY <1>0, HeldLegsType, QuietLegs, FreeIsIdle DEF LegInv, NoNewRing
  <2> HIDE DEF l
  <2> QED BY <1>0, <1>1, <2>1, <2>2, CallingIsNoRing
<1>5. CASE SofiaHangup
  <2> DEFINE l == DroppedLegs(leg)
  <2>0. l \in Legs /\ NoNewRing(leg, l)
    BY <1>0, <1>2
  <2>1. CASE call_nh # NoHandle /\ ~call_established /\ call_is_incoming
    <3>1. leg' = IF l[call_nh].st = "ringing" THEN Over(l, call_nh)
                 ELSE [l EXCEPT ![call_nh].owed = FALSE]
      BY <1>5, <2>1 DEF SofiaHangup
    <3> HIDE DEF l
    <3>2. \A g \in Handles : Over(l, call_nh)[g].st = IF g = call_nh THEN "idle" ELSE l[g].st
      BY <1>0, <2>0, <2>1, NuaEffects
    <3>3. \A g \in Handles : [l EXCEPT ![call_nh].owed = FALSE][g].st = l[g].st
      BY <1>0, <2>0, <2>1 DEF Legs, Leg
    <3>4. \A g \in Handles : leg'[g].st = "ringing" => leg[g].st = "ringing" /\ g # call_nh
      BY <2>0, <3>1, <3>2, <3>3 DEF NoNewRing
    <3> QED BY <3>4, RingIsPrimary DEF RingHasMedia
  <2>2. CASE ~(call_nh # NoHandle /\ ~call_established /\ call_is_incoming)
    <3>1. /\ leg' = IF call_nh = NoHandle THEN l
                    ELSE IF call_established THEN NuaBye(l, call_nh) ELSE NuaCancel(l, call_nh)
          /\ UNCHANGED remote_rtp
      BY <1>5, <2>2 DEF SofiaHangup, rtpVars
    <3> HIDE DEF l
    <3>2. ASSUME call_nh # NoHandle
          PROVE  NoNewRing(l, NuaBye(l, call_nh)) /\ NoNewRing(l, NuaCancel(l, call_nh))
      <4>1. ASSUME NEW g \in Handles
            PROVE  /\ NuaBye(l, call_nh)[g].st = "ringing" => l[g].st = "ringing"
                   /\ NuaCancel(l, call_nh)[g].st = "ringing" => l[g].st = "ringing"
        BY <1>0, <2>0, <3>2, NuaEffects
      <4> QED BY <4>1 DEF NoNewRing
    <3> QED BY <1>1, <2>0, <3>1, <3>2 DEF NoNewRing
  <2> QED BY <2>1, <2>2
<1>6. CASE SofiaCancelConsultation
  <2>1. /\ leg' = DroppedLegs(leg) \/ (call_nh # NoHandle /\ leg' = HeldLegs(DroppedLegs(leg), FALSE))
        /\ UNCHANGED remote_rtp
    BY <1>6 DEF SofiaCancelConsultation, CanHold, rtpVars
  <2>2. call_nh # NoHandle => NoNewRing(DroppedLegs(leg), HeldLegs(DroppedLegs(leg), FALSE))
    BY <1>0, QuietLegs DEF NoNewRing
  <2> QED BY <1>1, <1>2, <2>1, <2>2 DEF NoNewRing
<1>7. CASE \/ \E hold \in BOOLEAN : SofiaSetHold(hold)
           \/ SofiaBlindTransfer \/ SofiaCompleteTransfer \/ SofiaAnswer
  <2>1. call_nh # NoHandle /\ UNCHANGED remote_rtp
    BY <1>7 DEF SofiaSetHold, SofiaBlindTransfer, SofiaCompleteTransfer, SofiaAnswer, CanHold, rtpVars
  <2>2. \A g \in Handles :
          /\ NuaRefer(leg, call_nh)[g].st = leg[g].st
          /\ NuaAccept(leg, call_nh)[g].st = "ringing" => leg[g].st = "ringing"
          /\ \A hold \in BOOLEAN : HeldLegs(leg, hold)[g].st = leg[g].st
    BY <1>0, <2>1, NuaEffects, QuietLegs
  <2> QED BY <1>1, <1>7, <2>1, <2>2
          DEF NoNewRing, SofiaSetHold, SofiaBlindTransfer, SofiaCompleteTransfer, SofiaAnswer
<1>8. ~SofiaReinviteSdp /\ ~SofiaRespondSdp
  BY PlainRtp DEF SofiaReinviteSdp, SofiaRespondSdp
<1> QED BY <1>3, <1>4, <1>5, <1>6, <1>7, <1>8 DEF Api

-----------------------------------------------------------------------------
\* A leg that has the call's address goes on having it, or the address goes with the call.
LEMMA OwnStays ==
    ASSUME RtpIsOwn, UNCHANGED <<call_nh, remote_rtp>>,
           call_nh \in Handles /\ leg'[call_nh].st \in {"calling", "cancelled"}
              => leg[call_nh].st \in {"calling", "cancelled"},
           TypeOK
    PROVE  RtpIsOwn'
BY DEF RtpIsOwn, TypeOK, MaybeHandle

\* Every report that ends a call which had an address clears it.
LEMMA CallbackKeepsOwn ==
    ASSUME LegInv, Orderly, NoError, RtpIsOwn, NEW nh \in Handles, NuaCb(nh)
    PROVE  RtpIsOwn'
<1>0. /\ leg \in Legs /\ leg[nh] \in Leg /\ nh # NoHandle /\ TypeOK
      /\ call_nh # NoHandle => call_nh \in Handles
      /\ \A g \in Handles : Over(leg, nh)[g].st = IF g = nh THEN "idle" ELSE leg[g].st
  BY FieldTypes, NuaEffects, ConstantsAssumption DEF LegInv, TypeOK, MaybeHandle
<1>1. leg[nh].st # "idle" => nh = call_nh \/ nh = consult_nh
  BY OtherLegIsPrimary
<1>2. nh = call_nh => nh # consult_nh
  BY <1>0 DEF LegInv, LegFacts, TwoLegs
<1>3. ASSUME NEW sdp, RInviteOk(nh, sdp) PROVE RtpIsOwn'
  <2>1. leg[nh].st # "idle"
    BY <1>3 DEF RInviteOk, Inviting, LegInv, LegFacts, ReinvIsUp
  <2>2. \A g \in Handles : leg'[g].st = IF g = nh /\ ~leg[nh].reinv THEN "up" ELSE leg[g].st
    BY <1>0, <1>3 DEF RInviteOk, Legs, Leg
  <2>3. CASE nh = consult_nh
    <3>1. UNCHANGED <<call_nh, remote_rtp>>
      BY <1>3, <2>3 DEF RInviteOk, ConsultAnswered, callVars, rtpVars
    <3> QED BY <1>0, <1>2, <2>2, <2>3, <3>1, OwnStays
  <2>4. CASE nh # consult_nh
    <3>1. nh = call_nh /\ call_nh' = call_nh
      BY <1>1, <1>3, <2>1, <2>4 DEF RInviteOk, CallAnswered
    <3>2. remote_rtp' \in {remote_rtp, nh}
      BY <1>3, <2>4 DEF RInviteOk, CallAnswered, Extract
    <3>3. leg'[call_nh].st \notin {"calling", "cancelled"}
      BY <2>2, <3>1 DEF LegInv, LegFacts, ReinvIsUp
    <3> QED BY <3>1, <3>2, <3>3 DEF RtpIsOwn
  <2> QED BY <2>3, <2>4
<1>4. ASSUME NEW challenge, RInviteChallenged(nh, challenge) PROVE RtpIsOwn'
  <2>1. leg[nh].st \in {"calling", "cancelled"} /\ Refused(nh) \in Legs
    BY <1>4, RefusedType DEF RInviteChallenged, Inviting, Reinviting, Orderly, LegInv
  <2>2. CASE nh # consult_nh
    <3>1. remote_rtp = NoHandle
      BY <1>1, <2>1, <2>2 DEF RtpIsOwn
    <3>2. remote_rtp' = remote_rtp
      BY <1>4, <2>2 DEF RInviteChallenged, InviteWithDigest
    <3> QED BY <3>1, <3>2 DEF RtpIsOwn
  <2>3. CASE nh = consult_nh
    <3>1. UNCHANGED <<call_nh, remote_rtp>>
      BY <1>4, <2>3 DEF RInviteChallenged, ConsultWithDigest, callVars, rtpVars
    <3> DEFINE l == Refused(nh)
    <3>2. l \in Legs /\ \A g \in Handles : l[g].st = IF g = nh THEN "idle" ELSE leg[g].st
      BY <2>1, RefusedEffects
    <3>3. leg' = l \/ \E h \in Free : leg' = [l EXCEPT ![h] = CallingLeg(TRUE)]
      BY <1>4, <2>3 DEF RInviteChallenged, ConsultWithDigest
    <3> HIDE DEF l
    <3>4. call_nh # NoHandle => leg'[call_nh].st = leg[call_nh].st
      BY <1>0, <1>2, <2>3, <3>2, <3>3, FreeIsIdle DEF Legs
    <3> QED BY <1>0, <3>1, <3>4, ConstantsAssumption, OwnStays
  <2> QED BY <2>2, <2>3
<1>5. CASE RInviteRefused(nh)
  <2>1. leg[nh].st \in {"calling", "cancelled"} /\ leg' = Refused(nh) /\ UNCHANGED remote_rtp
    BY <1>5 DEF RInviteRefused, Reinviting, Orderly, rtpVars
  <2>2. CASE nh # consult_nh
    <3>1. remote_rtp = NoHandle
      BY <1>1, <2>1, <2>2 DEF RtpIsOwn
    <3> QED BY <2>1, <3>1 DEF RtpIsOwn
  <2>3. CASE nh = consult_nh
    <3>1. UNCHANGED call_nh
      BY <1>5, <2>3 DEF RInviteRefused, ConsultRefused, callVars
    <3>2. \A g \in Handles : leg'[g].st = IF g = nh THEN "idle" ELSE leg[g].st
      BY <2>1, RefusedEffects
    <3> QED BY <1>0, <2>1, <3>1, <3>2, OwnStays
  <2> QED BY <2>2, <2>3
<1>6. ASSUME NEW sdp, IInvite(nh, sdp) PROVE RtpIsOwn'
  <2>1. CASE Busy(leg)
    BY <1>0, <2>1, OwnStays DEF Busy, callVars, rtpVars
  <2>2. CASE call_nh = NoHandle /\ RingIn(nh, sdp) /\ leg' = [leg EXCEPT ![nh].st = "ringing"]
    <3>1. remote_rtp = NoHandle
      BY <1>0, <2>2 DEF RtpIsOwn, TypeOK
    <3>2. call_nh' = nh /\ remote_rtp' \in {remote_rtp, nh} /\ leg'[nh].st = "ringing"
      BY <1>0, <2>2 DEF RingIn, Extract, Legs, Leg
    <3> QED BY <3>1, <3>2 DEF RtpIsOwn
  <2> QED BY <1>6, <2>1, <2>2 DEF IInvite
<1>7. ASSUME NEW sdp, IReinvite(nh, sdp) PROVE RtpIsOwn'
  <2>1. nh = call_nh /\ leg[nh].st = "up" /\ call_established
    BY <1>0, <1>7 DEF IReinvite, Orderly, LegInv, LegFacts, PrimaryFlags
  <2>2. leg' = NuaAccept(leg, nh) /\ call_nh' = call_nh /\ remote_rtp' \in {remote_rtp, nh}
    BY <1>7, <2>1, PlainRtp DEF IReinvite, AnswerReinvite, Extract, callVars
  <2>3. leg'[nh].st = "up"
    BY <1>0, <2>1, <2>2, NuaEffects
  <2> QED BY <2>1, <2>2, <2>3 DEF RtpIsOwn
<1>8. CASE IBye(nh) \/ RBye(nh) \/ ICancel(nh) \/ IError(nh)
  <2>1. CASE nh = consult_nh
    <3>1. leg[nh].st # "ringing"
      BY <1>0, <2>1, RingIsPrimary DEF LegInv
    <3>2. UNCHANGED <<call_nh, remote_rtp>> /\ leg' = Over(leg, nh)
      BY <1>8, <2>1, <3>1
         DEF IBye, RBye, ICancel, IError, Bye, ConsultOver, Orderly, callVars, rtpVars
    <3> QED BY <1>0, <1>2, <2>1, <3>2, OwnStays
  <2>2. CASE nh # consult_nh
    <3>1. remote_rtp' = NoHandle
      BY <1>8, <2>2 DEF IBye, RBye, ICancel, IError, NoError, Bye, CallOver, ClearCall
    <3> QED BY <3>1 DEF RtpIsOwn
  <2> QED BY <2>1, <2>2
<1>9. ASSUME NEW accepted, NEW result, RRefer(nh, accepted) \/ INotify(nh, result)
      PROVE  RtpIsOwn'
  <2>1. UNCHANGED <<call_nh, remote_rtp>> /\ \E r : leg' = [leg EXCEPT ![nh].refer = r]
    BY <1>9 DEF RRefer, INotify, TransferOver, callVars, rtpVars
  <2>2. \A g \in Handles : leg'[g].st = leg[g].st
    BY <1>0, <2>1 DEF Legs, Leg
  <2> QED BY <1>0, <2>1, <2>2, OwnStays
<1> QED BY <1>3, <1>4, <1>5, <1>6, <1>7, <1>8, <1>9 DEF NuaCb

\* A new call finds no address; the other calls of the API leave it or clear it.
LEMMA ApiKeepsOwn ==
    ASSUME LegInv, RtpIsOwn, Api, call_nh = NoHandle \/ call_nh' \in {call_nh, NoHandle}
    PROVE  RtpIsOwn'
<1>0. /\ leg \in Legs /\ DroppedLegs(leg) \in Legs /\ TypeOK
      /\ call_nh # NoHandle => call_nh \in Handles /\ call_nh # consult_nh
  BY DroppedLegsType DEF LegInv, LegFacts, TwoLegs, TypeOK, Legs, MaybeHandle
<1>1. call_nh # NoHandle => DroppedLegs(leg)[call_nh].st = leg[call_nh].st
  BY <1>0, DroppedEffects
<1>2. CASE SofiaCall
  <2>1. PICK h \in Free : call_nh' = h /\ UNCHANGED remote_rtp
    BY <1>2 DEF SofiaCall
  <2>2. call_nh = NoHandle
    BY <2>1, FreeIsIdle
  <2> QED BY <1>0, <2>1, <2>2 DEF RtpIsOwn, TypeOK
<1>3. CASE SofiaStartConsultation
  <2> DEFINE l == IF call_nh = NoHandle THEN leg ELSE HeldLegs(leg, TRUE)
  <2>1. PICK h \in Free : leg' = [l EXCEPT ![h] = CallingLeg(FALSE)]
    BY <1>3 DEF SofiaStartConsultation
  <2>2. l \in Legs /\ (call_nh # NoHandle => l[call_nh].st = leg[call_nh].st)
    BY <1>0, HeldLegsType, HeldEffects
  <2> HIDE DEF l
  <2>3. call_nh # NoHandle => leg'[call_nh].st = leg[call_nh].st
    BY <1>0, <2>1, <2>2, FreeIsIdle DEF Legs
  <2> QED BY <1>0, <1>3, <2>3, OwnStays, ConstantsAssumption DEF SofiaStartConsultation, rtpVars
<1>4. CASE SofiaHangup
  <2>1. CASE call_nh # NoHandle /\ ~call_established /\ call_is_incoming
    BY <1>4, <2>1 DEF SofiaHangup, ClearCall, RtpIsOwn
  <2>2. CASE call_nh = NoHandle
    BY <1>0, <1>4, <2>2 DEF SofiaHangup, RtpIsOwn, rtpVars, TypeOK
  <2>3. CASE call_nh # NoHandle /\ ~(~call_established /\ call_is_incoming)
    <3> DEFINE l == DroppedLegs(leg)
    <3>1. /\ leg' = IF call_established THEN NuaBye(l, call_nh) ELSE NuaCancel(l, call_nh)
          /\ UNCHANGED <<call_nh, remote_rtp>>
      BY <1>4, <2>3 DEF SofiaHangup, rtpVars
    <3>2. l \in Legs /\ l[call_nh].st = leg[call_nh].st
      BY <1>0, <1>1, <2>3
    <3> HIDE DEF l
    <3>3. leg'[call_nh].st \in {"calling", "cancelled"} => leg[call_nh].st \in {"calling", "cancelled"}
      BY <1>0, <2>3, <3>1, <3>2, NuaEffects
    <3> QED BY <1>0, <3>1, <3>3, OwnStays
  <2> QED BY <2>1, <2>2, <2>3
<1>5. CASE SofiaCancelConsultation
  <2> DEFINE l == DroppedLegs(leg)
  <2>1. /\ leg' = l \/ (call_nh # NoHandle /\ leg' = HeldLegs(l, FALSE))
        /\ UNCHANGED <<call_nh, remote_rtp>>
    BY <1>5 DEF SofiaCancelConsultation, CanHold, rtpVars
  <2>2. l \in Legs /\ (call_nh # NoHandle => l[call_nh].st = leg[call_nh].st)
    BY <1>0, <1>1
  <2> HIDE DEF l
  <2>3. call_nh # NoHandle => leg'[call_nh].st = leg[call_nh].st
    BY <1>0, <2>1, <2>2, HeldEffects
  <2> QED BY <1>0, <2>1, <2>3, OwnStays, ConstantsAssumption
<1>6. CASE \/ \E hold \in BOOLEAN : SofiaSetHold(hold)
           \/ SofiaBlindTransfer \/ SofiaCompleteTransfer \/ SofiaAnswer
  <2>1. call_nh # NoHandle /\ UNCHANGED <<call_nh, remote_rtp>>
    BY <1>6 DEF SofiaSetHold, SofiaBlindTransfer, SofiaCompleteTransfer, SofiaAnswer, CanHold,
                callVars, rtpVars
  <2>2. /\ NuaRefer(leg, call_nh)[call_nh].st = leg[call_nh].st
        /\ NuaAccept(leg, call_nh)[call_nh].st \in {"calling", "cancelled"}
              => leg[call_nh].st \in {"calling", "cancelled"}
        /\ \A hold \in BOOLEAN : HeldLegs(leg, hold)[call_nh].st = leg[call_nh].st
    BY <1>0, <2>1, NuaEffects, HeldEffects
  <2>3. leg'[call_nh].st \in {"calling", "cancelled"} => leg[call_nh].st \in {"calling", "cancelled"}
    BY <1>6, <2>2 DEF SofiaSetHold, SofiaBlindTransfer, SofiaCompleteTransfer, SofiaAnswer
  <2> QED BY <1>0, <2>1, <2>3, OwnStays
<1>7. ~SofiaReinviteSdp /\ ~SofiaRespondSdp
  BY PlainRtp DEF SofiaReinviteSdp, SofiaRespondSdp
<1> QED BY <1>2, <1>3, <1>4, <1>5, <1>6, <1>7 DEF Api

\* So the address stored fits the call, one way or the other.
LEMMA CallbackKeepsRtp ==
    ASSUME LegInv, Orderly, RtpFits, NEW nh \in Handles, NuaCb(nh) PROVE RtpFits'
BY CallbackKeepsRing, CallbackKeepsOwn DEF RtpFits, SdpAlways, NoError

LEMMA ApiKeepsRtp ==
    ASSUME LegInv, RtpFits, Api, call_nh = NoHandle \/ call_nh' \in {call_nh, NoHandle}
    PROVE  RtpFits'
BY ApiKeepsRing, ApiKeepsOwn DEF RtpFits, SdpAlways, NoError

\* Which reports a pair of reports can be.
LEMMA PairIsPair ==
    ASSUME NEW a, NEW h, NEW b, NEW g, NEW c, NEW i, NEW d, NEW j
    PROVE  /\ Fire(a, h) \o Fire(b, g) = Fire(c, i) \o Fire(d, j) => g = j
           /\ Fire(a, h) \o Fire(b, g) # Fire(c, i)
<1>1. /\ Fire(a, h) \o Fire(b, g) = <<[ev |-> a, leg |-> h], [ev |-> b, leg |-> g]>>
      /\ Fire(c, i) \o Fire(d, j) = <<[ev |-> c, leg |-> i], [ev |-> d, leg |-> j]>>
      /\ Fire(c, i) = <<[ev |-> c, leg |-> i]>>
  BY TwoInOne DEF Fire
<1>2. ASSUME NEW e, NEW f, NEW x, NEW y
      PROVE  (<<e, f>> = <<x, y>> => f = y) /\ <<e, f>> # <<x>>
  OBVIOUS
<1>3. Fire(a, h) \o Fire(b, g) # Fire(c, i)
  BY <1>1, <1>2
<1>4. ASSUME Fire(a, h) \o Fire(b, g) = Fire(c, i) \o Fire(d, j) PROVE g = j
  <2>1. [ev |-> b, leg |-> g] = [ev |-> d, leg |-> j]
    BY <1>1, <1>4
  <2> QED BY <2>1
<1> QED BY <1>3, <1>4

\* Somebody answers: our peer with his 2xx, or the user.
LEMMA WhoAnswered ==
    ASSUME LegInv, Api \/ \E nh \in Handles : NuaCb(nh), Answered
    PROVE  \/ SofiaAnswer /\ ~\E nh \in Handles : NuaCb(nh)
           \/ \E nh \in Handles, sdp \in HasSdp :
                 RInviteOk(nh, sdp) /\ nh # consult_nh /\ CallAnswered(nh, sdp)
<1>1. ~call_established /\ call_established' /\ call_nh' # NoHandle
  BY DEF Answered, CanHold
<1>2. Api => SofiaAnswer
  BY <1>1, PlainRtp
     DEF Api, SofiaCall, FreshCall, SofiaHangup, ClearCall, SofiaSetHold, CanHold,
         SofiaBlindTransfer, SofiaStartConsultation, SofiaCompleteTransfer,
         SofiaCancelConsultation, SofiaReinviteSdp, SofiaRespondSdp, callVars
<1>3. ASSUME NEW nh \in Handles, NuaCb(nh)
      PROVE  \E sdp \in HasSdp : RInviteOk(nh, sdp) /\ nh # consult_nh /\ CallAnswered(nh, sdp)
  <2>1. ASSUME NEW sdp \in HasSdp, IInvite(nh, sdp) \/ IReinvite(nh, sdp) PROVE FALSE
    BY <1>1, <2>1 DEF IInvite, IReinvite, RingIn, Busy, AnswerReinvite, FreshCall, callVars
  <2>2. ASSUME NEW challenge, RInviteChallenged(nh, challenge) PROVE FALSE
    BY <1>1, <2>2 DEF RInviteChallenged, ConsultWithDigest, InviteWithDigest, callVars
  <2>3. ~RInviteRefused(nh)
    BY <1>1 DEF RInviteRefused, ConsultRefused, CallRefused, callVars
  <2>4. ~(IBye(nh) \/ RBye(nh) \/ ICancel(nh) \/ IError(nh))
    BY <1>1 DEF IBye, RBye, ICancel, IError, Bye, ConsultOver, CallOver, CallError, Busy,
                ClearCall, callVars
  <2>5. ASSUME NEW accepted, NEW result, RRefer(nh, accepted) \/ INotify(nh, result) PROVE FALSE
    BY <1>1, <2>5 DEF RRefer, INotify, TransferOver, callVars
  <2>6. PICK sdp \in HasSdp : RInviteOk(nh, sdp)
    BY <1>3, <2>1, <2>2, <2>3, <2>4, <2>5 DEF NuaCb
  <2> QED BY <1>1, <2>6 DEF RInviteOk, ConsultAnswered, callVars
<1> QED BY <1>2, <1>3

\* The address that goes with an answer is the primary's.
LEMMA AnswerHasMedia ==
    ASSUME LegInv, Orderly, SdpAlways \/ NoError, RtpFits,
           Api \/ \E nh \in Handles : NuaCb(nh), Answered,
           Ringing \/ \E nh \in Handles : NuaCb(nh),
           NEW h \in Handles, NEW g \in Handles,
           out' = Fire("CALL_CONNECTED", h) \o Fire("CALL_MEDIA", g)
    PROVE  g = call_nh'
<1>0. call_nh' = call_nh /\ ~call_established
  BY DEF Answered, CanHold
<1>1. ASSUME NEW i, NEW src, NEW b, b \in BOOLEAN,
             out' = Fire("CALL_CONNECTED", i) \o (IF b THEN FireMedia("CALL_MEDIA", src) ELSE <<>>)
      PROVE  g = src /\ src # NoHandle
  <2>1. Fire("CALL_CONNECTED", i) \o <<>> = Fire("CALL_CONNECTED", i)
    BY DEF Fire
  <2>2. out' # Fire("CALL_CONNECTED", i)
    BY PairIsPair
  <2>3. b /\ src # NoHandle
    BY <1>1, <2>1, <2>2 DEF FireMedia
  <2>4. Fire("CALL_CONNECTED", h) \o Fire("CALL_MEDIA", g) =
        Fire("CALL_CONNECTED", i) \o Fire("CALL_MEDIA", src)
    BY <1>1, <2>3 DEF FireMedia
  <2> QED BY <2>3, <2>4, PairIsPair
<1>2. CASE SofiaAnswer /\ ~\E nh \in Handles : NuaCb(nh)
  <2>1. Ringing /\ out' = Fire("CALL_CONNECTED", call_nh) \o FireMedia("CALL_MEDIA", remote_rtp)
    BY <1>2, PlainRtp DEF SofiaAnswer
  <2>2. remote_rtp \in {call_nh, NoHandle}
    BY <2>1 DEF Ringing, RtpFits, RtpIsOwn, RingHasMedia, LegInv, TypeOK, MaybeHandle
  <2>3. out' = Fire("CALL_CONNECTED", call_nh) \o
               (IF TRUE THEN FireMedia("CALL_MEDIA", remote_rtp) ELSE <<>>)
    BY <2>1
  <2> QED BY <1>0, <1>1, <2>2, <2>3
<1>3. ASSUME NEW nh \in Handles, NEW sdp \in HasSdp,
             RInviteOk(nh, sdp), nh # consult_nh, CallAnswered(nh, sdp)
      PROVE  g = call_nh'
  <2>1. nh = call_nh
    <3>1. leg[nh].st # "idle"
      BY <1>3 DEF RInviteOk, Inviting, LegInv, LegFacts, ReinvIsUp
    <3> QED BY <1>3, <3>1, OtherLegIsPrimary
  <2>2. remote_rtp' \in {nh, NoHandle}
    <3>1. CASE SdpAlways
      BY <1>0, <1>3, <3>1 DEF CallAnswered, Extract, HasSdp, SdpAlways
    <3>2. CASE NoError
      <4>1. remote_rtp' \in {nh, remote_rtp}
        BY <1>0, <1>3 DEF CallAnswered, Extract
      <4> QED BY <2>1, <3>2, <4>1 DEF RtpFits, RtpIsOwn
    <3> QED BY <3>1, <3>2
  <2>3. out' = Fire("CALL_CONNECTED", nh) \o
               (IF local_rtp THEN FireMedia("CALL_MEDIA", remote_rtp') ELSE <<>>)
    BY <1>0, <1>3, PlainRtp DEF CallAnswered
  <2>4. local_rtp \in BOOLEAN
    BY DEF LegInv, TypeOK
  <2> QED BY <1>0, <1>1, <2>1, <2>2, <2>3, <2>4
<1> QED BY <1>2, <1>3, WhoAnswered

\* A handler of the engine: the event that starts the microphone is the primary's, and
\* the microphone's call goes on or the event that stops it is on its way.
LEMMA EffectKeepsMedia ==
    ASSUME CallInv, Orderly, SdpAlways \/ NoError, MediaInv, out = <<>>, Effect,
           UNCHANGED audio,
           \/ \E nh \in Handles : NuaCb(nh)
           \/ Api /\ (Answered => Ringing)
    PROVE  MediaIsOfCall' /\ AudioIsOfCall'
<1>0. LegInv /\ RtpFits /\ (audio # NoHandle => audio = call_nh /\ CanHold)
  BY QuietWindow DEF CallInv, MediaInv, AudioIsOfCall, WindowInv, AudioHasCall
<1>1. AudioIsOfCall'
  <2>1. CASE Ended
    BY <2>1 DEF Ended, CloseComing, AudioIsOfCall
  <2>2. CASE Rang \/ Answered
    BY <1>0, <2>2 DEF Rang, Answered, CanHold, AudioIsOfCall
  <2>3. CASE Carried
    BY <1>0, <2>3 DEF Carried, AudioIsOfCall
  <2> QED BY <2>1, <2>2, <2>3 DEF Effect
<1>2. MediaIsOfCall'
  <2>1. ASSUME NEW ev, NEW h, out' = Fire(ev, h), ev # "CALL_MEDIA" PROVE MediaIsOfCall'
    <3>1. \A g, k : out' # Fire("CALL_CONNECTED", g) \o Fire("CALL_MEDIA", k)
      BY <2>1, PairIsPair
    <3>2. ~Taking("CALL_MEDIA")'
      BY <2>1, FireIsOne DEF Taking
    <3> QED BY <3>1, <3>2 DEF MediaIsOfCall
  <2>2. CASE Ended \/ Rang
    BY <2>1, <2>2 DEF Ended, Rang, Closing
  <2>3. CASE Answered
    <3>1. PICK h \in Handles :
             \/ out' = Fire("CALL_CONNECTED", h)
             \/ \E g \in Handles : out' = Fire("CALL_CONNECTED", h) \o Fire("CALL_MEDIA", g)
      BY <2>3 DEF Answered
    <3>2. ASSUME NEW g \in Handles, out' = Fire("CALL_CONNECTED", h) \o Fire("CALL_MEDIA", g)
          PROVE  MediaIsOfCall'
      <4>1. ~Taking("CALL_MEDIA")'
        BY <3>2, PairIsTwo DEF Taking
      <4>2. ASSUME NEW i \in Handles, NEW k \in Handles,
                   out' = Fire("CALL_CONNECTED", i) \o Fire("CALL_MEDIA", k)
            PROVE  k = call_nh'
        BY <1>0, <2>3, <4>2, AnswerHasMedia
      <4> QED BY <4>1, <4>2 DEF MediaIsOfCall
    <3> QED BY <2>1, <3>1, <3>2
  <2>4. CASE Carried
    <3>1. CASE out' = <<>>
      <4>1. ~Taking("CALL_MEDIA")' /\ \A i, k : out' # Fire("CALL_CONNECTED", i) \o Fire("CALL_MEDIA", k)
        BY <3>1, PairIsTwo DEF Taking
      <4> QED BY <4>1 DEF MediaIsOfCall
    <3>2. ASSUME NEW h \in Handles, NEW g \in Handles,
                 out' = Fire("CONSULT_CONNECTED", h) \o Fire("CONSULT_MEDIA", g)
          PROVE  MediaIsOfCall'
      <4>1. Head(out').ev = "CONSULT_CONNECTED"
        BY <3>2, PairIsTwo
      <4>2. ASSUME NEW i, NEW k PROVE out' # Fire("CALL_CONNECTED", i) \o Fire("CALL_MEDIA", k)
        BY <4>1, PairIsTwo
      <4> QED BY <4>1, <4>2 DEF MediaIsOfCall, Taking
    <3> QED BY <2>1, <2>4, <3>1, <3>2 DEF Carried, CallNews
  <2> QED BY <2>2, <2>3, <2>4 DEF Effect
<1> QED BY <1>1, <1>2

\* The window's handlers: the address taken from the event is the primary's.
LEMMA EventKeepsMedia ==
    ASSUME CallInv, MediaInv, HandleSipEvent, Taken
    PROVE  MediaInv'
<1>0. out # <<>> /\ out' = Tail(out) /\ UNCHANGED <<call_nh, remote_rtp, leg>>
  BY DEF Taken, callVars, rtpVars, HandleSipEvent, OnIncomingCall, OnCallConnected, OnCallMedia,
         OnCallOver, OnTransferFailed, OnConsultConnected, OnConsultMedia, OnConsultEnded, Taking
<1>1. RtpFits'
  BY <1>0 DEF MediaInv, RtpFits, RingHasMedia, RtpIsOwn
<1>2. MediaIsOfCall'
  <2>1. CASE out' = <<>>
    <3>1. ~Taking("CALL_MEDIA")' /\ \A i, k : out' # Fire("CALL_CONNECTED", i) \o Fire("CALL_MEDIA", k)
      BY <2>1, PairIsTwo DEF Taking
    <3> QED BY <3>1 DEF MediaIsOfCall
  <2>2. ASSUME NEW a, NEW h \in Handles, NEW b, NEW g \in Handles,
               out = Fire(a, h) \o Fire(b, g), a = "CALL_CONNECTED" \/ b # "CALL_MEDIA"
        PROVE  MediaIsOfCall'
    <3>1. out' = Fire(b, g)
      BY <1>0, <2>2, PairIsTwo
    <3>2. Head(out').ev = b /\ Head(out').leg = g
      BY <3>1 DEF Fire
    <3>3. ASSUME NEW i, NEW k PROVE out' # Fire("CALL_CONNECTED", i) \o Fire("CALL_MEDIA", k)
      BY <3>1, PairIsPair
    <3>4. b = "CALL_MEDIA" => g = call_nh
      BY <2>2 DEF MediaInv, MediaIsOfCall
    <3> QED BY <1>0, <3>2, <3>3, <3>4 DEF MediaIsOfCall, Taking
  <2>3. CASE \E ev \in Events, h \in MaybeHandle : out = Fire(ev, h)
    BY <1>0, <2>1, <2>3, FireIsOne
  <2>4. CASE Pair("CALL_CONNECTED", "CALL_MEDIA") \/ Pair("CONSULT_CONNECTED", "CONSULT_MEDIA")
    BY <2>2, <2>4 DEF Pair
  <2> QED BY <1>0, <2>3, <2>4 DEF CallInv, WindowInv, Reports
<1>3. AudioIsOfCall'
  <2>1. CASE OnCallMedia
    <3>1. ~CloseComing /\ Head(out).leg = call_nh
      BY <2>1, FireIsOne DEF OnCallMedia, MediaInv, MediaIsOfCall, Taking, CloseComing, Closing
    <3> QED BY <1>0, <2>1, <3>1 DEF OnCallMedia, MediaInv, AudioIsOfCall
  <2>2. CASE OnCallOver
    BY <2>2 DEF OnCallOver, AudioIsOfCall
  <2>3. CASE ~OnCallMedia /\ ~OnCallOver
    <3>1. UNCHANGED audio /\ \A ev \in Closing : ~Taking(ev)
      BY <2>3 DEF HandleSipEvent, OnIncomingCall, OnCallConnected, OnTransferFailed,
                  OnConsultConnected, OnConsultMedia, OnConsultEnded, uiVars, audioVars,
                  Taking, Closing
    <3>2. ~CloseComing
      BY <3>1, FireIsOne DEF CloseComing, Taking
    <3> QED BY <1>0, <3>1, <3>2 DEF MediaInv, AudioIsOfCall
  <2> QED BY <2>1, <2>2, <2>3
<1> QED BY <1>1, <1>2, <1>3 DEF MediaInv

\* A handler that fires nothing and keeps the call.
LEMMA SilentKeepsMedia ==
    ASSUME MediaInv, out = <<>>, out' = <<>>, audio' # NoHandle => UNCHANGED <<audio, call_nh>>
    PROVE  MediaIsOfCall' /\ AudioIsOfCall'
<1>1. ~Taking("CALL_MEDIA")' /\ \A i, k : out' # Fire("CALL_CONNECTED", i) \o Fire("CALL_MEDIA", k)
  BY PairIsTwo DEF Taking
<1>2. audio # NoHandle => audio = call_nh
  BY QuietWindow DEF MediaInv, AudioIsOfCall
<1> QED BY <1>1, <1>2 DEF MediaIsOfCall, AudioIsOfCall

\* The user starts and stops the microphone with the call.
LEMMA UserKeepsMedia ==
    ASSUME CallInv, Orderly, SdpAlways \/ NoError, MediaInv, out = <<>>, User, Intact'
    PROVE  MediaInv'
<1>0. LegInv /\ RtpFits /\ (audio # NoHandle => CanHold)
  BY QuietWindow DEF CallInv, MediaInv, WindowInv, AudioHasCall
<1>1. CASE StartCall
  <2>1. call_nh = NoHandle /\ SofiaCall /\ out' = <<>> /\ UNCHANGED audio
    BY <1>1 DEF StartCall, Intact, SofiaCall, audioVars
  <2> QED BY <1>0, <2>1, ApiKeepsRtp, SilentKeepsMedia DEF Api, MediaInv, CanHold
<1>2. ASSUME NEW hold \in BOOLEAN, HoldToggled(hold) PROVE MediaInv'
  <2>1. out' = <<>> /\ UNCHANGED <<audio, call_nh>>
    BY <1>2 DEF HoldToggled, SofiaSetHold, vars, callVars
  <2>2. RtpFits'
    <3>1. CASE SofiaSetHold(hold)
      BY <1>0, <2>1, <3>1, ApiKeepsRtp DEF Api
    <3>2. CASE UNCHANGED vars
      BY <1>0, <3>2 DEF vars, callVars, rtpVars, RtpFits, RingHasMedia, RtpIsOwn
    <3> QED BY <1>2, <3>1, <3>2 DEF HoldToggled
  <2> QED BY <2>1, <2>2, SilentKeepsMedia DEF MediaInv
<1>3. CASE Buttons
  <2>1. Api /\ Effect /\ UNCHANGED audio
    BY <1>3, ButtonsKeep
       DEF Buttons, AnswerCall, HangupCall, BlindTransfer, StartConsultation, CompleteTransfer,
           CancelConsultation, Api, Keeps, audioVars
  <2>2. Answered => Ringing
    <3>1. CASE AnswerCall
      BY <3>1, QuietWindow DEF AnswerCall, CallInv, WindowInv, AnswerIsWanted
    <3>2. CASE ~AnswerCall
      <4>1. call_established' = call_established \/ ~call_established'
        BY <1>3, <3>2
           DEF Buttons, HangupCall, BlindTransfer, StartConsultation, CompleteTransfer,
               CancelConsultation, SofiaHangup, ClearCall, SofiaBlindTransfer,
               SofiaStartConsultation, SofiaCompleteTransfer, SofiaCancelConsultation, callVars
      <4> QED BY <4>1 DEF Answered, CanHold
    <3> QED BY <3>1, <3>2
  <2>3. call_nh' \in {call_nh, NoHandle}
    BY <1>3
       DEF Buttons, AnswerCall, HangupCall, BlindTransfer, StartConsultation, CompleteTransfer,
           CancelConsultation, SofiaAnswer, SofiaHangup, SofiaBlindTransfer,
           SofiaStartConsultation, SofiaCompleteTransfer, SofiaCancelConsultation, callVars
  <2> QED BY <1>0, <2>1, <2>2, <2>3, EffectKeepsMedia, ApiKeepsRtp DEF MediaInv
<1> QED BY <1>1, <1>2, <1>3 DEF User, Buttons

\* The media invariant holds in every state.
LEMMA MediaInvariant ==
    ASSUME Orderly, SdpAlways \/ NoError PROVE PhoneSpec => [](Intact => CallInv /\ MediaInv)
<1>1. PhoneInit => MediaInv
  <2> SUFFICES ASSUME PhoneInit PROVE MediaInv
    OBVIOUS
  <2>1. /\ out = <<>> /\ audio = NoHandle /\ remote_rtp = NoHandle
        /\ \A h \in Handles : leg[h].st = "idle"
    BY DEF PhoneInit, Init, IdleLeg
  <2>2. ~Taking("CALL_MEDIA") /\ \A i, k : out # Fire("CALL_CONNECTED", i) \o Fire("CALL_MEDIA", k)
    BY <2>1, PairIsTwo DEF Taking
  <2> QED BY <2>1, <2>2
          DEF MediaInv, RtpFits, RingHasMedia, RtpIsOwn, MediaIsOfCall, AudioIsOfCall
<1>2. /\ (Intact => CallInv) /\ (Intact => MediaInv) /\ [PhoneNext]_phoneVars
      => (Intact' => MediaInv')
  <2> SUFFICES ASSUME CallInv, MediaInv, [PhoneNext]_phoneVars, Intact' PROVE MediaInv'
    BY IntactBefore
  <2>1. CASE UNCHANGED phoneVars
    <3>1. UNCHANGED <<leg, remote_rtp, out, call_nh, audio>>
      BY <2>1 DEF phoneVars, vars, callVars, rtpVars, uiVars, audioVars
    <3> QED BY <3>1 DEF MediaInv, RtpFits, RingHasMedia, RtpIsOwn, MediaIsOfCall, AudioIsOfCall,
                        Taking, CloseComing
  <2>2. CASE HandleSipEvent /\ Taken
    BY <2>2, EventKeepsMedia
  <2>3. CASE OnTransferFailed /\ SofiaCancelConsultation
    <3>1. /\ out' = Fire("CONSULT_ENDED", consult_nh)
          /\ UNCHANGED <<call_nh, audio>>
      BY <2>3 DEF SofiaCancelConsultation, OnTransferFailed, uiVars, audioVars
    <3>2. RtpFits'
      BY <2>3, <3>1, ApiKeepsRtp DEF Api, CallInv, MediaInv
    <3>3. MediaIsOfCall'
      <4>1. \A i, k : out' # Fire("CALL_CONNECTED", i) \o Fire("CALL_MEDIA", k)
        BY <3>1, PairIsPair
      <4>2. ~Taking("CALL_MEDIA")'
        BY <3>1, FireIsOne DEF Taking
      <4> QED BY <4>1, <4>2 DEF MediaIsOfCall
    <3>4. ~CloseComing
      BY <2>3, FireIsOne DEF OnTransferFailed, Taking, CloseComing, Closing
    <3> QED BY <3>1, <3>2, <3>3, <3>4 DEF MediaInv, AudioIsOfCall
  <2>4. CASE out = <<>> /\ User
    BY <2>4, UserKeepsMedia
  <2>5. ASSUME out = <<>>, NEW nh \in Handles, Sofia(nh) PROVE MediaInv'
    <3>1. NuaCb(nh) /\ UNCHANGED audio
      BY <2>5 DEF Sofia, uiVars, audioVars
    <3>2. Effect /\ LegInv
      BY <3>1, CallbackKeeps DEF CallInv, Keeps
    <3> QED BY <2>5, <3>1, <3>2, EffectKeepsMedia, CallbackKeepsRtp DEF MediaInv
  <2> QED BY <2>1, <2>2, <2>3, <2>4, <2>5
          DEF PhoneNext, HandleSipEvent, OnTransferFailed, OnIncomingCall, OnCallConnected,
              OnCallMedia, OnCallOver, OnConsultConnected, OnConsultMedia, OnConsultEnded
<1> QED BY <1>1, <1>2, CallInvariant, PTL DEF PhoneSpec

\* The microphone streams to the peer of the primary call, never to that of a call
\* before it, although extract_rtp_into keeps old addresses.
THEOREM MediaIsOfPrimary ==
    ASSUME Orderly, SdpAlways \/ NoError PROVE PhoneSpec => []MediaOfPrimary
<1>1. (Intact => CallInv /\ MediaInv) => MediaOfPrimary
  BY QuietWindow DEF MediaInv, AudioIsOfCall, MediaOfPrimary, AtRest
<1> QED BY <1>1, MediaInvariant, PTL

-----------------------------------------------------------------------------
(***************************************************************************)
(* The dialog a transfer replaces.                                         *)
(***************************************************************************)
\* No final answer crosses our CANCEL: a leg that is cancelled stays down.
NoRace == "cancel_race" \notin Env

\* A consultation that was given up is being ended; it is established when it is up.
GivenUpIsEnding ==
    consult_ended =>
        /\ consult_nh # NoHandle /\ ~consult_established
        /\ leg[consult_nh].st \in {"closing", "cancelled"}
ConsultFlag == consult_nh # NoHandle => (consult_established <=> leg[consult_nh].st = "up")

ConsultFacts == GivenUpIsEnding /\ ConsultFlag

\* The consultation that is up is the one whose dialog glue.c remembers;
Consulting == /\ consult_nh # NoHandle /\ consult_established
              /\ leg[consult_nh].st = "up" /\ consult_dialog = consult_nh

\* the call it was for is being ended;
CallEnding == call_nh # NoHandle /\ leg[call_nh].st \in {"closing", "cancelled"}

\* or the window is about to hide the button.
ButtonGoes == CloseComing \/ Taking("CONSULT_ENDED")

ButtonIsRight == consult_mode => Consulting \/ CallEnding \/ ButtonGoes
OfferIsRight == Taking("CONSULT_CONNECTED") => Consulting

TransferInv == ConsultFacts /\ ButtonIsRight /\ OfferIsRight

\* What a handler does to the consultation: it goes on, or the button goes with it.
ConsultStep ==
    /\ ConsultFacts'
    /\ Consulting => Consulting' \/ CallEnding' \/ ButtonGoes'
    /\ CallEnding => CallEnding' \/ ButtonGoes'
    /\ Taking("CONSULT_CONNECTED")' => Consulting'

\* A handler that leaves the consultation alone.
LEMMA ConsultAlone ==
    ASSUME LegInv, ConsultFacts,
           UNCHANGED <<consult_nh, consult_established, consult_ended, consult_dialog>>,
           consult_nh # NoHandle => leg'[consult_nh].st = leg[consult_nh].st
    PROVE  ConsultFacts' /\ (Consulting => Consulting')
BY DEF ConsultFacts, GivenUpIsEnding, ConsultFlag, Consulting

\* Dropping it ends it.
LEMMA ConsultDropped ==
    ASSUME LegInv, ConsultFacts, NEW l \in Legs, consult_nh # NoHandle,
           l[consult_nh].st = leg[consult_nh].st
    PROVE  DroppedLegs(l)[consult_nh].st \in {"closing", "cancelled"}
<1>1. consult_nh \in Handles
  BY DEF LegInv, TypeOK, MaybeHandle
<1>2. leg[consult_nh].st \in LegStates \ {"idle", "ringing"}
  BY <1>1 DEF LegInv, LegFacts, LegsHeld, ConsultIsOurs, TypeOK, Leg
<1>3. /\ NuaBye(l, consult_nh)[consult_nh].st =
             IF l[consult_nh].st = "up" THEN "closing" ELSE l[consult_nh].st
      /\ NuaCancel(l, consult_nh)[consult_nh].st =
             IF l[consult_nh].st = "calling" THEN "cancelled" ELSE l[consult_nh].st
  BY <1>1, NuaEffects
<1> QED BY <1>2, <1>3 DEF DroppedLegs, ConsultFacts, ConsultFlag, LegStates

\* The reports that take the button away, and those that do not bring it.
LEMMA WhatIsTaken ==
    ASSUME NEW ev, NEW h
    PROVE  /\ out' = <<>> => ~Taking("CONSULT_CONNECTED")'
           /\ out' = Fire(ev, h) => (Taking("CONSULT_CONNECTED")' <=> ev = "CONSULT_CONNECTED")
           /\ out' = Fire("CONSULT_ENDED", h) => ButtonGoes'
           /\ out' = Fire(ev, h) /\ ev \in Closing /\ h \in MaybeHandle => ButtonGoes'
BY FireIsOne DEF Taking, ButtonGoes, CloseComing

\* A 2xx: only the consultation's own makes it established, and stores its dialog.
LEMMA AnsweredConsult ==
    ASSUME LegInv, Orderly, NoRace, ConsultFacts, NEW nh \in Handles, NEW sdp \in BOOLEAN,
           RInviteOk(nh, sdp)
    PROVE  ConsultStep
<1>0. leg \in Legs /\ leg[nh] \in Leg /\ nh # NoHandle
  BY FieldTypes, ConstantsAssumption DEF LegInv
<1>1. \A g \in Handles : leg'[g].st = IF g = nh /\ ~leg[nh].reinv THEN "up" ELSE leg[g].st
  BY <1>0 DEF RInviteOk, Legs, Leg
<1>2. leg[nh].st = "calling" \/ (leg[nh].reinv /\ leg[nh].st \in {"up", "closing"})
  BY DEF RInviteOk, Inviting, NoRace, LegInv, LegFacts, ReinvIsUp
<1>3. CASE nh = consult_nh
  <2>1. ConsultAnswered(nh, sdp) /\ nh # call_nh /\ leg[nh].st = "calling" /\ ~leg[nh].reinv
    BY <1>0, <1>2, <1>3 DEF RInviteOk, LegInv, LegFacts, TwoLegs, ConsultIsOurs
  <2>2. ~consult_established /\ ~consult_ended
    BY <1>0, <1>3, <2>1 DEF ConsultFacts, ConsultFlag, GivenUpIsEnding
  <2>3. /\ consult_established' = TRUE /\ consult_dialog' = nh
        /\ UNCHANGED <<consult_nh, consult_ended, call_nh>>
    BY <2>1, <2>2 DEF ConsultAnswered, callVars
  <2>4. Consulting' /\ ConsultFacts'
    BY <1>0, <1>1, <1>3, <2>1, <2>2, <2>3
       DEF Consulting, ConsultFacts, GivenUpIsEnding, ConsultFlag
  <2>5. CallEnding => CallEnding'
    BY <1>1, <2>1, <2>3 DEF CallEnding, LegInv, TypeOK, MaybeHandle
  <2> QED BY <2>4, <2>5 DEF ConsultStep
<1>4. CASE nh # consult_nh
  <2>1. nh = call_nh
    BY <1>0, <1>2, <1>4, OtherLegIsPrimary
  <2>2. CallAnswered(nh, sdp)
    BY <1>4 DEF RInviteOk
  <2>3. ConsultFacts' /\ (Consulting => Consulting')
    BY <1>1, <1>4, <2>2, ConsultAlone DEF CallAnswered, consultVars, LegInv, TypeOK, MaybeHandle
  <2>4. CallEnding => CallEnding'
    BY <1>1, <1>2, <2>1, <2>2 DEF CallAnswered, CallEnding
  <2>5. ~Taking("CONSULT_CONNECTED")'
    <3>1. CASE call_established
      BY <2>2, <3>1, WhatIsTaken DEF CallAnswered
    <3>2. CASE ~call_established
      <4>1. Fire("CALL_CONNECTED", nh) \o <<>> = Fire("CALL_CONNECTED", nh)
        BY DEF Fire
      <4>2. out' = Fire("CALL_CONNECTED", nh)
            \/ out' = Fire("CALL_CONNECTED", nh) \o Fire("CALL_MEDIA", remote_rtp')
        BY <2>2, <3>2, <4>1, PlainRtp DEF CallAnswered, FireMedia
      <4> QED BY <4>2, FireIsOne, PairIsTwo DEF Taking
    <3> QED BY <3>1, <3>2
  <2> QED BY <2>3, <2>4, <2>5 DEF ConsultStep
<1> QED BY <1>3, <1>4

\* A challenge: the consultation was not up yet.
LEMMA ChallengedConsult ==
    ASSUME LegInv, Orderly, NoRace, ConsultFacts, NEW nh \in Handles, NEW challenge \in BOOLEAN,
           RInviteChallenged(nh, challenge)
    PROVE  ConsultStep
<1>0. /\ nh # NoHandle /\ leg[nh].st = "calling" /\ Refused(nh) \in Legs
      /\ NoHandle \notin Handles
  BY ConstantsAssumption, RefusedType
     DEF RInviteChallenged, Inviting, Reinviting, Orderly, NoRace, LegInv
<1>1. \A g \in Handles : Refused(nh)[g].st = IF g = nh THEN "idle" ELSE leg[g].st
  BY <1>0, RefusedEffects
<1>2. ASSUME NEW h \in Free, leg' = [Refused(nh) EXCEPT ![h] = CallingLeg(TRUE)]
      PROVE  /\ h \in Handles /\ h \notin {call_nh, consult_nh, NoHandle}
             /\ \A g \in Handles : leg'[g].st = IF g = h THEN "calling"
                                                ELSE IF g = nh THEN "idle" ELSE leg[g].st
  <2> DEFINE l == Refused(nh)
  <2>1. h \in Handles /\ h \notin {call_nh, consult_nh, NoHandle}
    BY FreeIsIdle
  <2>2. l \in Legs /\ leg' = [l EXCEPT ![h] = CallingLeg(TRUE)]
    BY <1>0, <1>2
  <2>3. \A g \in Handles : l[g].st = IF g = nh THEN "idle" ELSE leg[g].st
    BY <1>1
  <2> HIDE DEF l
  <2>4. \A g \in Handles : leg'[g].st = IF g = h THEN "calling" ELSE l[g].st
    BY <2>1, <2>2, CallingEffects
  <2> QED BY <2>1, <2>3, <2>4
<1>3. CASE nh = consult_nh
  <2>1. ConsultWithDigest(nh, challenge) /\ nh # call_nh
    BY <1>0, <1>3 DEF RInviteChallenged, LegInv, LegFacts, TwoLegs
  <2>2. ~consult_established /\ ~consult_ended /\ ~Consulting
    BY <1>0, <1>3 DEF ConsultFacts, ConsultFlag, GivenUpIsEnding, Consulting
  <2>3. UNCHANGED <<consult_established, consult_ended, call_nh>>
    BY <2>1 DEF ConsultWithDigest, callVars
  <2>4. CASE GiveUp(consult_auth_tried, challenge)
    <3>1. consult_nh' = NoHandle /\ leg' = Refused(nh) /\ out' = Fire("CONSULT_ENDED", nh)
      BY <2>1, <2>4 DEF ConsultWithDigest
    <3> QED BY <2>2, <2>3, <3>1, WhatIsTaken
            DEF ConsultStep, ConsultFacts, ConsultFlag, GivenUpIsEnding
  <2>5. CASE ~GiveUp(consult_auth_tried, challenge)
    <3>1. PICK h \in Free : /\ consult_nh' = h /\ out' = <<>>
                            /\ leg' = [Refused(nh) EXCEPT ![h] = CallingLeg(TRUE)]
      BY <2>1, <2>5 DEF ConsultWithDigest
    <3>2. leg'[h].st = "calling" /\ consult_nh' = h
      <4>1. /\ h \in Handles
            /\ \A g \in Handles : leg'[g].st = IF g = h THEN "calling"
                                               ELSE IF g = nh THEN "idle" ELSE leg[g].st
        BY <1>2, <3>1
      <4> QED BY <3>1, <4>1
    <3>3. ConsultFacts'
      BY <2>2, <2>3, <3>2 DEF ConsultFacts, ConsultFlag, GivenUpIsEnding
    <3>4. CallEnding => CallEnding'
      BY <1>0, <1>2, <2>1, <2>3, <3>1 DEF CallEnding, LegInv, TypeOK, MaybeHandle
    <3> QED BY <2>2, <3>1, <3>3, <3>4, WhatIsTaken DEF ConsultStep
  <2> QED BY <2>4, <2>5
<1>4. CASE nh # consult_nh
  <2>1. InviteWithDigest(nh, challenge) /\ nh = call_nh /\ ~CallEnding
    BY <1>0, <1>4, OtherLegIsPrimary DEF RInviteChallenged, CallEnding
  <2>2. UNCHANGED <<consult_nh, consult_established, consult_ended, consult_dialog>>
    BY <2>1 DEF InviteWithDigest, consultVars
  <2>3. out' = <<>> \/ out' = Fire("CALL_FAILED", nh)
    BY <2>1 DEF InviteWithDigest
  <2>4. consult_nh # NoHandle => leg'[consult_nh].st = leg[consult_nh].st
    <3>1. ASSUME consult_nh # NoHandle PROVE leg'[consult_nh].st = leg[consult_nh].st
      <4>1. consult_nh \in Handles
        BY <3>1 DEF LegInv, TypeOK, MaybeHandle
      <4>2. leg' = Refused(nh)
            \/ \E h \in Free : leg' = [Refused(nh) EXCEPT ![h] = CallingLeg(TRUE)]
        BY <2>1 DEF InviteWithDigest
      <4> QED BY <1>1, <1>2, <1>4, <4>1, <4>2
    <3> QED BY <3>1
  <2>5. ConsultFacts' /\ (Consulting => Consulting')
    BY <2>2, <2>4, ConsultAlone
  <2> QED BY <2>1, <2>3, <2>5, WhatIsTaken DEF ConsultStep
<1> QED BY <1>3, <1>4

\* A refusal ends the consultation, or the call it was for.
LEMMA RefusedConsult ==
    ASSUME LegInv, Orderly, ConsultFacts, NEW nh \in Handles, RInviteRefused(nh)
    PROVE  ConsultStep
<1>0. /\ nh # NoHandle /\ NoHandle \notin Handles /\ nh \in MaybeHandle
      /\ leg[nh].st \in {"calling", "cancelled"} /\ leg' = Refused(nh)
  BY ConstantsAssumption DEF RInviteRefused, Reinviting, Orderly, MaybeHandle
<1>1. \A g \in Handles : leg'[g].st = IF g = nh THEN "idle" ELSE leg[g].st
  BY <1>0, RefusedEffects
<1>2. CASE nh = consult_nh
  <2>1. ConsultRefused(nh) /\ nh # call_nh /\ ~Consulting
    BY <1>0, <1>2 DEF RInviteRefused, Consulting, LegInv, LegFacts, TwoLegs
  <2>2. ConsultFacts' /\ UNCHANGED call_nh
    BY <2>1 DEF ConsultRefused, ConsultFacts, ConsultFlag, GivenUpIsEnding, callVars
  <2>3. CallEnding => CallEnding'
    BY <1>1, <2>1, <2>2 DEF CallEnding, LegInv, TypeOK, MaybeHandle
  <2>4. out' = <<>> \/ out' = Fire("CONSULT_ENDED", nh)
    BY <2>1 DEF ConsultRefused, ConsultGone
  <2> QED BY <2>1, <2>2, <2>3, <2>4, WhatIsTaken DEF ConsultStep
<1>3. CASE nh # consult_nh
  <2>1. CallRefused(nh)
    BY <1>3 DEF RInviteRefused
  <2>2. ConsultFacts' /\ (Consulting => Consulting')
    BY <1>0, <1>1, <1>3, <2>1, ConsultAlone DEF CallRefused, consultVars, LegInv, TypeOK, MaybeHandle
  <2>3. ButtonGoes' /\ ~Taking("CONSULT_CONNECTED")'
    BY <1>0, <2>1, WhatIsTaken DEF CallRefused, Closing
  <2> QED BY <2>2, <2>3 DEF ConsultStep
<1> QED BY <1>2, <1>3

\* An incoming call or a re-INVITE leaves the consultation alone.
LEMMA IncomingConsult ==
    ASSUME LegInv, Orderly, ConsultFacts, NEW nh \in Handles, NEW sdp \in BOOLEAN,
           IInvite(nh, sdp) \/ IReinvite(nh, sdp)
    PROVE  ConsultStep
<1>0. leg \in Legs /\ leg[nh] \in Leg /\ nh # NoHandle /\ NoHandle \notin Handles
  BY FieldTypes, ConstantsAssumption DEF LegInv
<1>1. UNCHANGED <<consult_nh, consult_established, consult_ended, consult_dialog>>
  BY DEF IInvite, IReinvite, RingIn, Busy, AnswerReinvite, consultVars
<1>2. \/ leg' = leg /\ call_nh' = call_nh /\ out' = <<>>
      \/ /\ call_nh = NoHandle /\ leg[nh].st = "idle" /\ nh # consult_nh
         /\ leg' = [leg EXCEPT ![nh].st = "ringing"] /\ out' = Fire("INCOMING_CALL", nh)
      \/ leg[nh].st = "up" /\ leg' = NuaAccept(leg, nh) /\ call_nh' = call_nh /\ out' = <<>>
  <2>1. CASE IInvite(nh, sdp)
    <3>1. FireSdp("REMOTE_SDP", nh, sdp) = <<>> /\ Fire("INCOMING_CALL", nh) \o <<>> = Fire("INCOMING_CALL", nh)
      BY PlainRtp DEF FireSdp, Fire
    <3>2. nh \in Free
      BY <2>1 DEF IInvite
    <3>3. leg[nh].st = "idle" /\ nh # consult_nh
      BY <3>2, FreeIsIdle
    <3> QED BY <2>1, <3>1, <3>3 DEF IInvite, Busy, RingIn, callVars
  <2>2. CASE IReinvite(nh, sdp)
    <3>1. nh = call_nh /\ leg[nh].st = "up" /\ call_established
      BY <1>0, <2>2 DEF IReinvite, Orderly, LegInv, LegFacts, PrimaryFlags
    <3> QED BY <2>2, <3>1, PlainRtp DEF IReinvite, AnswerReinvite, callVars
  <2> QED BY <2>1, <2>2
<1>3. \A g \in Handles : leg'[g].st = leg[g].st \/ (g = nh /\ call_nh = NoHandle /\ g # consult_nh)
  BY <1>0, <1>2, NuaEffects DEF Legs, Leg
<1>4. ConsultFacts' /\ (Consulting => Consulting')
  BY <1>1, <1>3, ConsultAlone DEF LegInv, TypeOK, MaybeHandle
<1>5. CallEnding => CallEnding'
  BY <1>2, <1>3 DEF CallEnding, LegInv, TypeOK, MaybeHandle
<1>6. ~Taking("CONSULT_CONNECTED")'
  BY <1>2, WhatIsTaken
<1> QED BY <1>4, <1>5, <1>6 DEF ConsultStep

\* Dropping the consultation keeps what is known of it, and leaves no dialog to replace.
LEMMA DropKeepsFacts ==
    ASSUME LegInv, ConsultFacts, NEW l \in Legs,
           consult_nh # NoHandle => l[consult_nh].st = leg[consult_nh].st,
           consult_nh' = consult_nh,
           consult_ended' = (consult_ended \/ consult_nh # NoHandle),
           consult_established' = (consult_established /\ consult_nh = NoHandle),
           consult_nh # NoHandle => leg'[consult_nh].st = DroppedLegs(l)[consult_nh].st
    PROVE  ConsultFacts'
<1>1. consult_nh # NoHandle => leg'[consult_nh].st \in {"closing", "cancelled"}
  BY ConsultDropped
<1> QED BY <1>1 DEF ConsultFacts, GivenUpIsEnding, ConsultFlag

\* The end of the consultation hides the button, and so does that of the call.
LEMMA OverConsult ==
    ASSUME LegInv, Orderly, ConsultFacts, NEW nh \in Handles,
           IBye(nh) \/ RBye(nh) \/ ICancel(nh) \/ IError(nh)
    PROVE  ConsultStep
<1>0. /\ leg \in Legs /\ nh # NoHandle /\ NoHandle \notin Handles /\ nh \in MaybeHandle
      /\ Over(leg, nh) \in Legs
  BY FieldTypes, NuaLegs, ConstantsAssumption DEF LegInv, MaybeHandle
<1>1. \A g \in Handles : Over(leg, nh)[g].st = IF g = nh THEN "idle" ELSE leg[g].st
  BY <1>0, NuaEffects
<1>2. CASE nh = consult_nh
  <2>1. ConsultOver(nh, Over(leg, nh)) /\ nh # call_nh
    BY <1>0, <1>2, RingIsPrimary
       DEF IBye, RBye, ICancel, IError, Bye, Orderly, LegInv, LegFacts, TwoLegs
  <2>2. ConsultFacts' /\ UNCHANGED call_nh /\ leg' = Over(leg, nh)
    BY <2>1 DEF ConsultOver, ConsultFacts, ConsultFlag, GivenUpIsEnding, callVars
  <2>3. CallEnding => CallEnding'
    BY <1>1, <2>1, <2>2 DEF CallEnding, LegInv, TypeOK, MaybeHandle
  <2>4. out' = <<>> \/ out' = Fire("CONSULT_ENDED", nh)
    BY <2>1 DEF ConsultOver, ConsultGone
  <2>5. Consulting => out' = Fire("CONSULT_ENDED", nh)
    BY <2>1 DEF ConsultOver, ConsultGone, Consulting, ConsultFacts, GivenUpIsEnding
  <2> QED BY <2>2, <2>3, <2>4, <2>5, WhatIsTaken DEF ConsultStep
<1>3. CASE nh # consult_nh
  <2>1. nh = call_nh
    BY <1>3, OtherLegIsPrimary DEF IBye, RBye, ICancel, IError
  <2>2. out' = Fire("CALL_ENDED", nh) \/ out' = Fire("CALL_FAILED", nh)
    BY <1>3, <2>1 DEF IBye, RBye, ICancel, IError, Bye, CallOver, CallError
  <2>3. ButtonGoes' /\ ~Taking("CONSULT_CONNECTED")'
    BY <1>0, <2>2, WhatIsTaken DEF Closing
  <2>4. \/ /\ leg' = Over(leg, nh)
           /\ UNCHANGED <<consult_nh, consult_established, consult_ended>>
        \/ DropConsultLeg(Over(leg, nh)) /\ UNCHANGED consult_nh
    BY <1>3, <2>1
       DEF IBye, RBye, ICancel, IError, Bye, CallOver, CallError, Orderly, consultVars
  <2>5. consult_nh # NoHandle => Over(leg, nh)[consult_nh].st = leg[consult_nh].st
    BY <1>1, <1>3 DEF LegInv, TypeOK, MaybeHandle
  <2>6. ConsultFacts'
    <3>1. CASE DropConsultLeg(Over(leg, nh)) /\ UNCHANGED consult_nh
      BY <1>0, <2>5, <3>1, DropKeepsFacts DEF DropConsultLeg
    <3>2. CASE leg' = Over(leg, nh) /\ UNCHANGED <<consult_nh, consult_established, consult_ended>>
      BY <2>5, <3>2 DEF ConsultFacts, GivenUpIsEnding, ConsultFlag
    <3> QED BY <2>4, <3>1, <3>2
  <2> QED BY <2>3, <2>6 DEF ConsultStep
<1> QED BY <1>2, <1>3

\* The outcome of a transfer leaves the legs where they are.
LEMMA ReferConsult ==
    ASSUME LegInv, ConsultFacts, NEW nh \in Handles, NEW accepted, NEW result,
           RRefer(nh, accepted) \/ INotify(nh, result)
    PROVE  ConsultStep
<1>0. leg \in Legs /\ leg[nh] \in Leg
  BY FieldTypes DEF LegInv
<1>1. /\ UNCHANGED <<consult_nh, consult_established, consult_ended, consult_dialog, call_nh>>
      /\ \E r : leg' = [leg EXCEPT ![nh].refer = r]
  BY DEF RRefer, INotify, TransferOver, consultVars, callVars
<1>2. \A g \in Handles : leg'[g].st = leg[g].st
  BY <1>0, <1>1 DEF Legs, Leg
<1>3. ConsultFacts' /\ (Consulting => Consulting') /\ (CallEnding => CallEnding')
  BY <1>1, <1>2, ConsultAlone DEF CallEnding, LegInv, TypeOK, MaybeHandle
<1>4. \/ out' = <<>> \/ out' = Fire("TRANSFER_OK", nh) \/ out' = Fire("TRANSFER_FAILED", nh)
  BY DEF RRefer, INotify, TransferOver
<1>5. ~Taking("CONSULT_CONNECTED")'
  BY <1>4, WhatIsTaken
<1> QED BY <1>3, <1>5 DEF ConsultStep

\* What sofia-sip may report of any handle.
LEMMA CallbackConsult ==
    ASSUME LegInv, Orderly, NoRace, ConsultFacts, NEW nh \in Handles, NuaCb(nh)
    PROVE  ConsultStep
<1>1. ASSUME NEW sdp \in HasSdp, RInviteOk(nh, sdp) \/ IInvite(nh, sdp) \/ IReinvite(nh, sdp)
      PROVE  ConsultStep
  BY <1>1, AnsweredConsult, IncomingConsult DEF HasSdp
<1>2. ASSUME NEW challenge \in BOOLEAN, RInviteChallenged(nh, challenge) PROVE ConsultStep
  BY <1>2, ChallengedConsult
<1>3. CASE RInviteRefused(nh) \/ IBye(nh) \/ RBye(nh) \/ ICancel(nh) \/ IError(nh)
  BY <1>3, RefusedConsult, OverConsult
<1>4. ASSUME NEW accepted \in BOOLEAN, NEW result, RRefer(nh, accepted) \/ INotify(nh, result)
      PROVE  ConsultStep
  BY <1>4, ReferConsult
<1> QED BY <1>1, <1>2, <1>3, <1>4 DEF NuaCb

\* A call of the API that moves no leg.
LEMMA StillConsult ==
    ASSUME LegInv, ConsultFacts, \A g \in Handles : leg'[g].st = leg[g].st,
           UNCHANGED <<call_nh, consult_nh, consult_established, consult_ended, consult_dialog>>,
           ~Taking("CONSULT_CONNECTED")'
    PROVE  ConsultStep
<1>1. ConsultFacts' /\ (Consulting => Consulting')
  BY ConsultAlone DEF LegInv, TypeOK, MaybeHandle
<1>2. CallEnding => CallEnding'
  BY DEF CallEnding, LegInv, TypeOK, MaybeHandle
<1> QED BY <1>1, <1>2 DEF ConsultStep

\* Hanging up ends the call, and with it the reason for the button.
LEMMA HangupConsult ==
    ASSUME LegInv, ConsultFacts, call_nh # NoHandle, SofiaHangup PROVE ConsultStep
<1> DEFINE l == DroppedLegs(leg)
<1>0. /\ leg \in Legs /\ l \in Legs /\ call_nh \in Handles /\ call_nh # consult_nh
      /\ call_nh \in MaybeHandle
  BY DroppedLegsType DEF LegInv, TypeOK, Legs, MaybeHandle, LegFacts, TwoLegs
<1>1. l[call_nh].st = leg[call_nh].st
  BY <1>0, DroppedEffects DEF LegInv
<1>2. \A g \in Handles \ {call_nh} : leg'[g].st = l[g].st
  <2>1. \/ leg' \in {Over(l, call_nh), NuaBye(l, call_nh), NuaCancel(l, call_nh)}
        \/ leg' = [l EXCEPT ![call_nh].owed = FALSE]
    BY DEF SofiaHangup
  <2> HIDE DEF l
  <2>2. ASSUME NEW g \in Handles \ {call_nh} PROVE leg'[g].st = l[g].st
    <3>1. /\ Over(l, call_nh)[g].st = l[g].st /\ NuaBye(l, call_nh)[g].st = l[g].st
          /\ NuaCancel(l, call_nh)[g].st = l[g].st
      BY <1>0, <2>2, NuaEffects
    <3>2. [l EXCEPT ![call_nh].owed = FALSE][g].st = l[g].st
      BY <1>0, <2>2 DEF Legs, Leg
    <3> QED BY <2>1, <3>1, <3>2
  <2> QED BY <2>2
<1>3. /\ consult_nh' = consult_nh
      /\ consult_ended' = (consult_ended \/ consult_nh # NoHandle)
      /\ consult_established' = (consult_established /\ consult_nh = NoHandle)
  BY DEF SofiaHangup
<1>4. ConsultFacts'
  <2>1. consult_nh # NoHandle => leg'[consult_nh].st = l[consult_nh].st
    BY <1>0, <1>2 DEF LegInv, TypeOK, MaybeHandle
  <2> QED BY <1>0, <1>3, <2>1, DropKeepsFacts
<1>5. (CallEnding' \/ ButtonGoes') /\ ~Taking("CONSULT_CONNECTED")'
  <2>1. CASE ~call_established /\ call_is_incoming
    <3>1. out' = Fire("CALL_ENDED", call_nh)
      BY <2>1 DEF SofiaHangup, Declined
    <3> QED BY <1>0, <3>1, WhatIsTaken DEF Closing
  <2>2. CASE ~(~call_established /\ call_is_incoming)
    <3>1. /\ leg' = IF call_established THEN NuaBye(l, call_nh) ELSE NuaCancel(l, call_nh)
          /\ call_nh' = call_nh /\ out' = <<>>
      BY <2>2 DEF SofiaHangup
    <3> HIDE DEF l
    <3>2. /\ NuaBye(l, call_nh)[call_nh].st = IF l[call_nh].st = "up" THEN "closing" ELSE l[call_nh].st
          /\ NuaCancel(l, call_nh)[call_nh].st =
                IF l[call_nh].st = "calling" THEN "cancelled" ELSE l[call_nh].st
      BY <1>0, NuaEffects
    <3>3. /\ call_established <=> leg[call_nh].st \in {"up", "closing"}
          /\ leg[call_nh].st # "ringing" /\ leg[call_nh].st # "idle" /\ leg[call_nh].st \in LegStates
      BY <1>0, <2>2
         DEF LegInv, LegFacts, PrimaryFlags, Ringing, LegsHeld, TypeOK, Leg
    <3>4. leg'[call_nh].st \in {"closing", "cancelled"}
      BY <1>1, <3>1, <3>2, <3>3 DEF LegStates
    <3> QED BY <3>1, <3>4, WhatIsTaken DEF CallEnding
  <2> QED BY <2>1, <2>2
<1> QED BY <1>4, <1>5 DEF ConsultStep

\* Cancelling the consultation says so at once.
LEMMA CancelConsult ==
    ASSUME LegInv, ConsultFacts, SofiaCancelConsultation PROVE ConsultStep
<1> DEFINE l == DroppedLegs(leg)
<1>0. leg \in Legs /\ l \in Legs /\ consult_nh # NoHandle /\ consult_nh \in Handles
  BY DroppedLegsType DEF SofiaCancelConsultation, LegInv, TypeOK, Legs, MaybeHandle
<1>1. /\ UNCHANGED <<consult_nh, call_nh>> /\ consult_ended' = TRUE /\ consult_established' = FALSE
      /\ out' = Fire("CONSULT_ENDED", consult_nh)
      /\ leg' = IF CanHold THEN HeldLegs(l, FALSE) ELSE l
  BY DEF SofiaCancelConsultation
<1> HIDE DEF l
<1>2. leg'[consult_nh].st = l[consult_nh].st
  BY <1>0, <1>1, HeldEffects DEF CanHold, LegInv
<1>3. ConsultFacts'
  BY <1>0, <1>1, <1>2, ConsultDropped DEF l, ConsultFacts, GivenUpIsEnding, ConsultFlag
<1> QED BY <1>1, <1>3, WhatIsTaken DEF ConsultStep

\* A second consultation finds no trace of the first that says it was given up.
LEMMA StartConsult ==
    ASSUME LegInv, ConsultFacts, consult_nh = NoHandle, call_nh # NoHandle, SofiaStartConsultation
    PROVE  ConsultStep
<1> DEFINE l == HeldLegs(leg, TRUE)
<1>0. /\ leg \in Legs /\ l \in Legs /\ call_nh \in Handles
      /\ ~consult_ended /\ ~Consulting
  BY HeldLegsType
     DEF LegInv, TypeOK, Legs, MaybeHandle, ConsultFacts, GivenUpIsEnding, Consulting
<1>1. PICK h \in Free : consult_nh' = h /\ leg' = [l EXCEPT ![h] = CallingLeg(FALSE)]
  BY DEF SofiaStartConsultation
<1>2. /\ consult_established' = FALSE /\ UNCHANGED <<consult_ended, call_nh>> /\ out' = <<>>
  BY DEF SofiaStartConsultation
<1>3. h \in Handles /\ h # call_nh
  BY FreeIsIdle
<1>4. l[call_nh].st = leg[call_nh].st
  BY <1>0, HeldEffects DEF LegInv
<1> HIDE DEF l
<1>5. \A g \in Handles : leg'[g].st = IF g = h THEN "calling" ELSE l[g].st
  BY <1>0, <1>1, <1>3, CallingEffects
<1>6. ConsultFacts'
  <2>1. leg'[h].st = "calling"
    BY <1>3, <1>5
  <2> QED BY <1>0, <1>1, <1>2, <2>1 DEF ConsultFacts, GivenUpIsEnding, ConsultFlag
<1>7. CallEnding => CallEnding'
  BY <1>0, <1>2, <1>3, <1>4, <1>5 DEF CallEnding
<1> QED BY <1>0, <1>2, <1>6, <1>7, WhatIsTaken DEF ConsultStep

\* Every action of the user.
LEMMA UserConsult ==
    ASSUME CallInv, Orderly, ConsultFacts, out = <<>>, User, Intact' PROVE ConsultStep
<1>0. LegInv /\ leg \in Legs /\ (active => call_nh # NoHandle)
  BY QuietWindow DEF CallInv, ScreenInv, ScreenHasCall, LegInv, TypeOK, Legs
<1>1. CASE StartCall
  <2>1. call_nh = NoHandle /\ out' = <<>> /\ SofiaCall
    BY <1>1 DEF StartCall, Intact, SofiaCall
  <2>2. PICK h \in Free : leg' = [leg EXCEPT ![h] = CallingLeg(FALSE)]
    BY <2>1 DEF SofiaCall
  <2>3. h \in Handles /\ h # consult_nh
    BY FreeIsIdle
  <2>4. \A g \in Handles : leg'[g].st = IF g = h THEN "calling" ELSE leg[g].st
    BY <1>0, <2>2, <2>3, CallingEffects
  <2>5. ConsultFacts' /\ (Consulting => Consulting')
    BY <1>0, <2>1, <2>3, <2>4, ConsultAlone DEF SofiaCall, consultVars, LegInv, TypeOK, MaybeHandle
  <2> QED BY <2>1, <2>5, WhatIsTaken DEF ConsultStep, CallEnding
<1>2. CASE AnswerCall
  <2>1. Ringing /\ SofiaAnswer /\ call_nh \in Handles
    BY <1>0, <1>2, QuietWindow
       DEF AnswerCall, CallInv, WindowInv, AnswerIsWanted, Ringing, LegInv, TypeOK, MaybeHandle
  <2>2. \A g \in Handles : g # call_nh => leg'[g].st = leg[g].st
    BY <1>0, <2>1, NuaEffects DEF SofiaAnswer
  <2>3. ConsultFacts' /\ (Consulting => Consulting')
    BY <1>0, <2>1, <2>2, ConsultAlone
       DEF SofiaAnswer, consultVars, LegInv, LegFacts, TwoLegs, TypeOK, MaybeHandle
  <2>4. ~Taking("CONSULT_CONNECTED")'
    <3>1. Fire("CALL_CONNECTED", call_nh) \o <<>> = Fire("CALL_CONNECTED", call_nh)
      BY DEF Fire
    <3>2. out' = Fire("CALL_CONNECTED", call_nh)
          \/ out' = Fire("CALL_CONNECTED", call_nh) \o Fire("CALL_MEDIA", remote_rtp)
      BY <2>1, <3>1, PlainRtp DEF SofiaAnswer, FireMedia
    <3> QED BY <3>2, FireIsOne, PairIsTwo DEF Taking
  <2>5. ~CallEnding
    BY <2>1 DEF Ringing, CallEnding
  <2> QED BY <2>3, <2>4, <2>5 DEF ConsultStep
<1>3. CASE HangupCall
  BY <1>0, <1>3, HangupConsult DEF HangupCall, CallInv
<1>4. CASE BlindTransfer \/ CompleteTransfer \/ \E hold \in BOOLEAN : HoldToggled(hold)
  <2>1. /\ UNCHANGED <<call_nh, consult_nh, consult_established, consult_ended, consult_dialog>>
        /\ out' = <<>>
    BY <1>4 DEF BlindTransfer, CompleteTransfer, HoldToggled, SofiaBlindTransfer,
                SofiaCompleteTransfer, SofiaSetHold, vars, callVars, consultVars
  <2>2. \/ leg' = leg
        \/ /\ call_nh # NoHandle
           /\ leg' = NuaRefer(leg, call_nh) \/ \E hold \in BOOLEAN : leg' = HeldLegs(leg, hold)
    BY <1>4 DEF BlindTransfer, CompleteTransfer, HoldToggled, SofiaBlindTransfer,
                SofiaCompleteTransfer, SofiaSetHold, CanHold, vars
  <2>3. call_nh # NoHandle =>
           \A g \in Handles : /\ NuaRefer(leg, call_nh)[g].st = leg[g].st
                              /\ \A hold \in BOOLEAN : HeldLegs(leg, hold)[g].st = leg[g].st
    BY <1>0, NuaEffects, HeldEffects DEF LegInv, TypeOK, MaybeHandle
  <2> QED BY <1>0, <2>1, <2>2, <2>3, StillConsult, WhatIsTaken
<1>5. CASE StartConsultation
  BY <1>0, <1>5, StartConsult DEF StartConsultation, Intact
<1>6. CASE CancelConsultation
  BY <1>0, <1>6, CancelConsult DEF CancelConsultation
<1> QED BY <1>1, <1>2, <1>3, <1>4, <1>5, <1>6 DEF User

\* Taking an event changes nothing of the engine; what it does to the button fits.
LEMMA EventKeepsTransfer ==
    ASSUME CallInv, TransferInv, HandleSipEvent PROVE TransferInv'
<1>1. CASE OnTransferFailed /\ SofiaCancelConsultation
  <2>1. ConsultStep /\ ButtonGoes'
    BY <1>1, CancelConsult, WhatIsTaken DEF CallInv, TransferInv, SofiaCancelConsultation
  <2> QED BY <2>1 DEF ConsultStep, TransferInv, ButtonIsRight, OfferIsRight
<1>2. CASE Taken
  <2>1. /\ out # <<>> /\ out' = Tail(out)
        /\ UNCHANGED <<call_nh, consult_nh, consult_established, consult_ended, consult_dialog, leg>>
    BY <1>2 DEF Taken, callVars, consultVars, HandleSipEvent, OnIncomingCall, OnCallConnected,
                OnCallMedia, OnCallOver, OnTransferFailed, OnConsultConnected, OnConsultMedia,
                OnConsultEnded, Taking
  <2>2. ConsultFacts' /\ (Consulting' <=> Consulting) /\ (CallEnding' <=> CallEnding)
    BY <2>1 DEF TransferInv, ConsultFacts, GivenUpIsEnding, ConsultFlag, Consulting, CallEnding
  <2>3. ~Taking("CONSULT_CONNECTED")'
    BY <2>1, TailOfReports DEF CallInv, WindowInv
  <2>4. ButtonIsRight'
    <3>1. CASE OnCallOver \/ OnConsultEnded
      BY <3>1 DEF OnCallOver, OnConsultEnded, ButtonIsRight
    <3>2. CASE OnConsultConnected
      BY <2>2, <3>2 DEF OnConsultConnected, TransferInv, OfferIsRight, ButtonIsRight
    <3>3. CASE ~OnCallOver /\ ~OnConsultEnded /\ ~OnConsultConnected
      <4>1. UNCHANGED consult_mode /\ \A ev \in Closing \cup {"CONSULT_ENDED"} : ~Taking(ev)
        BY <3>3 DEF HandleSipEvent, OnIncomingCall, OnCallConnected, OnCallMedia,
                    OnTransferFailed, OnConsultMedia, uiVars, screenVars, Taking, Closing
      <4>2. ~ButtonGoes
        BY <4>1, FireIsOne DEF ButtonGoes, CloseComing, Taking
      <4> QED BY <2>2, <4>1, <4>2 DEF TransferInv, ButtonIsRight
    <3> QED BY <3>1, <3>2, <3>3
  <2> QED BY <2>2, <2>3, <2>4 DEF TransferInv, OfferIsRight
<1> QED BY <1>1, <1>2
        DEF HandleSipEvent, OnTransferFailed, OnIncomingCall, OnCallConnected, OnCallMedia,
            OnCallOver, OnConsultConnected, OnConsultMedia, OnConsultEnded

\* A step at rest that does not touch the button.
LEMMA StepKeepsTransfer ==
    ASSUME TransferInv, out = <<>>, ConsultStep, UNCHANGED consult_mode PROVE TransferInv'
<1>1. ~ButtonGoes
  BY QuietWindow DEF ButtonGoes
<1> QED BY <1>1 DEF ConsultStep, TransferInv, ButtonIsRight, OfferIsRight

\* The transfer invariant holds in every state.
LEMMA TransferInvariant ==
    ASSUME Orderly, NoRace PROVE PhoneSpec => [](Intact => CallInv /\ TransferInv)
<1>1. PhoneInit => TransferInv
  BY QuietWindow
     DEF PhoneInit, Init, TransferInv, ConsultFacts, GivenUpIsEnding, ConsultFlag, ButtonIsRight,
         OfferIsRight
<1>2. /\ (Intact => CallInv) /\ (Intact => TransferInv) /\ [PhoneNext]_phoneVars
      => (Intact' => TransferInv')
  <2> SUFFICES ASSUME CallInv, TransferInv, [PhoneNext]_phoneVars, Intact' PROVE TransferInv'
    BY IntactBefore
  <2>1. CASE UNCHANGED phoneVars
    <3>1. UNCHANGED <<leg, out, call_nh, consult_nh, consult_established, consult_ended,
                      consult_dialog, consult_mode>>
      BY <2>1 DEF phoneVars, vars, callVars, consultVars, uiVars, screenVars
    <3> QED BY <3>1 DEF TransferInv, ConsultFacts, GivenUpIsEnding, ConsultFlag, ButtonIsRight,
              OfferIsRight, Consulting, CallEnding, ButtonGoes, CloseComing, Taking
  <2>2. CASE HandleSipEvent
    BY <2>2, EventKeepsTransfer
  <2>3. CASE out = <<>> /\ User
    <3>1. UNCHANGED consult_mode
      BY <2>3 DEF User, StartCall, AnswerCall, HangupCall, HoldToggled, BlindTransfer,
                  StartConsultation, CompleteTransfer, CancelConsultation, uiVars, screenVars
    <3> QED BY <2>3, <3>1, UserConsult, StepKeepsTransfer DEF TransferInv
  <2>4. ASSUME out = <<>>, NEW nh \in Handles, Sofia(nh) PROVE TransferInv'
    <3>1. UNCHANGED consult_mode /\ ConsultStep
      BY <2>4, CallbackConsult DEF Sofia, uiVars, screenVars, CallInv, TransferInv
    <3> QED BY <2>4, <3>1, StepKeepsTransfer
  <2> QED BY <2>1, <2>2, <2>3, <2>4 DEF PhoneNext
<1> QED BY <1>1, <1>2, CallInvariant, PTL DEF PhoneSpec

\* Complete transfer, once offered, replaces the consultation that is up now: the dialog
\* identifiers stored for Replaces are not those of an earlier one.
THEOREM TransferReplacesIt ==
    ASSUME Orderly, NoRace PROVE PhoneSpec => []TransferReplacesConsultation
<1>1. (Intact => CallInv /\ TransferInv) => TransferReplacesConsultation
  BY QuietWindow
     DEF TransferInv, ButtonIsRight, ButtonGoes, CallEnding, Consulting,
         TransferReplacesConsultation, AtRest, CallInv, ScreenInv, ScreenHasCall
<1> QED BY <1>1, TransferInvariant, PTL
=============================================================================
