--------------------------- MODULE SipGlueProofs ---------------------------
(***************************************************************************)
(* What holds of glue.c whatever the window, the network and the peers do. *)
(***************************************************************************)
EXTENDS SipGlue, Naturals, TLAPS

Legs == [Handles -> Leg]

\* Each call into sofia-sip leaves every leg a leg.
LEMMA NuaLegs ==
    ASSUME NEW l \in Legs, NEW h \in Handles, NEW d \in {"none", "sendrecv", "sendonly"}
    PROVE  /\ NuaBye(l, h) \in Legs
           /\ NuaCancel(l, h) \in Legs
           /\ NuaReinvite(l, h, d) \in Legs
           /\ NuaRefer(l, h) \in Legs
           /\ NuaAccept(l, h) \in Legs
           /\ Over(l, h) \in Legs
<1>0. l[h] \in Leg
  BY DEF Legs
<1> DEFINE Put(r) == [l EXCEPT ![h] = r]
<1>1. ASSUME NEW r \in Leg PROVE Put(r) \in Legs
  BY DEF Legs
<1>2. NuaBye(l, h) \in Legs
  <2>1. [l[h] EXCEPT !.st = "closing"] \in Leg
    BY <1>0 DEF Leg, LegStates
  <2>2. [l EXCEPT ![h].st = "closing"] = Put([l[h] EXCEPT !.st = "closing"])
    BY DEF Legs
  <2> QED BY <1>1, <2>1, <2>2 DEF NuaBye
<1>3. NuaCancel(l, h) \in Legs
  <2>1. [l[h] EXCEPT !.st = "cancelled"] \in Leg
    BY <1>0 DEF Leg, LegStates
  <2>2. [l EXCEPT ![h].st = "cancelled"] = Put([l[h] EXCEPT !.st = "cancelled"])
    BY DEF Legs
  <2> QED BY <1>1, <2>1, <2>2 DEF NuaCancel
<1>4. NuaReinvite(l, h, d) \in Legs
  <2>1. [l[h] EXCEPT !.reinv = TRUE, !.dir = d] \in Leg
    BY <1>0 DEF Leg, LegStates
  <2>2. [l EXCEPT ![h].reinv = TRUE, ![h].dir = d] = Put([l[h] EXCEPT !.reinv = TRUE, !.dir = d])
    BY DEF Legs
  <2> QED BY <1>1, <2>1, <2>2 DEF NuaReinvite
<1>5. NuaRefer(l, h) \in Legs
  <2>1. [l[h] EXCEPT !.refer = "sent"] \in Leg
    BY <1>0 DEF Leg, LegStates
  <2>2. [l EXCEPT ![h].refer = "sent"] = Put([l[h] EXCEPT !.refer = "sent"])
    BY DEF Legs
  <2> QED BY <1>1, <2>1, <2>2 DEF NuaRefer
<1>6. NuaAccept(l, h) \in Legs
  <2> DEFINE r == [l[h] EXCEPT !.st = IF @ = "ringing" THEN "up" ELSE @,
                               !.owed = FALSE, !.dir = "sendrecv"]
  <2>1. r \in Leg
    BY <1>0 DEF Leg, LegStates
  <2>2. NuaAccept(l, h) = Put(r)
    BY DEF NuaAccept, Legs
  <2> QED BY <1>1, <2>1, <2>2
<1>7. Over(l, h) \in Legs
  BY <1>0, <1>1 DEF Over, IdleLeg, Leg, LegStates
<1> QED BY <1>2, <1>3, <1>4, <1>5, <1>6, <1>7

\* So does an update of a field by a value of its type.
LEMMA LegFields ==
    ASSUME NEW l \in Legs, NEW h \in Handles, NEW s \in LegStates, NEW b \in BOOLEAN,
           NEW r \in {"none", "sent", "accepted"}
    PROVE  /\ [l EXCEPT ![h].st = s] \in Legs
           /\ [l EXCEPT ![h].reinv = b] \in Legs
           /\ [l EXCEPT ![h].owed = b] \in Legs
           /\ [l EXCEPT ![h].refer = r] \in Legs
           /\ [l EXCEPT ![h].st = s, ![h].reinv = b] \in Legs
           /\ [l EXCEPT ![h] = CallingLeg(b)] \in Legs
<1>0. l[h] \in Leg
  BY DEF Legs
<1>1. ASSUME NEW x \in Leg PROVE [l EXCEPT ![h] = x] \in Legs
  BY <1>1 DEF Legs
<1>2. [l[h] EXCEPT !.st = s] \in Leg
  BY <1>0 DEF Leg
<1>3. [l[h] EXCEPT !.reinv = b] \in Leg
  BY <1>0 DEF Leg
<1>4. [l[h] EXCEPT !.owed = b] \in Leg
  BY <1>0 DEF Leg
<1>5. [l[h] EXCEPT !.refer = r] \in Leg
  BY <1>0 DEF Leg
<1>6. [l[h] EXCEPT !.st = s, !.reinv = b] \in Leg
  BY <1>0 DEF Leg
<1>7. CallingLeg(b) \in Leg
  BY DEF Leg, CallingLeg, IdleLeg, LegStates
<1>8. /\ [l EXCEPT ![h].st = s] = [l EXCEPT ![h] = [l[h] EXCEPT !.st = s]]
      /\ [l EXCEPT ![h].reinv = b] = [l EXCEPT ![h] = [l[h] EXCEPT !.reinv = b]]
      /\ [l EXCEPT ![h].owed = b] = [l EXCEPT ![h] = [l[h] EXCEPT !.owed = b]]
      /\ [l EXCEPT ![h].refer = r] = [l EXCEPT ![h] = [l[h] EXCEPT !.refer = r]]
      /\ [l EXCEPT ![h].st = s, ![h].reinv = b]
            = [l EXCEPT ![h] = [l[h] EXCEPT !.st = s, !.reinv = b]]
  BY DEF Legs
<1> QED BY <1>1, <1>2, <1>3, <1>4, <1>5, <1>6, <1>7, <1>8

\* The three ways to report an event give a sequence of events.
LEMMA FireType ==
    ASSUME NEW ev \in Events, NEW h \in MaybeHandle, NEW b
    PROVE  /\ Fire(ev, h) \in Seq(Event)
           /\ FireSdp(ev, h, b) \in Seq(Event)
           /\ FireMedia(ev, h) \in Seq(Event)
<1>1. [ev |-> ev, leg |-> h] \in Event
  BY DEF Event
<1>2. /\ \A e \in Event : <<e>> \in Seq(Event)
      /\ <<>> \in Seq(Event)
  OBVIOUS
<1> QED BY <1>1, <1>2 DEF Fire, FireSdp, FireMedia

\* A handler that reports nothing leaves a sequence of events, too.
LEMMA NoEvents == <<>> \in Seq(Event)
OBVIOUS

\* Two reports in a row make one.
LEMMA EventsJoin ==
    ASSUME NEW s \in Seq(Event), NEW t \in Seq(Event) PROVE s \o t \in Seq(Event)
OBVIOUS

\* The types of the leg a handler runs for.
LEMMA FieldTypes ==
    ASSUME TypeOK, NEW h \in Handles
    PROVE  /\ leg \in Legs /\ leg[h] \in Leg
           /\ leg[h].st \in LegStates /\ leg[h].reinv \in BOOLEAN
BY DEF TypeOK, Legs, Leg

\* drop_consult_leg leaves every leg a leg.
LEMMA DroppedLegsType ==
    ASSUME TypeOK, NEW l \in Legs PROVE DroppedLegs(l) \in Legs
BY NuaLegs DEF TypeOK, DroppedLegs, MaybeHandle

\* extract_rtp_into stores the leg it read the SDP of, or nothing.
LEMMA ExtractType ==
    ASSUME NEW sdp \in BOOLEAN, NEW h \in Handles, NEW old \in MaybeHandle
    PROVE  Extract(sdp, h, old) \in MaybeHandle
BY DEF Extract, MaybeHandle

\* nua_r_invite, 2xx, on the consultation (glue.c 942-973) keeps the types.
LEMMA ConsultAnsweredType ==
    ASSUME TypeOK, NEW nh \in Handles, NEW sdp \in BOOLEAN,
           ConsultAnswered(nh, sdp), leg' \in Legs
    PROVE  TypeOK'
<1>1. consult_rtp' \in MaybeHandle
  BY ExtractType DEF ConsultAnswered, TypeOK
<1>2. out' \in Seq(Event)
  <2>1. /\ Fire("CONSULT_CONNECTED", nh) \in Seq(Event)
        /\ FireSdp("CONSULT_REMOTE_SDP", nh, sdp) \in Seq(Event)
        /\ FireMedia("CONSULT_MEDIA", consult_rtp') \in Seq(Event)
    BY <1>1, FireType DEF Events, MaybeHandle
  <2>2. CASE consult_established
    BY <2>2 DEF ConsultAnswered
  <2>3. CASE ~consult_established
    BY <2>1, <2>3, EventsJoin DEF ConsultAnswered
  <2> QED BY <2>2, <2>3
<1> QED BY <1>1, <1>2 DEF ConsultAnswered, TypeOK, Legs, MaybeHandle, callVars, rtpVars

\* nua_r_invite, 2xx, on any other handle (glue.c 986-1007) keeps the types.
LEMMA CallAnsweredType ==
    ASSUME TypeOK, NEW nh \in Handles, NEW sdp \in BOOLEAN,
           CallAnswered(nh, sdp), leg' \in Legs
    PROVE  TypeOK'
<1>1. remote_rtp' \in MaybeHandle
  BY ExtractType DEF CallAnswered, TypeOK
<1>2. out' \in Seq(Event)
  <2>1. /\ Fire("CALL_CONNECTED", nh) \in Seq(Event)
        /\ FireSdp("REMOTE_SDP", nh, sdp) \in Seq(Event)
        /\ FireMedia("CALL_MEDIA", remote_rtp') \in Seq(Event)
    BY <1>1, FireType DEF Events, MaybeHandle
  <2>2. CASE call_established
    BY <2>2 DEF CallAnswered
  <2>3. CASE ~call_established
    BY <2>1, <2>3, EventsJoin, NoEvents DEF CallAnswered
  <2> QED BY <2>2, <2>3
<1> QED BY <1>1, <1>2 DEF CallAnswered, TypeOK, Legs, MaybeHandle, consultVars

\* A refused INVITE leaves every leg a leg.
LEMMA RefusedType ==
    ASSUME TypeOK, NEW h \in Handles PROVE Refused(h) \in Legs
BY FieldTypes, NuaLegs, LegFields DEF Refused

\* invite_with_digest, retrying or giving up, keeps the types.
LEMMA InviteWithDigestType ==
    ASSUME TypeOK, NEW nh \in Handles, NEW challenge \in BOOLEAN,
           InviteWithDigest(nh, challenge)
    PROVE  TypeOK'
<1>1. CASE GiveUp(call_auth_tried, challenge)
  <2>1. leg' \in Legs
    BY <1>1, RefusedType DEF InviteWithDigest
  <2>2. out' \in Seq(Event)
    BY <1>1, FireType DEF InviteWithDigest, Events, MaybeHandle
  <2> QED BY <1>1, <2>1, <2>2 DEF InviteWithDigest, TypeOK, Legs, MaybeHandle, consultVars
<1>2. CASE ~GiveUp(call_auth_tried, challenge)
  <2>1. PICK h \in Free :
            /\ call_nh' = h
            /\ leg' = [Refused(nh) EXCEPT ![h] = CallingLeg(TRUE)]
            /\ local_rtp' = (local_rtp \/ ~WebRtc)
            /\ out' = <<>>
    BY <1>2 DEF InviteWithDigest
  <2>2. h \in Handles
    BY DEF Free
  <2>3. leg' \in Legs
    BY <2>1, <2>2, RefusedType, LegFields DEF LegStates
  <2> QED BY <2>1, <2>2, <2>3, NoEvents DEF InviteWithDigest, TypeOK, Legs, MaybeHandle, consultVars
<1> QED BY <1>1, <1>2

\* consult_with_digest, retrying or giving up, keeps the types.
LEMMA ConsultWithDigestType ==
    ASSUME TypeOK, NEW nh \in Handles, NEW challenge \in BOOLEAN,
           ConsultWithDigest(nh, challenge)
    PROVE  TypeOK'
<1>1. CASE GiveUp(consult_auth_tried, challenge)
  <2>1. leg' \in Legs
    BY <1>1, RefusedType DEF ConsultWithDigest
  <2>2. out' \in Seq(Event)
    BY <1>1, FireType DEF ConsultWithDigest, Events, MaybeHandle
  <2> QED BY <1>1, <2>1, <2>2 DEF ConsultWithDigest, TypeOK, Legs, MaybeHandle, callVars, rtpVars
<1>2. CASE ~GiveUp(consult_auth_tried, challenge)
  <2>1. PICK h \in Free :
            /\ consult_nh' = h
            /\ leg' = [Refused(nh) EXCEPT ![h] = CallingLeg(TRUE)]
            /\ out' = <<>>
    BY <1>2 DEF ConsultWithDigest
  <2>2. h \in Handles
    BY DEF Free
  <2>3. leg' \in Legs
    BY <2>1, <2>2, RefusedType, LegFields DEF LegStates
  <2> QED BY <2>1, <2>2, <2>3, NoEvents DEF ConsultWithDigest, TypeOK, Legs, MaybeHandle,
                                            callVars, rtpVars
<1> QED BY <1>1, <1>2

\* nua_r_invite, 300 and more, keeps the types.
LEMMA RefusedAnswerType ==
    ASSUME TypeOK, NEW nh \in Handles, RInviteRefused(nh) PROVE TypeOK'
<1>1. leg' \in Legs
  BY RefusedType DEF RInviteRefused
<1>2. /\ Fire("CONSULT_ENDED", nh) \in Seq(Event)
      /\ Fire("CALL_FAILED", nh) \in Seq(Event)
  BY FireType DEF Events, MaybeHandle
<1>3. CASE nh = consult_nh
  <2>1. ConsultRefused(nh) /\ UNCHANGED <<rtpVars, transfer_in_progress>>
    BY <1>3 DEF RInviteRefused
  <2> QED BY <1>1, <1>2, <2>1, NoEvents DEF ConsultRefused, ConsultGone, TypeOK, Legs,
                                        MaybeHandle, callVars, rtpVars
<1>4. CASE nh # consult_nh
  <2>1. CallRefused(nh) /\ UNCHANGED <<rtpVars, transfer_in_progress>>
    BY <1>4 DEF RInviteRefused
  <2> QED BY <1>1, <1>2, <2>1 DEF CallRefused, Release, TypeOK, Legs, MaybeHandle,
                                  consultVars, rtpVars
<1> QED BY <1>3, <1>4

\* The 486 to a second call keeps the types.
LEMMA BusyType ==
    ASSUME TypeOK, NEW l \in Legs, Busy(l) PROVE TypeOK'
BY NoEvents DEF Busy, TypeOK, Legs, MaybeHandle, callVars, rtpVars, consultVars

\* A new incoming call keeps the types.
LEMMA RingInType ==
    ASSUME TypeOK, NEW nh \in Handles, NEW sdp \in BOOLEAN, RingIn(nh, sdp), leg' \in Legs
    PROVE  TypeOK'
<1>1. remote_rtp' \in MaybeHandle
  BY ExtractType DEF RingIn, TypeOK
<1>2. out' \in Seq(Event)
  <2>1. /\ Fire("INCOMING_CALL", nh) \in Seq(Event)
        /\ FireSdp("REMOTE_SDP", nh, sdp) \in Seq(Event)
    BY FireType DEF Events, MaybeHandle
  <2> QED BY <2>1, EventsJoin DEF RingIn
<1> QED BY <1>1, <1>2 DEF RingIn, FreshCall, TypeOK, Legs, MaybeHandle, consultVars

\* The answer to the peer's re-INVITE keeps the types.
LEMMA AnswerReinviteType ==
    ASSUME TypeOK, NEW nh \in Handles, NEW sdp \in BOOLEAN, AnswerReinvite(nh, sdp)
    PROVE  TypeOK'
<1>1. leg' \in Legs
  <2>1. [leg EXCEPT ![nh].owed = TRUE] \in Legs
    BY FieldTypes, LegFields DEF LegStates
  <2>2. NuaAccept(leg, nh) \in Legs
    BY FieldTypes, NuaLegs
  <2> QED BY <2>1, <2>2 DEF AnswerReinvite
<1>2. remote_rtp' \in MaybeHandle
  BY ExtractType DEF AnswerReinvite, TypeOK
<1>3. out' \in Seq(Event)
  <2>1. FireSdp("REINVITE_SDP", nh, sdp) \in Seq(Event)
    BY FireType DEF Events, MaybeHandle
  <2> QED BY <2>1, NoEvents DEF AnswerReinvite
<1> QED BY <1>1, <1>2, <1>3 DEF AnswerReinvite, TypeOK, Legs, MaybeHandle, callVars, consultVars

\* nua_i_invite, all of it, keeps the types.
LEMMA IncomingType ==
    ASSUME TypeOK, NEW nh \in Handles, NEW sdp \in BOOLEAN,
           IInvite(nh, sdp) \/ IReinvite(nh, sdp)
    PROVE  TypeOK'
<1>1. /\ leg \in Legs
      /\ [leg EXCEPT ![nh].st = "ringing"] \in Legs
      /\ [leg EXCEPT ![nh].owed = TRUE] \in Legs
  BY FieldTypes, LegFields DEF LegStates
<1>2. CASE Busy(leg)
  BY <1>1, <1>2, BusyType
<1>3. CASE RingIn(nh, sdp) /\ leg' = [leg EXCEPT ![nh].st = "ringing"]
  BY <1>1, <1>3, RingInType
<1>4. CASE RingIn(nh, sdp) /\ leg' = [leg EXCEPT ![nh].owed = TRUE]
  BY <1>1, <1>4, RingInType
<1>5. CASE AnswerReinvite(nh, sdp)
  BY <1>5, AnswerReinviteType
<1> QED BY <1>2, <1>3, <1>4, <1>5 DEF IInvite, IReinvite

\* What drop_consult_leg assigns has its type.
LEMMA DropConsultType ==
    ASSUME TypeOK, NEW l \in Legs, DropConsultLeg(l)
    PROVE  leg' \in Legs /\ {consult_ended', consult_established'} \subseteq BOOLEAN
BY DroppedLegsType DEF DropConsultLeg, TypeOK

\* The end of the consultation or of the primary call keeps the types.
LEMMA ByeType ==
    ASSUME TypeOK, NEW nh \in Handles, NEW l \in Legs, Bye(nh, l) PROVE TypeOK'
<1>1. /\ Fire("CONSULT_ENDED", nh) \in Seq(Event)
      /\ Fire("CALL_ENDED", nh) \in Seq(Event)
  BY FireType DEF Events, MaybeHandle
<1>2. CASE ConsultOver(nh, l) /\ consult_rtp' = NoHandle
  BY <1>1, <1>2, NoEvents DEF ConsultOver, ConsultGone, TypeOK, Legs, MaybeHandle,
                              callVars, rtpVars
<1>3. CASE CallOver(nh, l)
  <2>1. leg' \in Legs /\ {consult_ended', consult_established'} \subseteq BOOLEAN
    BY <1>3, DropConsultType DEF CallOver, TypeOK
  <2> QED BY <1>1, <1>3, <2>1 DEF CallOver, ClearCall, Release, TypeOK, Legs, MaybeHandle
<1> QED BY <1>2, <1>3 DEF Bye

\* nua_i_bye, nua_r_bye, nua_i_cancel and nua_i_error keep the types.
LEMMA OverType ==
    ASSUME TypeOK, NEW nh \in Handles,
           IBye(nh) \/ RBye(nh) \/ ICancel(nh) \/ IError(nh)
    PROVE  TypeOK'
<1>1. leg \in Legs /\ Over(leg, nh) \in Legs
  BY FieldTypes, NuaLegs
<1>2. /\ Fire("CONSULT_ENDED", nh) \in Seq(Event)
      /\ Fire("CALL_ENDED", nh) \in Seq(Event)
      /\ Fire("CALL_FAILED", nh) \in Seq(Event)
  BY FireType DEF Events, MaybeHandle
<1>3. CASE Bye(nh, leg) \/ Bye(nh, Over(leg, nh))
  BY <1>1, <1>3, ByeType
<1>4. CASE ICancel(nh)
  BY <1>1, <1>2, <1>4 DEF ICancel, ClearCall, Release, TypeOK, Legs, MaybeHandle, consultVars
<1>5. CASE ConsultOver(nh, Over(leg, nh)) /\ UNCHANGED consult_rtp
  BY <1>1, <1>2, <1>5, NoEvents DEF ConsultOver, ConsultGone, TypeOK, Legs, MaybeHandle,
                                    callVars, rtpVars
<1>6. CASE CallError(nh)
  <2>1. leg' \in Legs /\ {consult_ended', consult_established'} \subseteq BOOLEAN
    BY <1>1, <1>6, DropConsultType DEF CallError, TypeOK
  <2> QED BY <1>2, <1>6, <2>1 DEF CallError, TypeOK, Legs, MaybeHandle, rtpVars
<1>7. CASE Busy(Over(leg, nh))
  BY <1>1, <1>7, BusyType
<1> QED BY <1>3, <1>4, <1>5, <1>6, <1>7 DEF IBye, RBye, IError

\* nua_r_refer and nua_i_notify keep the types.
LEMMA TransferType ==
    ASSUME TypeOK, NEW nh \in Handles, NEW accepted \in BOOLEAN, NEW result,
           RRefer(nh, accepted) \/ INotify(nh, result)
    PROVE  TypeOK'
<1>1. /\ [leg EXCEPT ![nh].refer = "accepted"] \in Legs
      /\ [leg EXCEPT ![nh].refer = "none"] \in Legs
  BY FieldTypes, LegFields DEF LegStates
<1>2. /\ Fire("TRANSFER_OK", nh) \in Seq(Event)
      /\ Fire("TRANSFER_FAILED", nh) \in Seq(Event)
  BY FireType DEF Events, MaybeHandle
<1>3. ASSUME NEW s \in Seq(Event), TransferOver(nh, s) PROVE TypeOK'
  BY <1>1, <1>3 DEF TransferOver, TypeOK, Legs, MaybeHandle, callVars, rtpVars, consultVars
<1>4. CASE TransferOver(nh, Fire("TRANSFER_OK", nh))
           \/ TransferOver(nh, Fire("TRANSFER_FAILED", nh))
  BY <1>2, <1>3, <1>4
<1>5. CASE /\ leg' \in {[leg EXCEPT ![nh].refer = "accepted"], [leg EXCEPT ![nh].refer = "none"]}
           /\ out' = <<>>
           /\ UNCHANGED <<callVars, rtpVars, consultVars, transfer_in_progress>>
  BY <1>1, <1>5, NoEvents DEF TypeOK, Legs, MaybeHandle, callVars, rtpVars, consultVars
<1> QED BY <1>4, <1>5 DEF RRefer, INotify

\* The re-INVITE of sofia_set_hold leaves every leg a leg.
LEMMA HeldLegsType ==
    ASSUME TypeOK, NEW l \in Legs, NEW hold \in BOOLEAN, call_nh # NoHandle
    PROVE  HeldLegs(l, hold) \in Legs
<1>1. call_nh \in Handles
  BY DEF TypeOK, MaybeHandle
<1>2. NuaReinvite(l, call_nh, IF hold THEN "sendonly" ELSE "sendrecv") \in Legs
  BY <1>1, NuaLegs
<1> QED BY <1>2 DEF HeldLegs

\* sofia_call and sofia_start_consultation, which take a free handle, keep the types.
LEMMA DialType ==
    ASSUME TypeOK, SofiaCall \/ SofiaStartConsultation PROVE TypeOK'
<1>1. CASE SofiaCall
  <2>1. PICK h \in Free :
            /\ call_nh' = h
            /\ leg' = [leg EXCEPT ![h] = CallingLeg(FALSE)]
            /\ FreshCall(FALSE)
            /\ transfer_in_progress' = FALSE
            /\ local_rtp' = TRUE
            /\ out' = <<>>
            /\ UNCHANGED <<remote_rtp, consultVars>>
    BY <1>1 DEF SofiaCall
  <2>2. h \in Handles
    BY DEF Free
  <2>3. leg' \in Legs
    BY <2>1, <2>2, FieldTypes, LegFields DEF LegStates
  <2> QED BY <2>1, <2>2, <2>3, NoEvents DEF FreshCall, TypeOK, Legs, MaybeHandle, consultVars
<1>2. CASE SofiaStartConsultation
  <2> DEFINE held == IF call_nh = NoHandle THEN leg ELSE HeldLegs(leg, TRUE)
  <2>1. PICK h \in Free : consult_nh' = h /\ leg' = [held EXCEPT ![h] = CallingLeg(FALSE)]
    BY <1>2 DEF SofiaStartConsultation
  <2>2. h \in Handles /\ held \in Legs
    BY HeldLegsType DEF Free, TypeOK, Legs
  <2>3. leg' \in Legs
    BY <2>1, <2>2, LegFields DEF LegStates
  <2> QED BY <1>2, <2>1, <2>2, <2>3, NoEvents DEF SofiaStartConsultation, TypeOK, Legs,
                                                  MaybeHandle, rtpVars
<1> QED BY <1>1, <1>2

\* sofia_answer keeps the types.
LEMMA AnswerType ==
    ASSUME TypeOK, SofiaAnswer PROVE TypeOK'
<1>1. call_nh \in Handles
  BY DEF SofiaAnswer, TypeOK, MaybeHandle
<1>2. leg' \in Legs
  BY <1>1, FieldTypes, NuaLegs DEF SofiaAnswer
<1>3. out' \in Seq(Event)
  <2>1. /\ Fire("CALL_CONNECTED", call_nh) \in Seq(Event)
        /\ FireMedia("CALL_MEDIA", remote_rtp) \in Seq(Event)
    BY <1>1, FireType DEF Events, MaybeHandle, TypeOK
  <2> QED BY <2>1, NoEvents, EventsJoin DEF SofiaAnswer
<1> QED BY <1>1, <1>2, <1>3 DEF SofiaAnswer, TypeOK, Legs, MaybeHandle, consultVars

\* sofia_hangup keeps the types, whichever of BYE, CANCEL and 603 it sends.
LEMMA HangupType ==
    ASSUME TypeOK, SofiaHangup PROVE TypeOK'
<1> DEFINE l == DroppedLegs(leg)
<1>1. l \in Legs
  BY FieldTypes, DroppedLegsType DEF TypeOK, Legs
<1> HIDE DEF l
<1>2. Declined \in Seq(Event) /\ <<>> \in Seq(Event)
  BY FireType, NoEvents DEF Declined, Events, TypeOK
<1>3. CASE call_nh # NoHandle /\ ~call_established /\ call_is_incoming
  <2>1. call_nh \in Handles
    BY <1>3 DEF TypeOK, MaybeHandle
  <2>2. Over(l, call_nh) \in Legs /\ [l EXCEPT ![call_nh].owed = FALSE] \in Legs
    BY <1>1, <2>1, NuaLegs, LegFields DEF LegStates
  <2>3. leg' \in Legs
    BY <1>3, <2>2 DEF SofiaHangup, l
  <2> QED BY <1>2, <1>3, <2>3 DEF SofiaHangup, ClearCall, TypeOK, Legs, MaybeHandle
<1>4. CASE ~(call_nh # NoHandle /\ ~call_established /\ call_is_incoming)
  <2>1. leg' \in Legs
    <3>1. CASE call_nh = NoHandle
      BY <1>1, <1>4, <3>1 DEF SofiaHangup, l
    <3>2. CASE call_nh # NoHandle
      <4>1. NuaBye(l, call_nh) \in Legs /\ NuaCancel(l, call_nh) \in Legs
        BY <1>1, <3>2, NuaLegs DEF TypeOK, MaybeHandle
      <4> QED BY <1>4, <3>2, <4>1 DEF SofiaHangup, l
    <3> QED BY <3>1, <3>2
  <2> QED BY <1>2, <1>4, <2>1 DEF SofiaHangup, TypeOK, Legs, MaybeHandle, rtpVars
<1> QED BY <1>3, <1>4

\* sofia_cancel_consultation keeps the types.
LEMMA CancelConsultationType ==
    ASSUME TypeOK, SofiaCancelConsultation PROVE TypeOK'
<1>1. DroppedLegs(leg) \in Legs
  BY DroppedLegsType DEF TypeOK, Legs
<1>2. leg' \in Legs
  BY <1>1, HeldLegsType DEF SofiaCancelConsultation, CanHold
<1>3. out' \in Seq(Event)
  BY FireType DEF SofiaCancelConsultation, Events, TypeOK
<1> QED BY <1>2, <1>3 DEF SofiaCancelConsultation, TypeOK, Legs, MaybeHandle, rtpVars

\* The API's functions on a call that is up keep the types.
LEMMA InCallType ==
    ASSUME TypeOK,
           \/ \E hold \in BOOLEAN : SofiaSetHold(hold)
           \/ SofiaBlindTransfer \/ SofiaCompleteTransfer
           \/ SofiaReinviteSdp \/ SofiaRespondSdp
    PROVE  TypeOK'
<1>1. call_nh # NoHandle /\ call_nh \in Handles
  BY DEF SofiaSetHold, SofiaBlindTransfer, SofiaCompleteTransfer, SofiaReinviteSdp,
         SofiaRespondSdp, CanHold, TypeOK, MaybeHandle
<1>2. leg \in Legs
  BY DEF TypeOK, Legs
<1>3. ASSUME NEW hold \in BOOLEAN, SofiaSetHold(hold) PROVE TypeOK'
  <2>1. leg' \in Legs
    BY <1>1, <1>2, <1>3, HeldLegsType DEF SofiaSetHold
  <2> QED BY <1>3, <2>1, NoEvents DEF SofiaSetHold, TypeOK, Legs, MaybeHandle, rtpVars, consultVars
<1>4. CASE SofiaBlindTransfer \/ SofiaCompleteTransfer
  <2>1. NuaRefer(leg, call_nh) \in Legs
    BY <1>1, <1>2, NuaLegs
  <2> QED BY <1>4, <2>1, NoEvents DEF SofiaBlindTransfer, SofiaCompleteTransfer, TypeOK, Legs,
                                      MaybeHandle, callVars, rtpVars, consultVars
<1>5. CASE SofiaReinviteSdp \/ SofiaRespondSdp
  <2>1. /\ NuaReinvite(leg, call_nh, IF call_on_hold THEN "sendonly" ELSE "sendrecv") \in Legs
        /\ NuaAccept(leg, call_nh) \in Legs
    BY <1>1, <1>2, NuaLegs
  <2> QED BY <1>5, <2>1, NoEvents DEF SofiaReinviteSdp, SofiaRespondSdp, TypeOK, Legs,
                                      MaybeHandle, callVars, rtpVars, consultVars
<1> QED BY <1>3, <1>4, <1>5

\* Every handler and every function of the API keeps the types.
LEMMA TypeStep ==
    ASSUME TypeOK, Next PROVE TypeOK'
<1>1. ASSUME NEW nh \in Handles, NEW sdp \in HasSdp,
             RInviteOk(nh, sdp) \/ IInvite(nh, sdp) \/ IReinvite(nh, sdp)
      PROVE  TypeOK'
  <2>1. sdp \in BOOLEAN
    BY DEF HasSdp
  <2>2. ASSUME RInviteOk(nh, sdp) PROVE leg' \in Legs
    <3>1. (IF leg[nh].reinv THEN leg[nh].st ELSE "up") \in LegStates
      BY FieldTypes DEF LegStates
    <3> QED BY <2>2, <3>1, LegFields, FieldTypes DEF RInviteOk
  <2> QED BY <1>1, <2>1, <2>2, ConsultAnsweredType, CallAnsweredType, IncomingType DEF RInviteOk
<1>2. ASSUME NEW nh \in Handles, NEW challenge \in BOOLEAN, RInviteChallenged(nh, challenge)
      PROVE  TypeOK'
  BY <1>2, InviteWithDigestType, ConsultWithDigestType DEF RInviteChallenged
<1>3. ASSUME NEW nh \in Handles,
             RInviteRefused(nh) \/ IBye(nh) \/ RBye(nh) \/ ICancel(nh) \/ IError(nh)
      PROVE  TypeOK'
  BY <1>3, RefusedAnswerType, OverType
<1>4. ASSUME NEW nh \in Handles, NEW accepted \in BOOLEAN, NEW result,
             RRefer(nh, accepted) \/ INotify(nh, result)
      PROVE  TypeOK'
  BY <1>4, TransferType
<1>5. ASSUME Api PROVE TypeOK'
  BY <1>5, DialType, AnswerType, HangupType, CancelConsultationType, InCallType DEF Api
<1>6. ASSUME NEW nh \in Handles, NuaCb(nh) PROVE TypeOK'
  BY <1>1, <1>2, <1>3, <1>4, <1>6 DEF NuaCb
<1> QED BY <1>5, <1>6 DEF Next

\* sofia_ctx_create leaves a state of the right type.
LEMMA InitTypeOK == ASSUME Init PROVE TypeOK
<1>1. IdleLeg \in Leg
  BY DEF IdleLeg, Leg, LegStates
<1>2. leg \in [Handles -> Leg]
  BY <1>1 DEF Init
<1> QED BY <1>2, NoEvents DEF Init, TypeOK, MaybeHandle

\* Type correctness of glue.c's call state, whoever calls it.
THEOREM TypeCorrect == Spec => []TypeOK
<1>1. Init => TypeOK
  BY InitTypeOK
<1>2. TypeOK /\ [Next]_vars => TypeOK'
  <2>1. ASSUME TypeOK, UNCHANGED vars PROVE TypeOK'
    BY <2>1 DEF TypeOK, MaybeHandle, vars, callVars, rtpVars, consultVars
  <2> QED BY <2>1, TypeStep
<1> QED BY <1>1, <1>2, PTL DEF Spec

\* No handler and no function of the API puts a call on hold that is not answered.
LEMMA HoldStep ==
    ASSUME HoldNeedsAnswer, [Next]_vars PROVE HoldNeedsAnswer'
<1> USE DEF HoldNeedsAnswer
<1>1. ASSUME NEW nh \in Handles, NuaCb(nh) PROVE HoldNeedsAnswer'
  <2>1. ASSUME NEW sdp, RInviteOk(nh, sdp) PROVE HoldNeedsAnswer'
    BY <2>1 DEF RInviteOk, ConsultAnswered, CallAnswered, callVars
  <2>2. ASSUME NEW sdp, IInvite(nh, sdp) \/ IReinvite(nh, sdp) PROVE HoldNeedsAnswer'
    BY <2>2 DEF IInvite, IReinvite, AnswerReinvite, RingIn, FreshCall, Busy, callVars
  <2>3. ASSUME NEW challenge, RInviteChallenged(nh, challenge) PROVE HoldNeedsAnswer'
    BY <2>3 DEF RInviteChallenged, InviteWithDigest, ConsultWithDigest, callVars
  <2>4. ASSUME RInviteRefused(nh) PROVE HoldNeedsAnswer'
    BY <2>4 DEF RInviteRefused, ConsultRefused, CallRefused, callVars
  <2>5. ASSUME IBye(nh) \/ RBye(nh) PROVE HoldNeedsAnswer'
    BY <2>5 DEF IBye, RBye, Bye, ConsultOver, CallOver, ClearCall, callVars
  <2>6. ASSUME ICancel(nh) \/ IError(nh) PROVE HoldNeedsAnswer'
    BY <2>6 DEF ICancel, IError, ConsultOver, CallError, ClearCall, Busy, callVars
  <2>7. ASSUME NEW accepted, NEW result, RRefer(nh, accepted) \/ INotify(nh, result)
        PROVE  HoldNeedsAnswer'
    BY <2>7 DEF RRefer, INotify, TransferOver, callVars
  <2> QED BY <1>1, <2>1, <2>2, <2>3, <2>4, <2>5, <2>6, <2>7 DEF NuaCb
<1>2. ASSUME Api PROVE HoldNeedsAnswer'
  <2>1. CASE SofiaCall \/ SofiaAnswer \/ SofiaStartConsultation
    BY <2>1 DEF SofiaCall, SofiaAnswer, SofiaStartConsultation, FreshCall
  <2>2. CASE SofiaHangup
    BY <2>2 DEF SofiaHangup, ClearCall
  <2>3. CASE \/ \E hold \in BOOLEAN : SofiaSetHold(hold)
             \/ SofiaCancelConsultation
    BY <2>3 DEF SofiaSetHold, SofiaCancelConsultation, CanHold
  <2>4. CASE \/ SofiaBlindTransfer \/ SofiaCompleteTransfer
             \/ SofiaReinviteSdp \/ SofiaRespondSdp
    BY <2>4 DEF SofiaBlindTransfer, SofiaCompleteTransfer, SofiaReinviteSdp,
                SofiaRespondSdp, callVars
  <2> QED BY <1>2, <2>1, <2>2, <2>3, <2>4 DEF Api
<1>3. CASE UNCHANGED vars
  BY <1>3 DEF vars, callVars
<1> QED BY <1>1, <1>2, <1>3 DEF Next

\* Only an answered call is on hold.
THEOREM HoldOnlyAnswered == Spec => []HoldNeedsAnswer
<1>1. Init => HoldNeedsAnswer
  BY DEF Init, HoldNeedsAnswer
<1>2. HoldNeedsAnswer /\ [Next]_vars => HoldNeedsAnswer'
  BY HoldStep
<1> QED BY <1>1, <1>2, PTL DEF Spec

-----------------------------------------------------------------------------
(***************************************************************************)
(* Calls end and begin in the open: what every window relies on.           *)
(***************************************************************************)
Closing == {"CALL_ENDED", "CALL_FAILED", "TRANSFER_OK"}

\* The window is about to be told that the call is over, and nothing else.
CloseComing == \E ev \in Closing, h \in MaybeHandle : out = Fire(ev, h)

\* No event of s announces an incoming call.
NoRing(s) == \A i \in 1 .. Len(s) : s[i].ev # "INCOMING_CALL"

RingHasCall == NoRing(out) \/ call_nh # NoHandle

-----------------------------------------------------------------------------
\* A report is one event; only INCOMING_CALL rings.
LEMMA FireIsOne ==
    ASSUME NEW ev, NEW h
    PROVE  /\ Fire(ev, h) # <<>>
           /\ Head(Fire(ev, h)).ev = ev
           /\ Tail(Fire(ev, h)) = <<>>
           /\ NoRing(Fire(ev, h)) <=> ev # "INCOMING_CALL"
BY DEF Fire, NoRing

\* The reports of the other events do not ring.
LEMMA NoRingFire ==
    ASSUME NEW ev, NEW h, NEW b, ev # "INCOMING_CALL"
    PROVE  NoRing(Fire(ev, h)) /\ NoRing(FireSdp(ev, h, b)) /\ NoRing(FireMedia(ev, h))
BY DEF Fire, FireSdp, FireMedia, NoRing

\* Taking an event adds no INCOMING_CALL.
LEMMA NoRingTail ==
    ASSUME NEW s \in Seq(Event), s # <<>>, NoRing(s) PROVE NoRing(Tail(s))
BY DEF NoRing

\* Two reports that do not ring do not ring together.
LEMMA NoRingJoin ==
    ASSUME NEW s \in Seq(Event), NEW t \in Seq(Event), NoRing(s), NoRing(t)
    PROVE  NoRing(s \o t)
BY DEF NoRing

-----------------------------------------------------------------------------
\* A handler or an API call that gives the call up says so at once, and one that
\* announces a call has it.
KeepsCall == call_nh # NoHandle => call_nh' # NoHandle \/ CloseComing'

\* A 2xx to an INVITE ends no call and announces none.
LEMMA AnswerKeepsCall ==
    ASSUME TypeOK, NEW nh \in Handles, NEW sdp \in BOOLEAN, RInviteOk(nh, sdp)
    PROVE  KeepsCall /\ RingHasCall'
<1>1. CASE nh = consult_nh
  <2>1. ConsultAnswered(nh, sdp)
    BY <1>1 DEF RInviteOk
  <2>2. /\ Fire("CONSULT_CONNECTED", nh) \in Seq(Event)
        /\ FireSdp("CONSULT_REMOTE_SDP", nh, sdp) \in Seq(Event)
    BY FireType DEF Events, MaybeHandle
  <2>3. consult_rtp' \in MaybeHandle
    BY <2>1, ExtractType DEF ConsultAnswered, TypeOK
  <2>4. FireMedia("CONSULT_MEDIA", consult_rtp') \in Seq(Event)
    BY <2>3, FireType DEF Events
  <2>5. NoRing(out')
    <3>1. CASE consult_established
      BY <2>1, <3>1 DEF ConsultAnswered, NoRing
    <3>2. CASE ~consult_established
      BY <2>1, <2>2, <2>4, <3>2, NoRingFire, NoRingJoin DEF ConsultAnswered
    <3> QED BY <3>1, <3>2
  <2> QED BY <2>1, <2>5 DEF ConsultAnswered, callVars, KeepsCall, RingHasCall
<1>2. CASE nh # consult_nh
  <2>1. CallAnswered(nh, sdp)
    BY <1>2 DEF RInviteOk
  <2>2. /\ Fire("CALL_CONNECTED", nh) \in Seq(Event)
        /\ FireSdp("REMOTE_SDP", nh, sdp) \in Seq(Event)
    BY FireType DEF Events, MaybeHandle
  <2>3. remote_rtp' \in MaybeHandle
    BY <2>1, ExtractType DEF CallAnswered, TypeOK
  <2>4. FireMedia("CALL_MEDIA", remote_rtp') \in Seq(Event)
    BY <2>3, FireType DEF Events
  <2>5. NoRing(out')
    <3>1. CASE call_established
      BY <2>1, <3>1 DEF CallAnswered, NoRing
    <3>2. CASE ~call_established
      <4>1. NoRing(<<>>)
        BY DEF NoRing
      <4> QED BY <2>1, <2>2, <2>4, <3>2, <4>1, NoEvents, NoRingFire, NoRingJoin DEF CallAnswered
    <3> QED BY <3>1, <3>2
  <2> QED BY <2>1, <2>5 DEF CallAnswered, KeepsCall, RingHasCall
<1> QED BY <1>1, <1>2

\* No callback of sofia-sip loses the call without an event that closes the screen.
LEMMA CallbackKeepsCall ==
    ASSUME TypeOK, NEW nh \in Handles, NuaCb(nh)
    PROVE  KeepsCall /\ RingHasCall'
<1> USE DEF KeepsCall, RingHasCall
<1>0. nh # NoHandle /\ nh \in MaybeHandle /\ NoRing(<<>>)
  BY ConstantsAssumption DEF MaybeHandle, NoRing
<1>1. ASSUME NEW sdp \in HasSdp, RInviteOk(nh, sdp) PROVE KeepsCall /\ RingHasCall'
  BY <1>1, AnswerKeepsCall DEF HasSdp
<1>2. ASSUME NEW sdp \in HasSdp, IInvite(nh, sdp) \/ IReinvite(nh, sdp)
      PROVE  KeepsCall /\ RingHasCall'
  <2>1. CASE RingIn(nh, sdp)
    BY <1>0, <2>1 DEF RingIn
  <2>2. CASE Busy(leg)
    BY <1>0, <2>2 DEF Busy, callVars
  <2>3. CASE AnswerReinvite(nh, sdp)
    BY <1>0, <2>3, NoRingFire DEF AnswerReinvite, callVars
  <2> QED BY <1>2, <2>1, <2>2, <2>3 DEF IInvite, IReinvite
<1>3. ASSUME NEW challenge, RInviteChallenged(nh, challenge) PROVE KeepsCall /\ RingHasCall'
  <2>1. CASE ConsultWithDigest(nh, challenge)
    BY <1>0, <2>1, NoRingFire DEF ConsultWithDigest, callVars
  <2>2. CASE InviteWithDigest(nh, challenge)
    <3>1. CASE GiveUp(call_auth_tried, challenge)
      BY <1>0, <2>2, <3>1, NoRingFire DEF InviteWithDigest, CloseComing, Closing
    <3>2. CASE ~GiveUp(call_auth_tried, challenge)
      BY <1>0, <2>2, <3>2, ConstantsAssumption DEF InviteWithDigest, Free
    <3> QED BY <3>1, <3>2
  <2> QED BY <1>3, <2>1, <2>2 DEF RInviteChallenged
<1>4. ASSUME RInviteRefused(nh) PROVE KeepsCall /\ RingHasCall'
  BY <1>0, <1>4, NoRingFire DEF RInviteRefused, ConsultRefused, ConsultGone, CallRefused,
                                CloseComing, Closing, callVars
<1>5. ASSUME IBye(nh) \/ RBye(nh) PROVE KeepsCall /\ RingHasCall'
  <2>1. ASSUME NEW l, ConsultOver(nh, l) PROVE KeepsCall /\ RingHasCall'
    BY <1>0, <2>1, NoRingFire DEF ConsultOver, ConsultGone, callVars
  <2>2. ASSUME NEW l, CallOver(nh, l) PROVE KeepsCall /\ RingHasCall'
    BY <1>0, <2>2, NoRingFire DEF CallOver, CloseComing, Closing
  <2> QED BY <1>5, <2>1, <2>2 DEF IBye, RBye, Bye
<1>6. ASSUME ICancel(nh) \/ IError(nh) PROVE KeepsCall /\ RingHasCall'
  BY <1>0, <1>6, NoRingFire DEF ICancel, IError, ConsultOver, ConsultGone, CallError, Busy,
                                CloseComing, Closing, callVars
<1>7. ASSUME NEW accepted, NEW result, RRefer(nh, accepted) \/ INotify(nh, result)
      PROVE  KeepsCall /\ RingHasCall'
  <2>1. ASSUME NEW s, NoRing(s), TransferOver(nh, s) PROVE KeepsCall /\ RingHasCall'
    BY <2>1 DEF TransferOver, callVars
  <2>2. NoRing(Fire("TRANSFER_OK", nh)) /\ NoRing(Fire("TRANSFER_FAILED", nh))
    BY NoRingFire
  <2>3. CASE out' = <<>> /\ UNCHANGED callVars
    BY <1>0, <2>3 DEF callVars
  <2> QED BY <1>7, <2>1, <2>2, <2>3 DEF RRefer, INotify
<1> QED BY <1>1, <1>2, <1>3, <1>4, <1>5, <1>6, <1>7 DEF NuaCb

\* sofia_hangup keeps the handle for the answer, or reports CALL_ENDED itself (603).
LEMMA HungUpKeepsCall ==
    ASSUME TypeOK, SofiaHangup PROVE KeepsCall /\ RingHasCall'
<1> USE DEF KeepsCall, RingHasCall
<1>1. NoRing(<<>>)
  BY DEF NoRing
<1>2. CASE call_nh # NoHandle /\ ~call_established /\ call_is_incoming
  <2>1. out' = Fire("CALL_ENDED", call_nh)
    BY <1>2 DEF SofiaHangup, Declined
  <2> QED BY <1>1, <2>1, NoRingFire DEF CloseComing, Closing, TypeOK
<1>3. CASE ~(call_nh # NoHandle /\ ~call_established /\ call_is_incoming)
  BY <1>1, <1>3 DEF SofiaHangup
<1> QED BY <1>2, <1>3

\* The API leaves a call where there was one, and sofia_call makes one.
LEMMA ApiKeepsCall ==
    ASSUME TypeOK, Api
    PROVE  KeepsCall /\ RingHasCall' /\ (SofiaCall => call_nh' # NoHandle)
<1> USE DEF KeepsCall, RingHasCall
<1>0. NoRing(<<>>)
  BY DEF NoRing
<1>1. ASSUME SofiaCall PROVE call_nh' # NoHandle /\ out' = <<>>
  BY <1>1, ConstantsAssumption DEF SofiaCall, Free
<1>2. CASE SofiaAnswer
  BY <1>2 DEF SofiaAnswer
<1>3. CASE SofiaHangup
  BY <1>3, HungUpKeepsCall, <1>1
<1>4. CASE SofiaStartConsultation
  BY <1>0, <1>1, <1>4 DEF SofiaStartConsultation
<1>5. CASE SofiaCancelConsultation
  BY <1>1, <1>5, NoRingFire DEF SofiaCancelConsultation
<1>6. CASE \/ \E hold \in BOOLEAN : SofiaSetHold(hold)
           \/ SofiaBlindTransfer \/ SofiaCompleteTransfer
           \/ SofiaReinviteSdp \/ SofiaRespondSdp
  BY <1>0, <1>1, <1>6 DEF SofiaSetHold, SofiaBlindTransfer, SofiaCompleteTransfer,
                          SofiaReinviteSdp, SofiaRespondSdp, callVars
<1> QED BY <1>0, <1>1, <1>2, <1>3, <1>4, <1>5, <1>6 DEF Api

-----------------------------------------------------------------------------
\* What each call into sofia-sip does to the state of the legs.
LEMMA NuaEffects ==
    ASSUME NEW l \in Legs, NEW h \in Handles, NEW g \in Handles
    PROVE  /\ NuaBye(l, h)[g].st = IF g = h /\ l[g].st = "up" THEN "closing" ELSE l[g].st
           /\ NuaBye(l, h)[g].reinv = l[g].reinv /\ NuaBye(l, h)[g].retry = l[g].retry
           /\ NuaCancel(l, h)[g].st = IF g = h /\ l[g].st = "calling" THEN "cancelled" ELSE l[g].st
           /\ NuaCancel(l, h)[g].reinv = l[g].reinv /\ NuaCancel(l, h)[g].retry = l[g].retry
           /\ NuaRefer(l, h)[g].st = l[g].st /\ NuaRefer(l, h)[g].retry = l[g].retry
           /\ NuaRefer(l, h)[g].reinv = l[g].reinv
           /\ NuaAccept(l, h)[g].st = IF g = h /\ l[g].st = "ringing" THEN "up" ELSE l[g].st
           /\ NuaAccept(l, h)[g].reinv = l[g].reinv /\ NuaAccept(l, h)[g].retry = l[g].retry
           /\ Over(l, h)[g].st = IF g = h THEN "idle" ELSE l[g].st
           /\ Over(l, h)[g].reinv = (g # h /\ l[g].reinv)
           /\ Over(l, h)[g].retry = (g # h /\ l[g].retry)
<1>0. l[h] \in Leg /\ l[g] \in Leg
  BY DEF Legs
<1>1. /\ NuaBye(l, h)[g].st = IF g = h /\ l[g].st = "up" THEN "closing" ELSE l[g].st
      /\ NuaBye(l, h)[g].reinv = l[g].reinv /\ NuaBye(l, h)[g].retry = l[g].retry
  BY <1>0 DEF NuaBye, Legs, Leg
<1>2. /\ NuaCancel(l, h)[g].st = IF g = h /\ l[g].st = "calling" THEN "cancelled" ELSE l[g].st
      /\ NuaCancel(l, h)[g].reinv = l[g].reinv /\ NuaCancel(l, h)[g].retry = l[g].retry
  BY <1>0 DEF NuaCancel, Legs, Leg
<1>3. /\ NuaRefer(l, h)[g].st = l[g].st /\ NuaRefer(l, h)[g].retry = l[g].retry
      /\ NuaRefer(l, h)[g].reinv = l[g].reinv
  BY <1>0 DEF NuaRefer, Legs, Leg
<1>4. /\ NuaAccept(l, h)[g].st = IF g = h /\ l[g].st = "ringing" THEN "up" ELSE l[g].st
      /\ NuaAccept(l, h)[g].reinv = l[g].reinv /\ NuaAccept(l, h)[g].retry = l[g].retry
  BY <1>0 DEF NuaAccept, Legs, Leg
<1>5. /\ Over(l, h)[g].st = IF g = h THEN "idle" ELSE l[g].st
      /\ Over(l, h)[g].reinv = (g # h /\ l[g].reinv)
      /\ Over(l, h)[g].retry = (g # h /\ l[g].retry)
  BY <1>0 DEF Over, IdleLeg, Legs, Leg
<1> QED BY <1>1, <1>2, <1>3, <1>4, <1>5

\* And what a re-INVITE does.
LEMMA ReinviteEffects ==
    ASSUME NEW l \in Legs, NEW h \in Handles, NEW d, NEW g \in Handles
    PROVE  /\ NuaReinvite(l, h, d)[g].st = l[g].st
           /\ NuaReinvite(l, h, d)[g].reinv = ((g = h /\ l[g].st = "up") \/ l[g].reinv)
           /\ NuaReinvite(l, h, d)[g].retry = l[g].retry
<1>1. l[h] \in Leg /\ l[g] \in Leg
  BY DEF Legs
<1> QED BY <1>1 DEF NuaReinvite, Legs, Leg

\* A free handle belongs to no leg.
LEMMA FreeIsIdle ==
    ASSUME NEW h \in Free
    PROVE  /\ h \in Handles /\ h # NoHandle /\ h \notin {call_nh, consult_nh}
           /\ leg[h].st = "idle" /\ ~leg[h].reinv /\ ~leg[h].retry
BY ConstantsAssumption DEF Free, IdleLeg

\* The new leg of an INVITE of ours.
LEMMA CallingEffects ==
    ASSUME NEW l \in Legs, NEW h \in Handles, NEW g \in Handles, NEW retry \in BOOLEAN
    PROVE  /\ [l EXCEPT ![h] = CallingLeg(retry)][g].st = IF g = h THEN "calling" ELSE l[g].st
           /\ [l EXCEPT ![h] = CallingLeg(retry)][g].reinv = (g # h /\ l[g].reinv)
           /\ [l EXCEPT ![h] = CallingLeg(retry)][g].retry = ((g = h /\ retry) \/ (g # h /\ l[g].retry))
<1>1. /\ CallingLeg(retry).st = "calling" /\ ~CallingLeg(retry).reinv
      /\ CallingLeg(retry).retry = retry
  BY DEF CallingLeg, IdleLeg
<1>2. CASE g = h
  BY <1>1, <1>2 DEF Legs, CallingLeg, IdleLeg
<1>3. CASE g # h
  BY <1>3 DEF Legs, Leg
<1> QED BY <1>2, <1>3

LEMMA CallingIsLeg ==
    \A c \in {CallingLeg(TRUE), CallingLeg(FALSE)} :
       c \in Leg /\ c.st = "calling" /\ ~c.reinv /\ ~c.owed /\ c.refer = "none"
BY DEF CallingLeg, IdleLeg, Leg, LegStates

\* REFER subscriptions come from nua_refer alone and outlive their dialog.
LEMMA ReferEffects ==
    ASSUME NEW l \in Legs, NEW h \in Handles, NEW g \in Handles
    PROVE  /\ NuaBye(l, h)[g].refer = l[g].refer
           /\ NuaCancel(l, h)[g].refer = l[g].refer
           /\ NuaAccept(l, h)[g].refer = l[g].refer
           /\ \A d : NuaReinvite(l, h, d)[g].refer = l[g].refer
           /\ Over(l, h)[g].refer = l[g].refer
           /\ \A retry : [l EXCEPT ![h] = CallingLeg(retry)][g].refer
                           = IF g = h THEN "none" ELSE l[g].refer
<1>1. l[h] \in Leg /\ l[g] \in Leg
  BY DEF Legs
<1>2. \A retry : CallingLeg(retry).refer = "none"
  BY DEF CallingLeg, IdleLeg
<1> QED BY <1>1, <1>2 DEF NuaBye, NuaCancel, NuaAccept, NuaReinvite, Over, IdleLeg, Legs, Leg,
                          CallingLeg

\* Sequences with the same elements are the same.
LEMMA SameElements ==
    ASSUME NEW T, NEW s \in Seq(T), NEW t \in Seq(T), Len(s) = Len(t),
           \A i \in 1 .. Len(s) : s[i] = t[i]
    PROVE  s = t
OBVIOUS

\* Two singletons make a pair.
LEMMA TwoInOne == ASSUME NEW e, NEW f PROVE <<e>> \o <<f>> = <<e, f>>
<1> DEFINE s == <<e>> \o <<f>>
           t == <<e, f>>
<1>1. s \in Seq({e, f}) /\ t \in Seq({e, f}) /\ Len(s) = 2 /\ Len(t) = 2
  OBVIOUS
<1>2. \A i \in 1 .. 2 : s[i] = t[i]
  OBVIOUS
<1> HIDE DEF s, t
<1>3. s = t
  BY <1>1, <1>2, SameElements
<1> QED BY <1>3 DEF s, t
=============================================================================
