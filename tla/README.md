# TLA+ models of TMWPhone

TMWPhone is a GTK4 SIP softphone in Rust over sofia-sip, with the SIP logic in
one C file (`src/src/sip/glue.c`). This directory holds TLA+ modules translated
from that source, TLC configurations that check them on small instances, and
proofs, checked by TLAPS, of theorems about them. Paths below are relative to
`src/src/` in the repository.

Everything in the program runs on one GLib main thread. Its concurrency is the
interleaving of sofia-sip's callbacks, the user's clicks, timers, asynchronous
tasks and network streams, and the fact that C code calls the window back
synchronously, in the middle of a handler.

    tlc -workers 2 -config PhoneRough.cfg MCSoftPhone.tla    # and PhoneAbandoned, PhoneLive
    tlc -workers 2 -config AccountsSafe.cfg MCAccounts.tla   # and AccountsLive
    tlc -workers 2 -config WebRtc.cfg MCWebRtcPhone.tla
    tlc -workers 2 -config Bridge.cfg MCWsBridge.tla
    tlc -workers 2 -config Stores.cfg MCStores.tla
    for m in SipGlue Call Accounts Subsequence WsBridge WsStream WebRtcPhone Stores; do tlapm ${m}Proofs.tla; done

## 1. Inventory

| Component | State | Operations | Talks to | Hard part, and what makes it correct | Modules |
|---|---|---|---|---|---|
| Calls, `sip/glue.c` 860-1110, 1433-1740 | two `nua` handles (primary, consultation), a dozen flags, RTP addresses, dialog identifiers | `nua_cb` cases, `sofia_*` | sofia-sip below, window above by `ctx->cb` | any order of answers, BYEs, CANCELs, re-INVITEs, NOTIFYs against clicks; no leg lost, flags agree with the dialogs, each end reaches the right screen | `SipGlue` |
| Registration, `sip/glue.c` 801-858, 1117-1426 | `reg_nh`, `reg_auth_tried`, `cleanup_pending` | register after a start-up unregister, refresh, digest retry, shutdown | sofia-sip, window | a refused or challenged clean-up, a refresh that races it; eventually registered or reported | `Registration` |
| Wrapper, `sip/mod.rs`, `ffi.rs` | engine pointer, callback box, bridge | `SipEngine::*`, `sofia_event_cb` | glue.c, window | lifetime of the callback; events mapped in order | in `SoftPhone`, `Accounts` |
| Window, calls, `window.rs` 290-430, 830-1266 | `active_account_id`, `pending_call`, sessions | `handle_sip_event`, call-screen handlers | engine, call screen, audio, call log | events arrive inside calls into the engine, results of tasks after the call they belong to; one record per call, a screen exactly while there is a call | `SoftPhone`, `WebRtcPhone` |
| Window, accounts, `window.rs` 505-782, 877-932 | `active_engines`, keepalive timer, selector | connect, disconnect, reconnect, keepalive | engines, settings dialog | several engines share one call screen; a dropped engine pumps the main loop | `Accounts`, `Stores` |
| Call screen, `widgets/call_screen.rs` | toggles, timer id, consult mode | `start_timer`, `stop_timer`, consult mode | window | one timer per call | in `SoftPhone`, `WebRtcPhone` |
| Audio, `audio.rs` | `user_muted`, `on_hold`, pipelines | `start`, `set_hold`, `set_muted` | GStreamer | microphone silent when held, and sent to the right peer | in `SoftPhone` |
| WebRTC, `webrtc.rs` | session, send chain, flags | offer, answer, renegotiate (async) | webrtcbin, window | one codec for chain and answer; microphone silent when muted or held whenever the chain is built | `WebrtcSession`, `WebRtcPhone` |
| WebSocket bridge, `sip/wsbridge.rs` | session, write queues, buffers | accept, two pumps, framing, header rewriting | sofia-sip by TCP, server by WebSocket | shared writers, shutdown of two pumps, fragments, bytes cut anywhere; transparent to SIP | `WsBridge`, `SipRewrite`, `Pipe` |
| Call log, `call_log.rs` | 500 records, a file, the Recents rows | `push`, `save`, `load` | window | bound; a crash or a full disk while saving | `CallLog` |
| Accounts, quickdials, passwords, `accounts.rs`, `quickdial.rs`, `keyring.rs`, `widgets/settings_dialog.rs` | JSON files, the keyring, the dialog's rows | load with migrations, save, add, delete, move | settings dialog, window | a file cut short; rows that edit by id and move by position | `Stores` |
| Application, `application.rs`, `main.rs`, `config.rs` | window, GSettings | start, quit, `tel:` links | window | nothing but the restart | in `Stores` |
| Ringer, dialpad, packaging | little | I/O and widgets | | no logic whose order could go wrong | none |

`PROJECT.json` lists every component with its status and, under `hazards`, the
lines where this code can go wrong in ways a test would hardly reach.

## 2. Modules

**`SipGlue.tla`** is the call half of `glue.c`. Its variables are the fields of
`SofiaCtx` (`call_nh`, `call_established`, ..., `transfer_in_progress`), each
`nua_cb` case and each API function is an action with the code's guards, early
returns and assignments. Three representations need a word:

- `remote_rtp`, `consult_rtp`: instead of an IP and a port, the handle whose SDP
  gave them. `consult_dialog`: the handle whose Call-ID and tags are stored.
- `leg`: what sofia-sip and the peer know of each handle (idle, calling,
  cancelled, ringing, up, closing; an unanswered re-INVITE; a REFER; with WebRTC
  a re-INVITE of the peer whose answer is `owed`). This is
  external, modelled from how `glue.c` uses `nua_*`. `nua_handle_unref` leaves
  the leg alone: sofia-sip goes on reporting it. The handle of a finished leg is
  reused once nothing in `SofiaCtx` refers to it.
- `out`: the events the last handler fired, in order.

A message's SDP is present or not; a challenge has the header it needs or not.
User, password and server are set (they are before any call). A second REFER
while one is unanswered is not modelled, nor is DTMF (an INFO that changes no
state), a challenge without a message, or a CANCEL for the consultation (that
leg is always our own INVITE).

**`SoftPhone.tla`** composes it with the window and call screen for one
plain-RTP account. `HandleSipEvent` takes the events of `out` one at a time, and
nothing else happens before it is empty: the callback is synchronous. No handler
of `glue.c` touches the state that an event handler changes after firing the
event, except TRANSFER_FAILED, whose handler calls `sofia_cancel_consultation`
(`OnTransferFailed`), so running the rest of the C handler first changes
nothing. `audio`, `consult_audio` are the sessions, represented by the leg whose
address they use; `record` is the status of the last call-log entry. The user
reaches the engine only through `with_active_engine` and the buttons that are
visible, and is kept from nothing by engine state the screen does not show:
`StartCall` dials whenever the screen is closed, `StartConsultation` whenever there
is a call. `overwritten` is history: it records that `do_invite` or
`do_consultation` took the place of a handle that was still held (glue.c 1471,
1672).

**`PhoneLine.tla`** is an abstract specification: one call at a time, which
leaves exactly one record saying how far it got. `SoftPhone!OneRecordPerCall`
states that `PhoneSpec` implements it, under a refinement mapping from
`pending_call`.

**`WebrtcSession.tla`** is `webrtc.rs` as a record (the send chain's `volume`
element and the two flags) and operators on it, with the choice of a codec from
an SDP: payload types, rtpmap lines and a direction, as far as `resolve_codec`
looks at them. What webrtcbin and GStreamer do is external: a call returns the
outcomes that `Failing` admits.

**`WebRtcPhone.tla`** composes `SipGlue` (with `WebRtc = TRUE`) with these
sessions and the half of the window that negotiates. Dialling, answering,
holding and answering a re-INVITE spawn a task (`spawn_local`)
that awaits webrtcbin; `tasks` are those under way, with the session each
keeps alive and, for the properties alone, the call it was spawned for.
`OfferReady`, `AnswerPolled`, `AnswerReady`, `HoldReady`, `ReinviteReady` are what
a task does when it goes on, and like the code they ask the window which call
there is *now*. `given_up` records a Hang up that found no call to end.

**`Registration.tla`** is the other half of `glue.c`, for several contexts at
once: one per connected account. `cleanup_pending` and `reg_auth_tried` are the
fields of `SofiaCtx`, given as the sets of accounts that have them set. What
sofia-sip holds of `reg_nh` is external: `request` is what is on the wire (the
start-up "Contact: \*", or a REGISTER), `presented` says that it carries credentials,
`asked` counts the calls of `nua_authenticate` since the context started or its last
REGISTER ended, `waiting` the REGISTERs queued behind it. Nothing limits how often
the registrar challenges: `MaxAuth` is where `asked` stops counting. The registrar is `server`
(up, refusing the credentials, down) and `bound`: the accounts whose *present*
context it has the Contact of. `late` is a clean-up that a destroyed context had
sent and that is still on its way: "Contact: \*" removes the new context's binding
too. `RUnregisterDone`, `RRegisterOk` and so on are the cases of `nua_cb`;
`SofiaReplace` is `sofia_ctx_destroy` followed by `sofia_ctx_create` and
`sofia_register`, `SofiaReregister` the refresh.

**`Accounts.tla`** puts the accounts half of the window on top: `engines`,
`status` and `age` are the entries of `active_engines` (`registered`,
`last_register_ok`), `banner` the status banner, `active` is
`active_account_id`, `stored` accounts.json. Events arrive in the step that
fires them, as the callback is synchronous. Dropping an engine takes several
steps, because `sofia_ctx_destroy` iterates the main loop until sofia-sip has
shut down or 2 s are over, with `active_engines` mutably borrowed: `pumping` is
the engine whose destructor runs, `doomed` those that the same `clear()` drops
after it, `reconnect` what `connect_account_by_id` or `reconnect_all` connects
afterwards, and `stale` the rest of the keepalive's loop. Answers and calls of
other accounts go on meanwhile. Events that borrow `active_engines` then abort the
program (`aborted`); `Env` without `reenter` leaves them out, so that the other
properties can be asked at all. Sofia-sip reports nothing more of the context that
shuts down.

Time is counted in keepalives (40 s): `age` is their number since
`last_register_ok`, and whether 180 s are over follows up to one period either way
(`MayBeStale`, `MustBeStale`). The 30 s debounce of the network monitor is finer
than this clock; it only withholds a reconnect, so `NetworkChanged` may always
happen. An engine may fail to start at any connect after start-up.

**`Subsequence.tla`** filters a sequence the way `Vec::retain` and `Iterator::filter` do
(`Where`), for the three modules below that do. It is the standard `SelectSeq`, written
without recursion so that it can be proved about; `MCStores!WhereIsSelectSeq` lets TLC
compare the two on all sequences of up to five elements.

**`SipRewrite.tla`** is the text half of `sip/wsbridge.rs`, as operators: header
lines as records of the four things the rewriting tells apart, and the header
of a WebSocket frame with its 7, 16 or 64-bit length.

**`WsBridge.tla`** is one session of the bridge: `accept_loop`, `run_session`,
`pump_sofia_to_ws` (`up`), `pump_ws_to_sofia` (`down`) and the two `Writer`s with
their queue, `busy` flag and spawned task. Bytes come in halves of messages and
frames, a read returns any number of them, and a pump takes one message or frame
per step of a chunk it has read (no other task runs before its next await).
`cancelled` is what `Drop` sets. Sofia-sip's end of the loopback connection and
the server are external: sofia sends messages and keepalives and may shut its
end, the server sends any of `ServerFrames`, breaks off, or answers a CLOSE.
`sent` and `got` of a writer are history: what went into it, and what reached
the stream before it was `cut`.

**`Pipe.tla`** is the abstract specification of a `Writer`: a FIFO in which
nothing is lost, doubled or overtaken until it breaks. `WsBridge!WritersArePipes`
states that both writers implement it.

**`CallLog.tla`** is the log in memory, `calls.log` on disk and the rows of the
Recents list; a caller is a sequence of tokens, as far as the line format and
`display_name` and `callable` tell them apart. **`Stores.tla`** adds
`accounts.json`, `quickdials.json`, the keyring, the settings dialog that edits
them, and what the window shows of them (quickdial bar, account selector). A file
is missing, whole or torn; writing happens in one step or is cut short by
a crash (`CrashInWrite`, `CrashInDelete`, `CrashInSave`, each followed by the next
start). The files do not depend on each other, so that a behaviour exercises one
of them (`file`).

**`MCSoftPhone`**, **`MCAccounts`**, **`MCWebRtcPhone`**, **`MCWsBridge`** and
**`MCStores`** add what TLC needs: symmetry of handles and accounts, and the sets
of SDPs, frames and callers. The theorems are in **`SipGlueProofs`** (engine),
**`CallProofs`** on top of it (engine and window), **`AccountsProofs`**,
**`WsBridgeProofs`** with **`WsStreamProofs`**, **`WebRtcPhoneProofs`**,
**`StoresProofs`** and **`SubsequenceProofs`** (lemmas about `Where`).

### The environment

`Env` names what the network, the peers and the user may do beyond an orderly
call (`SipGlue.tla` lists the nine behaviours). The code survives some, and is
known not to survive others, so which properties hold depends on it:

- `redial`: the user dials while a call is on the screen, which covers the dialpad
  for the pointer but not for the keyboard.
- `bye_glare`: a BYE that crosses ours is followed by an answer for a call that
  is gone.
- `reinvite_fail`: a refused hold re-INVITE is treated as a refused call
  (glue.c 1012-1014), a challenged one as a challenged call (1010).
- `cancel_race`: a 200 or a 401 crosses our CANCEL.
- `sdp_less`, `error`, `refer_other`, `leg_reinvite`, `audio_error`: messages
  without a body, `nua_i_error`, a 3xx/6xx sipfrag, a re-INVITE on the
  consultation, GStreamer failing.

Two ordinary acts of the user need no such name and happen in every run: a dial
after a TRANSFER_OK, which closes the screen while `call_nh` still holds the
transferred call, and a second consultation while the first is up or being ended
after Cancel. In both a live leg's handle is overwritten; the leg can no longer be
ended, and what it reports is taken for the new call's (section 5). The properties of
legs, flags and media (`NoOrphanLeg`, `EstablishedIsUp`, `MediaOfPrimary`,
`HoldSilencesMic`, `TransferReplacesConsultation`, `OnlyOwnLegEndsCall`,
`OneDigestRetry`) are not guaranteed from then on, and say so: they speak of a phone
that is still `Intact`. `OneRecordPerCall`, `NoStuckScreen` and the types hold
regardless.

`WebRtcPhone` has two more such constants. `Failing` are the calls of GStreamer
and webrtcbin that may fail. `Races` are overlaps of calls and tasks that the
code does not survive: a call that starts while tasks of an earlier one still
run (`stale`), an INVITE that arrives while an offer of ours gathers candidates
(`crossed`), an INVITE that finds a call screen left open by a failed offer
(`stuck`). `webrtc` excludes all three, so its properties are about one call's
tasks against that call's own callbacks and buttons; `webrtc_autoanswer` admits
the first.

## 3. Runs

The `phone` runs and `transfer_refused` use `MCSoftPhone`, the `accounts` runs
`MCAccounts`, the `webrtc` runs `MCWebRtcPhone`, `bridge` `MCWsBridge` and `stores`
`MCStores`.

| Run | Environment | States | Shows |
|---|---|---|---|
| `phone_rough` | sdp_less, refer_other, audio_error; 3 handles | 231 036 | the flags agree with the dialogs (`EstablishedIsUp`); no leg lost (`NoOrphanLeg`); the microphone is silent exactly on hold (`HoldSilencesMic`) and no call, with or without SDP, streams to the last one's peer (`MediaOfPrimary`); a second consultation is the one that Complete transfer replaces (`TransferReplacesConsultation`); `OnlyOwnLegEndsCall` |
| `phone_abandoned` | bye_glare, cancel_race, error; 2 handles | 2 102 966 | types; whatever answers and BYEs cross and whatever handles are dropped, the screen is not left open without a call (`NoStuckScreen`), calls come one at a time and leave one true record each (the refinement `OneRecordPerCall`), and rejected credentials are given once (`OneDigestRetry`) |
| `phone_live` | none; 2 handles, no symmetry | 19 897 | `HangupEnds` and `TransferConcludes` under fairness; no deadlock |
| `transfer_refused` | refer_other | | `TransferConcludes` fails: a 603 sipfrag is recognised by nobody |
| `accounts_safe` | dead, network, user, teardown; 2 accounts | 2 217 414 | types; `FirstChallengeAnswered`: the digest flag follows the request on the wire through any refresh; `RegisteredIsBound`; `FailureStaysVisible`; `CallKeepsEngine` |
| `accounts_live` | dead, forget, late, user, network; 1 account | 27 978 | the 180 s reconnect never cuts off a start-up that was challenged no more than twice (`StaleIsSettled`); refused credentials go out no faster than the keepalive (`DigestIsPaced`); a connected account ends up registered (`Recovers`); a forgotten binding is renewed or reported (`ReachableAgain`) |
| `accounts_reentrant` | user, reenter; 2 accounts | | `NoDoubleBorrow` fails: an incoming call on one account while the user connects another |
| `webrtc` | cancel_race, error; everything of GStreamer may fail; 2 handles, 2 sessions, 2 tasks | 40 498 | types; the microphone is what Mute and Hold say, whenever they were pressed (`MicFollowsButtons`); a session, its role and a kept offer go with the call (`SessionHasCall`) and with the right one (`MediaOfCall`); both sides resolve one codec (`NegotiationAgrees`); an answer and a deferred re-INVITE come to an end (`AnswerConcludes`, `ReinviteAnswered`); no deadlock |
| `webrtc_autoanswer` | stale | | `OnlyAnsweredGoesUp` fails: the answer to a call that is gone is given to the next one |
| `webrtc_hangup` | none | | `HungUpIsNotDialled` fails: a call hung up while it gathers is dialled |
| `bridge` | ping, huge, break, drop; any server; 3 units of traffic | 505 550 | types and the fragment limit; whole messages, in order, whatever TCP does (`SofiaInOrder`, `Reassembled`); `WireRoundTrip`; the refinement `WritersArePipes`; `SessionEnds` and `Flushed` under fairness |
| `stores` | crash, full; 3 ids, a log of 2, 4 calls | 169 177 | types; the screens show what is stored (`ScreensShowStores`); accounts come and go by the user's buttons (`AccountsAreUsers`); the default survives (`DefaultSurvives`); a restart keeps the newest calls (`RestartKeepsNewest`) |

The four runs whose property fails are disagreements of the code with its own
comments; `findings` in `PROJECT.json` quotes them.

### Bounds

*Phone.* Two handles are a call and a consultation, or a call and one abandoned
leg; three add a digest retry during either, a second caller, or a second consultation
(the first one's handle stays taken by the dialog identifiers `glue.c` keeps).
`CONSTRAINT Intact` stops `phone_rough` and `phone_live` where a handle has been
overwritten: `overwritten` never becomes false again, so every property of
`phone_rough` holds of what follows, and the two liveness properties are fulfilled
there. `phone_abandoned` goes on behind it. `reinvite_fail`, `redial` and
`leg_reinvite` are in no phone run: most properties are false with them, those that
are not (`NoStuckScreen`, the types, and but for `redial` and `leg_reinvite` the
records) are proved with them. Messages without SDP and `nua_i_error` are not in one
run, because together they break `MediaOfPrimary`, and neither are `cancel_race` and
a second consultation, because a consultation that is answered after Cancel shows its
buttons again (section 5); the theorems say which property survives which. The 1 s timers
are counted to 2 (`TimerBound`): one or several.

*Accounts.* `MaxWaiting` REGISTERs are told apart behind the one on the wire (one is
queued every 40 s and a request takes at most its timeouts, below), 1 in
`accounts_safe` and 2 in `accounts_live`. `MaxAuth` digest answers are counted, 3 in
`accounts_safe` and 5 in `accounts_live`; more happen and are no longer counted. It must
exceed 2, what a start-up needs, and 5 lets an engine be challenged at each of the
keepalives that 180 s last. `MaxDead` starts that fail; 40
and 180 are the code's own numbers. Two accounts are enough for "any" against "all",
and for one engine's destructor to meet another's event.

*WebRTC.* Two handles are one call after another, or a digest retry; two sessions
are the window's and one that a task keeps alive; two tasks (`MaxTasks`) are an answer or
a hold beside a re-INVITE, or a button clicked twice. `PeerSdps` have or have not a
sending side: a peer without a codec of ours shows in no other way than a chain that
fails. The codecs themselves are compared by `NegotiationAgrees` over every SDP of up to two
formats and two rtpmap lines.

*Bridge.* `MaxTraffic` counts messages of sofia and frames of the server, and one for the drop;
three are what a fragmented message with a control frame inside needs, or a
queue behind a busy writer. `MaxFragments` = 2 stands for 1 MiB, so that a third
fragment exceeds it. The text round trip is over every header line the rewriting
can tell apart, under a Via; the frame round trip over lengths and numbers of bytes on
either side of every limit.

*Stores.* Three ids: two accounts and the second import of the old settings, or two
quickdials whose order can change, and one added after a deletion. The log keeps two (500) of
four calls, so that the bound is met and exceeded again after a restart.

Deadlock is checked where it can mean something. In the safety runs
of the phone the addresses `glue.c` keeps of dead legs hold on to model
handles, and when all are taken an idle phone has nothing left to do: an effect
of the bound on handles, not of the code. In `bridge` a session that is over
really is the end.

### Fairness

`SoftPhone!FairPhoneSpec` assumes that the window handles the events fired to it (WF;
they are synchronous calls), that sofia-sip answers each BYE, CANCEL and REFER of
ours (SF on each handle's answer: its own transaction timeout, 408, guarantees
one; strong because other callbacks share the loop), and that a peer that
accepted a REFER sends the final NOTIFY. The last is the peer's duty under
RFC 3515, not something the code can enforce: `TransferConcludes` depends on it
and says that every outcome *reported* ends the transfer. The user and the
peers' own requests are not fair: nobody need ever hang up or answer.

`WebRtcPhone!FairPhoneSpec` assumes the same of events, BYE and CANCEL, and that the
oldest task goes on: webrtcbin keeps or breaks its promises (`webrtc.rs` treats both)
and ends gathering by itself.

`FairAccountsSpec` assumes weak fairness of each account's next answer (sofia-sip
times a request out after 64 T1 = 32 s and reports 408), of the GLib timer and its
loop, of the destructor (its own 2 s deadline) and of the end of calls.
`AnsweredInTime` says the same thing in time: 32 s are less than 40 s, so a request
or an answer to a challenge that was on the wire at one keepalive is answered before the
next. `Recovers` adds, as a premise, that the registrar stays up and nobody
reconfigures any more. `teardown` is not in this run: a user who reconfigures
during a call ends it without a CALL_ENDED, `active_account_id` stays set and
neither the full reconnect nor the network monitor runs until another call ends.

`WsBridge!FairSpec` assumes weak fairness of each pump, of the session's set-up and of
each writer's task (the main loop runs what is ready), and that the server answers
our CLOSE (RFC 6455). Sofia and the server need not send, shut or read
anything else; a dropped bridge is therefore no premise of `SessionEnds`.

## 4. Proofs

TLC checks two or three handles and one `Env` at a time. The theorems hold for
every set of handles and every `Env`, from `ConstantsAssumption` (NULL is no
handle, `WebRtc` is Boolean, `Env` names known behaviours) and `PlainRtp`.

- `SipGlueProofs!TypeCorrect`: `Spec => []TypeOK`, one lemma per handler.
- `SipGlueProofs!HoldOnlyAnswered`: `Spec => []HoldNeedsAnswer`. It is inductive
  by itself, in both media modes; the cases that matter are those that clear
  `call_established` and must clear `call_on_hold` with it.
- `CallProofs!ScreenNeverStuck`: `PhoneSpec => []NoStuckScreen`.
  `NoStuckScreen` speaks of the rest between handlers and is not inductive.
  `ScreenInv` adds what holds while events are on their way: an open screen has
  a call or the one event queued closes it (`ScreenHasCall`), and no
  INCOMING_CALL is queued without a call (`RingHasCall`). Per handler, the lemma
  to show is `KeepsCall`: one that gives up `call_nh` fires a closing event, and
  only that.
- `CallProofs!PhoneTypeCorrect`: `PhoneSpec => []PhoneTypeOK`, which
  contains `timers >= 0`; strengthened by `timer_id => timers # 0` (`UiInv`).
- `CallProofs` then proves what a call is, for any number of handles, of a phone that
  is `Intact`, and for any `Env` without `bye_glare`, `reinvite_fail` and `leg_reinvite`
  (`Orderly`): with the first glue.c loses a handle, with the others it takes one
  leg's answer for another's, and the properties are false (section 5 and the hazards
  without a property). Answers that cross a CANCEL, missing SDP, time-outs, failing media,
  dialling during a call and transfers of every outcome are all admitted. `IntactBefore`
  is what lets the induction assume `Intact` of the state a step starts from. The
  invariant `CallInv` has three parts.
  - `LegInv` relates the flags of glue.c to the legs of sofia-sip. `NoOrphanLeg` and
    `EstablishedIsUp` say two facts of it and neither is inductive alone: that a leg's
    handle is kept takes that the two handles differ (`TwoLegs`), that `call_established` agrees takes
    that an incoming call that is not established rings (`PrimaryFlags`) and that a consultation never
    has a re-INVITE under way (`ConsultIsOurs`), and that a retry is tried once takes
    `RetryTried`.
  - `ScreenInv` is that of `ScreenNeverStuck`.
  - `WindowInv` says what the window shows, logs and plays, or that the event that will put it
    right is queued.

  What joins engine and window is `Effect`: every handler of the API and every callback
  ends the call, rings, answers it or carries it on, with the events that go with it
  and no others. `AnsweredKeeps`, `RefusedKeeps` and so on show it once per handler; the window's
  proofs and the refinement then have four cases instead of forty. From `CallInv`
  follow `NoLegIsOrphan`, `EstablishedAgrees`, `HoldIsSilent` and the action properties
  `OwnLegEndsCall` and `DigestRetriedOnce`. `HoldIsSilent` is about engines that never started a
  consultation: one that did holds the call without the window's session (section 5).
  `OwnLegEndsCall` includes TRANSFER_OK and takes `ConsultRefersNot` besides: a REFER goes out
  on the call's dialog only, so that its outcome is the call's own or that of a dialog
  that is over, the exception the property names.
- `PhoneImplementsLine` is `PhoneSpec => OneRecordPerCall`, the refinement of `PhoneLine`, each step
  mapped to a step of it or a stutter (`StepIsLine`). It needs neither `Intact` nor
  `Orderly`, only that nobody dials over a call on the screen and no re-INVITE comes on
  a consultation (`OneCaller`); its invariant `LineInv` is about the window and the event
  that is queued, and knows of the legs only that a call that is up was answered
  (`CallIsAnswered`).
- `CallProofs` ends with two things glue.c remembers of a leg and does not clear with it.
  `MediaIsOfPrimary` proves `MediaOfPrimary` if messages may lack SDP or calls may end by
  `nua_i_error`, but not both (`SdpAlways \/ NoError`). With SDP everywhere, the call that
  rings, and the answer that is queued, have left their own address. Without, what saves a
  call is that every other end of the one before has cleared its address, which the
  invariant `MediaInv` says of every idle phone. `TransferReplacesIt` proves
  `TransferReplacesConsultation` if no answer crosses a CANCEL (`NoRace`): wherever the window
  offers the transfer, the consultation is up and the dialog stored is its, or the
  call is being ended, or the event that takes the button away is queued.
- `AccountsProofs`, for any set of accounts, periods, bounds and `Env`, from
  `EnvAssumption`, `BoundAssumption`, `PeriodAssumption`, `NoAccountAssumption`.
  The inductive invariant `AccountsInv` is the types, `FailureStaysVisible` and:
  `Wire` (the clean-up is on the wire exactly while `cleanup_pending`; a flag that forbids
  a digest answer finds one given),
  `Ownership` (every context has an entry of `active_engines` or is being
  destroyed), `LoopIsIdle` (the keepalive's loop runs between calls) and
  `RegisteredIsClean`. `Wire` is needed because a refresh resets the flag while a
  request is on the wire; `Ownership` because events of an account without an
  entry would change nothing. `AccountsTypeCorrect`, `FirstChallengeIsAnswered`
  and `FailureIsVisible` follow at once. `RegistrationIsBound` is proved under the
  hypothesis that `Env` has neither `forget` nor `late`, with the second
  invariant `BoundInv`; without it the property is false, which is what
  `ReachableAgain` is for. `CallKeepsItsEngine` is an action property from
  `Ownership` and `LoopIsIdle`.
  Two theorems are about the digest answers, of which the code sets no limit: every
  keepalive resets `reg_auth_tried` (glue.c 1424). `DigestKeepsPace` proves `DigestIsPaced`, one
  answer for the clean-up, one for the REGISTER and one for each keepalive.
  `ReconnectSparesStartUp` proves `StaleIsSettled` under the hypothesis `Patience`,
  `4 * KeepalivePeriod <= StaleAfter` (160 of 180 s): a start-up that was challenged at most
  twice has no more than four answers to wait for, one of which comes between any two
  keepalives. A registrar that challenges more often, slowly, is cut off; that is the code's
  behaviour and the property's own exception. `ProgressInv` counts what a start-up has behind it:
  `age` is no larger than the answers it has had (`StartingUp`), and `asked` no larger than
  the resets of the flag (`Paced`).
- `WsBridgeProofs`, for any server, traffic, fragment limit and `Env`, from
  `BridgeAssumption`. `TypeCorrect` is `Spec => []TypeOK`, with the fragment limit.
  `WritersImplementPipe` is the refinement, `Spec => WritersArePipes`: initial states map to
  initial states of `Pipe`, every step to one of its steps or a stutter. Types alone do not
  show that a task delivers the oldest undelivered item, so the
  invariant `WritersInv` adds `Fifo` for each writer: there is one task or none, as
  `busy` says; without a task the queue is empty; and until the stream is cut, what went
  in is what came out, then what the task holds, then the queue. The lemmas
  `PushKeeps`, `PopKeeps`, `WrittenKeeps` and `FailedKeeps` say so of the four things that happen
  to a writer, `StepIsPipe` that each is a step of the pipe. `Pending`, the error GIO gives to a
  second write, is never reached: that is the one task of `Fifo`.
- `WsStreamProofs`, from the same assumption, is about what passes through the bridge.
  TLC sends two or three messages; these theorems are about streams of any length.
  - `SofiaIsHeard`: `Spec => []SofiaInOrder`. `SofiaInv` adds to it what the rest of the stream
    is until the pump gives up (`SofiaStream`): in the buffer and behind it come the halves
    of the messages that were not handed over, each half beside the other, in rising
    order, all of them, and keepalives between. Needed because "in order" alone says
    nothing of what `take_sip_message` finds next.
  - `ServerIsHeard`: `Spec => []Reassembled`. `ServerInv` is an existence: some number `c` of the
    server's frames has been dealt with (`Relaying`), the buffer and the stream are
    the frames after `c` (`FramesAhead`, up to one too large to be decoded), the messages
    complete by `c` were handed over, and `frag` holds the fragments of the one that
    is open (`Delivery`). `Relayed` then says so of what sofia was given, and is kept
    when the server sends more (`RelayedStays`).
  - Both properties number messages by counting set elements (`Cardinality`), so that
    the proofs need no induction over sequences: one message or frame more adds one.
  - `WireReturns` proves `WireRoundTrip` from two theorems that say more than it.
    `AnyFrameReturns` is about `encode_frame` and `decode_frame`, for every length, limit
    and number of bytes that have arrived. `AnyMessageReturns` is about `rewrite_outbound`
    and `rewrite_inbound`, for messages of any number of headers that begin with sofia's
    Via (the run checks two): the first Via teaches the bridge sofia's address
    (`LearnsOwn`), and each line that is kept is undone by itself (`LineReturns`). The
    hypotheses are those of `SofiaLines`: sofia never says the token, and names the
    bridge's own port in a Route only.
- `WebRtcPhoneProofs`, for any handles, sessions, SDPs, tasks, failures and *all*
  overlaps (`Races`), from `ConstantsAssumption`, `WebRtcAssumption` and
  `FailingAssumption`. `MediaHasScreen` is `PhoneSpec => []SessionHasCall`; what
  `SessionHasCall` says at rest holds while events are queued as well (`MediaInv`), and is
  then inductive without a word about engine or tasks. `MicsStayQuiet` says that every session
  alive, also one only a task still holds, is silent while either of its own flags is
  set, whatever overlaps: the half of `MicFollowsButtons` that does not depend on the buttons.
  `WebRtcTypeCorrect` is `PhoneSpec => []WebRtcTypeOK`. The types of the window rest on what
  the engine's events carry (an SDP event names a leg, or the offer put aside would have
  none), and the bound on the tasks on the re-INVITE being reported alone
  (`ReinviteAlone`) and only while there is room.
  `AnyOfferAgrees` proves what `NegotiationAgrees` checks for offers of two formats for every
  offer of every length: `resolve_codec` is defined through the least index of a
  format we know, and that a non-empty set of naturals has one (`MinIsMember`) follows from
  `NatLessThanWellFounded`; no induction over the sequence is needed.
- `WebRtcPhoneProofs` then takes up one call and its media on a WebRTC account, for any
  handles, sessions, tasks and failures. `NoGlare` (`Env` has neither `bye_glare` nor
  `reinvite_fail`) and `OneAtATime` (`Races` has neither `stale` nor `crossed`) are the
  hypotheses; TLC refutes `MediaOfCall` as soon as any of the four is admitted.
  - The engine's half is `OneCall`: this phone has one leg, its primary call's, and
    the flags of glue.c say what it is. Each handler keeps it (`EngineKeeps`), reports SDP of
    no other leg, and lets media that was the call's remain the call's unless it reports
    the end of the call.
  - The window's half is `CallMedia`: session, kept offer and tasks are of the current leg,
    or the event that closes them is queued (`MediaIsOfCall`); an offer that gathers is alone
    (`OfferFirst`), and while a call rings the only task is its answer (`RingAlone`).
  - `MediaStaysWithCall` and the action property `OnlyTheAnswerAnswers` follow. The second is
    what `webrtc_autoanswer` refutes once a `stale` task may answer for a later call; of the
    other three hypotheses TLC shows no need, the argument goes through `OneCall`.
  - `MicIsTheButtons` needs `Races = {}` (`OneAfterOther`): every overlap breaks it. On top of
    `CallMedia` it takes that media has a call, a gathering offer or its end queued
    (`CallBehind`), and that a closed screen and one that rings have no button pressed
    (`ScreenSilent`).
- `SubsequenceProofs`: what `Where` keeps, in which order, and that nothing is doubled
  (`PickedElements`, `PickedRange`, `PickedAll`). `Nth` is pinned down by counting, so
  that none of it needs an induction over the sequence.
- `StoresProofs`, for any number of ids, calls and records kept, with and without the old
  settings, crashes and full disks, from `CallLogAssumption` and `StoresAssumption`. The
  invariant `StoresInv` has two halves that share no variable.
  - `FileInv`: each file lists entries with different ids, all given out before (`Listing`);
    there is one engine for an account at most, and only for ids given out (`EnginesOK`);
    the default is the selected one whenever it is registered and stored
    (`DefaultSelected`); dialog and bar show the files (`DialogOK`). `StoresTypeOK` alone
    is not inductive: it does not say that the quickdials' ids have been given out, so that
    a new one might be among them, nor that, with the old settings there, the accounts'
    file is whole between two starts (in `FilesOK`), so that a restart might need an id
    that is not left. There is one lemma per action; `StartedKeeps` is shown once, for
    whatever files a start finds (`Found`), and serves the restart and every crash.
  - `LogInv`: the log and its file are newest first, no record is later than the last call,
    Recents starts with the rows of the log, and, if the last save changed the file, what is
    newer in memory than a line of the file is in the file (`FileKeepsNewest`). That last
    one is why `RestartKeepsNewest` survives a full disk; a save that could not write at
    all is what its `logged` leaves out. The argument is the same for
    the bound on the log, the crash and the full disk: each leaves a head of one log
    that is newest first (`HeadOfLog`).
  - `StoresTypes`, `ScreensShowTheStores` and the action properties `AccountsBelongToUsers`,
    `DefaultOutlives` and `LogKeepsNewest` follow from `StoresInv`; the steps are grouped
    by what they touch (`EveryStep`), so that each property has five cases.

Every invariant, action property and refinement that a passing run checks is also
proved, some under hypotheses on `Env`, `Races` or the periods that the theorem names.
Only model-checked is the liveness (`AnswerConcludes`, `HangupEnds`, `TransferConcludes`,
`ReinviteAnswered`, `Recovers`, `ReachableAgain`, `SessionEnds`, `Flushed`): `ENABLED` and
fairness are out of TLAPS's reach. What `callable` and `display_name` make of a caller
is not proved about either; the theorems hold for whatever they return.

## 5. Known disagreements

Four runs show, each with a behaviour, where the code does not do what one of its comments says:

- glue.c 1079: a transfer target that declines with 603 leaves `transfer_in_progress` set
  (`transfer_refused`).
- window.rs 673: an event of another account while an engine is dropped borrows
  `active_engines` twice and aborts (`accounts_reentrant`).
- window.rs 1224: the answer to a call that is gone answers the next one
  (`webrtc_autoanswer`).
- window.rs 1191: a call hung up while its offer gathers candidates is dialled
  (`webrtc_hangup`).

Others came up in modelling. The configurations leave the behaviour out where it would
hide everything else, or the properties are stated around it:

- glue.c 1471 after window.rs 1042-1052: TRANSFER_OK closes the screen while `call_nh` still holds the
  transferred call. A dial then overwrites the handle: the old leg's BYE closes the new
  call's screen (1032), and the 200 to a hold re-INVITE that was under way marks the new
  call answered and plays to the old peer (989-1006), although 1009 says that there is
  "nothing else to do".
- glue.c 1672: a second consultation, also one right after Cancel, drops the first one's
  handle without BYE or CANCEL; no Hang up reaches that leg any more (1566: "so it cannot
  orphan"), and its BYE ends the primary call.
- glue.c 1012: a refused hold re-INVITE is handled as a refused call: the screen closes and the
  handle of a dialog that is up is released. A challenged one (1010) is dialled anew. Of a
  hold that fails on our side window.rs 350 says that it "is not worth dropping a live call
  over".
- glue.c 253, 1014 and 1098-1105: a refusal and `nua_i_error` leave the RTP address of the call they end,
  and a next call whose messages carry no SDP after an error streams to that peer
  (`MediaOfPrimary` fails with `sdp_less` and `error`).
- glue.c 943: a consultation whose 200 crosses our CANCEL shows its buttons again, and Complete
  transfer then names a dialog that is ending or over (`TransferReplacesConsultation` fails with
  `cancel_race`).
- glue.c 807, 1424: "exactly once per REGISTER cycle" is once per keepalive. A registrar that
  refuses the credentials and answers each request later than the next keepalive is given
  them again for ever, with no REGISTER_FAIL; the 180 s reconnect then starts over, and if a
  call is up at every keepalive not even that happens (the premise of `ReachableAgain`).
- glue.c 1037: the primary's BYE during a transfer spares the consultation; if the
  transfer then fails, nobody ends it.
- glue.c 864: a re-INVITE on the consultation, once the primary is gone, rings as a
  new call.
- glue.c 865-869: a re-INVITE without SDP on a WebRTC account is never answered.
- window.rs 423, audio.rs 12-13: a consultation puts the call on hold in `glue.c` but does not
  silence its microphone; `HoldSilencesMic` speaks of calls without a consultation.
- glue.c 1077, window.rs 1042: the outcome of an earlier call's REFER closes the screen of the
  next call (the exception in `OnlyOwnLegEndsCall`).
- window.rs 599, 1177: when an outgoing WebRTC call fails before there is an INVITE, the
  screen stays open without a call (`Races` "stuck").
- window.rs 343: Hold before the answer renegotiates a call that is not up; Answer may be
  clicked twice and then answers twice.
- webrtc.rs 217-220: `peer_is_recvonly` skips the send chain for the one peer that only
  wants to receive.
- wsbridge.rs 72-73 says that dropping the bridge "cancels all in-flight I/O and closes the
  listener"; no read is given the `Cancellable` (127), so that a session in a read, or an
  accept, sees it only after its next bytes or connection. Also: messages before a CLOSE or an end of file may be
  lost; what the *server* writes into a message that looks like the bridge's token comes
  back as sofia's address, and after a reconnect the old token is nobody's.
- call_log.rs 121-125: `callable` slices between the first `<` and the first `>` and
  panics when they come the other way round (`CallLogAssumption` excludes it). A name with `|` is
  unreadable after a restart.
- accounts.rs: a file that a crash tears is overwritten by the old single-account settings
  (122-135, 160), the one step `AccountsAreUsers` leaves out;
  `migrate_embedded_port` cuts a bare IPv6 address at its last colon (144); a new account has
  port 0.
- window.rs 475: the "one-time" migration of the old password runs at every start.
- settings_dialog.rs: a crash between the two writes of a deletion leaves the password
  behind (325-326); Save does not reconnect an account that registered after the dialog
  opened (392); moving a quickdial discards unsaved edits in the rows (555).
- application.rs 22-42: quitting during a call loses its record. window.rs 694:
  `reconnect_all` leaves the selector as it was.

## 6. Not modelled

- *Calls on two accounts at a time* (window.rs 952, 1006): the composed phones have one
  engine with calls, `Accounts` has several engines but no legs. `active_account_id`
  is then overwritten and the end of either call closes the screen; a model would
  need a second `SipGlue` and be mostly about that known defect.
- *Plain-RTP mute*, which is a flag beside `on_hold` as in `WebrtcSession`; *DTMF*; the ringer;
  the dialpad; transfer entry and labels: widgets and output.
- *Directions of renegotiated offers* and everything else webrtcbin writes into an SDP:
  the library's, kept as success or failure. Hence also the order in which two hold
  re-INVITEs go out (window.rs 349).
- *The bridge's* TLS set-up, the handshake's hash and header syntax, SHA-1 and Base64, and
  further sessions of `accept_loop`, which start from a fresh state except for the token.
- *Wrapper*: parsing of the aux strings, error texts. *Accounts*: accounts without a server name
  in `Accounts` (`Stores` has them), toasts, and `sofia_unregister`, which nothing calls.
- *The log*: a line that cannot be written while a later one can (call_log.rs 61 ignores
  each error by itself).
- *A full disk* for the JSON files (a crash tears them instead), failures of the Secret
  Service, and two instances of the program (GApplication allows one).
- *Transfers on a WebRTC account*: they use no session and are `SoftPhone`'s; the window
  refuses a consultation there.
- *In `Stores`*, the test of `connect_account` for an account that already has an engine (window.rs
  609-616): every caller has dropped that engine first (`Without` in `connect_account_by_id`).
- *Packaging and data*: nothing happens in them at run time.
