------------------------------ MODULE Accounts ------------------------------
(***************************************************************************)
(* The accounts half of src/src/window.rs: active_engines, the status      *)
(* banner, the 40 s keepalive with its full reconnect, the network monitor *)
(* and the settings signals, over the contexts of Registration.  Of a call *)
(* only the account that has it is modelled.                               *)
(*                                                                         *)
(* Dropping a SipEngine runs sofia_ctx_destroy, which iterates the main    *)
(* loop until sofia-sip has shut down, all inside active_engines'          *)
(* borrow_mut().  `pumping' names the engine being destroyed that way.     *)
(***************************************************************************)
EXTENDS Registration

CONSTANTS
    NoAccount,
    KeepalivePeriod,  \* 40 s
    StaleAfter,       \* 180 s
    MaxDead           \* bound: starts that fail

ASSUME PeriodAssumption ==
    KeepalivePeriod \in Nat \ {0} /\ StaleAfter \in Nat /\ MaxDead \in Nat
ASSUME NoAccountAssumption == NoAccount \notin Account

VARIABLES
    stored,      \* accounts in accounts.json
    engines,     \* accounts with an entry in active_engines
    status,      \* of the entry: what the window was last told, "new" for nothing
    age,         \* keepalives since its last_register_ok
    banner,      \* status_banner: "hidden", "registering" or "failed" (Reconnect)
    active,      \* active_account_id
    in_call,     \* accounts whose context has a call
    pumping,     \* the engine whose destructor iterates the main loop
    doomed,      \* engines destroyed after it by the same clear()
    reconnect,   \* accounts that connect once they are gone
    stale,       \* ids the keepalive's loop has not come to
    dead,        \* starts that failed
    aborted      \* a RefCell was borrowed twice

windowVars == <<stored, engines, status, age, banner, dead>>
callStateVars == <<active, in_call>>
dropVars == <<pumping, doomed, reconnect, stale, aborted>>
accountsVars == <<regVars, windowVars, callStateVars, dropVars>>

\* Bound: keepalives counted since last_register_ok; more make no difference.
MaxAge == StaleAfter \div KeepalivePeriod + 2

\* Mutant of MayBeStale: the 30 s of the network monitor's debounce.
MayBeStaleSoon(k) == k * KeepalivePeriod > 30

\* With k keepalives since last_register_ok, more than k-1 and at most k periods have
\* passed at a keepalive.
MayBeStale(k) == k * KeepalivePeriod > StaleAfter
MustBeStale(k) == k > 0 /\ (k - 1) * KeepalivePeriod >= StaleAfter

AccountsTypeOK ==
    /\ RegTypeOK
    /\ stored \subseteq Account /\ engines \subseteq Account
    /\ status \in [Account -> {"new", "ok", "failed"}]
    /\ age \in [Account -> 0 .. MaxAge]
    /\ banner \in {"hidden", "registering", "failed"}
    /\ active \in Account \cup {NoAccount} /\ in_call \subseteq live
    /\ pumping \in live \cup {NoAccount}
    /\ doomed \subseteq live /\ reconnect \subseteq Account /\ stale \subseteq Account
    /\ dead \in 0 .. MaxDead /\ aborted \in BOOLEAN

\* Start-up: the accounts that register then.
AccountsInit ==
    \E S \in SUBSET Account :
        /\ RegInit(S)
        /\ stored = Account /\ engines = S
        /\ status = [a \in Account |-> "new"] /\ age = [a \in Account |-> 0]
        /\ banner = IF S = {} THEN "hidden" ELSE "registering"
        /\ active = NoAccount /\ in_call = {}
        /\ pumping = NoAccount /\ doomed = {} /\ reconnect = {} /\ stale = {}
        /\ dead = 0 /\ aborted = FALSE

\* Nothing borrows active_engines and the main loop is free to dispatch.
AtMainLoop == pumping = NoAccount /\ stale = {} /\ ~aborted

-----------------------------------------------------------------------------
(***************************************************************************)
(* connect_account for the accounts in C without an entry, once the        *)
(* engines in `gone' are destroyed and the entries in `rest' are left.  An *)
(* engine that does not start reports RegistrationFailed before it has an  *)
(* entry, and gets one all the same.                                       *)
(***************************************************************************)
Connect(gone, rest, C) ==
    LET new == C \ rest IN
    \E D \in SUBSET new :
        /\ IF D = {} THEN UNCHANGED <<dead, banner>>
           ELSE "dead" \in Env /\ dead < MaxDead /\ dead' = dead + 1 /\ banner' = "failed"
        /\ SofiaReplace(gone, new \ D)
        /\ engines' = rest \cup new
        /\ status' = On(On(status, new, "new"), D, "failed")
        /\ age' = On(age, new, 0)

\* active_engines loses the entries in D, then the accounts in C connect.  The
\* destructor of an engine that never started does not iterate the main loop.
Drop(D, C) ==
    /\ IF D \cap live = {}
       THEN Connect({}, engines \ D, C) /\ UNCHANGED <<pumping, doomed, reconnect>>
       ELSE /\ engines' = engines \ D
            /\ status' = On(status, D, "new") /\ age' = On(age, D, 0)
            /\ \E a \in D \cap live : pumping' = a /\ doomed' = (D \cap live) \ {a}
            /\ reconnect' = C
            /\ UNCHANGED <<regVars, dead, banner>>
    /\ UNCHANGED <<callStateVars, aborted>>

\* Mutant of CallDies: the call goes on.
CallStays == UNCHANGED in_call

\* The handles of a call go with their context, without a CALL_ENDED.
CallDies == in_call' = in_call \ {pumping}

\* nua_r_shutdown, or the 2 s are over: what is left of sofia_ctx_destroy and of the
\* handler that dropped the engine.
ShutdownDone ==
    /\ pumping # NoAccount /\ ~aborted
    /\ CallDies
    /\ IF doomed = {}
       THEN /\ Connect({pumping}, engines, reconnect)
            /\ pumping' = NoAccount /\ reconnect' = {} /\ UNCHANGED doomed
       ELSE /\ SofiaReplace({pumping}, {})
            /\ pumping' \in doomed /\ doomed' = doomed \ {pumping'}
            /\ UNCHANGED <<reconnect, engines, status, age, banner, dead>>
    /\ UNCHANGED <<stored, active, stale, aborted>>

\* connect_account_by_id
ConnectById(a) == Drop({a} \cap engines, {a} \cap stored)

-----------------------------------------------------------------------------
(***************************************************************************)
(* handle_sip_event.  sofia-sip reports nothing of the context that shuts  *)
(* down; what it reports of the others while a destructor iterates the     *)
(* main loop finds active_engines borrowed, and a panic in a callback of C *)
(* aborts the program.                                                     *)
(***************************************************************************)
Dispatched(a) == ~aborted /\ a # pumping /\ (pumping # NoAccount \/ stale = {})

ToWindow(a) == Dispatched(a) /\ (pumping = NoAccount \/ "reenter" \in Env)

Borrows == aborted' = (pumping # NoAccount)

\* Mutant of AllRegistered: any for all.
AnyRegistered == \E a \in engines : status'[a] = "ok"

AllRegistered == \A a \in engines : status'[a] = "ok"

OnRegistered(a) ==
    /\ Borrows
    /\ IF aborted' THEN UNCHANGED windowVars
       ELSE /\ status' = [status EXCEPT ![a] = "ok"]
            /\ age' = [age EXCEPT ![a] = 0]
            /\ banner' = IF AllRegistered THEN "hidden" ELSE banner
            /\ UNCHANGED <<stored, engines, dead>>

OnRegistrationFailed(a) ==
    /\ Borrows
    /\ IF aborted' THEN UNCHANGED windowVars
       ELSE /\ status' = [status EXCEPT ![a] = "failed"]
            /\ banner' = "failed"
            /\ UNCHANGED <<stored, engines, age, dead>>

EventFrame == UNCHANGED <<callStateVars, pumping, doomed, reconnect, stale>>

Registered(a) == ToWindow(a) /\ RRegisterOk(a) /\ OnRegistered(a) /\ EventFrame
RegistrationFailed(a) ==
    ToWindow(a) /\ RRegisterFail(a) /\ OnRegistrationFailed(a) /\ EventFrame

\* Answers the window hears nothing of.
QuietAnswer(a) ==
    /\ Dispatched(a)
    /\ RUnregisterChallenge(a) \/ RUnregisterDone(a) \/ RRegisterChallenge(a)
    /\ UNCHANGED <<windowVars, callStateVars, dropVars>>

Answer(a) == Registered(a) \/ RegistrationFailed(a) \/ QuietAnswer(a)

-----------------------------------------------------------------------------
(***************************************************************************)
(* Calls, one at a time.                                                   *)
(***************************************************************************)
IncomingCall(a) ==
    /\ ToWindow(a) /\ a \in live /\ in_call = {}
    /\ in_call' = {a} /\ Borrows
    /\ active' = IF aborted' THEN active ELSE a
    /\ UNCHANGED <<regVars, windowVars, pumping, doomed, reconnect, stale>>

\* start_call on a registered account; the call screen covers the dialpad.
StartCall(a) ==
    /\ AtMainLoop /\ active = NoAccount /\ in_call = {}
    /\ a \in engines /\ status[a] = "ok"
    /\ active' = a /\ in_call' = {a}
    /\ UNCHANGED <<regVars, windowVars, dropVars>>

\* CallEnded and CallFailed do not borrow active_engines.
CallOver(a) ==
    /\ Dispatched(a) /\ a \in in_call
    /\ active' = NoAccount /\ in_call' = {}
    /\ UNCHANGED <<regVars, windowVars, dropVars>>

-----------------------------------------------------------------------------
(***************************************************************************)
(* The keepalive, the network monitor and the user.                        *)
(***************************************************************************)
\* Mutant of StaleSets: no look at active_account_id.
StaleSetsInCall ==
    {S \in SUBSET {a \in engines : MayBeStale(age'[a])} :
        {a \in engines : MustBeStale(age'[a])} \subseteq S}

\* Mutant of StaleSets: the refresh only.
StaleSetsNever == {{}}

\* The entries that get a full reconnect: none during a call.
StaleSets ==
    IF active # NoAccount THEN {{}}
    ELSE {S \in SUBSET {a \in engines : MayBeStale(age'[a])} :
              {a \in engines : MustBeStale(age'[a])} \subseteq S}

Keepalive ==
    /\ AtMainLoop /\ engines # {}
    /\ AnsweredInTime
    /\ SofiaReregister(live)
    /\ age' = [a \in Account |->
           IF a \in engines /\ age[a] < MaxAge THEN age[a] + 1 ELSE age[a]]
    /\ stale' \in StaleSets
    /\ UNCHANGED <<stored, engines, status, banner, dead, callStateVars,
                   pumping, doomed, reconnect, aborted>>

\* The keepalive's loop over the stale ids.
ReconnectStale ==
    /\ pumping = NoAccount /\ ~aborted
    /\ \E a \in stale : stale' = stale \ {a} /\ ConnectById(a)
    /\ UNCHANGED stored

ReconnectAll == Drop(engines, engines \cap stored) /\ UNCHANGED <<stored, stale>>

\* The 30 s debounce is finer than the keepalives that measure time here: an age
\* of any number of keepalives may be 30 s or more.
NetworkChanged ==
    /\ "network" \in Env /\ AtMainLoop
    /\ active = NoAccount /\ engines # {}
    /\ ReconnectAll

\* The user's hands: the settings dialog may still be open when a call arrives.
UserFree == "user" \in Env /\ AtMainLoop /\ ("teardown" \in Env \/ active = NoAccount)

\* The account's switch is turned on, or its settings are saved while it is on.
UserConnects(a) == UserFree /\ a \in stored /\ ConnectById(a) /\ UNCHANGED <<stored, stale>>

UserDisconnects(a) ==
    UserFree /\ a \in engines /\ Drop({a}, {}) /\ UNCHANGED <<stored, stale>>

UserRemoves(a) ==
    /\ UserFree /\ a \in stored
    /\ stored' = stored \ {a} /\ Drop({a} \cap engines, {})
    /\ UNCHANGED stale

\* The banner's Reconnect button.
UserReconnects == UserFree /\ banner = "failed" /\ ReconnectAll

UserReconfigures ==
    \/ UserReconnects
    \/ \E a \in Account : UserConnects(a) \/ UserDisconnects(a) \/ UserRemoves(a)

\* The registrar on its own.
Surroundings ==
    /\ ~aborted
    /\ ServerChanges \/ RegistrarForgets \/ \E a \in Account : LateCleanup(a)
    /\ UNCHANGED <<windowVars, callStateVars, dropVars>>

-----------------------------------------------------------------------------
AccountsNext ==
    \/ \E a \in Account :
          Registered(a) \/ RegistrationFailed(a) \/ QuietAnswer(a)
              \/ IncomingCall(a) \/ StartCall(a) \/ CallOver(a)
    \/ ShutdownDone \/ Keepalive \/ ReconnectStale \/ NetworkChanged
    \/ UserReconfigures \/ Surroundings

AccountsSpec == AccountsInit /\ [][AccountsNext]_accountsVars

\* Every request is answered, if only by its timeout; the timer fires and its loop
\* goes on; a destructor ends after 2 s; calls end.
FairAccountsSpec ==
    /\ AccountsSpec
    /\ \A a \in Account : WF_accountsVars(Answer(a)) /\ WF_accountsVars(CallOver(a))
    /\ WF_accountsVars(Keepalive) /\ WF_accountsVars(ReconnectStale)
    /\ WF_accountsVars(ShutdownDone)

-----------------------------------------------------------------------------
(***************************************************************************)
(* Properties.                                                             *)
(***************************************************************************)
\* glue.c 847-848: the first challenge to a request is never mistaken for a second:
\* reg_auth_tried is set only while the request on the wire carries credentials.
FirstChallengeAnswered ==
    \A a \in reg_auth_tried : request[a] # "none" /\ a \in presented

\* An account shown as registered is one whose clean-up is over and whose Contact
\* the registrar has: the clean-up of its own context never comes after its REGISTER.
RegisteredIsBound ==
    \A a \in engines : status[a] = "ok" => a \notin cleanup_pending /\ a \in bound

\* window.rs 891: a failure stays visible until every engine is registered.
FailureStaysVisible == \A a \in engines : status[a] = "failed" => banner = "failed"

\* window.rs 512-520 and 719-723: only the user tears down the engine that has the
\* call; the keepalive and the network monitor never do.
CallKeepsEngine ==
    [][(active \in engines /\ active \in in_call /\ active \notin engines')
           => UserReconfigures]_accountsVars

\* window.rs 552-559: no handler borrows active_engines while it is borrowed.
NoDoubleBorrow == ~aborted

\* window.rs 718: the full reconnect is for an engine that has not confirmed in 180 s.
\* An engine the window has heard nothing of yet is reconnected only if the registrar
\* challenged more than the start-up's two requests: with 40 s between the keepalives
\* and an answer to each request between two of them, the clean-up, the REGISTER and one
\* challenge to each are over before the 180 s are.
StaleIsSettled == ~aborted => \A a \in stale : status[a] = "new" => asked[a] > 2

\* glue.c 807-809: credentials that are refused are not presented in a loop.  The flag
\* that stops it is reset by every keepalive, so what holds is its pace: besides one
\* digest answer for the clean-up and one for the REGISTER, an engine gives at most one
\* for each keepalive since the last REGISTER_OK.
DigestIsPaced == \A a \in engines : age[a] < MaxAge => asked[a] <= age[a] + 2

\* Once the registrar stays up and nobody reconfigures any more, every account that
\* is connected stays registered, also one whose engine did not start or whose
\* REGISTER was refused: the keepalive and its full reconnect bring it back and the
\* reconnect never chases a registration that is about to succeed.
Recovers ==
    <>[](server = "up") /\ <>[][~(UserReconfigures \/ NetworkChanged)]_accountsVars
        => \A a \in Account : <>[](a \in engines => status[a] = "ok")

\* A registered account the registrar forgot is registered again by the keepalive, or
\* shown as failed, or reconnected: unless the registrar goes on refusing its credentials
\* so slowly that every keepalive resets reg_auth_tried before the second challenge comes
\* (glue.c 1424), and a call at every keepalive holds the full reconnect back.
ReachableAgain ==
    \/ <>[](server # "refusing")
    \/ []<><<Keepalive /\ active = NoAccount>>_accountsVars
    => \A a \in Account : (status[a] = "ok" /\ a \notin bound)
                              ~> (status[a] # "ok" \/ a \in bound)
=============================================================================
