--------------------------- MODULE AccountsProofs ---------------------------
(***************************************************************************)
(* The accounts of the phone, for any set of accounts, any bounds and      *)
(* whatever the surroundings may do (Env).  Two invariants carry the       *)
(* proofs: the flags of a context agree with the request on the wire       *)
(* (Wire), and every context belongs to an entry of active_engines or to a *)
(* destructor that runs (Ownership).                                       *)
(***************************************************************************)
EXTENDS Accounts, TLAPS

\* The clean-up is on the wire exactly while cleanup_pending; a flag that forbids a
\* digest answer finds one given.
Wire ==
    /\ \A a \in live : (request[a] = "unregister") <=> (a \in cleanup_pending)
    /\ FirstChallengeAnswered

\* Contexts being destroyed have no entry any more; the others have one.
Ownership ==
    /\ live \subseteq engines \cup doomed \cup {pumping}
    /\ engines \cap (doomed \cup {pumping}) = {} /\ pumping \notin doomed
    /\ pumping = NoAccount => doomed = {}

\* The keepalive's loop runs between calls only.
LoopIsIdle == stale # {} => active = NoAccount

\* No entry is shown as registered before its clean-up is over.
RegisteredIsClean ==
    \A a \in engines : status[a] = "ok" => a \in live /\ a \notin cleanup_pending

AccountsInv ==
    /\ AccountsTypeOK /\ Wire /\ Ownership
    /\ LoopIsIdle /\ RegisteredIsClean /\ FailureStaysVisible

-----------------------------------------------------------------------------
\* Destroying and creating contexts.
LEMMA ReplaceKeeps ==
    ASSUME RegTypeOK, Wire, NEW gone \in SUBSET Account, NEW fresh \in SUBSET Account,
           SofiaReplace(gone, fresh)
    PROVE  RegTypeOK' /\ Wire'
BY BoundAssumption DEF SofiaReplace, On, RegTypeOK, Wire, FirstChallengeAnswered

\* The refresh resets reg_auth_tried while a challenged request may be on the wire.
LEMMA ReregisterKeeps ==
    ASSUME RegTypeOK, Wire, SofiaReregister(live)
    PROVE  RegTypeOK' /\ Wire'
BY BoundAssumption
   DEF SofiaReregister, On, RegTypeOK, Wire, FirstChallengeAnswered, registrarVars

\* A challenge that is answered.
LEMMA ChallengeKeeps ==
    ASSUME RegTypeOK, Wire, NEW a \in live, a \notin reg_auth_tried, request[a] # "none",
           Authenticate(a)
    PROVE  RegTypeOK' /\ Wire'
BY BoundAssumption
   DEF Authenticate, RegTypeOK, Wire, FirstChallengeAnswered, registrarVars

\* The end of the start-up clean-up.
LEMMA CleanupKeeps ==
    ASSUME RegTypeOK, Wire, NEW a \in Account, RUnregisterDone(a)
    PROVE  RegTypeOK' /\ Wire'
BY BoundAssumption
   DEF RUnregisterDone, OnWire, Concluded, RegTypeOK, Wire, FirstChallengeAnswered

\* The end of a REGISTER.
LEMMA RegisterKeeps ==
    ASSUME RegTypeOK, Wire, NEW a \in Account, RRegisterOk(a) \/ RRegisterFail(a)
    PROVE  RegTypeOK' /\ Wire'
BY BoundAssumption
   DEF RRegisterOk, RRegisterFail, OnWire, NextInQueue, Concluded, RegTypeOK, Wire,
       FirstChallengeAnswered

\* What the registrar does on its own.
LEMMA SurroundingsKeep ==
    ASSUME RegTypeOK, Wire, Surroundings
    PROVE  RegTypeOK' /\ Wire'
BY DEF Surroundings, ServerChanges, RegistrarForgets, LateCleanup, RegTypeOK, Wire,
       FirstChallengeAnswered, flagVars, queueVars

-----------------------------------------------------------------------------
\* What is left of the window when a handler that drops engines has ended.
Settled ==
    /\ engines \subseteq Account /\ live \subseteq engines
    /\ status \in [Account -> {"new", "ok", "failed"}]
    /\ age \in [Account -> 0 .. MaxAge]
    /\ banner \in {"hidden", "registering", "failed"}
    /\ dead \in 0 .. MaxDead

\* The accounts that connect after a drop start with a clean-up, or failed in sight.
LEMMA ConnectKeeps ==
    ASSUME AccountsTypeOK, Wire, RegisteredIsClean, FailureStaysVisible,
           NEW gone \in SUBSET Account, NEW rest \in SUBSET engines, NEW C \in SUBSET Account,
           gone \cap rest = {}, live \subseteq rest \cup gone,
           Connect(gone, rest, C)
    PROVE  RegTypeOK' /\ Wire' /\ Settled' /\ RegisteredIsClean' /\ FailureStaysVisible'
<1> DEFINE new == C \ rest
<1>1. PICK D \in SUBSET new :
          /\ IF D = {} THEN UNCHANGED <<dead, banner>>
             ELSE "dead" \in Env /\ dead < MaxDead /\ dead' = dead + 1 /\ banner' = "failed"
          /\ SofiaReplace(gone, new \ D)
          /\ engines' = rest \cup new
          /\ status' = On(On(status, new, "new"), D, "failed")
          /\ age' = On(age, new, 0)
  BY DEF Connect
<1>2. RegTypeOK' /\ Wire'
  BY <1>1, ReplaceKeeps DEF AccountsTypeOK
<1>3. live' = (live \ gone) \cup (new \ D)
      /\ cleanup_pending' = (cleanup_pending \ gone) \cup (new \ D)
  BY <1>1 DEF SofiaReplace
<1>4. MaxAge \in Nat
  BY PeriodAssumption DEF MaxAge
<1>5. status' \in [Account -> {"new", "ok", "failed"}] /\ age' \in [Account -> 0 .. MaxAge]
  BY <1>1, <1>4 DEF On, AccountsTypeOK
<1>6. Settled'
  <2>1. engines' \subseteq Account /\ live' \subseteq engines'
    BY <1>1, <1>3 DEF AccountsTypeOK
  <2>2. banner' \in {"hidden", "registering", "failed"} /\ dead' \in 0 .. MaxDead
    BY <1>1, PeriodAssumption DEF AccountsTypeOK
  <2> QED BY <1>5, <2>1, <2>2 DEF Settled, MaxAge
<1>7. \A a \in engines' : /\ a \in D => status'[a] = "failed"
                          /\ a \in new \ D => status'[a] = "new"
                          /\ a \notin new => a \in rest /\ status'[a] = status[a]
  BY <1>1 DEF On, AccountsTypeOK
<1>8. RegisteredIsClean'
  <2> SUFFICES ASSUME NEW a \in engines', status'[a] = "ok"
               PROVE  a \in live' /\ a \notin cleanup_pending'
    BY DEF RegisteredIsClean
  <2>1. a \in rest /\ a \notin new /\ status[a] = "ok"
    BY <1>7
  <2>2. a \in live /\ a \notin cleanup_pending
    BY <2>1 DEF RegisteredIsClean
  <2> QED BY <1>3, <2>1, <2>2
<1>9. FailureStaysVisible'
  <2> SUFFICES ASSUME NEW a \in engines', status'[a] = "failed"
               PROVE  banner' = "failed"
    BY DEF FailureStaysVisible
  <2>1. CASE D = {}
    BY <1>1, <1>7, <2>1 DEF FailureStaysVisible
  <2>2. CASE D # {}
    BY <1>1, <2>2
  <2> QED BY <2>1, <2>2
<1> QED BY <1>2, <1>6, <1>8, <1>9

\* Between two handlers every context has an entry.
LEMMA NoneDropped ==
    ASSUME AccountsInv, pumping = NoAccount
    PROVE  live \subseteq engines /\ doomed = {}
BY NoAccountAssumption DEF AccountsInv, Ownership, AccountsTypeOK, RegTypeOK

\* A handler of the window that drops engines, up to the first destructor.
LEMMA DropKeeps ==
    ASSUME AccountsInv, pumping = NoAccount,
           NEW D \in SUBSET engines, NEW C \in SUBSET Account, Drop(D, C),
           stored' \subseteq Account, stale' \subseteq stale
    PROVE  AccountsInv'
<1>0. live \subseteq engines /\ doomed = {} /\ MaxAge \in Nat
  BY NoneDropped, PeriodAssumption DEF MaxAge
<1>1. UNCHANGED <<active, in_call, aborted>>
  BY DEF Drop, callStateVars
<1>2. LoopIsIdle'
  BY <1>1 DEF LoopIsIdle, AccountsInv
<1>3. CASE D \cap live = {}
  <2>1. Connect({}, engines \ D, C) /\ UNCHANGED <<pumping, doomed, reconnect>>
    BY <1>3 DEF Drop
  <2>2. RegTypeOK' /\ Wire' /\ Settled' /\ RegisteredIsClean' /\ FailureStaysVisible'
    BY <1>0, <1>3, <2>1, ConnectKeeps DEF AccountsInv
  <2>3. in_call' \subseteq live'
    BY <1>1, <2>1 DEF Connect, SofiaReplace, AccountsInv, AccountsTypeOK
  <2>4. AccountsTypeOK'
    BY <1>0, <1>1, <2>1, <2>2, <2>3 DEF AccountsInv, AccountsTypeOK, Settled, MaxAge
  <2>5. Ownership'
    BY <1>0, <2>1, <2>2, NoAccountAssumption DEF Ownership, Settled
  <2> QED BY <1>2, <2>2, <2>4, <2>5 DEF AccountsInv
<1>4. CASE D \cap live # {}
  <2>1. /\ engines' = engines \ D
        /\ status' = On(status, D, "new") /\ age' = On(age, D, 0)
        /\ reconnect' = C
        /\ UNCHANGED <<regVars, dead, banner>>
    BY <1>4 DEF Drop
  <2>2. PICK a \in D \cap live : pumping' = a /\ doomed' = (D \cap live) \ {a}
    BY <1>4 DEF Drop
  <2>3. RegTypeOK' /\ Wire'
    BY <2>1 DEF AccountsInv, AccountsTypeOK, RegTypeOK, Wire, FirstChallengeAnswered,
                regVars, flagVars, queueVars, registrarVars
  <2>4. \A b \in engines' : status'[b] = status[b]
    BY <2>1 DEF On, AccountsInv, AccountsTypeOK
  <2>5. RegisteredIsClean' /\ FailureStaysVisible'
    BY <2>1, <2>4 DEF AccountsInv, RegisteredIsClean, FailureStaysVisible, regVars, flagVars
  <2>6. status' \in [Account -> {"new", "ok", "failed"}] /\ age' \in [Account -> 0 .. MaxAge]
    BY <1>0, <2>1 DEF On, AccountsInv, AccountsTypeOK
  <2>7. AccountsTypeOK'
    BY <1>0, <1>1, <2>1, <2>2, <2>3, <2>6 DEF AccountsInv, AccountsTypeOK, regVars
  <2>8. Ownership'
    BY <1>0, <2>1, <2>2, NoAccountAssumption DEF Ownership, AccountsInv, AccountsTypeOK,
                                                  RegTypeOK, regVars
  <2> QED BY <1>2, <2>3, <2>5, <2>7, <2>8 DEF AccountsInv
<1> QED BY <1>3, <1>4

\* The end of a destructor: the next one runs, or the handler goes on and connects.
LEMMA ShutdownKeeps ==
    ASSUME AccountsInv, ShutdownDone
    PROVE  AccountsInv'
<1>0. pumping \in live /\ pumping \notin engines /\ UNCHANGED <<stored, active, stale, aborted>>
      /\ in_call' = in_call \ {pumping} /\ live \subseteq Account /\ engines \subseteq Account
  BY DEF ShutdownDone, CallDies, AccountsInv, AccountsTypeOK, RegTypeOK, Ownership
<1>1. LoopIsIdle'
  BY <1>0 DEF LoopIsIdle, AccountsInv
<1>2. CASE doomed = {}
  <2>1. /\ Connect({pumping}, engines, reconnect)
        /\ pumping' = NoAccount /\ reconnect' = {} /\ UNCHANGED doomed
    BY <1>2 DEF ShutdownDone
  <2>2. live \subseteq engines \cup {pumping}
    BY <1>2 DEF AccountsInv, Ownership
  <2>3. RegTypeOK' /\ Wire' /\ Settled' /\ RegisteredIsClean' /\ FailureStaysVisible'
    BY <1>0, <2>1, <2>2, ConnectKeeps DEF AccountsInv, AccountsTypeOK
  <2>4. in_call' \subseteq live'
    BY <1>0, <2>1 DEF Connect, SofiaReplace, AccountsInv, AccountsTypeOK
  <2>5. AccountsTypeOK'
    BY <1>0, <1>2, <2>1, <2>3, <2>4 DEF AccountsInv, AccountsTypeOK, Settled, MaxAge
  <2>6. Ownership'
    BY <1>2, <2>1, <2>3, NoAccountAssumption DEF Ownership, Settled
  <2> QED BY <1>1, <2>3, <2>5, <2>6 DEF AccountsInv
<1>3. CASE doomed # {}
  <2>1. /\ SofiaReplace({pumping}, {})
        /\ pumping' \in doomed /\ doomed' = doomed \ {pumping'}
        /\ UNCHANGED <<reconnect, engines, status, age, banner, dead>>
    BY <1>3 DEF ShutdownDone
  <2>2. RegTypeOK' /\ Wire'
    BY <1>0, <2>1, ReplaceKeeps DEF AccountsInv, AccountsTypeOK
  <2>3. live' = live \ {pumping} /\ cleanup_pending' = cleanup_pending \ {pumping}
    BY <2>1 DEF SofiaReplace
  <2>4. pumping' # pumping /\ doomed \subseteq live
    BY <2>1 DEF AccountsInv, AccountsTypeOK, Ownership, ShutdownDone
  <2> QED
    <3>1. AccountsTypeOK'
      <4>1. in_call' \subseteq live' /\ doomed' \subseteq live' /\ pumping' \in live'
        BY <1>0, <2>1, <2>3, <2>4 DEF AccountsInv, AccountsTypeOK, Ownership
      <4> QED BY <1>0, <2>1, <2>2, <4>1 DEF AccountsInv, AccountsTypeOK, MaxAge
    <3>2. Ownership'
      BY <1>0, <2>1, <2>3, NoAccountAssumption DEF AccountsInv, AccountsTypeOK, Ownership
    <3>3. RegisteredIsClean' /\ FailureStaysVisible'
      BY <1>0, <2>1, <2>3 DEF AccountsInv, RegisteredIsClean, FailureStaysVisible
    <3> QED BY <1>1, <2>2, <3>1, <3>2, <3>3 DEF AccountsInv
<1> QED BY <1>2, <1>3

\* An answer the window hears of: it names an account that has an entry, or the
\* program aborts.
LEMMA EventKeeps ==
    ASSUME AccountsInv, NEW a \in Account, Registered(a) \/ RegistrationFailed(a)
    PROVE  AccountsInv'
<1>1. RegTypeOK' /\ Wire'
  BY RegisterKeeps DEF Registered, RegistrationFailed, AccountsInv, AccountsTypeOK
<1>2. /\ UNCHANGED <<live, cleanup_pending, active, in_call, pumping, doomed, reconnect, stale>>
      /\ a \in live /\ a \notin cleanup_pending /\ aborted' \in BOOLEAN
      /\ UNCHANGED <<stored, engines, dead>>
  BY DEF Registered, RegistrationFailed, RRegisterOk, RRegisterFail, Concluded, OnWire,
         EventFrame, callStateVars, OnRegistered, OnRegistrationFailed, Borrows, windowVars,
         AccountsInv, Wire
<1>3. /\ status' \in [Account -> {"new", "ok", "failed"}] /\ age' \in [Account -> 0 .. MaxAge]
      /\ banner' \in {"hidden", "registering", "failed"}
      /\ \A b \in engines : status'[b] = "ok" => b = a \/ status[b] = "ok"
      /\ FailureStaysVisible'
  <2>1. CASE UNCHANGED windowVars
    BY <2>1 DEF windowVars, AccountsInv, AccountsTypeOK, FailureStaysVisible, MaxAge
  <2>2. CASE /\ status' = [status EXCEPT ![a] = "ok"] /\ age' = [age EXCEPT ![a] = 0]
             /\ banner' = IF AllRegistered THEN "hidden" ELSE banner
    BY <1>2, <2>2, PeriodAssumption
       DEF AllRegistered, AccountsInv, AccountsTypeOK, FailureStaysVisible, MaxAge
  <2>3. CASE /\ status' = [status EXCEPT ![a] = "failed"] /\ banner' = "failed"
             /\ UNCHANGED age
    BY <1>2, <2>3 DEF AccountsInv, AccountsTypeOK, FailureStaysVisible, MaxAge
  <2> QED
    BY <2>1, <2>2, <2>3 DEF Registered, RegistrationFailed, OnRegistered, OnRegistrationFailed
<1>4. AccountsTypeOK'
  BY <1>1, <1>2, <1>3 DEF AccountsInv, AccountsTypeOK, MaxAge
<1>5. Ownership' /\ LoopIsIdle' /\ RegisteredIsClean'
  BY <1>2, <1>3 DEF AccountsInv, Ownership, LoopIsIdle, RegisteredIsClean
<1> QED BY <1>1, <1>3, <1>4, <1>5 DEF AccountsInv

\* A step that leaves the window's variables alone, and the contexts.
LEMMA WindowRests ==
    ASSUME AccountsInv, RegTypeOK', Wire', live' = live, cleanup_pending' \subseteq cleanup_pending,
           UNCHANGED windowVars, UNCHANGED <<pumping, doomed, reconnect, stale>>,
           in_call' \subseteq live, active' \in Account \cup {NoAccount}, aborted' \in BOOLEAN,
           stale # {} => active' = NoAccount
    PROVE  AccountsInv'
<1>1. AccountsTypeOK'
  BY DEF AccountsInv, AccountsTypeOK, windowVars, MaxAge
<1> QED
  BY <1>1 DEF AccountsInv, Ownership, LoopIsIdle, RegisteredIsClean, FailureStaysVisible, windowVars

\* Answers the window hears nothing of: the challenges and the end of the clean-up.
LEMMA QuietKeeps ==
    ASSUME AccountsInv, NEW a \in Account, QuietAnswer(a)
    PROVE  AccountsInv'
<1>1. RegTypeOK' /\ Wire' /\ live' = live /\ cleanup_pending' \subseteq cleanup_pending
  <2>1. CASE RUnregisterDone(a)
    BY <2>1, CleanupKeeps DEF AccountsInv, AccountsTypeOK, RUnregisterDone, Concluded
  <2>2. CASE RUnregisterChallenge(a) \/ RRegisterChallenge(a)
    BY <2>2, ChallengeKeeps
       DEF RUnregisterChallenge, RRegisterChallenge, OnWire, AccountsInv, AccountsTypeOK, Authenticate
  <2> QED BY <2>1, <2>2 DEF QuietAnswer
<1>2. UNCHANGED <<windowVars, callStateVars, dropVars>>
  BY DEF QuietAnswer
<1> QED
  BY <1>1, <1>2, WindowRests
     DEF callStateVars, dropVars, AccountsInv, AccountsTypeOK, LoopIsIdle

\* Calls do not touch the registration.
LEMMA CallKeeps ==
    ASSUME AccountsInv, NEW a \in Account, IncomingCall(a) \/ StartCall(a) \/ CallOver(a)
    PROVE  AccountsInv'
<1>1. RegTypeOK' /\ Wire' /\ live' = live /\ cleanup_pending' = cleanup_pending
  BY DEF IncomingCall, StartCall, CallOver, AccountsInv, AccountsTypeOK, RegTypeOK, Wire,
         FirstChallengeAnswered, regVars, flagVars, queueVars, registrarVars
<1>2. UNCHANGED windowVars /\ UNCHANGED <<pumping, doomed, reconnect, stale>>
      /\ aborted' \in BOOLEAN
  BY DEF IncomingCall, StartCall, CallOver, dropVars, Borrows, AccountsInv, AccountsTypeOK
<1>3. CASE IncomingCall(a)
  <2>1. pumping # NoAccount => aborted'
    BY <1>3 DEF IncomingCall, Borrows
  <2>2. stale # {} => active' = NoAccount
    BY <1>3, <2>1 DEF IncomingCall, ToWindow, Dispatched, AccountsInv, LoopIsIdle
  <2> QED
    BY <1>1, <1>2, <1>3, <2>2, WindowRests DEF IncomingCall, AccountsInv, AccountsTypeOK
<1>4. CASE StartCall(a)
  <2>1. a \in live
    BY <1>4, NoneDropped DEF StartCall, AtMainLoop, AccountsInv, RegisteredIsClean
  <2> QED
    BY <1>1, <1>2, <1>4, <2>1, WindowRests DEF StartCall, AtMainLoop
<1>5. CASE CallOver(a)
  BY <1>1, <1>2, <1>5, WindowRests DEF CallOver, dropVars
<1> QED BY <1>3, <1>4, <1>5

\* The keepalive's refresh: a challenged request behind it is still unanswered, which
\* is why Wire counts the challenges and FirstChallengeAnswered alone is not inductive.
LEMMA KeepaliveKeeps ==
    ASSUME AccountsInv, Keepalive
    PROVE  AccountsInv'
<1>1. RegTypeOK' /\ Wire'
  BY ReregisterKeeps DEF Keepalive, AccountsInv, AccountsTypeOK
<1>2. UNCHANGED <<live, cleanup_pending, stored, engines, status, banner, dead, active, in_call,
                  pumping, doomed, reconnect, aborted>>
  BY DEF Keepalive, SofiaReregister, callStateVars
<1>3. age' \in [Account -> 0 .. MaxAge]
  BY PeriodAssumption DEF Keepalive, AccountsInv, AccountsTypeOK, MaxAge
<1>4. stale' \subseteq engines /\ LoopIsIdle'
  BY <1>2 DEF Keepalive, StaleSets, LoopIsIdle
<1>5. AccountsTypeOK'
  BY <1>1, <1>2, <1>3, <1>4 DEF AccountsInv, AccountsTypeOK, MaxAge
<1> QED
  BY <1>1, <1>2, <1>4, <1>5 DEF AccountsInv, Ownership, RegisteredIsClean, FailureStaysVisible

\* The keepalive's loop, the network monitor and the user drop engines.
LEMMA DroppersKeep ==
    ASSUME AccountsInv, ReconnectStale \/ NetworkChanged \/ UserReconfigures
    PROVE  AccountsInv'
<1>0. stored \subseteq Account /\ engines \subseteq Account
  BY DEF AccountsInv, AccountsTypeOK
<1>1. \/ ReconnectStale \/ NetworkChanged \/ UserReconnects
      \/ \E a \in Account : UserConnects(a) \/ UserDisconnects(a) \/ UserRemoves(a)
  BY DEF UserReconfigures
<1>2. \E D \in SUBSET engines, C \in SUBSET Account :
          /\ Drop(D, C) /\ pumping = NoAccount
          /\ stored' \subseteq stored /\ stale' \subseteq stale
  <2>1. CASE ReconnectStale
    BY <1>0, <2>1 DEF ReconnectStale, ConnectById
  <2>2. CASE NetworkChanged \/ UserReconnects
    BY <1>0, <2>2 DEF NetworkChanged, UserReconnects, ReconnectAll, UserFree, AtMainLoop
  <2>3. CASE \E a \in Account : UserConnects(a) \/ UserDisconnects(a) \/ UserRemoves(a)
    BY <1>0, <2>3 DEF UserConnects, UserDisconnects, UserRemoves, UserFree, AtMainLoop, ConnectById
  <2> QED BY <1>1, <2>1, <2>2, <2>3
<1> QED BY <1>0, <1>2, DropKeeps

\* A step that changes nothing.
LEMMA StutterKeeps ==
    ASSUME AccountsInv, UNCHANGED accountsVars
    PROVE  AccountsInv'
BY DEF accountsVars, regVars, flagVars, queueVars, registrarVars, windowVars, callStateVars,
       dropVars, AccountsInv, AccountsTypeOK, RegTypeOK, Wire, FirstChallengeAnswered, Ownership,
       LoopIsIdle, RegisteredIsClean, FailureStaysVisible, MaxAge

\* At start-up every context waits for its clean-up.
LEMMA InitHolds == AccountsInit => AccountsInv
<1> SUFFICES ASSUME AccountsInit PROVE AccountsInv
  OBVIOUS
<1>1. PICK S \in SUBSET Account :
        /\ RegInit(S)
        /\ stored = Account /\ engines = S
        /\ status = [a \in Account |-> "new"] /\ age = [a \in Account |-> 0]
        /\ banner = IF S = {} THEN "hidden" ELSE "registering"
        /\ active = NoAccount /\ in_call = {}
        /\ pumping = NoAccount /\ doomed = {} /\ reconnect = {} /\ stale = {}
        /\ dead = 0 /\ aborted = FALSE
  BY DEF AccountsInit
<1>2. /\ live = S /\ cleanup_pending = S /\ reg_auth_tried = {}
      /\ aged = {} /\ bound = {} /\ late = {} /\ server \in Servers
      /\ request = [a \in Account |-> IF a \in S THEN "unregister" ELSE "none"]
      /\ asked = [a \in Account |-> 0] /\ waiting = [a \in Account |-> 0] /\ presented = {}
  BY <1>1 DEF RegInit
<1>3. RegTypeOK
  BY <1>2, BoundAssumption DEF RegTypeOK
<1>4. Wire
  <2>1. \A a \in live : request[a] = "unregister" /\ a \in cleanup_pending /\ asked[a] = 0
    BY <1>2
  <2>2. 0 < MaxAuth
    BY BoundAssumption
  <2>3. FirstChallengeAnswered
    BY <1>2 DEF FirstChallengeAnswered
  <2> QED BY <2>1, <2>2, <2>3 DEF Wire
<1>5. 0 \in 0 .. MaxAge /\ 0 \in 0 .. MaxDead
  BY PeriodAssumption DEF MaxAge
<1>6. AccountsTypeOK
  BY <1>1, <1>2, <1>3, <1>5 DEF AccountsTypeOK
<1>7. Ownership /\ LoopIsIdle /\ RegisteredIsClean /\ FailureStaysVisible
  BY <1>1, <1>2, NoAccountAssumption DEF Ownership, LoopIsIdle, RegisteredIsClean, FailureStaysVisible
<1> QED BY <1>3, <1>4, <1>6, <1>7 DEF AccountsInv

\* One case per group of actions of window.rs.
LEMMA NextKeeps == AccountsInv /\ [AccountsNext]_accountsVars => AccountsInv'
<1> SUFFICES ASSUME AccountsInv, [AccountsNext]_accountsVars PROVE AccountsInv'
  OBVIOUS
<1>1. CASE \E a \in Account : Registered(a) \/ RegistrationFailed(a)
  BY <1>1, EventKeeps
<1>2. CASE \E a \in Account : QuietAnswer(a)
  BY <1>2, QuietKeeps
<1>3. CASE \E a \in Account : IncomingCall(a) \/ StartCall(a) \/ CallOver(a)
  BY <1>3, CallKeeps
<1>4. CASE ShutdownDone
  BY <1>4, ShutdownKeeps
<1>5. CASE Keepalive
  BY <1>5, KeepaliveKeeps
<1>6. CASE ReconnectStale \/ NetworkChanged \/ UserReconfigures
  BY <1>6, DroppersKeep
<1>7. CASE Surroundings
  <2>1. RegTypeOK' /\ Wire'
    BY <1>7, SurroundingsKeep DEF AccountsInv, AccountsTypeOK
  <2>2. UNCHANGED <<live, cleanup_pending, windowVars, callStateVars, dropVars>>
    BY <1>7 DEF Surroundings, ServerChanges, RegistrarForgets, LateCleanup, flagVars
  <2> QED
    BY <2>1, <2>2, WindowRests DEF callStateVars, dropVars, AccountsInv, AccountsTypeOK, LoopIsIdle
<1>8. CASE UNCHANGED accountsVars
  BY <1>8, StutterKeeps
<1> QED BY <1>1, <1>2, <1>3, <1>4, <1>5, <1>6, <1>7, <1>8 DEF AccountsNext

-----------------------------------------------------------------------------
\* The inductive invariant holds throughout.
LEMMA Invariant == AccountsSpec => []AccountsInv
BY InitHolds, NextKeeps, PTL DEF AccountsSpec

\* The contexts, the window and the main loop keep their types: flags, credentials and
\* queues belong to contexts that exist, and so does every call.
THEOREM AccountsTypeCorrect == AccountsSpec => []AccountsTypeOK
BY Invariant, PTL DEF AccountsInv

\* reg_auth_tried is reset in every path of nua_cb that ends a request.
THEOREM FirstChallengeIsAnswered == AccountsSpec => []FirstChallengeAnswered
BY Invariant, PTL DEF AccountsInv, Wire

\* The banner never hides the failure of an account that is still connected.
THEOREM FailureIsVisible == AccountsSpec => []FailureStaysVisible
BY Invariant, PTL DEF AccountsInv

-----------------------------------------------------------------------------
\* Without an old clean-up under way, a registered account is bound.
BoundInv == late = {} /\ \A a \in engines : status[a] = "ok" => a \in bound

\* Only a registrar that forgets or a late clean-up could take a binding away.
LEMMA BoundKeeps ==
    ASSUME "forget" \notin Env, "late" \notin Env, AccountsInv, BoundInv,
           [AccountsNext]_accountsVars
    PROVE  BoundInv'
<1>1. CASE \E a \in Account : Registered(a) \/ RegistrationFailed(a)
  <2>1. PICK a \in Account : Registered(a) \/ RegistrationFailed(a)
    BY <1>1
  <2>2. late' = late /\ engines' = engines /\ bound \subseteq bound'
    BY <2>1 DEF Registered, RegistrationFailed, RRegisterOk, RRegisterFail, Concluded,
                OnRegistered, OnRegistrationFailed, windowVars
  <2>3. \A b \in engines : status'[b] = "ok" => b \in bound' \/ status[b] = "ok"
    BY <2>1 DEF Registered, RegistrationFailed, RRegisterOk, OnRegistered, OnRegistrationFailed,
                windowVars, AccountsInv, AccountsTypeOK
  <2> QED BY <2>2, <2>3 DEF BoundInv
<1>2. CASE \E a \in Account : QuietAnswer(a)
  <2>1. PICK a \in Account : QuietAnswer(a)
    BY <1>2
  <2>2. late' = late /\ engines' = engines /\ status' = status
    BY <2>1 DEF QuietAnswer, RUnregisterChallenge, RUnregisterDone, RRegisterChallenge,
                Authenticate, Concluded, windowVars, registrarVars
  <2>3. \A b \in bound : b \in bound' \/ b \in cleanup_pending
    BY <2>1 DEF QuietAnswer, RUnregisterChallenge, RUnregisterDone, RRegisterChallenge,
                Authenticate, registrarVars
  <2> QED BY <2>2, <2>3 DEF BoundInv, AccountsInv, RegisteredIsClean
<1>3. CASE \E a \in Account : IncomingCall(a) \/ StartCall(a) \/ CallOver(a)
  BY <1>3 DEF IncomingCall, StartCall, CallOver, BoundInv, regVars, registrarVars, windowVars
<1>4. ASSUME NEW gone \in SUBSET Account, NEW rest \in SUBSET engines, NEW C \in SUBSET Account,
             gone \cap rest = {}, Connect(gone, rest, C)
      PROVE  BoundInv'
  <2>1. PICK D \in SUBSET (C \ rest) :
            /\ SofiaReplace(gone, (C \ rest) \ D)
            /\ engines' = rest \cup (C \ rest)
            /\ status' = On(On(status, C \ rest, "new"), D, "failed")
    BY <1>4 DEF Connect
  <2>2. late' = {} /\ bound' = bound \ (gone \cup ((C \ rest) \ D))
    BY <2>1 DEF SofiaReplace, BoundInv
  <2>3. \A b \in engines' : status'[b] = "ok" => b \in rest /\ status[b] = "ok"
    BY <2>1 DEF On, AccountsInv, AccountsTypeOK
  <2> QED BY <1>4, <2>2, <2>3 DEF BoundInv
<1>5. CASE ShutdownDone
  <2>1. pumping \in Account /\ pumping \notin engines /\ reconnect \in SUBSET Account
    BY <1>5 DEF ShutdownDone, AccountsInv, AccountsTypeOK, RegTypeOK, Ownership
  <2>2. CASE doomed = {}
    BY <1>4, <1>5, <2>1, <2>2 DEF ShutdownDone
  <2>3. CASE doomed # {}
    <3>1. late' = {} /\ bound' = bound \ {pumping} /\ engines' = engines /\ status' = status
      BY <1>5, <2>3 DEF ShutdownDone, SofiaReplace, BoundInv
    <3> QED BY <2>1, <3>1 DEF BoundInv
  <2> QED BY <2>2, <2>3
<1>6. CASE Keepalive
  BY <1>6 DEF Keepalive, SofiaReregister, BoundInv, registrarVars
<1>7. CASE ReconnectStale \/ NetworkChanged \/ UserReconfigures
  <2>1. PICK D \in SUBSET engines, C \in SUBSET Account : Drop(D, C)
    BY <1>7 DEF ReconnectStale, ConnectById, NetworkChanged, UserReconfigures, UserReconnects,
                ReconnectAll, UserConnects, UserDisconnects, UserRemoves, AccountsInv, AccountsTypeOK
  <2>2. CASE D \cap live = {}
    BY <1>4, <2>1, <2>2 DEF Drop
  <2>3. CASE D \cap live # {}
    <3>1. late' = late /\ bound' = bound /\ engines' = engines \ D /\ status' = On(status, D, "new")
      BY <2>1, <2>3 DEF Drop, regVars, registrarVars
    <3>2. \A b \in engines' : status'[b] = status[b]
      BY <3>1 DEF On, AccountsInv, AccountsTypeOK
    <3> QED BY <3>1, <3>2 DEF BoundInv
  <2> QED BY <2>2, <2>3
<1>8. CASE Surroundings
  BY <1>8 DEF Surroundings, ServerChanges, RegistrarForgets, LateCleanup, BoundInv, windowVars
<1>9. CASE UNCHANGED accountsVars
  BY <1>9 DEF accountsVars, regVars, registrarVars, windowVars, BoundInv
<1> QED BY <1>1, <1>2, <1>3, <1>5, <1>6, <1>7, <1>8, <1>9 DEF AccountsNext

\* As long as the registrar forgets nothing and no destroyed context's clean-up comes
\* late, an account shown as registered has its own context's Contact at the registrar.
THEOREM RegistrationIsBound ==
    ASSUME "forget" \notin Env, "late" \notin Env
    PROVE  AccountsSpec => []RegisteredIsBound
<1>1. AccountsInit => BoundInv
  BY DEF AccountsInit, RegInit, BoundInv
<1>2. AccountsInv /\ BoundInv /\ [AccountsNext]_accountsVars => BoundInv'
  BY BoundKeeps
<1>3. AccountsInv /\ BoundInv => RegisteredIsBound
  BY DEF AccountsInv, BoundInv, RegisteredIsClean, RegisteredIsBound
<1> QED BY <1>1, <1>2, <1>3, Invariant, PTL DEF AccountsSpec

-----------------------------------------------------------------------------
\* The keepalive's full reconnect and the network monitor spare the engine of the call
\* on the screen, whatever happens while a destructor iterates the main loop.
THEOREM CallKeepsItsEngine == AccountsSpec => CallKeepsEngine
<1> DEFINE Lost == active \in engines /\ active \in in_call /\ active \notin engines'
<1>1. AccountsInv /\ [AccountsNext]_accountsVars => [Lost => UserReconfigures]_accountsVars
  <2> SUFFICES ASSUME AccountsInv, AccountsNext, Lost PROVE UserReconfigures
    OBVIOUS
  <2>1. active # NoAccount
    BY NoAccountAssumption DEF AccountsInv, AccountsTypeOK
  <2>2. ~NetworkChanged /\ ~ReconnectStale
    BY <2>1 DEF NetworkChanged, ReconnectStale, AccountsInv, LoopIsIdle
  <2>3. \A a \in Account : ~(Registered(a) \/ RegistrationFailed(a) \/ QuietAnswer(a)
                                 \/ IncomingCall(a) \/ StartCall(a) \/ CallOver(a))
    BY DEF Registered, RegistrationFailed, QuietAnswer, IncomingCall, StartCall, CallOver,
           OnRegistered, OnRegistrationFailed, windowVars
  <2>4. ~ShutdownDone
    BY DEF ShutdownDone, Connect
  <2>5. ~Keepalive /\ ~Surroundings
    BY DEF Keepalive, Surroundings, windowVars
  <2> QED BY <2>2, <2>3, <2>4, <2>5 DEF AccountsNext
<1> QED BY <1>1, Invariant, PTL DEF AccountsSpec, CallKeepsEngine

-----------------------------------------------------------------------------
(***************************************************************************)
(* Digest answers and keepalives.  A start-up is a clean-up and a REGISTER *)
(* with a digest answer now and then; every answer of the registrar is a   *)
(* step of it, and at least one falls between two keepalives.  A request   *)
(* is given one digest answer, and one more after each keepalive.          *)
(***************************************************************************)
\* The clean-up lies behind the request on the wire.
CleanedUp(a) == IF request[a] = "unregister" THEN 0 ELSE 1

\* An account that is starting up has got one answer for every keepalive, but the last.
StartingUp(a) ==
    /\ a \in live /\ request[a] # "none"
    /\ asked[a] < MaxAuth => age[a] <= CleanedUp(a) + asked[a] + (IF a \in aged THEN 1 ELSE 0)

\* Clean-up, REGISTER and every keepalive allow one digest answer, once.
Paced(a) ==
    age[a] < MaxAge => asked[a] <= age[a] + CleanedUp(a) + (IF a \in reg_auth_tried THEN 1 ELSE 0)

ProgressInv ==
    /\ stale \subseteq engines
    /\ \A a \in Account \ live : asked[a] = 0
    /\ \A a \in engines : Paced(a)
    /\ ~aborted => \A a \in engines : status[a] = "new" => StartingUp(a)

\* The window waits longer than four keepalives last: as it does with 40 s and 180 s.
Patience == 4 * KeepalivePeriod <= StaleAfter

\* Whoever may be stale has waited longer than that.
LEMMA StaleIsLate ==
    ASSUME Patience, NEW k \in Nat, MayBeStale(k) PROVE k > 4
<1>1. KeepalivePeriod \in Nat /\ StaleAfter \in Nat
  BY PeriodAssumption
<1>2. 4 * KeepalivePeriod <= StaleAfter /\ k * KeepalivePeriod > StaleAfter
  BY DEF Patience, MayBeStale
<1>3. ASSUME NEW n \in 0 .. 4, k = n PROVE FALSE
  BY <1>1, <1>2, <1>3
<1> QED BY <1>3

\* The types of what counts.
LEMMA CountTypes ==
    ASSUME AccountsInv
    PROVE  /\ MaxAuth \in Nat /\ MaxAuth > 2 /\ MaxAge \in Nat
           /\ engines \subseteq Account /\ live \subseteq Account
           /\ \A a \in Account : asked[a] \in Nat /\ asked[a] <= MaxAuth
                                 /\ age[a] \in Nat /\ age[a] <= MaxAge
BY BoundAssumption, PeriodAssumption DEF AccountsInv, AccountsTypeOK, RegTypeOK, MaxAge

\* A fresh context begins at the beginning; the entries left alone are where they were.
LEMMA ConnectProgress ==
    ASSUME AccountsInv, ProgressInv, ~aborted,
           NEW gone \in SUBSET Account, NEW rest \in SUBSET engines, NEW C \in SUBSET Account,
           gone \cap rest = {}, live \subseteq rest \cup gone,
           stale' \subseteq rest \cap stale, Connect(gone, rest, C)
    PROVE  ProgressInv' /\ \A a \in rest : status'[a] = status[a] /\ asked'[a] = asked[a]
<1> DEFINE new == C \ rest
<1>1. PICK D \in SUBSET new :
          /\ SofiaReplace(gone, new \ D)
          /\ engines' = rest \cup new
          /\ status' = On(On(status, new, "new"), D, "failed")
          /\ age' = On(age, new, 0)
  BY DEF Connect
<1>2. rest \subseteq Account
  BY CountTypes
<1>3. /\ live' = (live \ gone) \cup (new \ D) /\ aged' = aged \ (gone \cup (new \ D))
      /\ reg_auth_tried' = reg_auth_tried \ (gone \cup (new \ D))
      /\ request' = On(On(request, gone, "none"), new \ D, "unregister")
      /\ asked' = On(asked, gone \cup (new \ D), 0)
  BY <1>1 DEF SofiaReplace
<1>4. \A a \in rest : /\ status'[a] = status[a] /\ age'[a] = age[a]
                      /\ request'[a] = request[a] /\ asked'[a] = asked[a]
                      /\ a \in live' <=> a \in live
                      /\ a \in aged' <=> a \in aged
                      /\ a \in reg_auth_tried' <=> a \in reg_auth_tried
  BY <1>1, <1>2, <1>3 DEF On
<1>5. \A a \in Account \ live' : asked'[a] = 0
  BY <1>3 DEF On, ProgressInv
<1>6. \A a \in new : /\ a \in D => status'[a] = "failed"
                     /\ age'[a] = 0 /\ asked'[a] = 0
                     /\ a \notin D => a \in live' /\ request'[a] = "unregister"
  <2>1. \A a \in D : a \notin live'
    BY <1>3
  <2> QED BY <1>1, <1>3, <1>5, <2>1 DEF On
<1>7. \A a \in engines' : status'[a] = "new" => StartingUp(a)'
  <2>1. \A a \in rest : status[a] = "new" => StartingUp(a)
    BY DEF ProgressInv
  <2>2. \A a \in rest : status'[a] = "new" => StartingUp(a)'
    BY <1>4, <2>1 DEF StartingUp, CleanedUp
  <2>3. \A a \in new : status'[a] = "new" => StartingUp(a)'
    BY <1>6, CountTypes DEF StartingUp, CleanedUp
  <2> QED BY <1>1, <2>2, <2>3
<1>8. \A a \in engines' : Paced(a)'
  <2>1. \A a \in rest : Paced(a)'
    BY <1>4 DEF ProgressInv, Paced, CleanedUp
  <2>2. \A a \in new : Paced(a)'
    BY <1>6 DEF Paced, CleanedUp
  <2> QED BY <1>1, <2>1, <2>2
<1>9. stale' \subseteq engines'
  BY <1>1
<1> QED BY <1>4, <1>5, <1>7, <1>8, <1>9 DEF ProgressInv

\* Dropping engines.
LEMMA DropProgress ==
    ASSUME AccountsInv, ProgressInv, ~aborted, pumping = NoAccount,
           NEW D \in SUBSET engines, NEW C \in SUBSET Account, Drop(D, C),
           stale' \subseteq stale \ D
    PROVE  ProgressInv' /\ \A a \in stale' : status'[a] = status[a] /\ asked'[a] = asked[a]
<1>1. CASE D \cap live = {}
  <2>1. Connect({}, engines \ D, C) /\ stale' \subseteq (engines \ D) \cap stale
    BY <1>1 DEF Drop, ProgressInv
  <2>2. live \subseteq (engines \ D) \cup {}
    BY <1>1, NoAccountAssumption DEF AccountsInv, AccountsTypeOK, RegTypeOK, Ownership
  <2> QED BY <2>1, <2>2, ConnectProgress
<1>2. CASE D \cap live # {}
  <2>1. /\ engines' = engines \ D /\ UNCHANGED <<regVars, aborted>>
        /\ status' = On(status, D, "new") /\ age' = On(age, D, 0)
    BY <1>2 DEF Drop
  <2>2. \A a \in engines' : status'[a] = status[a] /\ age'[a] = age[a]
    BY <2>1 DEF On, AccountsInv, AccountsTypeOK
  <2>3. stale' \subseteq engines'
    BY <2>1 DEF ProgressInv
  <2> QED BY <2>1, <2>2, <2>3
          DEF ProgressInv, StartingUp, Paced, CleanedUp, regVars, queueVars, flagVars
<1> QED BY <1>1, <1>2

\* An answer the window hears of ends the start-up, one it does not is a step of it.
LEMMA AnswerProgress ==
    ASSUME AccountsInv, ProgressInv, ~aborted, NEW a \in Account, Answer(a)
    PROVE  /\ ProgressInv' /\ stale' = stale
           /\ ~aborted' => \A b \in Account : status'[b] = "new" =>
                              status[b] = "new" /\ asked'[b] >= asked[b]
<1>0. /\ UNCHANGED <<engines, stale, live>> /\ a \in live /\ aged' = aged \ {a}
      /\ \A b \in Account \ {a} : /\ request'[b] = request[b] /\ asked'[b] = asked[b]
                                  /\ b \in reg_auth_tried' <=> b \in reg_auth_tried
  BY DEF Answer, Registered, RegistrationFailed, QuietAnswer, OnRegistered, OnRegistrationFailed,
         EventFrame, dropVars, windowVars, RRegisterOk, RRegisterFail, RUnregisterChallenge,
         RUnregisterDone, RRegisterChallenge, Authenticate, Concluded, NextInQueue, OnWire,
         AccountsInv, AccountsTypeOK, RegTypeOK
<1>1. \A b \in Account \ {a} : status'[b] = status[b] /\ age'[b] = age[b]
  BY DEF Answer, Registered, RegistrationFailed, QuietAnswer, OnRegistered, OnRegistrationFailed,
         windowVars, AccountsInv, AccountsTypeOK
<1>2. status'[a] = "new" => status[a] = "new"
  BY DEF Answer, Registered, RegistrationFailed, QuietAnswer, OnRegistered, OnRegistrationFailed,
         windowVars, AccountsInv, AccountsTypeOK
<1>3. CASE QuietAnswer(a)
  <2>0. UNCHANGED <<age, status, aborted>>
    BY <1>3 DEF QuietAnswer, windowVars, dropVars
  <2>1. CASE RUnregisterChallenge(a) \/ RRegisterChallenge(a)
    <3>1. /\ request' = request /\ a \notin reg_auth_tried /\ a \in reg_auth_tried'
          /\ asked'[a] = IF asked[a] < MaxAuth THEN asked[a] + 1 ELSE asked[a]
      BY <2>1 DEF RUnregisterChallenge, RRegisterChallenge, Authenticate,
                  AccountsInv, AccountsTypeOK, RegTypeOK
    <3>2. asked'[a] >= asked[a] /\ asked'[a] <= asked[a] + 1
          /\ (asked'[a] < MaxAuth => asked'[a] = asked[a] + 1)
      BY <3>1, CountTypes
    <3>3. a \in engines => Paced(a)'
      BY <2>0, <3>1, <3>2, CountTypes DEF ProgressInv, Paced, CleanedUp
    <3>4. a \in engines /\ status[a] = "new" => StartingUp(a)'
      BY <1>0, <2>0, <3>1, <3>2, CountTypes DEF ProgressInv, StartingUp, CleanedUp
    <3>5. \A b \in engines : Paced(b)' /\ (status[b] = "new" => StartingUp(b)')
      BY <1>0, <2>0, <3>3, <3>4, CountTypes DEF ProgressInv, Paced, StartingUp, CleanedUp
    <3>6. \A b \in Account : asked'[b] >= asked[b]
      BY <1>0, <3>2, CountTypes
    <3> QED BY <1>0, <2>0, <3>5, <3>6, CountTypes DEF ProgressInv
  <2>2. CASE RUnregisterDone(a)
    <3>1. request[a] = "unregister" /\ request'[a] = "register" /\ asked' = asked
      BY <2>2 DEF RUnregisterDone, OnWire, AccountsInv, AccountsTypeOK, RegTypeOK
    <3>2. a \in engines => Paced(a)'
      BY <2>0, <3>1, CountTypes DEF ProgressInv, Paced, CleanedUp
    <3>3. a \in engines /\ status[a] = "new" => StartingUp(a)'
      BY <1>0, <2>0, <3>1, CountTypes DEF ProgressInv, StartingUp, CleanedUp
    <3>4. \A b \in engines : Paced(b)' /\ (status[b] = "new" => StartingUp(b)')
      BY <1>0, <2>0, <3>2, <3>3, CountTypes DEF ProgressInv, Paced, StartingUp, CleanedUp
    <3> QED BY <1>0, <2>0, <3>1, <3>4, CountTypes DEF ProgressInv
  <2> QED BY <1>3, <2>1, <2>2 DEF QuietAnswer
<1>4. CASE Registered(a) \/ RegistrationFailed(a)
  <2>1. /\ asked'[a] = 0 /\ age'[a] \in Nat /\ (~aborted' => status'[a] # "new")
    BY <1>4, CountTypes
       DEF Registered, RegistrationFailed, RRegisterOk, RRegisterFail, OnRegistered,
           OnRegistrationFailed, windowVars, AccountsInv, AccountsTypeOK, RegTypeOK
  <2>2. Paced(a)'
    BY <2>1 DEF Paced, CleanedUp
  <2>3. \A b \in engines : Paced(b)'
    BY <1>0, <1>1, <2>2, CountTypes DEF ProgressInv, Paced, CleanedUp
  <2>4. ~aborted' => \A b \in engines : status'[b] = "new" => StartingUp(b)'
    BY <1>0, <1>1, <2>1, CountTypes DEF ProgressInv, StartingUp, CleanedUp
  <2>5. \A b \in Account \ live : asked'[b] = 0
    BY <1>0, <2>1 DEF ProgressInv
  <2>6. ~aborted' => \A b \in Account : status'[b] = "new" =>
                        status[b] = "new" /\ asked'[b] >= asked[b]
    BY <1>0, <1>1, <2>1, CountTypes
  <2> QED BY <1>0, <2>3, <2>4, <2>5, <2>6 DEF ProgressInv
<1> QED BY <1>3, <1>4 DEF Answer

\* A keepalive comes when every request has moved since the last one.
LEMMA KeepaliveProgress ==
    ASSUME AccountsInv, ProgressInv, ~aborted, Keepalive
    PROVE  ProgressInv'
<1>0. /\ UNCHANGED <<live, asked, engines, status, aborted>> /\ aged' = aged \cup live /\ aged = {}
      /\ reg_auth_tried' = reg_auth_tried \ live
  BY DEF Keepalive, SofiaReregister, AnsweredInTime
<1>1. \A a \in engines : age'[a] = IF age[a] < MaxAge THEN age[a] + 1 ELSE age[a]
  BY CountTypes DEF Keepalive
<1>2. \A a \in live : /\ request[a] # "none" => request'[a] = request[a]
                      /\ request[a] = "none" => request'[a] = "register"
  BY CountTypes DEF Keepalive, SofiaReregister, On
<1>3. \A a \in Account \ live : a \notin reg_auth_tried'
  BY <1>0 DEF AccountsInv, AccountsTypeOK, RegTypeOK
<1>4. ASSUME NEW a \in engines PROVE Paced(a)'
  <2>1. CASE a \in live
    <3>1. CleanedUp(a)' = CleanedUp(a) /\ CleanedUp(a) \in 0 .. 1
      BY <1>2, <2>1 DEF CleanedUp
    <3>2. Paced(a) /\ asked'[a] = asked[a] /\ asked[a] \in Nat /\ age[a] \in Nat /\ MaxAge \in Nat
      BY <1>0, CountTypes DEF ProgressInv
    <3> QED BY <1>1, <3>1, <3>2 DEF Paced
  <2>2. CASE a \notin live
    <3>1. asked'[a] = 0 /\ age'[a] \in Nat /\ CleanedUp(a)' \in 0 .. 1
      BY <1>0, <1>1, <2>2, CountTypes DEF ProgressInv, CleanedUp
    <3> QED BY <3>1 DEF Paced
  <2> QED BY <2>1, <2>2
<1>5. ASSUME NEW a \in engines, status'[a] = "new" PROVE StartingUp(a)'
  <2>1. StartingUp(a) /\ a \notin aged /\ a \in live'
    BY <1>0, <1>5 DEF ProgressInv, StartingUp
  <2>2. request'[a] = request[a] /\ CleanedUp(a)' = CleanedUp(a) /\ CleanedUp(a) \in 0 .. 1
    BY <1>2, <2>1 DEF StartingUp, CleanedUp
  <2>3. a \in aged' /\ asked'[a] = asked[a] /\ asked[a] \in Nat /\ age[a] \in Nat /\ MaxAge \in Nat
    BY <1>0, <2>1, CountTypes DEF StartingUp
  <2> QED BY <1>1, <2>1, <2>2, <2>3 DEF StartingUp
<1>6. stale' \subseteq engines'
  BY <1>0 DEF Keepalive, StaleSets
<1> QED BY <1>0, <1>4, <1>5, <1>6 DEF ProgressInv

\* The steps that drop engines do so between two handlers, and never one that is stale.
LEMMA DroppersDrop ==
    ASSUME AccountsInv, ProgressInv, ReconnectStale \/ NetworkChanged \/ UserReconfigures
    PROVE  /\ ~aborted /\ pumping = NoAccount
           /\ \E D \in SUBSET engines, C \in SUBSET Account : Drop(D, C) /\ stale' \subseteq stale \ D
<1>0. engines \subseteq Account /\ stored \subseteq Account /\ stale \subseteq engines
  BY DEF AccountsInv, AccountsTypeOK, ProgressInv
<1>1. CASE ReconnectStale
  BY <1>0, <1>1 DEF ReconnectStale, ConnectById
<1>2. CASE NetworkChanged \/ UserReconnects
  BY <1>0, <1>2 DEF NetworkChanged, UserReconnects, ReconnectAll, UserFree, AtMainLoop
<1>3. CASE \E a \in Account : UserConnects(a) \/ UserDisconnects(a) \/ UserRemoves(a)
  BY <1>0, <1>3 DEF UserConnects, UserDisconnects, UserRemoves, UserFree, AtMainLoop, ConnectById
<1> QED BY <1>1, <1>2, <1>3 DEF UserReconfigures

\* The end of a destructor.
LEMMA ShutdownProgress ==
    ASSUME AccountsInv, ProgressInv, ShutdownDone
    PROVE  /\ ProgressInv' /\ ~aborted' /\ stale' = stale
           /\ \A a \in stale : status'[a] = status[a] /\ asked'[a] = asked[a]
<1>0. ~aborted /\ UNCHANGED <<stale, aborted>> /\ pumping \in Account /\ pumping \notin engines
      /\ reconnect \in SUBSET Account /\ stale \subseteq engines
  BY DEF ShutdownDone, AccountsInv, AccountsTypeOK, RegTypeOK, Ownership, ProgressInv
<1>1. CASE doomed = {}
  <2>1. Connect({pumping}, engines, reconnect) /\ live \subseteq engines \cup {pumping}
    BY <1>1 DEF ShutdownDone, AccountsInv, Ownership
  <2> QED BY <1>0, <2>1, ConnectProgress
<1>2. CASE doomed # {}
  <2>1. SofiaReplace({pumping}, {}) /\ UNCHANGED <<engines, status, age>>
    BY <1>2 DEF ShutdownDone
  <2>2. /\ live' = live \ {pumping} /\ aged' = aged \ {pumping}
        /\ reg_auth_tried' = reg_auth_tried \ {pumping} /\ asked'[pumping] = 0
        /\ \A a \in Account \ {pumping} : request'[a] = request[a] /\ asked'[a] = asked[a]
    BY <1>0, <2>1 DEF SofiaReplace, On
  <2>3. \A a \in engines : Paced(a)' /\ (status[a] = "new" => StartingUp(a)')
    BY <1>0, <2>1, <2>2, CountTypes DEF ProgressInv, Paced, StartingUp, CleanedUp
  <2>4. \A a \in Account \ live' : asked'[a] = 0
    BY <2>2 DEF ProgressInv
  <2>5. \A a \in stale : status'[a] = status[a] /\ asked'[a] = asked[a]
    BY <1>0, <2>1, <2>2, CountTypes
  <2> QED BY <1>0, <2>1, <2>3, <2>4, <2>5 DEF ProgressInv
<1> QED BY <1>1, <1>2

\* The steps that touch nothing of this.
LEMMA RestProgress ==
    ASSUME ProgressInv, \/ \E a \in Account : IncomingCall(a) \/ StartCall(a) \/ CallOver(a)
                        \/ Surroundings \/ UNCHANGED accountsVars
    PROVE  ProgressInv' /\ UNCHANGED <<stale, status, asked>> /\ (~aborted' => ~aborted)
<1>1. UNCHANGED <<live, flagVars, queueVars, windowVars, stale>> /\ (~aborted' => ~aborted)
  BY DEF IncomingCall, StartCall, CallOver, ToWindow, Dispatched, AtMainLoop, dropVars, regVars,
         Surroundings, ServerChanges, RegistrarForgets, LateCleanup, accountsVars
<1> QED BY <1>1 DEF ProgressInv, StartingUp, Paced, CleanedUp, queueVars, flagVars, windowVars

LEMMA ProgressKeeps ==
    ASSUME AccountsInv, ProgressInv, [AccountsNext]_accountsVars PROVE ProgressInv'
<1>1. CASE \E a \in Account : Registered(a) \/ RegistrationFailed(a) \/ QuietAnswer(a)
  <2>1. ~aborted
    BY <1>1 DEF Registered, RegistrationFailed, QuietAnswer, ToWindow, Dispatched
  <2> QED BY <1>1, <2>1, AnswerProgress DEF Answer
<1>2. CASE ReconnectStale \/ NetworkChanged \/ UserReconfigures
  BY <1>2, DroppersDrop, DropProgress
<1>3. CASE Keepalive
  BY <1>3, KeepaliveProgress DEF Keepalive, AtMainLoop
<1> QED BY <1>1, <1>2, <1>3, ShutdownProgress, RestProgress DEF AccountsNext

LEMMA ProgressInvariant == AccountsSpec => []ProgressInv
<1>1. AccountsInit => ProgressInv
  <2> SUFFICES ASSUME AccountsInit PROVE ProgressInv
    OBVIOUS
  <2>1. PICK S \in SUBSET Account :
            /\ live = S /\ engines = S /\ aged = {} /\ stale = {} /\ reg_auth_tried = {}
            /\ age = [a \in Account |-> 0] /\ asked = [a \in Account |-> 0]
            /\ request = [a \in Account |-> IF a \in S THEN "unregister" ELSE "none"]
    BY DEF AccountsInit, RegInit
  <2>2. \A a \in S : /\ a \in live /\ request[a] = "unregister" /\ age[a] = 0 /\ asked[a] = 0
                     /\ a \notin aged /\ a \notin reg_auth_tried
    BY <2>1
  <2>3. \A a \in S : StartingUp(a) /\ Paced(a)
    BY <2>2 DEF StartingUp, Paced, CleanedUp
  <2>4. \A a \in Account \ live : asked[a] = 0
    BY <2>1
  <2> QED BY <2>1, <2>3, <2>4 DEF ProgressInv
<1>2. AccountsInv /\ ProgressInv /\ [AccountsNext]_accountsVars => ProgressInv'
  BY ProgressKeeps
<1> QED BY <1>1, <1>2, Invariant, PTL DEF AccountsSpec

\* glue.c 807-809 and 1424: refused credentials are presented again once for every
\* keepalive, and no faster, for any number of accounts and whatever the registrar does.
THEOREM DigestKeepsPace == AccountsSpec => []DigestIsPaced
<1>1. AccountsInv /\ ProgressInv => DigestIsPaced
  <2> SUFFICES ASSUME AccountsInv, ProgressInv, NEW a \in engines, age[a] < MaxAge
               PROVE  asked[a] <= age[a] + 2
    BY DEF DigestIsPaced
  <2> QED BY CountTypes DEF ProgressInv, Paced, CleanedUp
<1> QED BY <1>1, Invariant, ProgressInvariant, PTL

-----------------------------------------------------------------------------
\* The keepalive finds a start-up stale only after a third digest answer.
LEMMA KeepaliveSettles ==
    ASSUME Patience, AccountsInv, ProgressInv, ~aborted, Keepalive PROVE StaleIsSettled'
<1> SUFFICES ASSUME NEW a \in stale', status'[a] = "new", asked'[a] <= 2 PROVE FALSE
  <2>1. \A a \in stale' : a \in Account
    BY CountTypes DEF Keepalive, StaleSets
  <2> QED BY <2>1, CountTypes DEF StaleIsSettled, Keepalive, SofiaReregister
<1>1. a \in engines /\ status[a] = "new" /\ asked[a] <= 2 /\ MayBeStale(age'[a]) /\ aged = {}
  BY DEF Keepalive, StaleSets, SofiaReregister, AnsweredInTime
<1>2. age[a] <= CleanedUp(a) + asked[a] /\ CleanedUp(a) \in 0 .. 1
  BY <1>1, CountTypes DEF ProgressInv, StartingUp, CleanedUp
<1>3. age'[a] \in Nat /\ age'[a] <= age[a] + 1
  BY <1>1, CountTypes DEF Keepalive
<1>4. age'[a] <= 4
  BY <1>1, <1>2, <1>3, CountTypes
<1> QED BY <1>1, <1>3, <1>4, StaleIsLate

\* window.rs 718: the full reconnect never cuts off a start-up that was challenged no more
\* than its two requests are, for any number of accounts, if the window waits longer than
\* four keepalives last (160 of the 180 s): the clean-up, the REGISTER and a challenge to
\* each are answered one after the other, at least one of them between two keepalives.
THEOREM ReconnectSparesStartUp ==
    ASSUME Patience PROVE AccountsSpec => []StaleIsSettled
<1>1. AccountsInit => StaleIsSettled
  BY DEF AccountsInit, StaleIsSettled
<1>2. AccountsInv /\ ProgressInv /\ StaleIsSettled /\ [AccountsNext]_accountsVars => StaleIsSettled'
  <2> SUFFICES ASSUME AccountsInv, ProgressInv, StaleIsSettled, [AccountsNext]_accountsVars
               PROVE  StaleIsSettled'
    OBVIOUS
  <2>0. \A a \in stale : a \in Account /\ asked[a] \in Nat
    BY CountTypes DEF ProgressInv
  <2>1. CASE \E a \in Account : Registered(a) \/ RegistrationFailed(a) \/ QuietAnswer(a)
    <3>1. ~aborted
      BY <2>1 DEF Registered, RegistrationFailed, QuietAnswer, ToWindow, Dispatched
    <3>2. /\ ProgressInv' /\ stale' = stale
          /\ ~aborted' => \A b \in Account : status'[b] = "new" =>
                             status[b] = "new" /\ asked'[b] >= asked[b]
      BY <2>1, <3>1, AnswerProgress DEF Answer
    <3>3. \A b \in Account : asked'[b] \in Nat
      <4>1. AccountsInv'
        BY NextKeeps
      <4> QED BY <4>1 DEF AccountsInv, AccountsTypeOK, RegTypeOK
    <3> QED BY <2>0, <3>1, <3>2, <3>3 DEF StaleIsSettled
  <2>2. CASE ReconnectStale \/ NetworkChanged \/ UserReconfigures
    <3>1. PICK D \in SUBSET engines, C \in SUBSET Account : Drop(D, C) /\ stale' \subseteq stale \ D
      BY <2>2, DroppersDrop
    <3>2. \A a \in stale' : status'[a] = status[a] /\ asked'[a] = asked[a]
      BY <2>2, <3>1, DroppersDrop, DropProgress
    <3> QED BY <2>2, <3>1, <3>2, DroppersDrop DEF StaleIsSettled
  <2>3. CASE Keepalive
    BY <2>3, KeepaliveSettles DEF Keepalive, AtMainLoop
  <2>4. CASE ShutdownDone
    BY <2>4, ShutdownProgress DEF StaleIsSettled, ShutdownDone
  <2> QED BY <2>1, <2>2, <2>3, <2>4, RestProgress DEF AccountsNext, StaleIsSettled
<1> QED BY <1>1, <1>2, Invariant, ProgressInvariant, PTL DEF AccountsSpec
=============================================================================
