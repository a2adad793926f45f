---------------------------- MODULE Registration ----------------------------
(***************************************************************************)
(* The registration half of src/src/sip/glue.c: one context per connected  *)
(* account, its start-up clean-up ("Contact: *"), the REGISTER that        *)
(* follows, the digest answer and the keepalive refresh.                   *)
(*                                                                         *)
(* External: sofia-sip, which keeps the requests of one handle in a queue  *)
(* with one on the wire, and the registrar.  A request, its processing at  *)
(* the registrar and its answer are one step.                              *)
(***************************************************************************)
EXTENDS Naturals

CONSTANTS
    Account,     \* accounts of accounts.json
    Env,         \* what the surroundings may do: see EnvEvent
    MaxWaiting,  \* bound: REGISTERs told apart behind the one on the wire
    MaxAuth      \* bound: digest answers told apart

EnvEvent == {"dead",      \* a context or a WebSocket bridge does not start
             "network",   \* NetworkMonitor reports a change
             "user",      \* the user reconfigures accounts
             "teardown",  \* ... also while a call is on the screen
             "forget",    \* the registrar loses its bindings
             "late",      \* a destroyed context's clean-up arrives late
             "reenter"}   \* the main loop a destructor iterates dispatches SIP events

ASSUME EnvAssumption == Env \subseteq EnvEvent
ASSUME BoundAssumption == MaxWaiting \in Nat \ {0} /\ MaxAuth \in Nat \ 0 .. 2

VARIABLES
    live,             \* accounts with a SofiaCtx
    cleanup_pending,  \* those with SofiaCtx.cleanup_pending set
    reg_auth_tried,   \* those with SofiaCtx.reg_auth_tried set
    request,          \* reg_nh's request on the wire
    presented,        \* accounts whose request on the wire carries credentials
    asked,            \* calls of nua_authenticate since the context started or its last
                      \* REGISTER ended, up to MaxAuth
    waiting,          \* REGISTERs queued behind it
    aged,             \* accounts whose request was on the wire at the last keepalive
    bound,            \* accounts of whose context the registrar has the Contact
    late,             \* accounts of which an old clean-up is still under way
    server            \* how the registrar answers: "up", "refusing", "down"

flagVars == <<cleanup_pending, reg_auth_tried>>
queueVars == <<request, presented, asked, waiting, aged>>
registrarVars == <<bound, late, server>>
regVars == <<live, flagVars, queueVars, registrarVars>>

Servers == {"up", "refusing", "down"}

RegTypeOK ==
    /\ live \subseteq Account
    /\ cleanup_pending \subseteq live /\ reg_auth_tried \subseteq live
    /\ request \in [Account -> {"none", "unregister", "register"}]
    /\ presented \subseteq live /\ asked \in [Account -> 0 .. MaxAuth]
    /\ waiting \in [Account -> 0 .. MaxWaiting]
    /\ aged \subseteq live /\ bound \subseteq live /\ late \subseteq Account
    /\ server \in Servers

RegInit(S) ==
    /\ live = S /\ cleanup_pending = S /\ reg_auth_tried = {}
    /\ request = [a \in Account |-> IF a \in S THEN "unregister" ELSE "none"]
    /\ asked = [a \in Account |-> 0] /\ waiting = [a \in Account |-> 0]
    /\ presented = {} /\ aged = {} /\ bound = {} /\ late = {}
    /\ server \in Servers

-----------------------------------------------------------------------------
\* f with the value v for the accounts in S.
On(f, S, v) == [a \in Account |-> IF a \in S THEN v ELSE f[a]]

(***************************************************************************)
(* sofia_ctx_destroy for the accounts in `gone', then sofia_ctx_create and *)
(* sofia_register for those in `fresh'.  A new context has a new port, so  *)
(* the registrar does not know it; its first request is the clean-up.      *)
(***************************************************************************)
SofiaReplace(gone, fresh) ==
    /\ live' = (live \ gone) \cup fresh
    /\ cleanup_pending' = (cleanup_pending \ gone) \cup fresh
    /\ reg_auth_tried' = reg_auth_tried \ (gone \cup fresh)
    /\ request' = On(On(request, gone, "none"), fresh, "unregister")
    /\ presented' = presented \ (gone \cup fresh)
    /\ asked' = On(asked, gone \cup fresh, 0)
    /\ waiting' = On(waiting, gone \cup fresh, 0)
    /\ aged' = aged \ (gone \cup fresh)
    /\ bound' = bound \ (gone \cup fresh)
    /\ \/ UNCHANGED late
       \/ "late" \in Env /\ late' = late \cup {a \in gone : request[a] = "unregister"}
    /\ UNCHANGED server

\* Mutant of SofiaReregister: its test of reg_nh is inverted.
SofiaReregisterNone(S) == UNCHANGED regVars

\* Mutant of SofiaReregister: it starts as sofia_register does, with the clean-up.
SofiaReregisterClean(S) ==
    LET idle == {a \in S : request[a] = "none"} IN
    /\ request' = On(request, idle, "unregister")
    /\ cleanup_pending' = cleanup_pending \cup idle
    /\ reg_auth_tried' = reg_auth_tried \ S /\ aged' = aged \cup S
    /\ UNCHANGED <<live, presented, asked, waiting, registrarVars>>

\* sofia_reregister for the accounts in S: nua_register on a handle whose request
\* is unanswered queues the new one.
SofiaReregister(S) ==
    LET busy == {a \in S : request[a] # "none"} IN
    /\ reg_auth_tried' = reg_auth_tried \ S
    /\ request' = On(request, S \ busy, "register")
    /\ waiting' = [a \in Account |->
           IF a \in busy /\ waiting[a] < MaxWaiting THEN waiting[a] + 1 ELSE waiting[a]]
    /\ aged' = aged \cup S
    /\ UNCHANGED <<live, cleanup_pending, presented, asked, registrarVars>>

-----------------------------------------------------------------------------
(***************************************************************************)
(* nua_cb for the answers.  401 and 407 differ in the header only.         *)
(***************************************************************************)
OnWire(a, r) == a \in live /\ request[a] = r

\* An answer a request may get.
Accepted == server = "up"
Challenged(a) == server = "refusing" \/ (server = "up" /\ a \notin presented)
Refused == server # "up"

\* The first challenge is answered with build_auth's credentials.
Authenticate(a) ==
    /\ reg_auth_tried' = reg_auth_tried \cup {a}
    /\ presented' = presented \cup {a}
    /\ asked' = [asked EXCEPT ![a] = IF @ < MaxAuth THEN @ + 1 ELSE @]
    /\ aged' = aged \ {a}
    /\ UNCHANGED <<live, cleanup_pending, request, waiting, registrarVars>>

\* Mutant of Concluded: reg_auth_tried keeps its value.
ConcludedTried(a) ==
    /\ presented' = presented \ {a}
    /\ aged' = aged \ {a}
    /\ UNCHANGED <<reg_auth_tried, live, late, server>>

\* The request of a is answered for good and the next one of the queue is sent.
Concluded(a) ==
    /\ reg_auth_tried' = reg_auth_tried \ {a}
    /\ presented' = presented \ {a}
    /\ aged' = aged \ {a}
    /\ UNCHANGED <<live, late, server>>

RUnregisterChallenge(a) ==
    /\ OnWire(a, "unregister") /\ Challenged(a)
    /\ a \in cleanup_pending /\ a \notin reg_auth_tried
    /\ Authenticate(a)

\* 200, any error, or a second challenge: the clean-up is over and the real
\* REGISTER goes to the end of the queue.
RUnregisterDone(a) ==
    /\ OnWire(a, "unregister") /\ a \in cleanup_pending
    /\ cleanup_pending' = cleanup_pending \ {a}
    /\ request' = [request EXCEPT ![a] = "register"]
    /\ bound' = IF Accepted THEN bound \ {a} ELSE bound
    /\ UNCHANGED <<waiting, asked>>
    /\ Concluded(a)

\* Mutant of RRegisterChallenge: every challenge is answered.
RRegisterChallengeAgain(a) ==
    OnWire(a, "register") /\ Challenged(a) /\ Authenticate(a)

RRegisterChallenge(a) ==
    /\ OnWire(a, "register") /\ Challenged(a)
    /\ a \notin reg_auth_tried
    /\ Authenticate(a)

NextInQueue(a) ==
    IF waiting[a] = 0
    THEN request' = [request EXCEPT ![a] = "none"] /\ UNCHANGED waiting
    ELSE waiting' = [waiting EXCEPT ![a] = @ - 1] /\ UNCHANGED request

\* REGISTER_OK is fired.
RRegisterOk(a) ==
    /\ OnWire(a, "register") /\ Accepted
    /\ bound' = bound \cup {a}
    /\ asked' = [asked EXCEPT ![a] = 0]
    /\ NextInQueue(a) /\ Concluded(a)
    /\ UNCHANGED cleanup_pending

\* REGISTER_FAIL is fired: an error, or credentials that are refused.  The answer
\* to a REGISTER the registrar accepted may have been lost.
RRegisterFail(a) ==
    /\ OnWire(a, "register")
    /\ Refused \/ (Challenged(a) /\ a \in reg_auth_tried)
    /\ \/ UNCHANGED bound
       \/ server = "down" /\ bound' = bound \cup {a}
    /\ asked' = [asked EXCEPT ![a] = 0]
    /\ NextInQueue(a) /\ Concluded(a)
    /\ UNCHANGED cleanup_pending

-----------------------------------------------------------------------------
(***************************************************************************)
(* The registrar on its own.                                               *)
(***************************************************************************)
ServerChanges ==
    /\ server' \in Servers \ {server}
    /\ UNCHANGED <<live, flagVars, queueVars, bound, late>>

\* A restart of the registrar, or a binding that expires.
RegistrarForgets ==
    /\ "forget" \in Env /\ bound # {}
    /\ bound' = {}
    /\ UNCHANGED <<live, flagVars, queueVars, late, server>>

\* "Contact: *" removes every binding of the account, also the new context's.
LateCleanup(a) ==
    /\ a \in late
    /\ late' = late \ {a} /\ bound' = bound \ {a}
    /\ UNCHANGED <<live, flagVars, queueVars, server>>

\* sofia-sip gives a request up after 32 s (64 T1), the keepalive comes every 40 s:
\* a request sent before one keepalive is answered before the next.
AnsweredInTime == aged = {}
=============================================================================
