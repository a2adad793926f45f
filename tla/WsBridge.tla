------------------------------ MODULE WsBridge ------------------------------
(***************************************************************************)
(* sip/wsbridge.rs: one session of the bridge between sofia-sip's TCP      *)
(* connection and the WebSocket to the server.                             *)
(*                                                                         *)
(* Two pumps, the accept loop and the writers' tasks run on one thread:    *)
(* each runs until its next await.  A pump that has read a chunk takes its *)
(* messages or frames one step at a time, and no other task runs between   *)
(* those steps (Slice).                                                    *)
(***************************************************************************)
EXTENDS SipRewrite, FiniteSets

CONSTANTS
    ServerFrames,   \* the shapes of frame [op, fin, blank] the server may send
    MaxTraffic,     \* bound: messages sofia sends, frames the server sends, the drop
    MaxFragments,   \* MAX_WS_MESSAGE, counted in fragments
    Env             \* what else may happen: "ping", "huge", "drop", "break"

ASSUME BridgeAssumption ==
    /\ MaxTraffic \in Nat /\ MaxFragments \in Nat \ {0}
    /\ ServerFrames \subseteq
         [op: {"text", "binary", "cont", "ping", "pong", "close", "bad", "huge"},
          fin: BOOLEAN, blank: BOOLEAN]

VARIABLES
    cancelled,   \* WsBridge was dropped
    accept,      \* accept_loop: "waiting", "ended"
    phase,       \* run_session: "none", "connecting", "handshake", "open", "over"
    link,        \* sofia's end of the loopback connection: "none", "open", "shut"
    local,       \* the bridge's end is open
    srv,         \* the server's end of the WebSocket is open
    fromSofia,   \* bytes on the way to the bridge, in halves of messages
    fromServer,  \* bytes on the way to the bridge, in halves of frames
    up,          \* pump_sofia_to_ws: "none", "spawned", "reading", "split", "over"
    down,        \* pump_ws_to_sofia: "none", "reading", "drain", "over"
    upBuf, downBuf,
    frag,        \* payloads of an unfinished fragmented message, <<>> if there is none
    done,
    writer,      \* the two Writers
    sofiaSent,   \* messages sofia has written
    srvSent      \* frames the server has sent

pumpVars == <<up, down, upBuf, downBuf, frag, done>>
netVars == <<link, local, srv, fromSofia, fromServer, sofiaSent, srvSent>>
ctlVars == <<cancelled, accept, phase>>
vars == <<pumpVars, netVars, ctlVars, writer>>
-----------------------------------------------------------------------------
\* Bytes: a message or a frame arrives in two halves, a keepalive CRLF in one.
Halves(x) == <<[of |-> x, part |-> 1], [of |-> x, part |-> 2]>>
Crlf == [of |-> 0, part |-> 0]
HugePart == 3                   \* part of what exceeds MAX_SIP_BUFFER, MAX_WS_MESSAGE
Oversized(buf) == \E i \in DOMAIN buf : buf[i].part = HugePart

\* read_some: some of what has arrived, at least one byte.
Chunks(stream) == {SubSeq(stream, 1, k) : k \in 1..Len(stream)}
After(stream, chunk) == SubSeq(stream, Len(chunk) + 1, Len(stream))

(***************************************************************************)
(* Writer: a queue, a busy flag, and the tasks that are running.  A task   *)
(* is "ready" (about to pop) or holds the item it is writing.  sent and    *)
(* got only record what went in and what reached the stream; cut says the  *)
(* stream has failed.                                                      *)
(***************************************************************************)
Writers == {"ws", "tcp"}
NewWriter == [queue |-> <<>>, busy |-> FALSE, tasks |-> <<>>,
              sent |-> <<>>, got |-> <<>>, cut |-> FALSE]
Ready == <<>>

\* Mutant of push: every producer starts a task.
push_spawn(r, x) ==
    [r EXCEPT !.queue = Append(@, x), !.sent = Append(@, x),
              !.busy = TRUE, !.tasks = Append(@, Ready)]

push(r, x) ==
    [r EXCEPT !.queue = Append(@, x),
              !.sent = Append(@, x),
              !.busy = TRUE,
              !.tasks = IF r.busy THEN @ ELSE Append(@, Ready)]

Push(w, x) == writer' = [writer EXCEPT ![w] = push(@, x)]

\* Mutant of TaskPop: busy stays set when the queue runs dry.
TaskPopBusy(r, i) ==
    IF r.queue = <<>>
    THEN [r EXCEPT !.tasks = RemoveAt(@, i)]
    ELSE [r EXCEPT !.tasks[i] = <<Head(r.queue)>>, !.queue = Tail(@)]

\* The top of the task's loop: take the next item, or end and clear busy.
TaskPop(r, i) ==
    IF r.queue = <<>>
    THEN [r EXCEPT !.tasks = RemoveAt(@, i), !.busy = FALSE]
    ELSE [r EXCEPT !.tasks[i] = <<Head(r.queue)>>, !.queue = Tail(@)]

\* write_all has written the item, and the loop goes round.
TaskWritten(r, i) == TaskPop([r EXCEPT !.got = Append(@, r.tasks[i][1])], i)

\* write_all failed: what was queued is given up.
TaskFailed(r, i, cut) ==
    [r EXCEPT !.queue = <<>>, !.busy = FALSE, !.tasks = RemoveAt(@, i), !.cut = @ \/ cut]

\* GIO refuses a second write while one is outstanding on the same stream.
Pending(r, i) == \E j \in DOMAIN r.tasks : j # i /\ r.tasks[j] # Ready

\* May a write to the stream fail, may it succeed?
MayFail(w) ==
    \/ writer[w].cut
    \/ w = "ws" /\ (~srv \/ down = "over")
    \/ w = "tcp" /\ (link = "shut" \/ ~local)
MayWrite(w) == ~writer[w].cut /\ (w = "tcp" => local)

\* A pump is between two awaits.
Slice == up = "split" \/ down = "drain"

WriterStarts(w) ==
    /\ ~Slice
    /\ \E i \in DOMAIN writer[w].tasks :
         /\ writer[w].tasks[i] = Ready
         /\ writer' = [writer EXCEPT ![w] =
                         IF @.queue # <<>> /\ Pending(@, i)
                         THEN TaskFailed(@, i, FALSE) ELSE TaskPop(@, i)]
    /\ UNCHANGED <<pumpVars, netVars, ctlVars>>

WriterWrites(w) ==
    /\ ~Slice
    /\ MayWrite(w)
    /\ \E i \in DOMAIN writer[w].tasks :
         /\ writer[w].tasks[i] # Ready
         /\ writer' = [writer EXCEPT ![w] = TaskWritten(@, i)]
    /\ UNCHANGED <<pumpVars, netVars, ctlVars>>

WriterFails(w) ==
    /\ ~Slice
    /\ MayFail(w)
    /\ \E i \in DOMAIN writer[w].tasks :
         /\ writer[w].tasks[i] # Ready
         /\ writer' = [writer EXCEPT ![w] = TaskFailed(@, i, TRUE)]
    /\ UNCHANGED <<pumpVars, netVars, ctlVars>>
-----------------------------------------------------------------------------
(***************************************************************************)
(* accept_loop and run_session.                                            *)
(***************************************************************************)
SofiaConnects ==
    /\ link = "none" /\ ~Slice
    /\ link' = "open" /\ local' = TRUE
    /\ UNCHANGED <<pumpVars, ctlVars, writer, srv, fromSofia, fromServer, sofiaSent, srvSent>>

\* accept_future is ready: the flag is looked at only now.
Accept ==
    /\ accept = "waiting" /\ phase = "none" /\ link # "none" /\ ~Slice
    /\ IF cancelled
       THEN accept' = "ended" /\ local' = FALSE /\ UNCHANGED phase
       ELSE phase' = "connecting" /\ UNCHANGED <<accept, local>>
    /\ UNCHANGED <<cancelled, link, srv, fromSofia, fromServer, sofiaSent, srvSent,
                   pumpVars, writer>>

\* Mutant of CloseLocal: sofia's connection is left open.
LeaveLocal == UNCHANGED local /\ phase' = "over"

CloseLocal == local' = FALSE /\ phase' = "over"

\* connect_ws fails: in the TCP connect, by the flag after it, or in the handshake.
ConnectFails ==
    /\ phase \in {"connecting", "handshake"} /\ ~Slice
    /\ CloseLocal
    /\ UNCHANGED <<cancelled, accept, link, srv, fromSofia, fromServer, sofiaSent, srvSent,
                   pumpVars, writer>>

TcpConnected ==
    /\ phase = "connecting" /\ ~cancelled /\ ~Slice
    /\ phase' = "handshake"
    /\ srv' = TRUE
    /\ UNCHANGED <<cancelled, accept, link, local, fromSofia, fromServer, sofiaSent, srvSent,
                   pumpVars, writer>>

\* Mutant of Upgraded: what came with the response is dropped.
UpgradedEmpty ==
    /\ phase = "handshake" /\ ~Slice
    /\ \E first \in Chunks(fromServer) \cup {<<>>} : fromServer' = After(fromServer, first)
    /\ downBuf' = <<>>
    /\ phase' = "open" /\ up' = "spawned" /\ down' = "drain"
    /\ UNCHANGED <<cancelled, accept, link, local, srv, fromSofia, sofiaSent, srvSent,
                   upBuf, frag, done, writer>>

\* The response may bring the first frames with it: they are the reader's leftover.
Upgraded ==
    /\ phase = "handshake" /\ ~Slice
    /\ \E first \in Chunks(fromServer) \cup {<<>>} :
         downBuf' = first /\ fromServer' = After(fromServer, first)
    /\ phase' = "open"
    /\ up' = "spawned"
    /\ down' = "drain"
    /\ UNCHANGED <<cancelled, accept, link, local, srv, fromSofia, sofiaSent, srvSent,
                   upBuf, frag, done, writer>>
-----------------------------------------------------------------------------
(***************************************************************************)
(* pump_sofia_to_ws.                                                       *)
(***************************************************************************)
\* The loop is left: done is set and a CLOSE frame queued.
UpEnds ==
    /\ up' = "over"
    /\ done' = TRUE
    /\ Push("ws", [op |-> "close", of |-> 0])

\* The top of the loop.
UpNext ==
    IF done \/ cancelled THEN UpEnds ELSE up' = "reading" /\ UNCHANGED <<done, writer>>

UpStart ==
    /\ up = "spawned" /\ ~Slice
    /\ UpNext
    /\ UNCHANGED <<netVars, ctlVars, down, upBuf, downBuf, frag>>

\* A read that completed before the other pump closed the connection still counts.
UpReads ==
    /\ up = "reading" /\ ~Slice
    /\ \E c \in Chunks(fromSofia) :
         /\ upBuf' = upBuf \o c
         /\ fromSofia' = After(fromSofia, c)
         /\ IF Oversized(upBuf') THEN UpEnds ELSE up' = "split" /\ UNCHANGED <<done, writer>>
    /\ UNCHANGED <<link, local, srv, fromServer, sofiaSent, srvSent, ctlVars,
                   down, downBuf, frag>>

\* End of file, or an error because the connection is closed on this side.
UpReadEnds ==
    /\ up = "reading" /\ ~Slice
    /\ ~local \/ (link = "shut" /\ fromSofia = <<>>)
    /\ UpEnds
    /\ UNCHANGED <<netVars, ctlVars, down, upBuf, downBuf, frag>>

\* take_sip_message: leading CRLFs go once a message follows, and it must be whole.
Stripped(buf) ==
    LET k == SelectInSeq(buf, LAMBDA u : u # Crlf)
    IN  IF k = 0 THEN buf ELSE SubSeq(buf, k, Len(buf))
\* Mutant of WholeMessage: the Content-Length is not waited for.
AnyMessage(buf) == Len(Stripped(buf)) >= 1 /\ Stripped(buf)[1] # Crlf

WholeMessage(buf) == Len(Stripped(buf)) >= 2 /\ Stripped(buf)[1] # Crlf

UpTakes ==
    /\ up = "split"
    /\ WholeMessage(upBuf)
    /\ LET s == Stripped(upBuf)
       IN  /\ Push("ws", [op |-> "text", of |-> s[1].of])
           /\ upBuf' = SubSeq(s, 3, Len(s))
    /\ UNCHANGED <<netVars, ctlVars, up, down, downBuf, frag, done>>

UpSplitDone ==
    /\ up = "split"
    /\ ~WholeMessage(upBuf)
    /\ upBuf' = Stripped(upBuf)
    /\ UpNext
    /\ UNCHANGED <<netVars, ctlVars, down, downBuf, frag>>
-----------------------------------------------------------------------------
(***************************************************************************)
(* pump_ws_to_sofia.                                                       *)
(***************************************************************************)
\* The pump returns: run_session closes sofia's connection in the same step.
DownReturns == down' = "over" /\ done' = TRUE /\ CloseLocal

WholeFrame(buf) == Len(buf) >= 2 /\ ~Oversized(buf)
Frame == downBuf[1].of

\* decode_frame has found the frame `Frame` in the buffer.
Drains ==
    /\ down = "drain"
    /\ WholeFrame(downBuf)
    /\ downBuf' = SubSeq(downBuf, 3, Len(downBuf))
    /\ UNCHANGED <<cancelled, accept, link, srv, fromSofia, fromServer, sofiaSent, srvSent,
                   up, upBuf>>

\* Reserved bits or a length above the limit; a frame the sequence does not allow.
Unexpected ==
    \/ Frame.op \in {"text", "binary"} /\ frag # <<>>
    \/ Frame.op = "cont" /\ frag = <<>>

DrainBad ==
    /\ Drains
    /\ Frame.op = "bad" \/ Unexpected
    /\ DownReturns
    /\ UNCHANGED <<frag, writer>>

DrainClose ==
    /\ Drains
    /\ Frame.op = "close"
    /\ Push("ws", [op |-> "close", of |-> 0])
    /\ DownReturns
    /\ UNCHANGED frag

DrainPing ==
    /\ Drains
    /\ Frame.op \in {"ping", "pong"}
    /\ IF Frame.op = "ping" THEN Push("ws", [op |-> "pong", of |-> Frame.id])
       ELSE UNCHANGED writer
    /\ UNCHANGED <<down, done, phase, local, frag>>

Data == Frame.op \in {"text", "binary", "cont"} /\ ~Unexpected
Payloads == Append(frag, Frame.id)

\* Mutant of TooLong: the limit is looked at one fragment too late.
TooLongLate == Len(frag) > MaxFragments

TooLong == Len(Payloads) > MaxFragments

DrainTooLong ==
    /\ Drains
    /\ Data /\ TooLong
    /\ DownReturns
    /\ UNCHANGED <<frag, writer>>

DrainFragment ==
    /\ Drains
    /\ Data /\ ~TooLong /\ ~Frame.fin
    /\ frag' = Payloads
    /\ UNCHANGED <<down, done, phase, local, writer>>

\* A whole message: a blank one is a keepalive, any other goes to sofia.
DrainMessage ==
    /\ Drains
    /\ Data /\ ~TooLong /\ Frame.fin
    /\ frag' = <<>>
    /\ IF ToSet(Payloads) = {0} THEN UNCHANGED writer ELSE Push("tcp", Payloads)
    /\ UNCHANGED <<down, done, phase, local>>

\* Nothing whole is left: the flags, then the next read.
DrainDone ==
    /\ down = "drain"
    /\ ~WholeFrame(downBuf)
    /\ IF done \/ cancelled
       THEN down' = "over" /\ CloseLocal
       ELSE down' = "reading" /\ UNCHANGED <<phase, local>>
    /\ UNCHANGED <<cancelled, accept, link, srv, fromSofia, fromServer, sofiaSent, srvSent,
                   up, upBuf, downBuf, frag, done, writer>>

DownReads ==
    /\ down = "reading" /\ ~Slice
    /\ \E c \in Chunks(fromServer) :
         /\ downBuf' = downBuf \o c
         /\ fromServer' = After(fromServer, c)
         /\ IF Oversized(downBuf') THEN DownReturns
            ELSE down' = "drain" /\ UNCHANGED <<done, phase, local>>
    /\ UNCHANGED <<cancelled, accept, link, srv, fromSofia, sofiaSent, srvSent,
                   up, upBuf, frag, writer>>

\* End of file after all that arrived, or an error at any time once the server is gone.
DownReadEnds ==
    /\ down = "reading" /\ ~Slice /\ ~srv
    /\ DownReturns
    /\ UNCHANGED <<cancelled, accept, link, srv, fromSofia, fromServer, sofiaSent, srvSent,
                   up, upBuf, downBuf, frag, writer>>
-----------------------------------------------------------------------------
(***************************************************************************)
(* Around the bridge: sofia, the server and the owner of the WsBridge.     *)
(***************************************************************************)
Traffic == sofiaSent + Len(srvSent) + IF cancelled THEN 1 ELSE 0

Outside == ~Slice /\ UNCHANGED <<pumpVars, accept, phase, writer>>

\* A message, perhaps behind a keepalive, or one that is far too long.
SofiaSends ==
    /\ Outside
    /\ link = "open" /\ local
    /\ Traffic < MaxTraffic
    /\ sofiaSent' = sofiaSent + 1
    /\ \E bytes \in {Halves(sofiaSent')}
                    \cup (IF "ping" \in Env THEN {<<Crlf>> \o Halves(sofiaSent')} ELSE {})
                    \cup (IF "huge" \in Env THEN {<<[of |-> 0, part |-> HugePart]>>} ELSE {}) :
         fromSofia' = fromSofia \o bytes
    /\ UNCHANGED <<cancelled, link, local, srv, fromServer, srvSent>>

SofiaShuts ==
    /\ Outside
    /\ link = "open" /\ link' = "shut"
    /\ UNCHANGED <<cancelled, local, srv, fromSofia, fromServer, sofiaSent, srvSent>>

\* Frames are numbered, a blank one is 0; what follows one the bridge ends at
\* is never looked at, and left out.
Final == {"close", "bad", "huge"}
SrvClosed == \E i \in DOMAIN srvSent : srvSent[i].op = "close"

ServerSends(s) ==
    /\ Outside
    /\ srv /\ phase \in {"handshake", "open"}
    /\ Traffic < MaxTraffic
    /\ \A i \in DOMAIN srvSent : srvSent[i].op \notin Final
    /\ LET f == [op |-> s.op, fin |-> s.fin, id |-> IF s.blank THEN 0 ELSE Len(srvSent) + 1]
       IN  /\ srvSent' = Append(srvSent, f)
           /\ fromServer' = fromServer \o IF s.op = "huge" THEN <<[of |-> f, part |-> HugePart]>> ELSE Halves(f)
    /\ UNCHANGED <<cancelled, link, local, srv, fromSofia, sofiaSent>>

ServerGone ==
    /\ Outside
    /\ srv /\ srv' = FALSE
    /\ "break" \in Env \/ SrvClosed
    /\ UNCHANGED <<cancelled, link, local, fromSofia, fromServer, sofiaSent, srvSent>>

\* A server that is sent CLOSE answers it, or just closes.
GotClose == \E i \in DOMAIN writer["ws"].got : writer["ws"].got[i].op = "close"

ServerAnswersClose ==
    /\ Outside
    /\ srv /\ GotClose
    /\ IF SrvClosed
       THEN srv' = FALSE /\ UNCHANGED <<srvSent, fromServer>>
       ELSE LET f == [op |-> "close", fin |-> TRUE, id |-> 0]
            IN  /\ srvSent' = Append(srvSent, f)
                /\ fromServer' = fromServer \o Halves(f)
                /\ UNCHANGED srv
    /\ UNCHANGED <<cancelled, link, local, fromSofia, sofiaSent>>

\* Drop for WsBridge: the flag is all it sets.
Drop ==
    /\ Outside
    /\ "drop" \in Env /\ ~cancelled /\ Traffic < MaxTraffic
    /\ cancelled' = TRUE
    /\ UNCHANGED netVars
-----------------------------------------------------------------------------
Init ==
    /\ cancelled = FALSE /\ accept = "waiting" /\ phase = "none"
    /\ link = "none" /\ local = FALSE /\ srv = FALSE
    /\ fromSofia = <<>> /\ fromServer = <<>>
    /\ up = "none" /\ down = "none"
    /\ upBuf = <<>> /\ downBuf = <<>> /\ frag = <<>>
    /\ done = FALSE
    /\ writer = [w \in Writers |-> NewWriter]
    /\ sofiaSent = 0 /\ srvSent = <<>>

WriterTask(w) == WriterStarts(w) \/ WriterWrites(w) \/ WriterFails(w)
UpPump == UpStart \/ UpReads \/ UpReadEnds \/ UpTakes \/ UpSplitDone
Drain ==
    \/ DrainBad \/ DrainClose \/ DrainPing
    \/ DrainFragment \/ DrainTooLong \/ DrainMessage \/ DrainDone
DownPump == Drain \/ DownReads \/ DownReadEnds
RunSession == Accept \/ ConnectFails \/ TcpConnected \/ Upgraded

Next ==
    \/ \E w \in Writers : WriterTask(w)
    \/ UpPump \/ DownPump \/ RunSession
    \/ SofiaConnects \/ SofiaSends \/ SofiaShuts
    \/ \E s \in ServerFrames : ServerSends(s)
    \/ ServerGone \/ ServerAnswersClose \/ Drop

Spec == Init /\ [][Next]_vars

\* The main loop runs every task that is ready; sofia and the server are not
\* obliged to anything but the server to answer a CLOSE.
FairSpec ==
    /\ Spec
    /\ WF_vars(UpPump) /\ WF_vars(DownPump) /\ WF_vars(RunSession)
    /\ \A w \in Writers : WF_vars(WriterTask(w))
    /\ WF_vars(ServerAnswersClose)
-----------------------------------------------------------------------------
ServerFrame == [op: {"text", "binary", "cont", "ping", "pong", "close", "bad", "huge"},
                fin: BOOLEAN, id: Nat]
Bytes(S) == Seq([of: S, part: 0..HugePart])
Item(w) == IF w = "ws" THEN [op: {"text", "pong", "close"}, of: Nat] ELSE Seq(Nat)
WriterOf(S) == [queue: Seq(S), busy: BOOLEAN, tasks: Seq(Seq(S)),
                sent: Seq(S), got: Seq(S), cut: BOOLEAN]

TypeOK ==
    /\ cancelled \in BOOLEAN /\ accept \in {"waiting", "ended"}
    /\ phase \in {"none", "connecting", "handshake", "open", "over"}
    /\ link \in {"none", "open", "shut"} /\ local \in BOOLEAN /\ srv \in BOOLEAN
    /\ fromSofia \in Bytes(Nat) /\ upBuf \in Bytes(Nat)
    /\ fromServer \in Bytes(ServerFrame) /\ downBuf \in Bytes(ServerFrame)
    /\ up \in {"none", "spawned", "reading", "split", "over"}
    /\ down \in {"none", "reading", "drain", "over"}
    /\ frag \in Seq(Nat) /\ Len(frag) <= MaxFragments /\ done \in BOOLEAN
    /\ writer = [w \in Writers |-> writer[w]]
    /\ \A w \in Writers : writer[w] \in WriterOf(Item(w))
    /\ sofiaSent \in Nat /\ srvSent \in Seq(ServerFrame)

\* Sofia's messages reach the WebSocket's writer whole, once each and in order,
\* however TCP cuts them up and wherever keepalives fall between them.
SofiaInOrder ==
    LET items == writer["ws"].sent
        texts == {i \in DOMAIN items : items[i].op = "text"}
    IN  \A i \in texts : items[i].of = Cardinality(texts \cap 1..i)

\* What the frames the server sent say, by RFC 6455: a first frame, continuations,
\* a last one; control frames anywhere between them; blank messages left out.
DataFrames == {k \in DOMAIN srvSent : srvSent[k].op \in {"text", "binary", "cont"}}
Message(i, j) ==
    /\ i <= j /\ srvSent[i].op # "cont" /\ srvSent[j].fin
    /\ \A k \in DataFrames \cap (i + 1)..j : srvSent[k].op = "cont"
    /\ \A k \in DataFrames \cap i..(j - 1) : ~srvSent[k].fin
    /\ \E k \in DataFrames \cap i..j : srvSent[k].id # 0
\* The last frames of the messages, and what a message's payload is.
Spoken == {j \in DataFrames : \E i \in DataFrames : Message(i, j)}
Says(payload, i, j) ==
    /\ Len(payload) = Cardinality(DataFrames \cap i..j)
    /\ \A k \in DataFrames \cap i..j :
          payload[Cardinality(DataFrames \cap i..k)] = srvSent[k].id

\* Sofia is handed what the server said, in order and unchanged, and all of it
\* when the reader waits with nothing left: the bytes that came with the
\* handshake included.
Reassembled ==
    LET handed == writer["tcp"].sent
    IN  /\ \A n \in DOMAIN handed : \E i, j \in DataFrames :
              Message(i, j) /\ n = Cardinality(Spoken \cap 1..j) /\ Says(handed[n], i, j)
        /\ (down = "reading" /\ downBuf = <<>> /\ fromServer = <<>>) =>
              Len(handed) = Cardinality(Spoken)

\* wsbridge.rs 548-549: two producers share one stream without interleaving bytes
\* mid-frame.  The queue, the busy flag and the spawned task of each Writer implement
\* the FIFO of Pipe, nothing lost, doubled or overtaken.
WsPipe == INSTANCE Pipe WITH sent <- writer["ws"].sent, got <- writer["ws"].got,
                             cut <- writer["ws"].cut
TcpPipe == INSTANCE Pipe WITH sent <- writer["tcp"].sent, got <- writer["tcp"].got,
                              cut <- writer["tcp"].cut
WritersArePipes == WsPipe!Spec /\ TcpPipe!Spec

\* Once sofia shuts its connection, the server sends CLOSE or a pump gives up,
\* both pumps end.
SessionEnds ==
    (phase = "open" /\ (link = "shut" \/ SrvClosed \/ done)) ~> (up = "over" /\ down = "over")

\* What is queued is written, or the stream has failed.
Flushed == \A w \in Writers : []<>(writer[w].got = writer[w].sent \/ writer[w].cut)

\* A message sofia sends and gets back is the one it sent, less the Route that
\* named the bridge, whatever its headers carry.
SofiaLines ==
    {l \in [name: Headers, via: {"none", "TCP"}, host: Hosts \ {"token"}, param: {"none", "tcp"}] :
        (l.name = "Via") = (l.via = "TCP") /\ (l.host = "bridge" => l.name = "Route")}
TopVia == [name |-> "Via", via |-> "TCP", host |-> "own", param |-> "none"]
MessageRoundTrip ==
    \A l \in SofiaLines :
        LET msg == <<TopVia, l>>
        IN  rewrite_inbound(rewrite_outbound(msg), Learn("none", msg))
              = IF BridgeRoute(l) THEN <<TopVia>> ELSE msg

\* A client frame of any length around the limits of its length field is decoded
\* from exactly its own bytes, and not before the last of them is there.
Lengths == {0, 125, 126, 127, 128, 65535, 65536, 65537}
FrameRoundTrip ==
    \A n \in Lengths :
        LET total == FrameBytes(encode_frame(n), n)
        IN  \A have \in ({2, 3, 4, 5, 8, 10, 14, total - 1, total, total + 1} \cap 2..(total + 1)) :
              LET r == decode_frame(encode_frame(n), TRUE, have, 1048576)
              IN  IF have < total THEN r.is = "short"
                  ELSE r.is = "frame" /\ r.len = n /\ r.consumed = total

\* The bridge is transparent: once anything passes it, whatever passes it comes back
\* the same, message by message and frame by frame.
WireRoundTrip == writer["ws"].sent # <<>> => MessageRoundTrip /\ FrameRoundTrip
=============================================================================
