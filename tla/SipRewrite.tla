----------------------------- MODULE SipRewrite -----------------------------
(***************************************************************************)
(* sip/wsbridge.rs, the text it works on: the header lines of a SIP        *)
(* message as they pass the bridge, and the header of a WebSocket frame.   *)
(*                                                                         *)
(* A line is a record of the four things the rewriting tells apart: which  *)
(* header it is, the transport it names, the host, the ;transport= value.  *)
(***************************************************************************)
EXTENDS Subsequence, SequencesExt

Headers == {"Via", "Route", "Other"}
Hosts == {"own", "bridge", "bare", "remote", "token"}   \* own: sofia's 127.0.0.1:<port>
Line == [name: Headers, via: {"none", "TCP", "WS", "WSS"},
         host: Hosts, param: {"none", "tcp", "ws", "wss"}]

\* Mutant of replace_loopback: an address without a port is taken as well.
replace_any_loopback(h) == IF h \in {"own", "bridge", "bare"} THEN "token" ELSE h

\* `127.0.0.1:<port>` becomes the token, a bare address stays.
replace_loopback(h) == IF h \in {"own", "bridge"} THEN "token" ELSE h

map_tokens_out(l) ==
    [l EXCEPT !.via = IF @ = "TCP" THEN "WS" ELSE @,
              !.host = replace_loopback(@),
              !.param = IF @ = "tcp" THEN "ws" ELSE @]

map_tokens_in(l) ==
    [l EXCEPT !.via = IF @ \in {"WS", "WSS"} THEN "TCP" ELSE @,
              !.param = IF @ \in {"ws", "wss"} THEN "tcp" ELSE @]

\* The host of the Via, if the line is one.
via_sent_by(l) == IF l.name = "Via" THEN l.host ELSE "none"

\* The first Via of the first message teaches the bridge sofia's address.
Learn(sentBy, msg) ==
    LET vias == Where(msg, LAMBDA l : via_sent_by(l) # "none")
    IN  IF sentBy = "none" /\ vias # <<>> THEN via_sent_by(vias[1]) ELSE sentBy

BridgeRoute(l) == l.name = "Route" /\ l.host = "bridge"

rewrite_outbound(msg) ==
    LET kept == Where(msg, LAMBDA l : ~BridgeRoute(l))
    IN  [i \in DOMAIN kept |-> map_tokens_out(kept[i])]

rewrite_inbound(msg, sentBy) ==
    LET Home(h) == IF h = "token" /\ sentBy # "none" THEN sentBy ELSE h
    IN  [i \in DOMAIN msg |-> [map_tokens_in(msg[i]) EXCEPT !.host = Home(@)]]
-----------------------------------------------------------------------------
(***************************************************************************)
(* Frame headers.  A client frame of n payload bytes has a 7-bit length,   *)
(* an extension of 0, 2 or 8 bytes (of the width the encoder casts to) and *)
(* a mask of 4 bytes.                                                      *)
(***************************************************************************)
encode_frame(n) ==
    IF n < 126 THEN [len7 |-> n, ext |-> 0, val |-> 0]
    ELSE IF n <= 65535 THEN [len7 |-> 126, ext |-> 2, val |-> n % 65536]
    ELSE [len7 |-> 127, ext |-> 8, val |-> n]

FrameBytes(h, n) == 2 + h.ext + 4 + n

\* The first `have` bytes of a frame: more is needed, it is refused, or it is there.
decode_frame(h, masked, have, maxMessage) ==
    LET ext == CASE h.len7 = 126 -> 2 [] h.len7 = 127 -> 8 [] OTHER -> 0
        len == IF ext = 0 THEN h.len7 ELSE h.val
        off == 2 + ext + (IF masked THEN 4 ELSE 0)
    IN  CASE have < 2 + ext -> [is |-> "short", len |-> 0, consumed |-> 0]
          [] have >= 2 + ext /\ len > maxMessage -> [is |-> "refused", len |-> len, consumed |-> 0]
          [] have >= 2 + ext /\ len <= maxMessage /\ have < off + len
               -> [is |-> "short", len |-> 0, consumed |-> 0]
          [] OTHER -> [is |-> "frame", len |-> len, consumed |-> off + len]
=============================================================================
