--------------------------- MODULE WsStreamProofs ---------------------------
(***************************************************************************)
(* What the bridge hands on is what it was sent, for any number of         *)
(* messages and frames and however TCP cuts the streams up.                *)
(*                                                                         *)
(* SofiaInv: the messages that are not handed over yet are the next ones   *)
(* of the stream, in the buffer and behind it.  ServerInv: there is a      *)
(* number of frames that have been dealt with; the message that is being   *)
(* collected is theirs, and the other frames are the stream.               *)
(***************************************************************************)
EXTENDS WsBridgeProofs

-----------------------------------------------------------------------------
(***************************************************************************)
(* Streams that are cut and joined.                                        *)
(***************************************************************************)
\* The end of a sequence, element by element.
LEMMA SuffixElements ==
    ASSUME NEW S, NEW s \in Seq(S), NEW q \in 1 .. Len(s) + 1
    PROVE  /\ SubSeq(s, q, Len(s)) \in Seq(S)
           /\ Len(SubSeq(s, q, Len(s))) = Len(s) + 1 - q
           /\ \A i \in 1 .. Len(s) + 1 - q : SubSeq(s, q, Len(s))[i] = s[q + i - 1]
<1>1. Len(s) \in Nat /\ q \in Int /\ Len(s) \in Int
  BY LenProperties
<1>2. \A i \in q .. Len(s) : s[i] \in S
  BY <1>1, ElementOfSeq
<1>3. /\ SubSeq(s, q, Len(s)) \in Seq(S)
      /\ Len(SubSeq(s, q, Len(s))) = IF q <= Len(s) THEN Len(s) - q + 1 ELSE 0
      /\ \A i \in 1 .. Len(s) - q + 1 : SubSeq(s, q, Len(s))[i] = s[q + i - 1]
  BY <1>1, <1>2, SubSeqProperties
<1> QED BY <1>1, <1>3

\* What is left of a buffer, and the stream behind it.
LEMMA SuffixJoins ==
    ASSUME NEW S, NEW a \in Seq(S), NEW b \in Seq(S), NEW q \in 1 .. Len(a) + 1
    PROVE  SubSeq(a, q, Len(a)) \o b = SubSeq(a \o b, q, Len(a \o b))
<1> DEFINE j == a \o b
           l == SubSeq(a, q, Len(a))
           t == SubSeq(j, q, Len(j))
<1>1. /\ Len(a) \in Nat /\ Len(b) \in Nat
      /\ j \in Seq(S) /\ Len(j) = Len(a) + Len(b)
      /\ \A i \in 1 .. Len(a) + Len(b) : j[i] = IF i <= Len(a) THEN a[i] ELSE b[i - Len(a)]
  BY LenProperties, ConcatProperties
<1>2. /\ l \in Seq(S) /\ Len(l) = Len(a) + 1 - q
      /\ \A i \in 1 .. Len(a) + 1 - q : l[i] = a[q + i - 1]
  BY SuffixElements
<1> HIDE DEF j
<1>3. q \in 1 .. Len(j) + 1
  BY <1>1
<1>4. /\ t \in Seq(S) /\ Len(t) = Len(j) + 1 - q
      /\ \A i \in 1 .. Len(j) + 1 - q : t[i] = j[q + i - 1]
  BY <1>1, <1>3, SuffixElements
<1> HIDE DEF l, t
<1>5. /\ l \o b \in Seq(S) /\ Len(l \o b) = Len(l) + Len(b)
      /\ \A i \in 1 .. Len(l) + Len(b) : (l \o b)[i] = IF i <= Len(l) THEN l[i] ELSE b[i - Len(l)]
  BY <1>2, ConcatProperties
<1>6. Len(l \o b) = Len(t)
  BY <1>1, <1>2, <1>4, <1>5
<1>7. ASSUME NEW i \in 1 .. Len(l \o b) PROVE (l \o b)[i] = t[i]
  <2>1. i \in 1 .. Len(j) + 1 - q /\ q + i - 1 \in 1 .. Len(a) + Len(b)
    BY <1>1, <1>4, <1>6
  <2>2. t[i] = IF q + i - 1 <= Len(a) THEN a[q + i - 1] ELSE b[q + i - 1 - Len(a)]
    <3>1. t[i] = j[q + i - 1]
      BY <1>4, <2>1
    <3>2. j[q + i - 1] = IF q + i - 1 <= Len(a) THEN a[q + i - 1] ELSE b[q + i - 1 - Len(a)]
      BY <1>1, <2>1, SMTT(30)
    <3> QED BY <3>1, <3>2
  <2>3. CASE i <= Len(l)
    <3>1. (l \o b)[i] = l[i]
      BY <1>5, <2>3
    <3>2. i \in 1 .. Len(a) + 1 - q /\ q + i - 1 <= Len(a)
      BY <1>1, <1>2, <2>3
    <3>3. l[i] = a[q + i - 1]
      BY <1>2, <3>2
    <3> QED BY <2>2, <3>1, <3>2, <3>3
  <2>4. CASE ~(i <= Len(l))
    <3>1. (l \o b)[i] = b[i - Len(l)] /\ ~(q + i - 1 <= Len(a)) /\ i - Len(l) = q + i - 1 - Len(a)
      BY <1>1, <1>2, <1>5, <2>1, <2>4
    <3> QED BY <2>2, <3>1
  <2> QED BY <2>3, <2>4
<1>8. l \o b = t
  BY <1>4, <1>5, <1>6, <1>7, SeqEqual
<1> QED BY <1>8 DEF l, t, j

\* A chunk and what it leaves are the stream.
LEMMA ChunkJoins ==
    ASSUME NEW S, NEW b \in Seq(S), NEW c \in Chunks(b)
    PROVE  c \in Seq(S) /\ After(b, c) \in Seq(S) /\ c \o After(b, c) = b
<1>1. PICK k \in 1 .. Len(b) : c = SubSeq(b, 1, k)
  BY DEF Chunks
<1>2. Len(b) \in Nat /\ c \in Seq(S) /\ After(b, c) \in Seq(S)
  BY ChunkType, LenProperties
<1>3. Len(c) = k
  <2>1. \A i \in 1 .. k : b[i] \in S
    BY <1>2, ElementOfSeq
  <2> QED BY <1>1, <2>1, SubSeqProperties
<1>4. SubSeq(b, 1, k) \o SubSeq(b, k + 1, Len(b)) = SubSeq(b, 1, Len(b))
  BY <1>2, ConcatAdjacentSubSeq
<1>5. SubSeq(b, 1, Len(b)) = b
  BY SubSeqFull
<1> QED BY <1>1, <1>2, <1>3, <1>4, <1>5 DEF After

\* Reading moves bytes from the stream to the buffer.
LEMMA ReadMoves ==
    ASSUME NEW S, NEW a \in Seq(S), NEW b \in Seq(S), NEW c \in Chunks(b)
    PROVE  (a \o c) \o After(b, c) = a \o b
<1>1. c \in Seq(S) /\ After(b, c) \in Seq(S) /\ c \o After(b, c) = b
  BY ChunkJoins
<1> DEFINE d == After(b, c)
<1>2. d \in Seq(S) /\ c \o d = b
  BY <1>1
<1> HIDE DEF d
<1>3. ASSUME NEW x \in Seq(S), NEW y \in Seq(S), NEW z \in Seq(S)
      PROVE  (x \o y) \o z = x \o (y \o z)
  BY ConcatAssociative, SMTT(30)
<1>4. (a \o c) \o d = a \o (c \o d)
  BY <1>1, <1>2, <1>3, ZenonT(30)
<1> QED BY <1>2, <1>4 DEF d

\* take_sip_message's stripping cuts off keepalives in front.
LEMMA StrippedCuts ==
    ASSUME NEW S, NEW a \in Seq(S)
    PROVE  \E q \in 1 .. Len(a) + 1 :
               /\ Stripped(a) = SubSeq(a, q, Len(a))
               /\ \A p \in 1 .. q - 1 : a[p] = Crlf
<1> DEFINE I == {i \in 1 .. Len(a) : a[i] # Crlf}
           k == SelectInSeq(a, LAMBDA u : u # Crlf)
<1>0. Len(a) \in Nat
  BY LenProperties
<1>1. k = IF I # {} THEN Min(I) ELSE 0
  BY DEF SelectInSeq
<1>2. Stripped(a) = IF k = 0 THEN a ELSE SubSeq(a, k, Len(a))
  BY DEF Stripped
<1> HIDE DEF k
<1>3. CASE I = {}
  <2>1. Stripped(a) = SubSeq(a, 1, Len(a)) /\ 1 \in 1 .. Len(a) + 1
    BY <1>0, <1>1, <1>2, <1>3, SubSeqFull
  <2>2. \A p \in 1 .. 1 - 1 : a[p] = Crlf
    OBVIOUS
  <2> QED BY <2>1, <2>2
<1>4. CASE I # {}
  <2>1. I \in SUBSET Nat
    OBVIOUS
  <2>2. k \in I /\ \A y \in I : k <= y
    BY <1>1, <1>4, <2>1, MinIsElement
  <2>3. k \in 1 .. Len(a) + 1 /\ k # 0
    BY <1>0, <2>2
  <2>4. \A p \in 1 .. k - 1 : a[p] = Crlf
    BY <1>0, <2>2
  <2> QED BY <1>2, <2>3, <2>4
<1> QED BY <1>3, <1>4

-----------------------------------------------------------------------------
(***************************************************************************)
(* Sofia's messages.  n of them were sent, k were handed to the writer;    *)
(* the stream holds the others.                                            *)
(***************************************************************************)
\* Message m begins in the stream, or would be behind something too long.
OnItsWay(s, m) ==
    \/ \E p \in DOMAIN s : s[p].part = 1 /\ s[p].of = m
    \/ \E h \in DOMAIN s : /\ s[h].part = HugePart
                           /\ \A p \in DOMAIN s : s[p].part = 1 /\ s[p].of > m => h < p

SofiaStream(s, k, n) ==
    /\ k <= n
    /\ \A p \in DOMAIN s : s[p].part = 0 => s[p] = Crlf
    /\ \A p \in DOMAIN s : s[p].part = 1 => p + 1 \in DOMAIN s /\ s[p + 1].part = 2
    /\ \A p \in DOMAIN s : s[p].part = 2 => \E q \in DOMAIN s : p = q + 1 /\ s[q].part = 1
    /\ \A p \in DOMAIN s : s[p].part = 1 => k < s[p].of /\ s[p].of <= n
    /\ \A p, q \in DOMAIN s : s[p].part = 1 /\ s[q].part = 1 /\ p < q => s[p].of < s[q].of
    /\ \A m \in (k + 1) .. n : OnItsWay(s, m)

LEMMA BytesElements ==
    ASSUME NEW X, NEW s \in Bytes(X)
    PROVE  /\ Len(s) \in Nat /\ DOMAIN s = 1 .. Len(s)
           /\ \A p \in 1 .. Len(s) : s[p].part \in 0 .. 3 /\ s[p].of \in X
<1>1. s \in Seq([of : X, part : 0 .. 3])
  BY DEF Bytes, HugePart
<1>2. \A p \in 1 .. Len(s) : s[p] \in [of : X, part : 0 .. 3]
  BY <1>1, ElementOfSeq
<1> QED BY <1>1, <1>2, LenProperties

LEMMA BytesAssociate ==
    ASSUME NEW X, NEW a \in Bytes(X), NEW b \in Bytes(X), NEW c \in Bytes(X)
    PROVE  (a \o b) \o c = a \o (b \o c)
<1> DEFINE S == [of : X, part : 0 .. HugePart]
<1>1. a \in Seq(S) /\ b \in Seq(S) /\ c \in Seq(S)
  BY DEF Bytes
<1> HIDE DEF S
<1> QED BY <1>1, ConcatAssociative, SMTT(30)

LEMMA BytesSuffix ==
    ASSUME NEW X, NEW s \in Bytes(X), NEW q \in 1 .. Len(s) + 1
    PROVE  /\ SubSeq(s, q, Len(s)) \in Bytes(X)
           /\ Len(SubSeq(s, q, Len(s))) = Len(s) + 1 - q
           /\ \A i \in 1 .. Len(s) + 1 - q : SubSeq(s, q, Len(s))[i] = s[q + i - 1]
BY SuffixElements DEF Bytes

\* Keepalives in front may go.
LEMMA WithoutKeepalives ==
    ASSUME NEW s \in Bytes(Nat), NEW k \in Nat, NEW n \in Nat, SofiaStream(s, k, n),
           NEW q \in 1 .. Len(s) + 1, \A p \in 1 .. q - 1 : s[p] = Crlf
    PROVE  SofiaStream(SubSeq(s, q, Len(s)), k, n)
<1> DEFINE t == SubSeq(s, q, Len(s))
           d == q - 1
<1>1. Len(s) \in Nat /\ DOMAIN s = 1 .. Len(s) /\ \A p \in 1 .. d : s[p].part = 0
  BY BytesElements DEF Crlf
<1>2. t \in Bytes(Nat) /\ Len(t) = Len(s) - d /\ \A i \in 1 .. Len(s) - d : t[i] = s[d + i]
  <2>1. /\ t \in Bytes(Nat) /\ Len(t) = Len(s) + 1 - q
        /\ \A i \in 1 .. Len(s) + 1 - q : t[i] = s[q + i - 1]
    BY BytesSuffix
  <2>2. \A i \in 1 .. Len(s) - d : i \in 1 .. Len(s) + 1 - q /\ q + i - 1 = d + i
    BY <1>1
  <2>3. Len(s) + 1 - q = Len(s) - d
    BY <1>1
  <2> QED BY <2>1, <2>2, <2>3
<1> HIDE DEF t
<1>3. DOMAIN t = 1 .. Len(t) /\ d \in 0 .. Len(s)
  BY <1>1, <1>2, BytesElements
<1> HIDE DEF d
<1>4. \A i \in DOMAIN t : i \in Nat /\ i >= 1 /\ d + i \in DOMAIN s /\ t[i] = s[d + i]
  BY <1>1, <1>2, <1>3
<1>5. \A p \in DOMAIN s : s[p].part # 0 => p > d /\ p - d \in DOMAIN t /\ t[p - d] = s[p]
  <2> SUFFICES ASSUME NEW p \in DOMAIN s, s[p].part # 0
               PROVE  p > d /\ p - d \in DOMAIN t /\ t[p - d] = s[p]
    OBVIOUS
  <2>1. p > d /\ p - d \in 1 .. Len(s) - d /\ d + (p - d) = p
    BY <1>1, <1>3
  <2> QED BY <1>2, <1>3, <2>1
<1>6. ASSUME NEW i \in DOMAIN t, t[i].part = 1
      PROVE  i + 1 \in DOMAIN t /\ t[i + 1].part = 2
  <2>1. d + i + 1 \in DOMAIN s /\ s[d + i + 1].part = 2
    BY <1>4, <1>6 DEF SofiaStream
  <2>2. d + i + 1 - d \in DOMAIN t /\ t[d + i + 1 - d] = s[d + i + 1] /\ d + i + 1 - d = i + 1
    BY <1>3, <1>4, <1>5, <2>1, SMTT(30)
  <2> QED BY <2>1, <2>2
<1>7. ASSUME NEW i \in DOMAIN t, t[i].part = 2
      PROVE  \E j \in DOMAIN t : i = j + 1 /\ t[j].part = 1
  <2>1. d + i \in DOMAIN s /\ s[d + i].part = 2
    BY <1>4, <1>7
  <2>2. PICK q0 \in DOMAIN s : d + i = q0 + 1 /\ s[q0].part = 1
    BY <2>1 DEF SofiaStream
  <2>3. q0 - d \in DOMAIN t /\ t[q0 - d] = s[q0] /\ i = (q0 - d) + 1
    BY <1>1, <1>3, <1>4, <1>5, <2>2, SMTT(30)
  <2> QED BY <2>2, <2>3
<1>8. \A m \in (k + 1) .. n : OnItsWay(t, m)
  <2> SUFFICES ASSUME NEW m \in (k + 1) .. n PROVE OnItsWay(t, m)
    OBVIOUS
  <2>1. OnItsWay(s, m)
    BY DEF SofiaStream
  <2>2. CASE \E p \in DOMAIN s : s[p].part = 1 /\ s[p].of = m
    BY <1>5, <2>2 DEF OnItsWay
  <2>3. ASSUME NEW h \in DOMAIN s, s[h].part = HugePart,
               \A p \in DOMAIN s : s[p].part = 1 /\ s[p].of > m => h < p
        PROVE  OnItsWay(t, m)
    <3>1. h - d \in DOMAIN t /\ t[h - d].part = HugePart
      BY <1>5, <2>3 DEF HugePart
    <3>2. \A p \in DOMAIN t : t[p].part = 1 /\ t[p].of > m => h - d < p
      BY <1>1, <1>3, <1>4, <2>3, SMTT(30)
    <3> QED BY <3>1, <3>2 DEF OnItsWay
  <2> QED BY <2>1, <2>2, <2>3 DEF OnItsWay
<1>9. /\ \A i \in DOMAIN t : t[i].part = 0 => t[i] = Crlf
      /\ \A i \in DOMAIN t : t[i].part = 1 => k < t[i].of /\ t[i].of <= n
  BY <1>4 DEF SofiaStream
<1>10. ASSUME NEW i \in DOMAIN t, NEW j \in DOMAIN t, t[i].part = 1, t[j].part = 1, i < j
       PROVE  t[i].of < t[j].of
  <2>1. /\ d + i \in DOMAIN s /\ d + j \in DOMAIN s /\ d + i < d + j
        /\ s[d + i].part = 1 /\ s[d + j].part = 1
    BY <1>3, <1>4, <1>10
  <2> QED BY <1>4, <2>1 DEF SofiaStream
<1>11. SofiaStream(t, k, n)
  BY <1>6, <1>7, <1>8, <1>9, <1>10, Zenon DEF SofiaStream
<1> QED BY <1>11 DEF t

\* The first message in a stream that begins with one is the next one.
LEMMA NextMessage ==
    ASSUME NEW s \in Bytes(Nat), NEW k \in Nat, NEW n \in Nat, SofiaStream(s, k, n),
           Len(s) >= 2, s[1] # Crlf, s[1].part # HugePart
    PROVE  s[1].of = k + 1 /\ SofiaStream(SubSeq(s, 3, Len(s)), k + 1, n)
<1> DEFINE t == SubSeq(s, 3, Len(s))
<1>1. /\ Len(s) \in Nat /\ DOMAIN s = 1 .. Len(s) /\ 1 \in DOMAIN s /\ 2 \in DOMAIN s
      /\ \A p \in DOMAIN s : s[p].part \in 0 .. 3 /\ s[p].of \in Nat
  BY BytesElements
<1>2. s[1].part = 1
  BY <1>1 DEF SofiaStream, HugePart
<1>3. s[2].part = 2 /\ k < s[1].of /\ s[1].of <= n
  <2>1. 1 + 1 \in DOMAIN s /\ s[1 + 1].part = 2 /\ k < s[1].of /\ s[1].of <= n
    BY <1>1, <1>2 DEF SofiaStream
  <2> QED BY <2>1
<1>4. s[1].of = k + 1
  <2>1. OnItsWay(s, k + 1)
    BY <1>1, <1>3 DEF SofiaStream
  <2>2. CASE \E p \in DOMAIN s : s[p].part = 1 /\ s[p].of = k + 1
    <3>1. PICK p \in DOMAIN s : s[p].part = 1 /\ s[p].of = k + 1
      BY <2>2
    <3>2. p = 1 \/ 1 < p
      BY <1>1
    <3>3. 1 < p => s[1].of < s[p].of
      BY <1>1, <1>2, <3>1 DEF SofiaStream
    <3> QED BY <1>1, <1>3, <3>1, <3>2, <3>3
  <2>3. CASE \E h \in DOMAIN s : \A p \in DOMAIN s : s[p].part = 1 /\ s[p].of > k + 1 => h < p
    <3>1. ~(s[1].of > k + 1)
      BY <1>1, <1>2, <2>3
    <3> QED BY <1>1, <1>3, <3>1
  <2> QED BY <2>1, <2>2, <2>3 DEF OnItsWay
<1>5. t \in Bytes(Nat) /\ Len(t) = Len(s) - 2 /\ \A i \in 1 .. Len(s) - 2 : t[i] = s[2 + i]
  <2>0. 3 \in 1 .. Len(s) + 1
    BY <1>1
  <2>1. /\ t \in Bytes(Nat) /\ Len(t) = Len(s) + 1 - 3
        /\ \A i \in 1 .. Len(s) + 1 - 3 : t[i] = s[3 + i - 1]
    BY <2>0, BytesSuffix, ZenonT(30)
  <2>2. \A i \in 1 .. Len(s) - 2 : i \in 1 .. Len(s) + 1 - 3 /\ 3 + i - 1 = 2 + i
    BY <1>1
  <2>3. Len(s) + 1 - 3 = Len(s) - 2
    BY <1>1
  <2> QED BY <2>1, <2>2, <2>3
<1> HIDE DEF t
<1>6. DOMAIN t = 1 .. Len(t)
  BY <1>5, BytesElements
<1>7. \A i \in DOMAIN t : i \in Nat /\ i >= 1 /\ 2 + i \in DOMAIN s /\ t[i] = s[2 + i]
  BY <1>1, <1>5, <1>6
<1>8. \A p \in DOMAIN s : p > 2 => p - 2 \in DOMAIN t /\ t[p - 2] = s[p]
  <2> SUFFICES ASSUME NEW p \in DOMAIN s, p > 2 PROVE p - 2 \in DOMAIN t /\ t[p - 2] = s[p]
    OBVIOUS
  <2>1. p - 2 \in 1 .. Len(s) - 2 /\ 2 + (p - 2) = p
    BY <1>1
  <2> QED BY <1>5, <1>6, <2>1
<1>9. ASSUME NEW i \in DOMAIN t, t[i].part = 1
      PROVE  i + 1 \in DOMAIN t /\ t[i + 1].part = 2 /\ k + 1 < t[i].of /\ t[i].of <= n
  <2>1. 2 + i + 1 \in DOMAIN s /\ s[2 + i + 1].part = 2
    BY <1>7, <1>9 DEF SofiaStream
  <2>2. 2 + i + 1 - 2 \in DOMAIN t /\ t[2 + i + 1 - 2] = s[2 + i + 1] /\ 2 + i + 1 - 2 = i + 1
    BY <1>7, <1>8, <2>1
  <2>3. s[1].of < s[2 + i].of /\ s[2 + i].of <= n
    BY <1>1, <1>2, <1>7, <1>9 DEF SofiaStream
  <2> QED BY <1>4, <1>7, <2>1, <2>2, <2>3
<1>10. ASSUME NEW i \in DOMAIN t, t[i].part = 2
       PROVE  \E j \in DOMAIN t : i = j + 1 /\ t[j].part = 1
  <2>1. 2 + i \in DOMAIN s /\ s[2 + i].part = 2
    BY <1>7, <1>10
  <2>2. PICK q \in DOMAIN s : 2 + i = q + 1 /\ s[q].part = 1
    BY <2>1 DEF SofiaStream
  <2>3. q # 2
    BY <1>3, <2>2
  <2>4. q > 2
    BY <1>1, <1>7, <2>2, <2>3
  <2>5. q - 2 \in DOMAIN t /\ t[q - 2] = s[q] /\ i = (q - 2) + 1
    BY <1>1, <1>7, <1>8, <2>2, <2>4
  <2> QED BY <2>2, <2>5
<1>11. ASSUME NEW m \in (k + 1 + 1) .. n PROVE OnItsWay(t, m)
  <2>1. OnItsWay(s, m)
    BY DEF SofiaStream
  <2>2. ASSUME NEW p \in DOMAIN s, s[p].part = 1, s[p].of = m PROVE OnItsWay(t, m)
    <3>1. p > 2
      BY <1>1, <1>3, <1>4, <2>2
    <3> QED BY <1>8, <2>2, <3>1 DEF OnItsWay
  <2>3. ASSUME NEW h \in DOMAIN s, s[h].part = HugePart,
               \A p \in DOMAIN s : s[p].part = 1 /\ s[p].of > m => h < p
        PROVE  OnItsWay(t, m)
    <3>1. h > 2
      BY <1>1, <1>2, <1>3, <2>3 DEF HugePart
    <3>2. h - 2 \in DOMAIN t /\ t[h - 2].part = HugePart
      BY <1>8, <2>3, <3>1
    <3>3. \A p \in DOMAIN t : t[p].part = 1 /\ t[p].of > m => h - 2 < p
      BY <1>1, <1>7, <2>3
    <3> QED BY <3>2, <3>3 DEF OnItsWay
  <2> QED BY <2>1, <2>2, <2>3 DEF OnItsWay
<1>12. \A i \in DOMAIN t : t[i].part = 0 => t[i] = Crlf
  BY <1>7 DEF SofiaStream
<1>13. ASSUME NEW i \in DOMAIN t, NEW j \in DOMAIN t, t[i].part = 1, t[j].part = 1, i < j
       PROVE  t[i].of < t[j].of
  <2>1. /\ 2 + i \in DOMAIN s /\ 2 + j \in DOMAIN s /\ 2 + i < 2 + j
        /\ s[2 + i].part = 1 /\ s[2 + j].part = 1
    BY <1>7, <1>13
  <2> QED BY <1>7, <2>1 DEF SofiaStream
<1>14. SofiaStream(t, k + 1, n)
  <2>1. k + 1 <= n
    BY <1>3, <1>4
  <2> QED BY <2>1, <1>9, <1>10, <1>11, <1>12, <1>13 DEF SofiaStream
<1> QED BY <1>4, <1>14 DEF t

\* What sofia writes: one message more, perhaps behind a keepalive, or one that is too
\* long.
TooMuch(s, t) == Len(t) = Len(s) + 1 /\ t[Len(s) + 1].part = HugePart
Whole(s, t, f, n) ==
    /\ Len(s) < f /\ f + 1 = Len(t)
    /\ t[f].part = 1 /\ t[f].of = n + 1 /\ t[f + 1].part = 2
    /\ \A i \in Len(s) + 1 .. f - 1 : t[i] = Crlf
OneOf(s, t, n) ==
    /\ Len(t) > Len(s)
    /\ \A i \in 1 .. Len(s) : t[i] = s[i]
    /\ TooMuch(s, t) \/ \E f \in Nat : Whole(s, t, f, n)

LEMMA OneMore ==
    ASSUME NEW s \in Bytes(Nat), NEW k \in Nat, NEW n \in Nat, SofiaStream(s, k, n),
           NEW t \in Bytes(Nat), OneOf(s, t, n)
    PROVE  SofiaStream(t, k, n + 1)
<1>0. /\ Len(s) \in Nat /\ DOMAIN s = 1 .. Len(s)
      /\ \A i \in 1 .. Len(s) : s[i].part \in 0 .. 3 /\ s[i].of \in Nat
  BY BytesElements
<1>00. /\ Len(t) \in Nat /\ DOMAIN t = 1 .. Len(t)
       /\ \A i \in 1 .. Len(t) : t[i].part \in 0 .. 3 /\ t[i].of \in Nat
  BY BytesElements
<1>1. /\ Len(s) \in Nat /\ DOMAIN s = 1 .. Len(s) /\ Len(t) \in Nat /\ DOMAIN t = 1 .. Len(t)
      /\ \A i \in DOMAIN t : i \in Nat /\ t[i].part \in 0 .. 3 /\ t[i].of \in Nat
      /\ \A i \in DOMAIN s : i \in Nat
  BY <1>0, <1>00
<1>2. \A i \in DOMAIN s : i \in DOMAIN t /\ t[i] = s[i] /\ i <= Len(s)
  BY <1>1 DEF OneOf
<1>3. k <= n /\ k <= n + 1
  BY DEF SofiaStream
<1>4. CASE TooMuch(s, t)
  <2>1. \A i \in DOMAIN t : t[i].part # HugePart => i \in DOMAIN s
    BY <1>1, <1>4 DEF TooMuch
  <2>2. /\ \A p \in DOMAIN t : t[p].part = 0 => t[p] = Crlf
        /\ \A p \in DOMAIN t : t[p].part = 1 => p + 1 \in DOMAIN t /\ t[p + 1].part = 2
    BY <1>2, <2>1 DEF SofiaStream, HugePart
  <2>3. \A p \in DOMAIN t : t[p].part = 2 => \E q \in DOMAIN t : p = q + 1 /\ t[q].part = 1
    BY <1>2, <2>1 DEF SofiaStream, HugePart
  <2>4. /\ \A p \in DOMAIN t : t[p].part = 1 => k < t[p].of /\ t[p].of <= n
        /\ \A p, q \in DOMAIN t : t[p].part = 1 /\ t[q].part = 1 /\ p < q => t[p].of < t[q].of
    BY <1>2, <2>1 DEF SofiaStream, HugePart
  <2>5. ASSUME NEW m \in (k + 1) .. (n + 1) PROVE OnItsWay(t, m)
    <3>1. CASE m = n + 1
      <4>1. Len(s) + 1 \in DOMAIN t /\ t[Len(s) + 1].part = HugePart
        BY <1>1, <1>4 DEF TooMuch
      <4>2. \A p \in DOMAIN t : t[p].part = 1 => t[p].of \in Nat /\ ~(t[p].of > n + 1)
        BY <1>1, <2>4
      <4> QED BY <3>1, <4>1, <4>2 DEF OnItsWay
    <3>2. CASE m # n + 1
      <4>1. OnItsWay(s, m)
        BY <3>2 DEF SofiaStream
      <4>2. CASE \E p \in DOMAIN s : s[p].part = 1 /\ s[p].of = m
        BY <1>2, <4>2 DEF OnItsWay
      <4>3. ASSUME NEW h \in DOMAIN s, s[h].part = HugePart,
                   \A p \in DOMAIN s : s[p].part = 1 /\ s[p].of > m => h < p
            PROVE  OnItsWay(t, m)
        <5>1. \A p \in DOMAIN t : t[p].part = 1 /\ t[p].of > m => h < p
          BY <1>2, <2>1, <4>3 DEF HugePart
        <5> QED BY <1>2, <4>3, <5>1 DEF OnItsWay
      <4> QED BY <4>1, <4>2, <4>3 DEF OnItsWay
    <3> QED BY <3>1, <3>2
  <2>6. \A p \in DOMAIN t : t[p].part = 1 => k < t[p].of /\ t[p].of <= n + 1
    BY <1>1, <2>4
  <2> QED BY <1>3, <2>2, <2>3, <2>4, <2>5, <2>6, Zenon DEF SofiaStream
<1>5. ASSUME NEW f \in Nat, Whole(s, t, f, n)
      PROVE  SofiaStream(t, k, n + 1)
  <2>10. /\ f + 1 = Len(t) /\ f > Len(s)
        /\ t[f].part = 1 /\ t[f].of = n + 1 /\ t[f + 1].part = 2
    BY <1>1, <1>5 DEF Whole
  <2>0. f \in DOMAIN t /\ f + 1 \in DOMAIN t /\ f > Len(s)
    BY <1>1, <2>10
  <2>1. \A i \in DOMAIN t : i \in DOMAIN s \/ i = f \/ i = f + 1 \/ t[i] = Crlf
    <3> SUFFICES ASSUME NEW i \in DOMAIN t, i \notin DOMAIN s, i # f, i # f + 1
                 PROVE  t[i] = Crlf
      OBVIOUS
    <3>1. i \in Len(s) + 1 .. f - 1
      BY <1>1, <2>10, SMTT(30)
    <3> QED BY <1>5, <3>1 DEF Whole
  <2>2. \A i \in DOMAIN t : t[i].part = 1 => i \in DOMAIN s \/ i = f
    BY <2>10, <2>1 DEF Crlf
  <2>3. \A p \in DOMAIN t : t[p].part = 0 => t[p] = Crlf
    BY <1>2, <2>10, <2>1 DEF SofiaStream
  <2>4. \A p \in DOMAIN t : t[p].part = 1 => p + 1 \in DOMAIN t /\ t[p + 1].part = 2
    BY <1>2, <2>10, <2>0, <2>2 DEF SofiaStream
  <2>5. \A p \in DOMAIN t : t[p].part = 2 => \E q \in DOMAIN t : p = q + 1 /\ t[q].part = 1
    <3> SUFFICES ASSUME NEW p \in DOMAIN t, t[p].part = 2
                 PROVE  \E q \in DOMAIN t : p = q + 1 /\ t[q].part = 1
      OBVIOUS
    <3>1. p \in DOMAIN s \/ p = f + 1
      BY <2>10, <2>1 DEF Crlf
    <3>2. CASE p \in DOMAIN s
      <4>1. PICK q \in DOMAIN s : p = q + 1 /\ s[q].part = 1
        BY <1>2, <3>2 DEF SofiaStream
      <4> QED BY <1>2, <4>1
    <3> QED BY <2>10, <2>0, <3>1, <3>2
  <2>6. \A p \in DOMAIN s : t[p].part = 1 => t[p].of \in Nat /\ k < t[p].of /\ t[p].of <= n
    BY <1>1, <1>2 DEF SofiaStream
  <2>7. \A p \in DOMAIN t : t[p].part = 1 => k < t[p].of /\ t[p].of <= n + 1
    BY <1>3, <2>10, <2>2, <2>6
  <2>8. ASSUME NEW p \in DOMAIN t, NEW q \in DOMAIN t, t[p].part = 1, t[q].part = 1, p < q
        PROVE  t[p].of < t[q].of
    <3>1. CASE q \in DOMAIN s
      <4>1. p \in DOMAIN s
        BY <1>1, <1>2, <2>0, <2>2, <2>8, <3>1
      <4> QED BY <1>2, <2>8, <3>1, <4>1 DEF SofiaStream
    <3>2. CASE q = f
      <4>1. p \in DOMAIN s
        BY <1>1, <2>0, <2>2, <2>8, <3>2
      <4> QED BY <2>10, <2>6, <2>8, <3>2, <4>1
    <3> QED BY <2>2, <2>8, <3>1, <3>2
  <2>9. ASSUME NEW m \in (k + 1) .. (n + 1) PROVE OnItsWay(t, m)
    <3>1. CASE m = n + 1
      BY <2>10, <2>0, <3>1 DEF OnItsWay
    <3>2. CASE m # n + 1
      <4>1. OnItsWay(s, m)
        BY <3>2 DEF SofiaStream
      <4>2. CASE \E p \in DOMAIN s : s[p].part = 1 /\ s[p].of = m
        BY <1>2, <4>2 DEF OnItsWay
      <4>3. ASSUME NEW h \in DOMAIN s, s[h].part = HugePart,
                   \A p \in DOMAIN s : s[p].part = 1 /\ s[p].of > m => h < p
            PROVE  OnItsWay(t, m)
        <5>1. \A p \in DOMAIN t : t[p].part = 1 /\ t[p].of > m => h < p
          BY <1>1, <1>2, <2>0, <2>2, <4>3, SMTT(30)
        <5> QED BY <1>2, <4>3, <5>1 DEF OnItsWay
      <4> QED BY <4>1, <4>2, <4>3 DEF OnItsWay
    <3> QED BY <3>1, <3>2
  <2> QED BY <1>3, <2>3, <2>4, <2>5, <2>7, <2>8, <2>9, Zenon DEF SofiaStream
<1> QED BY <1>4, <1>5 DEF OneOf

-----------------------------------------------------------------------------
(***************************************************************************)
(* What the writers were handed.                                           *)
(***************************************************************************)
\* A writer's task hands nothing over.
LEMMA TaskSends ==
    ASSUME Types, NEW w \in Writers, WriterTask(w)
    PROVE  \A v \in Writers : writer'[v].sent = writer[v].sent
<1>0. writer = [v \in Writers |-> writer[v]] /\ writer[w] \in WriterOf(Item(w))
  BY DEF Types, WriterType
<1>1. ASSUME NEW r, r.sent = writer[w].sent, writer' = [writer EXCEPT ![w] = r]
      PROVE  \A v \in Writers : writer'[v].sent = writer[v].sent
  <2>1. writer' = [v \in Writers |-> IF v = w THEN r ELSE writer[v]]
    BY <1>0, <1>1
  <2> QED BY <1>1, <2>1
<1>2. CASE WriterStarts(w)
  <2>1. PICK i \in DOMAIN writer[w].tasks :
          writer' = [writer EXCEPT ![w] =
                       IF writer[w].queue # <<>> /\ Pending(writer[w], i)
                       THEN TaskFailed(writer[w], i, FALSE) ELSE TaskPop(writer[w], i)]
    BY <1>2 DEF WriterStarts
  <2> DEFINE r == IF writer[w].queue # <<>> /\ Pending(writer[w], i)
                  THEN TaskFailed(writer[w], i, FALSE) ELSE TaskPop(writer[w], i)
  <2>2. TaskFailed(writer[w], i, FALSE).sent = writer[w].sent
    BY <1>0, FailedKeeps
  <2>3. TaskPop(writer[w], i).sent = writer[w].sent
    BY <1>0, PopKeeps
  <2>4. r.sent = writer[w].sent /\ writer' = [writer EXCEPT ![w] = r]
    BY <2>1, <2>2, <2>3
  <2> HIDE DEF r
  <2> QED BY <1>1, <2>4
<1>3. CASE WriterWrites(w)
  <2>1. PICK i \in DOMAIN writer[w].tasks :
          /\ writer[w].tasks[i] # <<>>
          /\ writer' = [writer EXCEPT ![w] = TaskWritten(writer[w], i)]
    BY <1>3 DEF WriterWrites, Ready
  <2>2. TaskWritten(writer[w], i).sent = writer[w].sent
    BY <1>0, <2>1, WrittenKeeps
  <2> QED BY <1>1, <2>1, <2>2
<1>4. CASE WriterFails(w)
  <2>1. PICK i \in DOMAIN writer[w].tasks :
          writer' = [writer EXCEPT ![w] = TaskFailed(writer[w], i, TRUE)]
    BY <1>4 DEF WriterFails
  <2>2. TaskFailed(writer[w], i, TRUE).sent = writer[w].sent
    BY <1>0, FailedKeeps
  <2> QED BY <1>1, <2>1, <2>2
<1> QED BY <1>2, <1>3, <1>4 DEF WriterTask

\* A push hands one item to one writer.
LEMMA PushSendsOne ==
    ASSUME Types, NEW w \in Writers, NEW x, Push(w, x)
    PROVE  /\ writer'[w].sent = Append(writer[w].sent, x)
           /\ \A v \in Writers : v # w => writer'[v].sent = writer[v].sent
<1>0. writer = [v \in Writers |-> writer[v]] /\ writer[w] \in WriterOf(Item(w))
  BY DEF Types, WriterType
<1>1. push(writer[w], x).sent = Append(writer[w].sent, x)
  BY <1>0 DEF push, WriterOf
<1> DEFINE r == push(writer[w], x)
<1>2. writer' = [writer EXCEPT ![w] = r] /\ r.sent = Append(writer[w].sent, x)
  BY <1>1 DEF Push
<1> HIDE DEF r
<1>3. writer' = [v \in Writers |-> IF v = w THEN r ELSE writer[v]]
  BY <1>0, <1>2
<1> QED BY <1>2, <1>3

-----------------------------------------------------------------------------
(***************************************************************************)
(* Sofia's messages, counted where they are handed over.                   *)
(***************************************************************************)
TextsAt(items) == {i \in 1 .. Len(items) : items[i].op = "text"}
InOrder(items) ==
    \A i \in TextsAt(items) : items[i].of = Cardinality(TextsAt(items) \cap 1 .. i)

LEMMA TextsCount ==
    ASSUME NEW S, NEW items \in Seq(S)
    PROVE  IsFiniteSet(TextsAt(items)) /\ Cardinality(TextsAt(items)) \in Nat
<1>1. Len(items) \in Nat /\ TextsAt(items) \subseteq 1 .. Len(items)
  BY LenProperties DEF TextsAt
<1>2. IsFiniteSet(1 .. Len(items))
  BY <1>1, FS_Interval
<1>3. IsFiniteSet(TextsAt(items))
  BY <1>1, <1>2, FS_Subset
<1> QED BY <1>3, FS_CardinalityType

\* Something else than a message counts for nothing; the next message is next.
LEMMA OneItemMore ==
    ASSUME NEW S, NEW items \in Seq(S), NEW x \in S, InOrder(items)
    PROVE  /\ x.op # "text" => /\ InOrder(Append(items, x))
                               /\ Cardinality(TextsAt(Append(items, x))) = Cardinality(TextsAt(items))
           /\ x.op = "text" /\ x.of = Cardinality(TextsAt(items)) + 1 =>
                 /\ InOrder(Append(items, x))
                 /\ Cardinality(TextsAt(Append(items, x))) = Cardinality(TextsAt(items)) + 1
<1> DEFINE a == Append(items, x)
           n == Len(items)
           T == TextsAt(items)
<1>1. /\ n \in Nat /\ Len(a) = n + 1 /\ a[n + 1] = x
      /\ \A i \in 1 .. n : a[i] = items[i]
  BY AppendProperties, LenProperties
<1> HIDE DEF a
<1>2. \A i \in 1 .. n : i \in TextsAt(a) <=> i \in T
  BY <1>1 DEF TextsAt
<1>3. T \subseteq 1 .. n /\ TextsAt(a) \subseteq 1 .. n + 1
  BY <1>1 DEF TextsAt
<1>4. n + 1 \in TextsAt(a) <=> x.op = "text"
  BY <1>1 DEF TextsAt
<1>5. \A i \in T : items[i].of = Cardinality(T \cap 1 .. i)
  BY DEF InOrder
<1>6. IsFiniteSet(T) /\ Cardinality(T) \in Nat
  BY TextsCount
<1> HIDE DEF T, n
<1>7. \A i \in 1 .. n : TextsAt(a) \cap 1 .. i = T \cap 1 .. i
  BY <1>1, <1>2, <1>3
<1>8. \A i \in 1 .. n : i \in TextsAt(a) => a[i].of = Cardinality(TextsAt(a) \cap 1 .. i)
  <2> SUFFICES ASSUME NEW i \in 1 .. n, i \in TextsAt(a)
               PROVE  a[i].of = Cardinality(TextsAt(a) \cap 1 .. i)
    OBVIOUS
  <2>1. i \in T /\ a[i] = items[i] /\ TextsAt(a) \cap 1 .. i = T \cap 1 .. i
    BY <1>1, <1>2, <1>7 DEF n
  <2> QED BY <1>5, <2>1
<1>9. ASSUME x.op # "text"
      PROVE  InOrder(a) /\ Cardinality(TextsAt(a)) = Cardinality(T)
  <2>0. \A i \in 1 .. n + 1 : i \in 1 .. n \/ i = n + 1
    BY <1>1 DEF n
  <2>1. TextsAt(a) = T
    BY <1>2, <1>3, <1>4, <1>9, <2>0
  <2>2. \A i \in TextsAt(a) : i \in 1 .. n
    BY <1>3, <2>1
  <2> QED BY <1>8, <2>1, <2>2 DEF InOrder
<1>10. ASSUME x.op = "text", x.of = Cardinality(T) + 1
       PROVE  InOrder(a) /\ Cardinality(TextsAt(a)) = Cardinality(T) + 1
  <2>1. TextsAt(a) = T \cup {n + 1} /\ n + 1 \notin T
    BY <1>1, <1>2, <1>3, <1>4, <1>10
  <2>2. Cardinality(TextsAt(a)) = Cardinality(T) + 1
    BY <1>6, <2>1, FS_AddElement
  <2>3. TextsAt(a) \cap 1 .. n + 1 = TextsAt(a)
    BY <1>3
  <2>4. a[n + 1].of = Cardinality(TextsAt(a) \cap 1 .. n + 1)
    BY <1>1, <1>10, <2>2, <2>3 DEF n
  <2>5. \A i \in TextsAt(a) : i \in 1 .. n \/ i = n + 1
    BY <1>1, <1>3
  <2> QED BY <1>8, <2>2, <2>4, <2>5 DEF InOrder
<1> QED BY <1>9, <1>10 DEF a, T

-----------------------------------------------------------------------------
(***************************************************************************)
(* Sofia's messages, from the socket to the WebSocket's writer.            *)
(***************************************************************************)
Sent == writer["ws"].sent
SofiaRest == upBuf \o fromSofia
SofiaFlow == SofiaStream(SofiaRest, Cardinality(TextsAt(Sent)), sofiaSent)
NotYetUp == phase \in {"none", "connecting", "handshake"} => up = "none"

\* What was handed over is in order, and until the pump gives up the rest is on its way.
SofiaInv ==
    /\ InOrder(Sent)
    /\ NotYetUp
    /\ up # "over" => ~Oversized(upBuf) /\ SofiaFlow

LEMMA SentType ==
    ASSUME Types
    PROVE  /\ Sent \in Seq(Item("ws")) /\ IsFiniteSet(TextsAt(Sent)) /\ Cardinality(TextsAt(Sent)) \in Nat
           /\ upBuf \in Bytes(Nat) /\ fromSofia \in Bytes(Nat) /\ SofiaRest \in Bytes(Nat)
           /\ sofiaSent \in Nat
<1>1. writer["ws"] \in WriterOf(Item("ws"))
  BY DEF Types, WriterType, Writers
<1>2. Sent \in Seq(Item("ws"))
  BY <1>1 DEF WriterOf, Sent
<1>3. upBuf \in Bytes(Nat) /\ fromSofia \in Bytes(Nat) /\ sofiaSent \in Nat
  BY DEF Types, PumpType, NetType
<1> QED BY <1>2, <1>3, TextsCount, BytesJoin DEF SofiaRest

\* Steps that hand nothing over, or something else than a message, and leave the
\* stream alone.
Elsewhere ==
    Sent' = Sent \/ \E x \in Item("ws") : x.op # "text" /\ Sent' = Append(Sent, x)

LEMMA ElsewhereKeeps ==
    ASSUME Types, InOrder(Sent), Elsewhere
    PROVE  InOrder(Sent') /\ Cardinality(TextsAt(Sent')) = Cardinality(TextsAt(Sent))
<1>1. CASE Sent' = Sent
  BY <1>1
<1>2. ASSUME NEW x \in Item("ws"), x.op # "text", Sent' = Append(Sent, x)
      PROVE  InOrder(Sent') /\ Cardinality(TextsAt(Sent')) = Cardinality(TextsAt(Sent))
  <2>1. Sent \in Seq(Item("ws"))
    BY SentType
  <2>2. x.op # "text" => /\ InOrder(Append(Sent, x))
                         /\ Cardinality(TextsAt(Append(Sent, x))) = Cardinality(TextsAt(Sent))
    BY <2>1, OneItemMore
  <2> QED BY <1>2, <2>2
<1> QED BY <1>1, <1>2 DEF Elsewhere

LEMMA SofiaRests ==
    ASSUME Types, SofiaInv, Elsewhere, NotYetUp', up' # "over" => up # "over",
           UNCHANGED <<upBuf, fromSofia, sofiaSent>>
    PROVE  SofiaInv'
<1>1. InOrder(Sent') /\ Cardinality(TextsAt(Sent')) = Cardinality(TextsAt(Sent))
  BY ElsewhereKeeps DEF SofiaInv
<1>2. ASSUME up' # "over" PROVE ~Oversized(upBuf)' /\ SofiaFlow'
  <2>1. ~Oversized(upBuf) /\ SofiaFlow
    BY <1>2 DEF SofiaInv
  <2>2. upBuf' = upBuf /\ SofiaRest' = SofiaRest /\ sofiaSent' = sofiaSent
    BY DEF SofiaRest
  <2>3. SofiaStream(SofiaRest', Cardinality(TextsAt(Sent')), sofiaSent')
    BY <1>1, <2>1, <2>2 DEF SofiaFlow
  <2>4. SofiaFlow'
    BY <2>3 DEF SofiaFlow, SofiaStream, OnItsWay, TextsAt
  <2> QED BY <2>1, <2>2, <2>4 DEF Oversized
<1>3. InOrder(Sent)'
  BY <1>1 DEF InOrder, TextsAt
<1> QED BY <1>2, <1>3 DEF SofiaInv

LEMMA ClosesElsewhere ==
    ASSUME Types, Push("ws", [op |-> "close", of |-> 0])
    PROVE  Elsewhere
<1> DEFINE x == [op |-> "close", of |-> 0]
<1>1. x \in Item("ws") /\ x.op # "text" /\ "ws" \in Writers /\ Push("ws", x)
  BY CloseIsItem DEF Writers
<1> HIDE DEF x
<1>2. Sent' = Append(Sent, x)
  BY <1>1, PushSendsOne DEF Sent
<1> QED BY <1>1, <1>2 DEF Elsewhere

LEMMA UpGivesUp ==
    ASSUME Types, SofiaInv, UpEnds, up # "none", phase' = phase
    PROVE  SofiaInv'
<1>1. up' = "over" /\ Elsewhere
  BY ClosesElsewhere DEF UpEnds
<1>2. InOrder(Sent')
  BY <1>1, ElsewhereKeeps DEF SofiaInv
<1>3. InOrder(Sent)'
  BY <1>2 DEF InOrder, TextsAt
<1>4. NotYetUp'
  BY DEF SofiaInv, NotYetUp
<1> QED BY <1>1, <1>3, <1>4 DEF SofiaInv

\* The same bytes in other places, and nothing handed over.
LEMMA SofiaMoves ==
    ASSUME Types, SofiaInv, up \notin {"none", "over"}, phase' = phase, writer' = writer,
           ~Oversized(upBuf'), sofiaSent' = sofiaSent,
           SofiaStream(SofiaRest', Cardinality(TextsAt(Sent)), sofiaSent)
    PROVE  SofiaInv'
<1>1. Sent' = Sent
  BY DEF Sent
<1>2. InOrder(Sent)'
  BY <1>1 DEF SofiaInv, InOrder, TextsAt
<1>3. NotYetUp'
  BY DEF SofiaInv, NotYetUp
<1>4. SofiaFlow'
  BY <1>1 DEF SofiaFlow, SofiaStream, OnItsWay, TextsAt
<1> QED BY <1>2, <1>3, <1>4 DEF SofiaInv, Oversized

LEMMA UpReadsSofia ==
    ASSUME Types, SofiaInv, UpReads
    PROVE  SofiaInv'
<1>1. PICK c \in Chunks(fromSofia) :
        /\ upBuf' = upBuf \o c
        /\ fromSofia' = After(fromSofia, c)
        /\ IF Oversized(upBuf') THEN UpEnds ELSE up' = "split" /\ UNCHANGED <<done, writer>>
  BY DEF UpReads
<1>2. up = "reading" /\ phase' = phase /\ sofiaSent' = sofiaSent
  BY DEF UpReads, ctlVars
<1>3. CASE Oversized(upBuf')
  BY <1>1, <1>2, <1>3, UpGivesUp
<1>4. CASE ~Oversized(upBuf')
  <2>1. writer' = writer
    BY <1>1, <1>4
  <2>2. SofiaRest' = SofiaRest
    BY <1>1, SentType, ReadMoves DEF SofiaRest, Bytes
  <2>3. SofiaStream(SofiaRest', Cardinality(TextsAt(Sent)), sofiaSent)
    BY <1>2, <2>2 DEF SofiaInv, SofiaFlow
  <2> QED BY <1>2, <1>4, <2>1, <2>3, SofiaMoves
<1> QED BY <1>3, <1>4

\* What stripping leaves of the buffer, before what has not been read.
LEMMA StrippedRest ==
    ASSUME Types, SofiaInv, up # "over"
    PROVE  LET s == Stripped(upBuf)
           IN  /\ s \in Bytes(Nat) /\ ~Oversized(s)
               /\ SofiaStream(s \o fromSofia, Cardinality(TextsAt(Sent)), sofiaSent)
<1> DEFINE s == Stripped(upBuf)
           k == Cardinality(TextsAt(Sent))
<1>0. /\ upBuf \in Bytes(Nat) /\ fromSofia \in Bytes(Nat) /\ SofiaRest \in Bytes(Nat)
      /\ k \in Nat /\ sofiaSent \in Nat
  BY SentType
<1> HIDE DEF k
<1>1. PICK q \in 1 .. Len(upBuf) + 1 :
        s = SubSeq(upBuf, q, Len(upBuf)) /\ \A p \in 1 .. q - 1 : upBuf[p] = Crlf
  BY <1>0, StrippedCuts DEF Bytes
<1> HIDE DEF s
<1>2. s \o fromSofia = SubSeq(SofiaRest, q, Len(SofiaRest))
  <2>1. SubSeq(upBuf, q, Len(upBuf)) \o fromSofia = SubSeq(SofiaRest, q, Len(SofiaRest))
    BY <1>0, SuffixJoins DEF Bytes, SofiaRest
  <2> QED BY <1>1, <2>1
<1>3. /\ s \in Bytes(Nat) /\ Len(s) = Len(upBuf) + 1 - q
      /\ \A i \in 1 .. Len(upBuf) + 1 - q : s[i] = upBuf[q + i - 1]
  <2>1. /\ SubSeq(upBuf, q, Len(upBuf)) \in Bytes(Nat)
        /\ Len(SubSeq(upBuf, q, Len(upBuf))) = Len(upBuf) + 1 - q
        /\ \A i \in 1 .. Len(upBuf) + 1 - q : SubSeq(upBuf, q, Len(upBuf))[i] = upBuf[q + i - 1]
    BY <1>0, BytesSuffix
  <2> QED BY <1>1, <2>1
<1>4. Len(upBuf) \in Nat /\ DOMAIN upBuf = 1 .. Len(upBuf) /\ DOMAIN s = 1 .. Len(s)
  BY <1>0, <1>3, BytesElements
<1>5. ~Oversized(s)
  <2>1. \A i \in DOMAIN s : q + i - 1 \in DOMAIN upBuf /\ s[i] = upBuf[q + i - 1]
    BY <1>3, <1>4, SMTT(30)
  <2> QED BY <2>1 DEF SofiaInv, Oversized
<1>6. /\ Len(SofiaRest) \in Nat /\ Len(SofiaRest) >= Len(upBuf)
      /\ \A p \in 1 .. Len(upBuf) : SofiaRest[p] = upBuf[p]
  <2>1. /\ Len(SofiaRest) = Len(upBuf) + Len(fromSofia)
        /\ \A p \in 1 .. Len(upBuf) + Len(fromSofia) :
              SofiaRest[p] = IF p <= Len(upBuf) THEN upBuf[p] ELSE fromSofia[p - Len(upBuf)]
    BY <1>0, ConcatProperties DEF SofiaRest, Bytes
  <2>2. Len(fromSofia) \in Nat /\ Len(SofiaRest) \in Nat
    BY <1>0, BytesElements
  <2> QED BY <1>4, <2>1, <2>2
<1>7. q \in 1 .. Len(SofiaRest) + 1 /\ \A p \in 1 .. q - 1 : SofiaRest[p] = Crlf
  BY <1>1, <1>4, <1>6
<1>8. SofiaStream(SofiaRest, k, sofiaSent)
  BY DEF SofiaInv, SofiaFlow, k
<1>9. SofiaStream(SubSeq(SofiaRest, q, Len(SofiaRest)), k, sofiaSent)
  BY <1>0, <1>7, <1>8, WithoutKeepalives
<1> QED BY <1>2, <1>3, <1>5, <1>9 DEF s, k

\* take_sip_message: the message in front is the next one.
LEMMA UpTakesSofia ==
    ASSUME Types, SofiaInv, UpTakes
    PROVE  SofiaInv'
<1> DEFINE s == Stripped(upBuf)
           k == Cardinality(TextsAt(Sent))
           r == s \o fromSofia
           x == [op |-> "text", of |-> s[1].of]
<1>1. /\ up = "split" /\ phase' = phase /\ up' = up
      /\ sofiaSent' = sofiaSent /\ fromSofia' = fromSofia
      /\ Len(s) >= 2 /\ s[1] # Crlf
      /\ Push("ws", x) /\ upBuf' = SubSeq(s, 3, Len(s))
  BY DEF UpTakes, WholeMessage, netVars, ctlVars
<1>2. s \in Bytes(Nat) /\ ~Oversized(s) /\ SofiaStream(r, k, sofiaSent)
  BY <1>1, StrippedRest
<1>3. fromSofia \in Bytes(Nat) /\ k \in Nat /\ sofiaSent \in Nat /\ Sent \in Seq(Item("ws"))
  BY SentType
<1>4. x.op = "text" /\ x.of = s[1].of
  OBVIOUS
<1> HIDE DEF s, k, x
<1>5. /\ Len(s) \in Nat /\ DOMAIN s = 1 .. Len(s)
      /\ \A p \in 1 .. Len(s) : s[p].part \in 0 .. 3 /\ s[p].of \in Nat
  BY <1>2, BytesElements
<1>6. r \in Bytes(Nat) /\ Len(r) >= 2 /\ r[1] = s[1]
  <2>1. /\ Len(r) = Len(s) + Len(fromSofia)
        /\ \A p \in 1 .. Len(s) + Len(fromSofia) :
              r[p] = IF p <= Len(s) THEN s[p] ELSE fromSofia[p - Len(s)]
    BY <1>2, <1>3, ConcatProperties DEF Bytes
  <2>2. Len(fromSofia) \in Nat /\ r \in Bytes(Nat)
    BY <1>2, <1>3, BytesElements, BytesJoin
  <2> QED BY <1>1, <1>5, <2>1, <2>2
<1>7. r[1] # Crlf /\ r[1].part # HugePart
  BY <1>1, <1>2, <1>5, <1>6 DEF Oversized
<1> DEFINE r3 == SubSeq(r, 3, Len(r))
<1>8. s[1].of = k + 1 /\ SofiaStream(r3, k + 1, sofiaSent)
  <2>1. r[1].of = k + 1 /\ SofiaStream(SubSeq(r, 3, Len(r)), k + 1, sofiaSent)
    BY <1>2, <1>3, <1>6, <1>7, NextMessage
  <2> QED BY <1>6, <2>1
<1>9. SofiaRest' = r3
  <2>1. 3 \in 1 .. Len(s) + 1
    BY <1>1, <1>5
  <2>2. SubSeq(s, 3, Len(s)) \o fromSofia = SubSeq(s \o fromSofia, 3, Len(s \o fromSofia))
    BY <1>2, <1>3, <2>1, SuffixJoins DEF Bytes
  <2> QED BY <1>1, <2>2 DEF SofiaRest
<1> HIDE DEF r3, r
<1>10. Sent' = Append(Sent, x)
  BY <1>1, PushSendsOne DEF Sent, Writers
<1>11. InOrder(Sent') /\ Cardinality(TextsAt(Sent')) = k + 1
  <2>1. x \in Item("ws")
    BY <1>1, <1>5 DEF Item, x
  <2>2. InOrder(Sent)
    BY DEF SofiaInv
  <2>3. x.op = "text" /\ x.of = Cardinality(TextsAt(Sent)) + 1 =>
           /\ InOrder(Append(Sent, x))
           /\ Cardinality(TextsAt(Append(Sent, x))) = Cardinality(TextsAt(Sent)) + 1
    BY <1>3, <2>1, <2>2, OneItemMore
  <2> QED BY <1>4, <1>8, <1>10, <2>3 DEF k
<1>12. InOrder(Sent)'
  BY <1>11 DEF InOrder, TextsAt
<1>13. SofiaFlow'
  <2>1. SofiaStream(SofiaRest', Cardinality(TextsAt(Sent')), sofiaSent')
    BY <1>1, <1>8, <1>9, <1>11
  <2> QED BY <2>1 DEF SofiaFlow, SofiaStream, OnItsWay, TextsAt
<1>14. ~Oversized(upBuf')
  <2>1. /\ Len(upBuf') = Len(s) + 1 - 3 /\ upBuf' \in Bytes(Nat)
        /\ \A i \in 1 .. Len(s) + 1 - 3 : upBuf'[i] = s[3 + i - 1]
    <3>1. 3 \in 1 .. Len(s) + 1
      BY <1>1, <1>5
    <3>2. /\ SubSeq(s, 3, Len(s)) \in Bytes(Nat)
          /\ Len(SubSeq(s, 3, Len(s))) = Len(s) + 1 - 3
          /\ \A i \in 1 .. Len(s) + 1 - 3 : SubSeq(s, 3, Len(s))[i] = s[3 + i - 1]
      BY <1>2, <3>1, BytesSuffix
    <3> QED BY <1>1, <3>2
  <2>2. DOMAIN upBuf' = 1 .. Len(upBuf')
    BY <2>1, BytesElements
  <2>3. \A i \in DOMAIN upBuf' : 3 + i - 1 \in DOMAIN s /\ upBuf'[i] = s[3 + i - 1]
    BY <1>5, <2>1, <2>2
  <2> QED BY <1>2, <2>3 DEF Oversized
<1>15. NotYetUp'
  BY <1>1 DEF SofiaInv, NotYetUp
<1> QED BY <1>12, <1>13, <1>14, <1>15 DEF SofiaInv, Oversized

LEMMA UpSplitDoneSofia ==
    ASSUME Types, SofiaInv, UpSplitDone
    PROVE  SofiaInv'
<1>1. /\ up = "split" /\ phase' = phase /\ sofiaSent' = sofiaSent /\ fromSofia' = fromSofia
      /\ upBuf' = Stripped(upBuf) /\ UpNext
  BY DEF UpSplitDone, netVars, ctlVars
<1>2. CASE done \/ cancelled
  BY <1>1, <1>2, UpGivesUp DEF UpNext
<1>3. CASE ~(done \/ cancelled)
  <2>1. writer' = writer
    BY <1>1, <1>3 DEF UpNext
  <2>2. ~Oversized(upBuf') /\ SofiaStream(SofiaRest', Cardinality(TextsAt(Sent)), sofiaSent)
    <3>1. ~Oversized(Stripped(upBuf))
          /\ SofiaStream(Stripped(upBuf) \o fromSofia, Cardinality(TextsAt(Sent)), sofiaSent)
      BY <1>1, StrippedRest
    <3>2. SofiaRest' = Stripped(upBuf) \o fromSofia
      BY <1>1 DEF SofiaRest
    <3> QED BY <1>1, <3>1, <3>2
  <2> QED BY <1>1, <2>1, <2>2, SofiaMoves
<1> QED BY <1>2, <1>3

LEMMA UpPumpSofia ==
    ASSUME Types, SofiaInv, UpPump
    PROVE  SofiaInv'
<1>1. CASE UpStart
  <2>1. /\ up = "spawned" /\ phase' = phase /\ UpNext
        /\ UNCHANGED <<upBuf, fromSofia, sofiaSent>>
    BY <1>1 DEF UpStart, netVars, ctlVars
  <2>2. CASE done \/ cancelled
    BY <2>1, <2>2, UpGivesUp DEF UpNext
  <2>3. CASE ~(done \/ cancelled)
    <3>1. Elsewhere
      BY <2>1, <2>3 DEF UpNext, Elsewhere, Sent
    <3>2. NotYetUp'
      BY <2>1 DEF SofiaInv, NotYetUp
    <3> QED BY <2>1, <3>1, <3>2, SofiaRests
  <2> QED BY <2>2, <2>3
<1>2. CASE UpReadEnds
  BY <1>2, UpGivesUp DEF UpReadEnds, ctlVars
<1> QED BY <1>1, <1>2, UpReadsSofia, UpTakesSofia, UpSplitDoneSofia DEF UpPump

\* What sofia can write is one message more, for the stream it is written to.
LEMMA WritesOne ==
    ASSUME NEW s \in Bytes(Nat), NEW n \in Nat,
           NEW bytes \in {Halves(n + 1), <<Crlf>> \o Halves(n + 1), <<[of |-> 0, part |-> HugePart]>>}
    PROVE  bytes \in Bytes(Nat) /\ OneOf(s, s \o bytes, n)
<1> DEFINE t == s \o bytes
<1>1. Halves(n + 1) \in Bytes(Nat) /\ <<Crlf>> \in Bytes(Nat)
      /\ <<[of |-> 0, part |-> HugePart]>> \in Bytes(Nat)
  <2>1. Halves(n + 1) \in Bytes(Nat)
    BY HalvesType
  <2> QED BY <2>1 DEF Crlf, Bytes, HugePart
<1>2. bytes \in Bytes(Nat)
  BY <1>1, BytesJoin
<1>3. Len(s) \in Nat /\ Len(bytes) \in Nat /\ Len(t) = Len(s) + Len(bytes)
      /\ \A p \in 1 .. Len(s) + Len(bytes) : t[p] = IF p <= Len(s) THEN s[p] ELSE bytes[p - Len(s)]
  BY <1>2, LenProperties, ConcatProperties DEF Bytes
<1> HIDE DEF t
<1>4. \A i \in 1 .. Len(s) : t[i] = s[i]
  BY <1>3
<1>5. ASSUME NEW d \in 1 .. Len(bytes)
      PROVE  t[Len(s) + d] = bytes[d]
  <2>1. Len(s) + d \in 1 .. Len(s) + Len(bytes) /\ ~(Len(s) + d <= Len(s)) /\ Len(s) + d - Len(s) = d
    BY <1>3
  <2> QED BY <1>3, <2>1
<1>6. ASSUME bytes = Halves(n + 1)
      PROVE  OneOf(s, t, n)
  <2>1. Len(bytes) = 2 /\ bytes[1] = [of |-> n + 1, part |-> 1] /\ bytes[2] = [of |-> n + 1, part |-> 2]
    BY <1>6 DEF Halves
  <2>2. t[Len(s) + 1] = bytes[1] /\ t[Len(s) + 2] = bytes[2] /\ Len(t) = Len(s) + 2
    BY <1>3, <1>5, <2>1
  <2> DEFINE f == Len(s) + 1
  <2>3. /\ f \in Nat /\ Len(s) < f /\ f + 1 = Len(t) /\ f + 1 = Len(s) + 2
        /\ \A i \in Len(s) + 1 .. f - 1 : t[i] = Crlf
    BY <1>3, <2>2
  <2>4. Whole(s, t, f, n)
    BY <2>1, <2>2, <2>3 DEF Whole
  <2>5. Len(t) > Len(s)
    BY <1>3, <2>2
  <2> QED BY <1>4, <2>3, <2>4, <2>5 DEF OneOf
<1>7. ASSUME bytes = <<Crlf>> \o Halves(n + 1)
      PROVE  OneOf(s, t, n)
  <2>1. /\ Len(bytes) = 3 /\ bytes[1] = Crlf
        /\ bytes[2] = [of |-> n + 1, part |-> 1] /\ bytes[3] = [of |-> n + 1, part |-> 2]
    BY <1>7 DEF Halves
  <2>2. /\ t[Len(s) + 1] = bytes[1] /\ t[Len(s) + 2] = bytes[2] /\ t[Len(s) + 3] = bytes[3]
        /\ Len(t) = Len(s) + 3
    BY <1>3, <1>5, <2>1
  <2> DEFINE f == Len(s) + 2
  <2>3. /\ f \in Nat /\ Len(s) < f /\ f + 1 = Len(t) /\ f + 1 = Len(s) + 3
        /\ \A i \in Len(s) + 1 .. f - 1 : i = Len(s) + 1
    BY <1>3, <2>2
  <2>4. Whole(s, t, f, n)
    BY <2>1, <2>2, <2>3 DEF Whole
  <2>5. Len(t) > Len(s)
    BY <1>3, <2>2
  <2> QED BY <1>4, <2>3, <2>4, <2>5 DEF OneOf
<1>8. ASSUME bytes = <<[of |-> 0, part |-> HugePart]>>
      PROVE  OneOf(s, t, n)
  <2>1. Len(bytes) = 1 /\ bytes[1].part = HugePart
    BY <1>8
  <2>2. t[Len(s) + 1] = bytes[1] /\ Len(t) = Len(s) + 1 /\ Len(t) > Len(s)
    BY <1>3, <1>5, <2>1
  <2> QED BY <1>4, <2>1, <2>2 DEF OneOf, TooMuch
<1> QED BY <1>2, <1>6, <1>7, <1>8 DEF t

LEMMA SofiaSendsSofia ==
    ASSUME Types, SofiaInv, SofiaSends
    PROVE  SofiaInv'
<1>1. /\ phase' = phase /\ up' = up /\ upBuf' = upBuf /\ writer' = writer
      /\ sofiaSent' = sofiaSent + 1
  BY DEF SofiaSends, Outside, pumpVars
<1>2. PICK bytes \in {Halves(sofiaSent + 1), <<Crlf>> \o Halves(sofiaSent + 1),
                      <<[of |-> 0, part |-> HugePart]>>} :
        fromSofia' = fromSofia \o bytes
  BY <1>1 DEF SofiaSends
<1>3. /\ upBuf \in Bytes(Nat) /\ fromSofia \in Bytes(Nat) /\ SofiaRest \in Bytes(Nat)
      /\ sofiaSent \in Nat /\ Cardinality(TextsAt(Sent)) \in Nat
  BY SentType
<1>4. bytes \in Bytes(Nat) /\ OneOf(SofiaRest, SofiaRest \o bytes, sofiaSent)
  BY <1>3, WritesOne
<1>5. SofiaRest' = SofiaRest \o bytes
  <2>1. (upBuf \o fromSofia) \o bytes = upBuf \o (fromSofia \o bytes)
    <3>1. \A u, v, y \in Bytes(Nat) : (u \o v) \o y = u \o (v \o y)
      BY BytesAssociate, SMTT(30)
    <3> QED BY <1>3, <1>4, <3>1
  <2> QED BY <1>1, <1>2, <2>1 DEF SofiaRest
<1>6. Sent' = Sent
  BY <1>1 DEF Sent
<1>7. InOrder(Sent)'
  BY <1>6 DEF SofiaInv, InOrder, TextsAt
<1>8. NotYetUp'
  BY <1>1 DEF SofiaInv, NotYetUp
<1>9. ASSUME up # "over"
      PROVE  ~Oversized(upBuf)' /\ SofiaFlow'
  <2>1. ~Oversized(upBuf) /\ SofiaStream(SofiaRest, Cardinality(TextsAt(Sent)), sofiaSent)
    BY <1>9 DEF SofiaInv, SofiaFlow
  <2>2. SofiaRest \o bytes \in Bytes(Nat)
    BY <1>3, <1>4, BytesJoin
  <2>3. SofiaStream(SofiaRest \o bytes, Cardinality(TextsAt(Sent)), sofiaSent + 1)
    BY <1>3, <1>4, <2>1, <2>2, OneMore
  <2>4. SofiaStream(SofiaRest', Cardinality(TextsAt(Sent')), sofiaSent')
    BY <1>1, <1>5, <1>6, <2>3
  <2>5. SofiaFlow'
    BY <2>4 DEF SofiaFlow, SofiaStream, OnItsWay, TextsAt
  <2> QED BY <1>1, <2>1, <2>5 DEF Oversized
<1> QED BY <1>1, <1>7, <1>8, <1>9 DEF SofiaInv

\* Nothing else in the bridge touches sofia's messages.
LEMMA DownPumpSofia ==
    ASSUME Types, SofiaInv, DownPump
    PROVE  SofiaInv'
<1>1. UNCHANGED <<up, upBuf, fromSofia, sofiaSent>>
  BY DEF DownPump, Drain, DrainBad, DrainClose, DrainPing, DrainTooLong, DrainFragment, DrainMessage,
         DrainDone, DownReads, DownReadEnds, Drains
<1>2. NotYetUp'
  <2>1. phase' = phase \/ phase' = "over"
    BY DEF DownPump, Drain, DrainBad, DrainClose, DrainPing, DrainTooLong, DrainFragment, DrainMessage,
           DrainDone, DownReads, DownReadEnds, DownReturns, CloseLocal
  <2> QED BY <1>1, <2>1 DEF SofiaInv, NotYetUp
<1>3. Elsewhere
  <2>0. "ws" \in Writers /\ "tcp" \in Writers
    BY DEF Writers
  <2>1. CASE writer' = writer
    BY <2>1 DEF Elsewhere, Sent
  <2>2. CASE DrainClose
    BY <2>2, ClosesElsewhere DEF DrainClose
  <2>3. CASE DrainPing
    <3>1. CASE Push("ws", [op |-> "pong", of |-> Frame.id])
      <4> DEFINE x == [op |-> "pong", of |-> Frame.id]
      <4>1. Frame \in ServerFrame
        BY <2>3, DrainTakes DEF DrainPing
      <4>2. x \in Item("ws") /\ x.op # "text" /\ Push("ws", x)
        BY <3>1, <4>1 DEF Item, ServerFrame
      <4> HIDE DEF x
      <4>3. Sent' = Append(Sent, x)
        BY <2>0, <4>2, PushSendsOne DEF Sent
      <4> QED BY <4>2, <4>3 DEF Elsewhere
    <3> QED BY <2>1, <2>3, <3>1 DEF DrainPing
  <2>4. CASE Push("tcp", Payloads)
    <3>1. Sent' = Sent
      BY <2>0, <2>4, PushSendsOne DEF Sent
    <3> QED BY <3>1 DEF Elsewhere
  <2> QED BY <2>1, <2>2, <2>3, <2>4
          DEF DownPump, Drain, DrainBad, DrainTooLong, DrainFragment, DrainMessage, DrainDone,
              DownReads, DownReadEnds
<1> QED BY <1>1, <1>2, <1>3, SofiaRests

LEMMA SofiaKeeps ==
    ASSUME Types, SofiaInv, [Next]_vars
    PROVE  SofiaInv'
<1>1. CASE UpPump
  BY <1>1, UpPumpSofia
<1>2. CASE DownPump
  BY <1>2, DownPumpSofia
<1>3. CASE SofiaSends
  BY <1>3, SofiaSendsSofia
<1>4. ASSUME NEW w \in Writers, WriterTask(w)
      PROVE  SofiaInv'
  <2>1. UNCHANGED <<up, upBuf, fromSofia, sofiaSent, phase>>
    BY <1>4 DEF WriterTask, WriterStarts, WriterWrites, WriterFails, pumpVars, netVars, ctlVars
  <2>2. Elsewhere
    BY <1>4, TaskSends DEF Elsewhere, Sent, Writers
  <2>3. NotYetUp'
    BY <2>1 DEF SofiaInv, NotYetUp
  <2> QED BY <2>1, <2>2, <2>3, SofiaRests
<1>5. CASE RunSession
  <2>1. writer' = writer /\ UNCHANGED <<upBuf, fromSofia, sofiaSent>>
    BY <1>5 DEF RunSession, Accept, ConnectFails, TcpConnected, Upgraded, pumpVars
  <2>2. Elsewhere
    BY <2>1 DEF Elsewhere, Sent
  <2>3. NotYetUp' /\ (up' # "over" => up # "over")
    BY <1>5 DEF RunSession, Accept, ConnectFails, TcpConnected, Upgraded, CloseLocal, pumpVars,
                SofiaInv, NotYetUp
  <2> QED BY <2>1, <2>2, <2>3, SofiaRests
<1>6. CASE \/ SofiaConnects \/ SofiaShuts \/ ServerGone \/ ServerAnswersClose \/ Drop
           \/ \E s \in ServerFrames : ServerSends(s)
           \/ UNCHANGED vars
  <2>1. UNCHANGED <<writer, up, upBuf, fromSofia, sofiaSent, phase>>
    BY <1>6 DEF SofiaConnects, SofiaShuts, ServerGone, ServerAnswersClose, Drop, ServerSends, Outside,
                vars, pumpVars, netVars, ctlVars
  <2>2. Elsewhere
    BY <2>1 DEF Elsewhere, Sent
  <2>3. NotYetUp'
    BY <2>1 DEF SofiaInv, NotYetUp
  <2> QED BY <2>1, <2>2, <2>3, SofiaRests
<1> QED BY <1>1, <1>2, <1>3, <1>4, <1>5, <1>6 DEF Next

\* Sofia's messages reach the WebSocket's writer whole, once each and in order, for any
\* number of them, however TCP cuts them up and wherever keepalives fall between them.
THEOREM SofiaIsHeard == Spec => []SofiaInOrder
<1>1. Init => Types /\ SofiaInv
  <2> SUFFICES ASSUME Init PROVE Types /\ SofiaInv
    OBVIOUS
  <2>1. Types
    BY InitTypes
  <2>2. Sent = <<>> /\ upBuf = <<>> /\ fromSofia = <<>> /\ sofiaSent = 0 /\ up = "none"
    BY DEF Init, NewWriter, Writers, Sent
  <2>3. TextsAt(Sent) = {} /\ Cardinality(TextsAt(Sent)) = 0
    BY <2>2, FS_EmptySet DEF TextsAt
  <2>4. SofiaRest = <<>>
    BY <2>2 DEF SofiaRest
  <2>5. SofiaFlow
    BY <2>2, <2>3, <2>4 DEF SofiaFlow, SofiaStream
  <2> QED BY <2>1, <2>2, <2>3, <2>5 DEF SofiaInv, InOrder, NotYetUp, Oversized
<1>2. (Types /\ SofiaInv) /\ [Next]_vars => (Types /\ SofiaInv)'
  BY NextKeeps, SofiaKeeps
<1>3. Types /\ SofiaInv => SofiaInOrder
  <2> SUFFICES ASSUME Types, SofiaInv PROVE SofiaInOrder
    OBVIOUS
  <2>1. Sent \in Seq(Item("ws"))
    BY SentType
  <2>2. DOMAIN Sent = 1 .. Len(Sent)
    BY <2>1, LenProperties
  <2> QED BY <2>2 DEF SofiaInv, InOrder, TextsAt, SofiaInOrder, Sent
<1> QED BY <1>1, <1>2, <1>3, PTL DEF Spec

-----------------------------------------------------------------------------
(***************************************************************************)
(* Frames and messages.  What WsBridge says of srvSent, for any sequence   *)
(* of frames.                                                              *)
(***************************************************************************)
DataAt(s) == {k \in 1 .. Len(s) : s[k].op \in {"text", "binary", "cont"}}

\* Frames i to k are a first one and its continuations, none but perhaps k the last.
Runs(s, i, k) ==
    /\ i <= k /\ s[i].op # "cont"
    /\ \A m \in DataAt(s) : i < m /\ m <= k => s[m].op = "cont"
    /\ \A m \in DataAt(s) : i <= m /\ m < k => ~s[m].fin
Blank(s, i, k) == \A m \in DataAt(s) : i <= m /\ m <= k => s[m].id = 0
MessageAt(s, i, j) == Runs(s, i, j) /\ s[j].fin /\ ~Blank(s, i, j)
SpokenAt(s) == {j \in DataAt(s) : \E i \in DataAt(s) : MessageAt(s, i, j)}
SaysAt(s, p, i, j) ==
    /\ Len(p) = Cardinality(DataAt(s) \cap i .. j)
    /\ \A k \in DataAt(s) \cap i .. j : p[Cardinality(DataAt(s) \cap i .. k)] = s[k].id

\* What was handed to sofia is what the server said, in order.
Relayed(h, s) ==
    \A x \in 1 .. Len(h) : \E i, j \in DataAt(s) :
        MessageAt(s, i, j) /\ x = Cardinality(SpokenAt(s) \cap 1 .. j) /\ SaysAt(s, h[x], i, j)

\* A payload that says what frames i to c say, and nothing else.
Collects(s, p, i, c) ==
    /\ SaysAt(s, p, i, c)
    /\ \A x \in 1 .. Len(p) : \E k \in DataAt(s) : i <= k /\ k <= c /\ p[x] = s[k].id
\* The message that is being collected after c frames.
OpenAt(s, i, c) == Runs(s, i, c) /\ (c \in DataAt(s) => ~s[c].fin)
\* After c frames, h has been handed over and p kept.
Delivery(h, s, p, c) ==
    /\ Len(h) = Cardinality(SpokenAt(s) \cap 1 .. c)
    /\ p # <<>> => \E i \in DataAt(s) : OpenAt(s, i, c) /\ Collects(s, p, i, c)

LEMMA FramesElements ==
    ASSUME NEW s \in Seq(ServerFrame)
    PROVE  /\ Len(s) \in Nat /\ DOMAIN s = 1 .. Len(s)
           /\ \A k \in 1 .. Len(s) : s[k] \in ServerFrame /\ s[k].id \in Nat /\ s[k].fin \in BOOLEAN
           /\ DataAt(s) \subseteq 1 .. Len(s) /\ SpokenAt(s) \subseteq DataAt(s)
           /\ \A T : IsFiniteSet(DataAt(s) \cap T) /\ Cardinality(DataAt(s) \cap T) \in Nat
           /\ \A T : IsFiniteSet(SpokenAt(s) \cap T) /\ Cardinality(SpokenAt(s) \cap T) \in Nat
<1>1. Len(s) \in Nat /\ DOMAIN s = 1 .. Len(s)
  BY LenProperties
<1>2. \A k \in 1 .. Len(s) : s[k] \in ServerFrame
  BY ElementOfSeq
<1>3. \A k \in 1 .. Len(s) : s[k].id \in Nat /\ s[k].fin \in BOOLEAN
  BY <1>2 DEF ServerFrame
<1>4. DataAt(s) \subseteq 1 .. Len(s) /\ SpokenAt(s) \subseteq DataAt(s)
  BY DEF DataAt, SpokenAt
<1>5. IsFiniteSet(1 .. Len(s))
  BY <1>1, FS_Interval
<1>6. ASSUME NEW T
      PROVE  /\ IsFiniteSet(DataAt(s) \cap T) /\ IsFiniteSet(SpokenAt(s) \cap T)
  <2>1. DataAt(s) \cap T \subseteq 1 .. Len(s) /\ SpokenAt(s) \cap T \subseteq 1 .. Len(s)
    BY <1>4
  <2> QED BY <1>5, <2>1, FS_Subset
<1>7. \A T : Cardinality(DataAt(s) \cap T) \in Nat /\ Cardinality(SpokenAt(s) \cap T) \in Nat
  BY <1>6, FS_CardinalityType
<1> QED BY <1>1, <1>2, <1>3, <1>4, <1>6, <1>7

\* One frame more changes nothing of those before it.
LEMMA OneFrameMore ==
    ASSUME NEW s \in Seq(ServerFrame), NEW f \in ServerFrame
    PROVE  LET t == Append(s, f)
               n == Len(s)
           IN  /\ t \in Seq(ServerFrame) /\ Len(t) = n + 1 /\ t[n + 1] = f
               /\ \A k \in 1 .. n : t[k] = s[k] /\ (k \in DataAt(t) <=> k \in DataAt(s))
               /\ \A i, j \in 1 .. n : Runs(t, i, j) <=> Runs(s, i, j)
               /\ \A i, j \in 1 .. n : MessageAt(t, i, j) <=> MessageAt(s, i, j)
               /\ \A j \in 0 .. n : SpokenAt(t) \cap 1 .. j = SpokenAt(s) \cap 1 .. j
               /\ \A i, j \in 0 .. n : DataAt(t) \cap i .. j = DataAt(s) \cap i .. j
<1> DEFINE t == Append(s, f)
           n == Len(s)
<1>1. /\ n \in Nat /\ t \in Seq(ServerFrame) /\ Len(t) = n + 1 /\ t[n + 1] = f
      /\ \A k \in 1 .. n : t[k] = s[k]
  BY AppendProperties, LenProperties
<1> HIDE DEF t
<1>2. \A k \in 1 .. n : k \in DataAt(t) <=> k \in DataAt(s)
  BY <1>1 DEF DataAt
<1>3. DataAt(s) \subseteq 1 .. n /\ DataAt(t) \subseteq 1 .. n + 1
  BY <1>1 DEF DataAt
<1>9. SpokenAt(t) \subseteq DataAt(t) /\ SpokenAt(s) \subseteq DataAt(s)
  BY DEF SpokenAt
<1> HIDE DEF n
<1>4. ASSUME NEW i \in 1 .. n, NEW j \in 1 .. n
      PROVE  /\ Runs(t, i, j) <=> Runs(s, i, j)
             /\ Blank(t, i, j) <=> Blank(s, i, j)
  <2>1. \A m \in 1 .. n + 1 : m <= j => m \in 1 .. n
    BY <1>1
  <2>2. \A m \in 1 .. n + 1 : m < j => m \in 1 .. n
    BY <1>1
  <2>3. Runs(t, i, j) <=> Runs(s, i, j)
    BY <1>1, <1>2, <1>3, <2>1, <2>2 DEF Runs
  <2>4. Blank(t, i, j) <=> Blank(s, i, j)
    BY <1>1, <1>2, <1>3, <2>1 DEF Blank
  <2> QED BY <2>3, <2>4
<1>5. \A i, j \in 1 .. n : MessageAt(t, i, j) <=> MessageAt(s, i, j)
  BY <1>1, <1>4 DEF MessageAt
<1>6. ASSUME NEW j \in 1 .. n
      PROVE  j \in SpokenAt(t) <=> j \in SpokenAt(s)
  <2>1. ASSUME NEW i \in DataAt(t), MessageAt(t, i, j) PROVE i \in 1 .. n
    BY <1>1, <1>3, <2>1 DEF MessageAt, Runs
  <2> QED BY <1>2, <1>3, <1>5, <2>1 DEF SpokenAt
<1>7. \A j \in 0 .. n : SpokenAt(t) \cap 1 .. j = SpokenAt(s) \cap 1 .. j
  BY <1>1, <1>6
<1>8. \A i, j \in 0 .. n : DataAt(t) \cap i .. j = DataAt(s) \cap i .. j
  <2> SUFFICES ASSUME NEW i \in 0 .. n, NEW j \in 0 .. n
               PROVE  DataAt(t) \cap i .. j = DataAt(s) \cap i .. j
    OBVIOUS
  <2>1. \A k \in 1 .. n + 1 : k \in i .. j => k \in 1 .. n
    BY <1>1
  <2> QED BY <1>2, <1>3, <2>1
<1> QED BY <1>1, <1>2, <1>4, <1>5, <1>7, <1>8 DEF t, n

LEMMA RelayedStays ==
    ASSUME NEW s \in Seq(ServerFrame), NEW f \in ServerFrame, NEW h, Relayed(h, s)
    PROVE  Relayed(h, Append(s, f))
<1> DEFINE t == Append(s, f)
           n == Len(s)
<1>1. /\ n \in Nat /\ DataAt(s) \subseteq 1 .. n
  BY FramesElements
<1>2. /\ \A k \in 1 .. n : t[k] = s[k] /\ (k \in DataAt(t) <=> k \in DataAt(s))
      /\ \A i, j \in 1 .. n : MessageAt(t, i, j) <=> MessageAt(s, i, j)
      /\ \A j \in 0 .. n : SpokenAt(t) \cap 1 .. j = SpokenAt(s) \cap 1 .. j
      /\ \A i, j \in 0 .. n : DataAt(t) \cap i .. j = DataAt(s) \cap i .. j
  BY OneFrameMore
<1> HIDE DEF t, n
<1>3. \A k \in 1 .. n : k \in 0 .. n
  BY <1>1
<1>4. ASSUME NEW p, NEW i \in 1 .. n, NEW j \in 1 .. n, SaysAt(s, p, i, j)
      PROVE  SaysAt(t, p, i, j)
  <2>1. Len(p) = Cardinality(DataAt(t) \cap i .. j)
    BY <1>2, <1>3, <1>4 DEF SaysAt
  <2>2. ASSUME NEW k \in DataAt(t) \cap i .. j
        PROVE  p[Cardinality(DataAt(t) \cap i .. k)] = t[k].id
    <3>1. k \in DataAt(s) \cap i .. j /\ k \in 1 .. n
      BY <1>1, <1>2, <1>3
    <3>2. DataAt(t) \cap i .. k = DataAt(s) \cap i .. k /\ t[k] = s[k]
      BY <1>2, <1>3, <3>1
    <3> QED BY <1>4, <3>1, <3>2 DEF SaysAt
  <2> QED BY <2>1, <2>2 DEF SaysAt
<1>5. ASSUME NEW x \in 1 .. Len(h)
      PROVE  \E i, j \in DataAt(t) :
                MessageAt(t, i, j) /\ x = Cardinality(SpokenAt(t) \cap 1 .. j) /\ SaysAt(t, h[x], i, j)
  <2>1. PICK i \in DataAt(s), j \in DataAt(s) :
          MessageAt(s, i, j) /\ x = Cardinality(SpokenAt(s) \cap 1 .. j) /\ SaysAt(s, h[x], i, j)
    BY DEF Relayed
  <2>2. i \in 1 .. n /\ j \in 1 .. n /\ i \in DataAt(t) /\ j \in DataAt(t)
    BY <1>1, <1>2
  <2>3. MessageAt(t, i, j) /\ SpokenAt(t) \cap 1 .. j = SpokenAt(s) \cap 1 .. j
    BY <1>2, <1>3, <2>1, <2>2
  <2> QED BY <1>4, <2>1, <2>2, <2>3
<1>6. Relayed(h, t)
  BY <1>5 DEF Relayed
<1> QED BY <1>6 DEF t

LEMMA DeliveryStays ==
    ASSUME NEW s \in Seq(ServerFrame), NEW f \in ServerFrame, NEW h, NEW p,
           NEW c \in 0 .. Len(s), Delivery(h, s, p, c)
    PROVE  Delivery(h, Append(s, f), p, c)
<1> DEFINE t == Append(s, f)
           n == Len(s)
<1>1. /\ n \in Nat /\ DataAt(s) \subseteq 1 .. n
  BY FramesElements
<1>2. /\ \A k \in 1 .. n : t[k] = s[k] /\ (k \in DataAt(t) <=> k \in DataAt(s))
      /\ \A i, j \in 1 .. n : Runs(t, i, j) <=> Runs(s, i, j)
      /\ \A j \in 0 .. n : SpokenAt(t) \cap 1 .. j = SpokenAt(s) \cap 1 .. j
      /\ \A i, j \in 0 .. n : DataAt(t) \cap i .. j = DataAt(s) \cap i .. j
      /\ Len(t) = n + 1
  BY OneFrameMore
<1> HIDE DEF t
<1>3. Len(h) = Cardinality(SpokenAt(t) \cap 1 .. c)
  BY <1>2 DEF Delivery
<1>4. ASSUME p # <<>>
      PROVE  \E i \in DataAt(t) : OpenAt(t, i, c) /\ Collects(t, p, i, c)
  <2>1. PICK i \in DataAt(s) : OpenAt(s, i, c) /\ Collects(s, p, i, c)
    BY <1>4 DEF Delivery
  <2>2. i \in 1 .. n /\ i <= c
    BY <1>1, <2>1 DEF OpenAt, Runs
  <2>3. i \in 1 .. n /\ c \in 1 .. n /\ i \in 0 .. n /\ c \in 0 .. n
    BY <1>1, <2>2
  <2>4. OpenAt(t, i, c)
    BY <1>2, <2>1, <2>3 DEF OpenAt
  <2>5. \A k \in 1 .. n : k \in 0 .. n
    BY <1>1
  <2>6. SaysAt(t, p, i, c)
    <3>1. Len(p) = Cardinality(DataAt(t) \cap i .. c)
      BY <1>2, <2>1, <2>3 DEF Collects, SaysAt
    <3>2. ASSUME NEW k \in DataAt(t) \cap i .. c
          PROVE  p[Cardinality(DataAt(t) \cap i .. k)] = t[k].id
      <4>1. k \in 1 .. n
        BY <1>1, <2>3, <3>2
      <4>2. k \in DataAt(s) \cap i .. c
        BY <1>2, <4>1
      <4>3. DataAt(t) \cap i .. k = DataAt(s) \cap i .. k /\ t[k] = s[k]
        BY <1>2, <2>3, <2>5, <4>1
      <4> QED BY <2>1, <4>2, <4>3 DEF Collects, SaysAt
    <3> QED BY <3>1, <3>2 DEF SaysAt
  <2>7. \A x \in 1 .. Len(p) : \E k \in DataAt(t) : i <= k /\ k <= c /\ p[x] = t[k].id
    <3> SUFFICES ASSUME NEW x \in 1 .. Len(p)
                 PROVE  \E k \in DataAt(t) : i <= k /\ k <= c /\ p[x] = t[k].id
      OBVIOUS
    <3>1. PICK k \in DataAt(s) : i <= k /\ k <= c /\ p[x] = s[k].id
      BY <2>1 DEF Collects
    <3>2. k \in 1 .. n /\ k \in DataAt(t) /\ t[k] = s[k]
      BY <1>1, <1>2
    <3> QED BY <3>1, <3>2
  <2>8. i \in DataAt(t)
    BY <1>2, <2>2
  <2> QED BY <2>4, <2>6, <2>7, <2>8 DEF Collects
<1>5. Delivery(h, t, p, c)
  BY <1>3, <1>4 DEF Delivery
<1> QED BY <1>5 DEF t

\* The next data frame, after a payload that says what was before it.
LEMMA CollectsMore ==
    ASSUME NEW s \in Seq(ServerFrame), NEW p \in Seq(Nat), NEW c \in Nat, NEW i \in 1 .. c + 1,
           c + 1 \in DataAt(s), Collects(s, p, i, c)
    PROVE  Collects(s, Append(p, s[c + 1].id), i, c + 1)
<1> DEFINE D == DataAt(s)
           k == c + 1
           v == s[k].id
           a == Append(p, v)
<1>0. /\ Len(s) \in Nat /\ D \subseteq 1 .. Len(s) /\ v \in Nat
      /\ \A T : IsFiniteSet(D \cap T) /\ Cardinality(D \cap T) \in Nat
  BY FramesElements
<1>1. /\ Len(p) \in Nat /\ Len(a) = Len(p) + 1 /\ a[Len(p) + 1] = v
      /\ \A x \in 1 .. Len(p) : a[x] = p[x]
  BY <1>0, AppendProperties, LenProperties
<1>2. SaysAt(s, p, i, c) /\ \A x \in 1 .. Len(p) : \E m \in D : i <= m /\ m <= c /\ p[x] = s[m].id
  BY DEF Collects
<1>3. /\ Len(p) = Cardinality(D \cap i .. c)
      /\ \A m \in D \cap i .. c : p[Cardinality(D \cap i .. m)] = s[m].id
  BY <1>2 DEF SaysAt
<1>4. k \in D /\ k \in Nat /\ i <= k /\ k = c + 1
  OBVIOUS
<1> HIDE DEF D, a, v
<1>5. v = s[k].id
  BY DEF v
<1> HIDE DEF k
<1>6. D \cap i .. k = (D \cap i .. c) \cup {k} /\ k \notin D \cap i .. c
  <2>1. \A m \in Nat : m \in i .. k <=> (m \in i .. c \/ m = k)
    BY <1>4
  <2>2. k \notin i .. c
    BY <1>4
  <2>3. \A m \in D : m \in Nat
    BY <1>0
  <2> QED BY <1>4, <2>1, <2>2, <2>3
<1>7. Cardinality(D \cap i .. k) = Len(p) + 1
  <2>1. IsFiniteSet(D \cap i .. c)
    BY <1>0
  <2>2. Cardinality((D \cap i .. c) \cup {k}) = Cardinality(D \cap i .. c) + 1
    BY <1>6, <2>1, FS_AddElement
  <2> QED BY <1>3, <1>6, <2>2
<1>8. ASSUME NEW m \in D \cap i .. k
      PROVE  a[Cardinality(D \cap i .. m)] = s[m].id
  <2>1. CASE m = k
    BY <1>1, <1>5, <1>7, <2>1
  <2>2. CASE m # k
    <3>1. m \in D \cap i .. c
      BY <1>6, <2>2
    <3>2. Cardinality(D \cap i .. m) \in 1 .. Len(p)
      <4>1. D \cap i .. m \subseteq D \cap i .. c /\ m \in D \cap i .. m
        <5>1. \A q \in i .. m : q \in i .. c
          BY <3>1
        <5>2. m \in i .. m
          BY <3>1
        <5> QED BY <3>1, <5>1, <5>2
      <4>2. Cardinality(D \cap i .. m) <= Cardinality(D \cap i .. c)
        BY <1>0, <4>1, FS_Subset
      <4>3. Cardinality(D \cap i .. m) # 0
        <5>1. IsFiniteSet(D \cap i .. m) /\ D \cap i .. m # {}
          BY <1>0, <4>1
        <5> QED BY <5>1, FS_EmptySet
      <4>4. Cardinality(D \cap i .. m) \in Nat
        BY <1>0
      <4> QED BY <1>1, <1>3, <4>2, <4>3, <4>4
    <3> QED BY <1>1, <1>3, <3>1, <3>2
  <2> QED BY <2>1, <2>2
<1>9. SaysAt(s, a, i, k)
  BY <1>1, <1>7, <1>8 DEF SaysAt, D
<1>10. \A x \in 1 .. Len(a) : \E m \in D : i <= m /\ m <= k /\ a[x] = s[m].id
  <2> SUFFICES ASSUME NEW x \in 1 .. Len(a)
               PROVE  \E m \in D : i <= m /\ m <= k /\ a[x] = s[m].id
    OBVIOUS
  <2>1. CASE x = Len(p) + 1
    BY <1>1, <1>4, <1>5, <2>1
  <2>2. CASE x # Len(p) + 1
    <3>1. x \in 1 .. Len(p)
      BY <1>1, <2>2
    <3>2. PICK m \in D : i <= m /\ m <= c /\ p[x] = s[m].id
      BY <1>2, <3>1
    <3>3. m \in Nat /\ m <= k
      BY <1>0, <1>4, <3>2
    <3> QED BY <1>1, <3>1, <3>2, <3>3
  <2> QED BY <2>1, <2>2
<1>11. Collects(s, a, i, k)
  BY <1>9, <1>10 DEF Collects, D
<1> QED BY <1>11 DEF a, v, k

\* A frame the sequence allows joins the message that is being collected.
LEMMA FrameJoins ==
    ASSUME NEW s \in Seq(ServerFrame), NEW h, NEW p \in Seq(Nat), NEW c \in Nat,
           c + 1 \in DataAt(s), Delivery(h, s, p, c),
           p = <<>> <=> s[c + 1].op # "cont"
    PROVE  \E i \in DataAt(s) : /\ Runs(s, i, c + 1)
                                /\ Collects(s, Append(p, s[c + 1].id), i, c + 1)
<1> DEFINE D == DataAt(s)
           k == c + 1
<1>0. Len(s) \in Nat /\ D \subseteq 1 .. Len(s) /\ k \in D /\ k \in Nat /\ k = c + 1 /\ 1 <= k
  BY FramesElements
<1>1. CASE p = <<>>
  <2>1. Collects(s, <<>>, k, c)
    <3>1. D \cap k .. c = {} /\ Len(<<>>) = 0
      BY <1>0
    <3>2. Cardinality(D \cap k .. c) = 0
      BY <3>1, FS_EmptySet
    <3> QED BY <3>1, <3>2 DEF Collects, SaysAt
  <2>2. Runs(s, k, k)
    <3>1. \A m \in D : ~(k < m /\ m <= k) /\ ~(k <= m /\ m < k)
      BY <1>0
    <3> QED BY <1>0, <1>1, <3>1 DEF Runs
  <2>3. Collects(s, Append(p, s[c + 1].id), k, c + 1)
    <3>1. k \in 1 .. c + 1
      BY <1>0
    <3> QED BY <1>1, <2>1, <3>1, CollectsMore
  <2> QED BY <1>0, <2>2, <2>3
<1>2. CASE p # <<>>
  <2>1. PICK i \in D : OpenAt(s, i, c) /\ Collects(s, p, i, c)
    BY <1>2 DEF Delivery
  <2>2. i \in 1 .. c + 1 /\ i <= c
    BY <1>0, <2>1 DEF OpenAt, Runs
  <2>3. Collects(s, Append(p, s[c + 1].id), i, c + 1)
    BY <2>1, <2>2, CollectsMore
  <2>4. Runs(s, i, k)
    <3>1. /\ s[i].op # "cont" /\ i <= k
          /\ \A m \in D : i < m /\ m <= c => s[m].op = "cont"
          /\ \A m \in D : i <= m /\ m < c => ~s[m].fin
          /\ c \in D => ~s[c].fin
      BY <2>1, <2>2 DEF OpenAt, Runs
    <3>2. \A m \in D : m \in Nat /\ (m <= k => m <= c \/ m = k) /\ (m < k => m < c \/ m = c)
      BY <1>0
    <3>3. s[k].op = "cont"
      BY <1>2
    <3> QED BY <3>1, <3>2, <3>3 DEF Runs
  <2> QED BY <2>3, <2>4
<1> QED BY <1>1, <1>2

\* There is one place a message can begin.
LEMMA OneStart ==
    ASSUME NEW s \in Seq(ServerFrame), NEW i \in DataAt(s), NEW j \in DataAt(s), NEW k \in Nat,
           Runs(s, i, k), Runs(s, j, k)
    PROVE  i = j
<1>1. i \in Nat /\ j \in Nat
  BY FramesElements
<1>2. ~(i < j) /\ ~(j < i)
  BY DEF Runs
<1> QED BY <1>1, <1>2

\* The next frame ends a message or does not.
LEMMA SpokenCount ==
    ASSUME NEW s \in Seq(ServerFrame), NEW c \in Nat
    PROVE  /\ c + 1 \in SpokenAt(s) =>
                Cardinality(SpokenAt(s) \cap 1 .. c + 1) = Cardinality(SpokenAt(s) \cap 1 .. c) + 1
           /\ c + 1 \notin SpokenAt(s) =>
                Cardinality(SpokenAt(s) \cap 1 .. c + 1) = Cardinality(SpokenAt(s) \cap 1 .. c)
<1> DEFINE P == SpokenAt(s)
<1>1. /\ Len(s) \in Nat /\ P \subseteq 1 .. Len(s) /\ IsFiniteSet(P \cap 1 .. c)
  BY FramesElements
<1> HIDE DEF P
<1>2. \A m \in P : m \in Nat /\ (m \in 1 .. c + 1 <=> (m \in 1 .. c \/ m = c + 1))
  BY <1>1
<1>3. c + 1 \notin 1 .. c
  OBVIOUS
<1>4. ASSUME c + 1 \in P
      PROVE  Cardinality(P \cap 1 .. c + 1) = Cardinality(P \cap 1 .. c) + 1
  <2>1. P \cap 1 .. c + 1 = (P \cap 1 .. c) \cup {c + 1} /\ c + 1 \notin P \cap 1 .. c
    BY <1>2, <1>3, <1>4
  <2> QED BY <1>1, <2>1, FS_AddElement
<1>5. ASSUME c + 1 \notin P
      PROVE  Cardinality(P \cap 1 .. c + 1) = Cardinality(P \cap 1 .. c)
  <2>1. P \cap 1 .. c + 1 = P \cap 1 .. c
    BY <1>2, <1>5
  <2> QED BY <2>1
<1> QED BY <1>4, <1>5 DEF P

\* decode_frame has taken frame c + 1, and the pump goes on: a control frame, ...
LEMMA ControlDelivers ==
    ASSUME NEW s \in Seq(ServerFrame), NEW h, NEW p, NEW c \in Nat, Delivery(h, s, p, c),
           c + 1 \notin DataAt(s)
    PROVE  Delivery(h, s, p, c + 1)
<1>1. /\ Len(s) \in Nat /\ DataAt(s) \subseteq 1 .. Len(s) /\ SpokenAt(s) \subseteq DataAt(s)
  BY FramesElements
<1>2. Len(h) = Cardinality(SpokenAt(s) \cap 1 .. c + 1)
  BY <1>1, SpokenCount DEF Delivery
<1>3. ASSUME p # <<>>
      PROVE  \E i \in DataAt(s) : OpenAt(s, i, c + 1) /\ Collects(s, p, i, c + 1)
  <2>1. PICK i \in DataAt(s) : OpenAt(s, i, c) /\ Collects(s, p, i, c)
    BY <1>3 DEF Delivery
  <2>2. \A m \in DataAt(s) : m \in Nat /\ (m <= c + 1 <=> m <= c) /\ (m < c + 1 => m < c \/ m = c)
    BY <1>1
  <2>3. i \in Nat /\ i <= c + 1
    BY <1>1, <2>1 DEF OpenAt, Runs
  <2>4. OpenAt(s, i, c + 1)
    BY <2>1, <2>2, <2>3 DEF OpenAt, Runs
  <2>5. DataAt(s) \cap i .. c + 1 = DataAt(s) \cap i .. c
    <3>1. \A m \in DataAt(s) : m \in i .. c + 1 <=> m \in i .. c
      BY <2>2, <2>3
    <3> QED BY <3>1
  <2>6. Collects(s, p, i, c + 1)
    BY <2>1, <2>2, <2>5 DEF Collects, SaysAt
  <2> QED BY <2>4, <2>6
<1> QED BY <1>2, <1>3 DEF Delivery

\* ... a fragment, ...
LEMMA FragmentDelivers ==
    ASSUME NEW s \in Seq(ServerFrame), NEW h, NEW p \in Seq(Nat), NEW c \in Nat, Delivery(h, s, p, c),
           c + 1 \in DataAt(s), p = <<>> <=> s[c + 1].op # "cont", ~s[c + 1].fin
    PROVE  Delivery(h, s, Append(p, s[c + 1].id), c + 1)
<1>1. PICK i \in DataAt(s) : Runs(s, i, c + 1) /\ Collects(s, Append(p, s[c + 1].id), i, c + 1)
  BY FrameJoins
<1>2. OpenAt(s, i, c + 1)
  BY <1>1 DEF OpenAt
<1>3. c + 1 \notin SpokenAt(s)
  BY DEF SpokenAt, MessageAt
<1>4. Len(h) = Cardinality(SpokenAt(s) \cap 1 .. c + 1)
  BY <1>3, SpokenCount DEF Delivery
<1> QED BY <1>1, <1>2, <1>4 DEF Delivery

\* ... the end of a blank message, or of one that goes to sofia.
LEMMA MessageDelivers ==
    ASSUME NEW s \in Seq(ServerFrame), NEW h \in Seq(Seq(Nat)), NEW p \in Seq(Nat), NEW c \in Nat,
           Delivery(h, s, p, c), Relayed(h, s),
           c + 1 \in DataAt(s), p = <<>> <=> s[c + 1].op # "cont", s[c + 1].fin
    PROVE  LET a == Append(p, s[c + 1].id)
           IN  IF ToSet(a) = {0} THEN Delivery(h, s, <<>>, c + 1)
               ELSE Delivery(Append(h, a), s, <<>>, c + 1) /\ Relayed(Append(h, a), s)
<1> DEFINE a == Append(p, s[c + 1].id)
           k == c + 1
<1>0. /\ Len(s) \in Nat /\ DataAt(s) \subseteq 1 .. Len(s)
      /\ \A T : IsFiniteSet(DataAt(s) \cap T) /\ Cardinality(DataAt(s) \cap T) \in Nat
      /\ Cardinality(SpokenAt(s) \cap 1 .. c) \in Nat
      /\ s[k].id \in Nat
  BY FramesElements
<1>1. PICK i \in DataAt(s) : Runs(s, i, k) /\ Collects(s, a, i, k)
  BY FrameJoins
<1>2. a \in Seq(Nat) /\ Len(a) = Len(p) + 1 /\ Len(p) \in Nat
  BY <1>0, AppendProperties, LenProperties
<1> HIDE DEF a
<1>3. ToSet(a) = {0} <=> Blank(s, i, k)
  <2>1. DOMAIN a = 1 .. Len(a) /\ 1 \in 1 .. Len(a)
    BY <1>2, LenProperties
  <2>2. ToSet(a) = {0} <=> \A x \in 1 .. Len(a) : a[x] = 0
    BY <2>1 DEF ToSet
  <2>3. Blank(s, i, k) => \A x \in 1 .. Len(a) : a[x] = 0
    BY <1>1 DEF Collects, Blank
  <2>4. ASSUME \A x \in 1 .. Len(a) : a[x] = 0
        PROVE  Blank(s, i, k)
    <3> SUFFICES ASSUME NEW m \in DataAt(s), i <= m, m <= k
                 PROVE  s[m].id = 0
      BY DEF Blank
    <3>1. m \in Nat /\ i \in Nat /\ m \in i .. k /\ m \in DataAt(s) \cap i .. k
      BY <1>0
    <3>2. a[Cardinality(DataAt(s) \cap i .. m)] = s[m].id
      BY <1>1, <3>1 DEF Collects, SaysAt
    <3>3. Cardinality(DataAt(s) \cap i .. m) \in 1 .. Len(a)
      <4>1. DataAt(s) \cap i .. m \subseteq DataAt(s) \cap i .. k /\ m \in DataAt(s) \cap i .. m
        <5>1. \A q \in i .. m : q \in i .. k
          BY <3>1
        <5>2. m \in i .. m
          BY <3>1
        <5> QED BY <3>1, <5>1, <5>2
      <4>2. Len(a) = Cardinality(DataAt(s) \cap i .. k)
        BY <1>1 DEF Collects, SaysAt
      <4>3. Cardinality(DataAt(s) \cap i .. m) <= Len(a)
        <5>1. IsFiniteSet(DataAt(s) \cap i .. k)
          BY <1>0
        <5> QED BY <4>1, <4>2, <5>1, FS_Subset
      <4>4. Cardinality(DataAt(s) \cap i .. m) # 0
        <5>1. IsFiniteSet(DataAt(s) \cap i .. m) /\ DataAt(s) \cap i .. m # {}
          BY <1>0, <4>1
        <5> QED BY <5>1, FS_EmptySet
      <4>5. Cardinality(DataAt(s) \cap i .. m) \in Nat
        BY <1>0
      <4>6. Len(a) \in Nat
        BY <1>2
      <4> QED BY <4>3, <4>4, <4>5, <4>6
    <3> QED BY <2>4, <3>2, <3>3
  <2> QED BY <2>2, <2>3, <2>4
<1>4. k \in SpokenAt(s) <=> ~Blank(s, i, k)
  <2>1. ~Blank(s, i, k) => MessageAt(s, i, k)
    BY <1>1 DEF MessageAt
  <2>2. ASSUME NEW j \in DataAt(s), MessageAt(s, j, k)
        PROVE  ~Blank(s, i, k)
    <3>1. j = i
      BY <1>1, <2>2, OneStart DEF MessageAt
    <3> QED BY <2>2, <3>1 DEF MessageAt
  <2> QED BY <2>1, <2>2 DEF SpokenAt
<1>5. ASSUME ToSet(a) = {0}
      PROVE  Delivery(h, s, <<>>, k)
  <2>1. Len(h) = Cardinality(SpokenAt(s) \cap 1 .. k)
    BY <1>3, <1>4, <1>5, SpokenCount DEF Delivery
  <2> QED BY <2>1 DEF Delivery
<1>6. ASSUME ToSet(a) # {0}
      PROVE  Delivery(Append(h, a), s, <<>>, k) /\ Relayed(Append(h, a), s)
  <2> DEFINE g == Append(h, a)
  <2>1. /\ Len(h) \in Nat /\ Len(g) = Len(h) + 1 /\ g[Len(h) + 1] = a
        /\ \A x \in 1 .. Len(h) : g[x] = h[x]
    BY <1>2, AppendProperties, LenProperties
  <2> HIDE DEF g
  <2>2. Len(g) = Cardinality(SpokenAt(s) \cap 1 .. k)
    BY <1>0, <1>3, <1>4, <1>6, <2>1, SpokenCount DEF Delivery
  <2>3. MessageAt(s, i, k) /\ SaysAt(s, a, i, k)
    BY <1>1, <1>3, <1>6 DEF MessageAt, Collects
  <2>4. ASSUME NEW x \in 1 .. Len(g)
        PROVE  \E q, j \in DataAt(s) :
                  MessageAt(s, q, j) /\ x = Cardinality(SpokenAt(s) \cap 1 .. j) /\ SaysAt(s, g[x], q, j)
    <3>1. CASE x = Len(h) + 1
      <4>1. x = Cardinality(SpokenAt(s) \cap 1 .. k) /\ g[x] = a
        BY <2>1, <2>2, <3>1
      <4> QED BY <2>3, <4>1
    <3>2. CASE x # Len(h) + 1
      <4>1. x \in 1 .. Len(h) /\ g[x] = h[x]
        BY <2>1, <3>2
      <4> QED BY <4>1 DEF Relayed
    <3> QED BY <3>1, <3>2
  <2>5. Relayed(g, s)
    BY <2>4 DEF Relayed
  <2> QED BY <2>2, <2>5 DEF Delivery, g
<1> QED BY <1>5, <1>6 DEF a

-----------------------------------------------------------------------------
(***************************************************************************)
(* Frames on their way.  c of the frames s are taken, the stream b holds   *)
(* the others, each in two halves, up to one that is far too long.         *)
(***************************************************************************)
NoHuge(s, c, m) == \A l \in 1 .. Len(s) : c < l /\ l < m => s[l].op # "huge"
FramesAhead(b, s, c) ==
    /\ \A m \in 1 .. Len(s) : c < m /\ NoHuge(s, c, m) =>
          \E p \in DOMAIN b : /\ p + 1 = 2 * (m - c)
                              /\ IF s[m].op = "huge" THEN b[p].part = HugePart
                                 ELSE p + 1 \in DOMAIN b /\ b[p].of = s[m]
    /\ NoHuge(s, c, Len(s) + 1) => Len(b) = 2 * (Len(s) - c)

\* decode_frame takes the next frame the server sent.
LEMMA NextFrame ==
    ASSUME NEW s \in Seq(ServerFrame), NEW b \in Bytes(ServerFrame), NEW c \in 0 .. Len(s),
           FramesAhead(b, s, c), Len(b) >= 2, b[1].part # HugePart
    PROVE  /\ c + 1 \in 1 .. Len(s) /\ b[1].of = s[c + 1]
           /\ FramesAhead(SubSeq(b, 3, Len(b)), s, c + 1)
<1> DEFINE n == Len(s)
           t == SubSeq(b, 3, Len(b))
<1>1. n \in Nat /\ Len(b) \in Nat /\ DOMAIN b = 1 .. Len(b)
  BY FramesElements, BytesElements
<1>2. c # n
  <2>1. ASSUME c = n PROVE FALSE
    <3>1. NoHuge(s, c, n + 1)
      BY <1>1, <2>1 DEF NoHuge
    <3>2. Len(b) = 2 * (n - c)
      BY <3>1 DEF FramesAhead
    <3> QED BY <1>1, <2>1, <3>2
  <2> QED BY <2>1
<1>3. c + 1 \in 1 .. n
  BY <1>1, <1>2
<1>4. NoHuge(s, c, c + 1)
  BY <1>1 DEF NoHuge
<1>5. PICK p \in DOMAIN b : /\ p + 1 = 2 * ((c + 1) - c)
                            /\ IF s[c + 1].op = "huge" THEN b[p].part = HugePart
                               ELSE p + 1 \in DOMAIN b /\ b[p].of = s[c + 1]
  <2>1. c < c + 1
    OBVIOUS
  <2> QED BY <1>3, <1>4, <2>1 DEF FramesAhead
<1>6. p = 1
  BY <1>1, <1>5
<1>7. s[c + 1].op # "huge" /\ b[1].of = s[c + 1]
  BY <1>5, <1>6
<1>8. t \in Bytes(ServerFrame) /\ Len(t) = Len(b) - 2 /\ \A i \in 1 .. Len(b) - 2 : t[i] = b[2 + i]
  <2>0. 3 \in 1 .. Len(b) + 1
    BY <1>1
  <2>1. /\ t \in Bytes(ServerFrame) /\ Len(t) = Len(b) + 1 - 3
        /\ \A i \in 1 .. Len(b) + 1 - 3 : t[i] = b[3 + i - 1]
    BY <2>0, BytesSuffix
  <2>2. \A i \in 1 .. Len(b) - 2 : i \in 1 .. Len(b) + 1 - 3 /\ 3 + i - 1 = 2 + i
    BY <1>1
  <2>3. Len(b) + 1 - 3 = Len(b) - 2
    BY <1>1
  <2> QED BY <2>1, <2>2, <2>3
<1> HIDE DEF t
<1>9. DOMAIN t = 1 .. Len(t)
  BY <1>8, BytesElements
<1>10. \A m \in 1 .. n + 1 : NoHuge(s, c + 1, m) => NoHuge(s, c, m)
  <2>1. \A l \in 1 .. n : c < l => l = c + 1 \/ c + 1 < l
    BY <1>1
  <2> QED BY <1>7, <2>1 DEF NoHuge
<1>11. ASSUME NEW m \in 1 .. n, c + 1 < m, NoHuge(s, c + 1, m)
       PROVE  \E q \in DOMAIN t : /\ q + 1 = 2 * (m - (c + 1))
                                  /\ IF s[m].op = "huge" THEN t[q].part = HugePart
                                     ELSE q + 1 \in DOMAIN t /\ t[q].of = s[m]
  <2>0. m \in 1 .. n + 1 /\ c < m
    BY <1>1, <1>11
  <2>1. PICK q \in DOMAIN b : /\ q + 1 = 2 * (m - c)
                              /\ IF s[m].op = "huge" THEN b[q].part = HugePart
                                 ELSE q + 1 \in DOMAIN b /\ b[q].of = s[m]
    BY <1>10, <1>11, <2>0 DEF FramesAhead
  <2> DEFINE r == q - 2
  <2>2. r + 1 = 2 * (m - (c + 1)) /\ r \in 1 .. Len(b) - 2 /\ 2 + r = q
    <3>1. q \in Nat /\ q <= Len(b) /\ q + 1 = 2 * (m - c) /\ m \in Nat /\ c \in Nat
      BY <1>1, <2>1
    <3>2. 2 * (m - c) >= 4
      BY <1>11, <3>1
    <3> QED BY <1>1, <3>1, <3>2, SMTT(30)
  <2>3. q + 1 \in DOMAIN b => r + 1 \in 1 .. Len(b) - 2
    BY <1>1, <2>2, SMTT(30)
  <2>4. t[r] = b[q] /\ r \in DOMAIN t /\ (q + 1 \in DOMAIN b => r + 1 \in DOMAIN t)
    BY <1>8, <1>9, <2>2, <2>3
  <2> HIDE DEF r
  <2> QED BY <2>1, <2>2, <2>4
<1>12. ASSUME NoHuge(s, c + 1, n + 1)
       PROVE  Len(t) = 2 * (n - (c + 1))
  <2>1. Len(b) = 2 * (n - c)
    <3>1. NoHuge(s, c, n + 1)
      BY <1>1, <1>10, <1>12
    <3> QED BY <3>1 DEF FramesAhead
  <2> QED BY <1>1, <1>8, <2>1
<1>13. FramesAhead(t, s, c + 1)
  BY <1>11, <1>12 DEF FramesAhead
<1> QED BY <1>3, <1>7, <1>13 DEF t, n

\* The server sends one frame more.
LEMMA FrameSent ==
    ASSUME NEW s \in Seq(ServerFrame), NEW b \in Bytes(ServerFrame), NEW c \in 0 .. Len(s),
           NEW f \in ServerFrame, FramesAhead(b, s, c),
           NEW x, x = IF f.op = "huge" THEN <<[of |-> f, part |-> HugePart]>> ELSE Halves(f)
    PROVE  FramesAhead(b \o x, Append(s, f), c)
<1> DEFINE n == Len(s)
           t == Append(s, f)
           d == b \o x
<1>1. /\ n \in Nat /\ Len(b) \in Nat /\ DOMAIN b = 1 .. Len(b)
      /\ Len(t) = n + 1 /\ t[n + 1] = f /\ \A k \in 1 .. n : t[k] = s[k]
  BY FramesElements, BytesElements, AppendProperties
<1>2. x \in Bytes(ServerFrame) /\ Len(x) \in Nat
  <2>1. <<[of |-> f, part |-> HugePart]>> \in Bytes(ServerFrame) /\ Halves(f) \in Bytes(ServerFrame)
    <3>1. Halves(f) \in Bytes(ServerFrame)
      BY HalvesType
    <3> QED BY <3>1 DEF Bytes, HugePart
  <2>2. x \in Bytes(ServerFrame)
    BY <2>1
  <2> QED BY <2>2, BytesElements
<1>3. /\ Len(d) = Len(b) + Len(x) /\ d \in Bytes(ServerFrame)
      /\ \A p \in 1 .. Len(b) + Len(x) : d[p] = IF p <= Len(b) THEN b[p] ELSE x[p - Len(b)]
  BY <1>2, ConcatProperties, BytesJoin DEF Bytes
<1>4. /\ f.op = "huge" => Len(x) = 1 /\ x[1].part = HugePart
      /\ f.op # "huge" => Len(x) = 2 /\ x[1].of = f
  BY DEF Halves
<1> HIDE DEF t, d
<1>5. DOMAIN d = 1 .. Len(d)
  BY <1>3, BytesElements
<1>6. \A m \in 1 .. n + 1 : NoHuge(t, c, m) <=> NoHuge(s, c, m)
  <2>1. \A l \in 1 .. n + 1, m \in 1 .. n + 1 : l < m => l \in 1 .. n
    BY <1>1
  <2>2. \A l \in 1 .. n : l \in 1 .. n + 1
    BY <1>1
  <2> QED BY <1>1, <2>1, <2>2 DEF NoHuge
<1>7. \A p \in DOMAIN b : p \in DOMAIN d /\ d[p] = b[p]
  BY <1>1, <1>2, <1>3, <1>5
<1>8. ASSUME NEW m \in 1 .. n + 1, c < m, NoHuge(t, c, m)
      PROVE  \E p \in DOMAIN d : /\ p + 1 = 2 * (m - c)
                                 /\ IF t[m].op = "huge" THEN d[p].part = HugePart
                                    ELSE p + 1 \in DOMAIN d /\ d[p].of = t[m]
  <2>0. NoHuge(s, c, m)
    BY <1>6, <1>8
  <2>1. CASE m # n + 1
    <3>1. m \in 1 .. n
      BY <1>1, <2>1
    <3>2. PICK p \in DOMAIN b : /\ p + 1 = 2 * (m - c)
                                /\ IF s[m].op = "huge" THEN b[p].part = HugePart
                                   ELSE p + 1 \in DOMAIN b /\ b[p].of = s[m]
      BY <1>8, <2>0, <3>1 DEF FramesAhead
    <3>3. p \in DOMAIN d /\ d[p] = b[p] /\ (p + 1 \in DOMAIN b => p + 1 \in DOMAIN d) /\ t[m] = s[m]
      BY <1>1, <1>7, <3>1
    <3> QED BY <3>2, <3>3
  <2>2. CASE m = n + 1
    <3>1. Len(b) = 2 * (n - c)
      BY <2>0, <2>2 DEF FramesAhead
    <3> DEFINE p == Len(b) + 1
    <3>2. p + 1 = 2 * (m - c)
      BY <1>1, <2>2, <3>1
    <3>3. Len(x) >= 1 /\ (f.op # "huge" => Len(x) = 2)
      BY <1>4
    <3>4. p \in 1 .. Len(b) + Len(x) /\ ~(p <= Len(b)) /\ p - Len(b) = 1
      BY <1>1, <1>2, <3>3
    <3>5. p \in DOMAIN d /\ d[p] = x[1]
      BY <1>3, <1>5, <3>4
    <3>6. ASSUME f.op # "huge" PROVE p + 1 \in DOMAIN d
      <4>1. Len(d) = Len(b) + 2
        BY <1>3, <3>3, <3>6
      <4> QED BY <1>1, <1>5, <4>1
    <3>7. t[m] = f
      BY <1>1, <2>2
    <3> HIDE DEF p
    <3> QED BY <1>4, <3>2, <3>5, <3>6, <3>7
  <2> QED BY <2>1, <2>2
<1>9. ASSUME NoHuge(t, c, n + 2)
      PROVE  Len(d) = 2 * (n + 1 - c)
  <2>1. n + 1 \in 1 .. Len(t) /\ c < n + 1 /\ n + 1 < n + 2
    BY <1>1
  <2>2. f.op # "huge"
    BY <1>1, <1>9, <2>1 DEF NoHuge
  <2>3. NoHuge(s, c, n + 1)
    <3>1. \A l \in 1 .. n : l \in 1 .. Len(t) /\ l < n + 2
      BY <1>1
    <3> QED BY <1>1, <1>9, <3>1 DEF NoHuge
  <2>4. Len(b) = 2 * (n - c)
    BY <2>3 DEF FramesAhead
  <2>5. Len(d) = Len(b) + 2
    BY <1>3, <1>4, <2>2
  <2> QED BY <1>1, <2>4, <2>5
<1>10. FramesAhead(d, t, c)
  <2>1. Len(t) = n + 1 /\ n + 1 + 1 = n + 2
    BY <1>1
  <2> QED BY <1>8, <1>9, <2>1 DEF FramesAhead
<1> QED BY <1>10 DEF t, d

-----------------------------------------------------------------------------
(***************************************************************************)
(* What the server says, from the WebSocket to sofia's writer.             *)
(***************************************************************************)
Handed == writer["tcp"].sent
ServerRest == downBuf \o fromServer
NotYetDown ==
    /\ phase \in {"none", "connecting", "handshake"} => down = "none"
    /\ down = "none" => downBuf = <<>>
Relaying ==
    \E c \in 0 .. Len(srvSent) :
        FramesAhead(ServerRest, srvSent, c) /\ Delivery(Handed, srvSent, frag, c)

\* What was handed over is right, and until the pump returns there is a number of frames
\* that have been dealt with while the others are on their way.
ServerInv ==
    /\ Relayed(Handed, srvSent)
    /\ NotYetDown
    /\ down # "over" => Relaying

LEMMA HandedType ==
    ASSUME Types
    PROVE  /\ Handed \in Seq(Seq(Nat)) /\ frag \in Seq(Nat) /\ srvSent \in Seq(ServerFrame)
           /\ downBuf \in Bytes(ServerFrame) /\ fromServer \in Bytes(ServerFrame)
           /\ ServerRest \in Bytes(ServerFrame) /\ Len(srvSent) \in Nat
<1>1. writer["tcp"] \in WriterOf(Item("tcp"))
  BY DEF Types, WriterType, Writers
<1>2. Handed \in Seq(Seq(Nat))
  BY <1>1 DEF WriterOf, Item, Handed
<1>3. /\ downBuf \in Bytes(ServerFrame) /\ fromServer \in Bytes(ServerFrame)
      /\ srvSent \in Seq(ServerFrame) /\ frag \in Seq(Nat)
  BY DEF Types, PumpType, NetType
<1> QED BY <1>2, <1>3, BytesJoin, LenProperties DEF ServerRest

\* The invariant after a step, from what the step did.
LEMMA ServerAfter ==
    ASSUME Relayed(Handed', srvSent'), NotYetDown',
           down' # "over" => \E c \in 0 .. Len(srvSent') :
               FramesAhead(ServerRest', srvSent', c) /\ Delivery(Handed', srvSent', frag', c)
    PROVE  ServerInv'
<1>1. Relayed(Handed, srvSent)'
  BY DEF Relayed, MessageAt, Runs, Blank, SpokenAt, SaysAt, DataAt
<1>2. ASSUME down' # "over" PROVE Relaying'
  <2>1. PICK c \in 0 .. Len(srvSent') :
          FramesAhead(ServerRest', srvSent', c) /\ Delivery(Handed', srvSent', frag', c)
    BY <1>2
  <2>2. FramesAhead(ServerRest, srvSent, c)'
    BY <2>1 DEF FramesAhead, NoHuge
  <2>3. Delivery(Handed, srvSent, frag, c)'
    BY <2>1 DEF Delivery, OpenAt, Collects, MessageAt, Runs, Blank, SpokenAt, SaysAt, DataAt
  <2> QED BY <2>2, <2>3 DEF Relaying
<1> QED BY <1>1, <1>2 DEF ServerInv

\* A step that leaves the frames, the payloads and what was handed over alone.
LEMMA ServerRests ==
    ASSUME ServerInv, NotYetDown', down' # "over" => down # "over",
           ServerRest' = ServerRest, Handed' = Handed, UNCHANGED <<srvSent, frag>>
    PROVE  ServerInv'
<1>1. Relayed(Handed', srvSent')
  BY DEF ServerInv
<1>2. down' # "over" => \E c \in 0 .. Len(srvSent') :
          FramesAhead(ServerRest', srvSent', c) /\ Delivery(Handed', srvSent', frag', c)
  BY DEF ServerInv, Relaying
<1> QED BY <1>1, <1>2, ServerAfter

\* The pump returns.
LEMMA DownEnds ==
    ASSUME ServerInv, down' = "over", phase' = "over", Handed' = Handed, srvSent' = srvSent
    PROVE  ServerInv'
<1>1. Relayed(Handed', srvSent')
  BY DEF ServerInv
<1>2. NotYetDown'
  BY DEF NotYetDown
<1> QED BY <1>1, <1>2, ServerAfter

LEMMA HandedElsewhere ==
    ASSUME Types, NEW x, Push("ws", x)
    PROVE  Handed' = Handed
BY PushSendsOne DEF Handed, Writers

\* decode_frame has found the frame that comes next.
LEMMA FrameTaken ==
    ASSUME Types, ServerInv, Drains
    PROVE  \E c \in Nat : /\ c + 1 \in 1 .. Len(srvSent) /\ Frame = srvSent[c + 1]
                          /\ FramesAhead(ServerRest', srvSent, c + 1)
                          /\ Delivery(Handed, srvSent, frag, c)
<1>1. /\ downBuf \in Bytes(ServerFrame) /\ fromServer \in Bytes(ServerFrame)
      /\ ServerRest \in Bytes(ServerFrame) /\ srvSent \in Seq(ServerFrame)
      /\ Len(srvSent) \in Nat
  BY HandedType
<1>2. /\ down = "drain" /\ Len(downBuf) >= 2 /\ ~Oversized(downBuf)
      /\ downBuf' = SubSeq(downBuf, 3, Len(downBuf)) /\ fromServer' = fromServer
  BY DEF Drains, WholeFrame
<1>3. PICK c \in 0 .. Len(srvSent) :
        FramesAhead(ServerRest, srvSent, c) /\ Delivery(Handed, srvSent, frag, c)
  BY <1>2 DEF ServerInv, Relaying
<1>4. Len(downBuf) \in Nat /\ DOMAIN downBuf = 1 .. Len(downBuf) /\ Len(fromServer) \in Nat
  BY <1>1, BytesElements
<1>5. /\ Len(ServerRest) >= 2 /\ ServerRest[1] = downBuf[1]
  <2>1. /\ Len(ServerRest) = Len(downBuf) + Len(fromServer)
        /\ \A p \in 1 .. Len(downBuf) + Len(fromServer) :
              ServerRest[p] = IF p <= Len(downBuf) THEN downBuf[p] ELSE fromServer[p - Len(downBuf)]
    BY <1>1, ConcatProperties DEF ServerRest, Bytes
  <2> QED BY <1>2, <1>4, <2>1
<1>6. ServerRest[1].part # HugePart
  BY <1>2, <1>4, <1>5 DEF Oversized
<1>7. /\ c + 1 \in 1 .. Len(srvSent) /\ ServerRest[1].of = srvSent[c + 1]
      /\ FramesAhead(SubSeq(ServerRest, 3, Len(ServerRest)), srvSent, c + 1)
  BY <1>1, <1>3, <1>5, <1>6, NextFrame
<1>8. ServerRest' = SubSeq(ServerRest, 3, Len(ServerRest))
  <2>1. 3 \in 1 .. Len(downBuf) + 1
    BY <1>2, <1>4
  <2>2. SubSeq(downBuf, 3, Len(downBuf)) \o fromServer
          = SubSeq(downBuf \o fromServer, 3, Len(downBuf \o fromServer))
    BY <1>1, <2>1, SuffixJoins DEF Bytes
  <2> QED BY <1>2, <2>2 DEF ServerRest
<1>9. Frame = srvSent[c + 1]
  BY <1>5, <1>7 DEF Frame
<1> QED BY <1>3, <1>7, <1>8, <1>9

\* The pump has dealt with it and goes on.
LEMMA FrameDelivered ==
    ASSUME NEW c \in Nat, c + 1 \in 1 .. Len(srvSent), FramesAhead(ServerRest', srvSent, c + 1),
           Relayed(Handed', srvSent), Delivery(Handed', srvSent, frag', c + 1),
           ServerInv, down = "drain", down' = down, phase' = phase, srvSent' = srvSent, Types
    PROVE  ServerInv'
<1>1. NotYetDown'
  BY DEF ServerInv, NotYetDown
<1>2. c + 1 \in 0 .. Len(srvSent')
  BY HandedType
<1> QED BY <1>1, <1>2, ServerAfter

LEMMA DataIsData ==
    ASSUME NEW c \in Nat, c + 1 \in 1 .. Len(srvSent), Frame = srvSent[c + 1]
    PROVE  /\ Frame.op \in {"text", "binary", "cont"} <=> c + 1 \in DataAt(srvSent)
           /\ Data => /\ c + 1 \in DataAt(srvSent)
                      /\ frag = <<>> <=> srvSent[c + 1].op # "cont"
BY DEF DataAt, Data, Unexpected

LEMMA DrainServer ==
    ASSUME Types, ServerInv, Drain
    PROVE  ServerInv'
<1>0. /\ Handed \in Seq(Seq(Nat)) /\ frag \in Seq(Nat) /\ srvSent \in Seq(ServerFrame)
      /\ Relayed(Handed, srvSent)
  BY HandedType DEF ServerInv
<1>1. CASE DrainBad \/ DrainTooLong
  <2>1. down' = "over" /\ phase' = "over" /\ writer' = writer /\ srvSent' = srvSent
    BY <1>1 DEF DrainBad, DrainTooLong, DownReturns, CloseLocal, Drains
  <2>2. Handed' = Handed
    BY <2>1 DEF Handed
  <2> QED BY <2>1, <2>2, DownEnds
<1>2. CASE DrainClose
  <2>1. down' = "over" /\ phase' = "over" /\ srvSent' = srvSent
    BY <1>2 DEF DrainClose, DownReturns, CloseLocal, Drains
  <2>2. Handed' = Handed
    BY <1>2, HandedElsewhere DEF DrainClose
  <2> QED BY <2>1, <2>2, DownEnds
<1>3. CASE DrainPing
  <2>1. PICK c \in Nat : /\ c + 1 \in 1 .. Len(srvSent) /\ Frame = srvSent[c + 1]
                         /\ FramesAhead(ServerRest', srvSent, c + 1)
                         /\ Delivery(Handed, srvSent, frag, c)
    BY <1>3, FrameTaken DEF DrainPing
  <2>2. /\ frag' = frag /\ down = "drain" /\ down' = down /\ phase' = phase /\ srvSent' = srvSent
        /\ Frame.op \in {"ping", "pong"}
    BY <1>3 DEF DrainPing, Drains
  <2>3. Handed' = Handed
    <3>1. CASE writer' = writer
      BY <3>1 DEF Handed
    <3>2. CASE Push("ws", [op |-> "pong", of |-> Frame.id])
      BY <3>2, HandedElsewhere
    <3> QED BY <1>3, <3>1, <3>2 DEF DrainPing
  <2>4. c + 1 \notin DataAt(srvSent)
    BY <2>1, <2>2, DataIsData
  <2>5. Delivery(Handed, srvSent, frag, c + 1)
    BY <1>0, <2>1, <2>4, ControlDelivers
  <2> QED BY <1>0, <2>1, <2>2, <2>3, <2>5, FrameDelivered
<1>4. CASE DrainFragment
  <2>1. PICK c \in Nat : /\ c + 1 \in 1 .. Len(srvSent) /\ Frame = srvSent[c + 1]
                         /\ FramesAhead(ServerRest', srvSent, c + 1)
                         /\ Delivery(Handed, srvSent, frag, c)
    BY <1>4, FrameTaken DEF DrainFragment
  <2>2. /\ frag' = Append(frag, srvSent[c + 1].id) /\ writer' = writer
        /\ down = "drain" /\ down' = down /\ phase' = phase /\ srvSent' = srvSent
        /\ Data /\ ~srvSent[c + 1].fin
    BY <1>4, <2>1 DEF DrainFragment, Drains, Payloads
  <2>3. c + 1 \in DataAt(srvSent) /\ (frag = <<>> <=> srvSent[c + 1].op # "cont")
    BY <2>1, <2>2, DataIsData
  <2>4. Delivery(Handed, srvSent, Append(frag, srvSent[c + 1].id), c + 1)
    BY <1>0, <2>1, <2>2, <2>3, FragmentDelivers
  <2>5. Handed' = Handed
    BY <2>2 DEF Handed
  <2> QED BY <1>0, <2>1, <2>2, <2>4, <2>5, FrameDelivered
<1>5. CASE DrainMessage
  <2>1. PICK c \in Nat : /\ c + 1 \in 1 .. Len(srvSent) /\ Frame = srvSent[c + 1]
                         /\ FramesAhead(ServerRest', srvSent, c + 1)
                         /\ Delivery(Handed, srvSent, frag, c)
    BY <1>5, FrameTaken DEF DrainMessage
  <2> DEFINE a == Append(frag, srvSent[c + 1].id)
  <2>2. /\ frag' = <<>> /\ Payloads = a
        /\ IF ToSet(a) = {0} THEN writer' = writer ELSE Push("tcp", a)
        /\ down = "drain" /\ down' = down /\ phase' = phase /\ srvSent' = srvSent
        /\ Data /\ srvSent[c + 1].fin
    BY <1>5, <2>1 DEF DrainMessage, Drains, Payloads
  <2>3. c + 1 \in DataAt(srvSent) /\ (frag = <<>> <=> srvSent[c + 1].op # "cont")
    BY <2>1, <2>2, DataIsData
  <2>4. IF ToSet(a) = {0} THEN Delivery(Handed, srvSent, <<>>, c + 1)
        ELSE Delivery(Append(Handed, a), srvSent, <<>>, c + 1) /\ Relayed(Append(Handed, a), srvSent)
    BY <1>0, <2>1, <2>2, <2>3, MessageDelivers
  <2> HIDE DEF a
  <2>5. CASE ToSet(a) = {0}
    <3>1. Handed' = Handed
      BY <2>2, <2>5 DEF Handed
    <3> QED BY <1>0, <2>1, <2>2, <2>4, <2>5, <3>1, FrameDelivered
  <2>6. CASE ToSet(a) # {0}
    <3>1. Handed' = Append(Handed, a)
      BY <2>2, <2>6, PushSendsOne DEF Handed, Writers
    <3> QED BY <2>1, <2>2, <2>4, <2>6, <3>1, FrameDelivered
  <2> QED BY <2>5, <2>6
<1>6. CASE DrainDone
  <2>1. /\ writer' = writer /\ down = "drain" /\ UNCHANGED <<srvSent, frag, downBuf, fromServer>>
        /\ (down' = "over" /\ phase' = "over") \/ (down' = "reading" /\ phase' = phase)
    BY <1>6 DEF DrainDone, CloseLocal
  <2>2. Handed' = Handed /\ ServerRest' = ServerRest
    BY <2>1 DEF Handed, ServerRest
  <2>3. NotYetDown'
    BY <2>1 DEF ServerInv, NotYetDown
  <2> QED BY <2>1, <2>2, <2>3, ServerRests
<1> QED BY <1>1, <1>2, <1>3, <1>4, <1>5, <1>6 DEF Drain

LEMMA DownPumpServer ==
    ASSUME Types, ServerInv, DownPump
    PROVE  ServerInv'
<1>1. CASE DownReads
  <2>1. PICK c \in Chunks(fromServer) :
          /\ downBuf' = downBuf \o c
          /\ fromServer' = After(fromServer, c)
          /\ IF Oversized(downBuf') THEN DownReturns
             ELSE down' = "drain" /\ UNCHANGED <<done, phase, local>>
    BY <1>1 DEF DownReads
  <2>2. writer' = writer /\ down = "reading" /\ UNCHANGED <<srvSent, frag>>
    BY <1>1 DEF DownReads
  <2>3. Handed' = Handed
    BY <2>2 DEF Handed
  <2>4. CASE DownReturns
    BY <2>2, <2>3, <2>4, DownEnds DEF DownReturns, CloseLocal
  <2>5. CASE down' = "drain" /\ phase' = phase
    <3>1. ServerRest' = ServerRest
      BY <2>1, HandedType, ReadMoves DEF ServerRest, Bytes
    <3>2. NotYetDown'
      BY <2>2, <2>5 DEF ServerInv, NotYetDown
    <3> QED BY <2>2, <2>3, <3>1, <3>2, ServerRests
  <2> QED BY <2>1, <2>4, <2>5
<1>2. CASE DownReadEnds
  <2>1. down' = "over" /\ phase' = "over" /\ writer' = writer /\ srvSent' = srvSent
    BY <1>2 DEF DownReadEnds, DownReturns, CloseLocal
  <2>2. Handed' = Handed
    BY <2>1 DEF Handed
  <2> QED BY <2>1, <2>2, DownEnds
<1> QED BY <1>1, <1>2, DrainServer DEF DownPump

\* The bytes that came with the handshake are the first of the stream.
LEMMA RunSessionServer ==
    ASSUME Types, ServerInv, RunSession
    PROVE  ServerInv'
<1>1. Handed' = Handed /\ UNCHANGED <<srvSent, frag>>
  BY DEF RunSession, Accept, ConnectFails, TcpConnected, Upgraded, pumpVars, Handed
<1>2. CASE Accept \/ ConnectFails \/ TcpConnected
  <2>1. UNCHANGED <<down, downBuf, fromServer>>
    BY <1>2 DEF Accept, ConnectFails, TcpConnected, pumpVars
  <2>2. NotYetDown'
    BY <1>2, <2>1 DEF Accept, ConnectFails, TcpConnected, CloseLocal, ServerInv, NotYetDown
  <2>3. ServerRest' = ServerRest
    BY <2>1 DEF ServerRest
  <2> QED BY <1>1, <2>1, <2>2, <2>3, ServerRests
<1>3. CASE Upgraded
  <2>1. PICK first \in Chunks(fromServer) \cup {<<>>} :
          downBuf' = first /\ fromServer' = After(fromServer, first)
    BY <1>3 DEF Upgraded
  <2>2. down = "none" /\ downBuf = <<>> /\ down' = "drain" /\ phase' = "open"
    BY <1>3 DEF Upgraded, ServerInv, NotYetDown
  <2>3. fromServer \in Bytes(ServerFrame)
    BY HandedType
  <2>4. ServerRest = fromServer
    BY <2>2, <2>3, ConcatEmptySeq DEF ServerRest, Bytes
  <2>5. ServerRest' = fromServer
    <3>1. CASE first \in Chunks(fromServer)
      BY <2>1, <2>3, <3>1, ChunkJoins DEF ServerRest, Bytes
    <3>2. CASE first = <<>>
      <4>1. After(fromServer, <<>>) = SubSeq(fromServer, 1, Len(fromServer))
        BY DEF After
      <4>2. SubSeq(fromServer, 1, Len(fromServer)) = fromServer
        BY <2>3, SubSeqFull DEF Bytes
      <4> QED BY <2>1, <2>3, <3>2, <4>1, <4>2, ConcatEmptySeq DEF ServerRest, Bytes
    <3> QED BY <3>1, <3>2
  <2>6. NotYetDown'
    BY <2>2 DEF NotYetDown
  <2> QED BY <1>1, <2>2, <2>4, <2>5, <2>6, ServerRests
<1> QED BY <1>2, <1>3 DEF RunSession

LEMMA RestJoins ==
    ASSUME Types, NEW x \in Bytes(ServerFrame)
    PROVE  (downBuf \o fromServer) \o x = downBuf \o (fromServer \o x)
<1>1. downBuf \in Bytes(ServerFrame) /\ fromServer \in Bytes(ServerFrame)
  BY HandedType
<1>2. \A u, v, y \in Bytes(ServerFrame) : (u \o v) \o y = u \o (v \o y)
  BY BytesAssociate
<1> QED BY <1>1, <1>2

\* The server sends a frame, or answers CLOSE with one.
LEMMA FrameSentServer ==
    ASSUME Types, ServerInv, NEW f \in ServerFrame,
           NEW x, x = IF f.op = "huge" THEN <<[of |-> f, part |-> HugePart]>> ELSE Halves(f),
           srvSent' = Append(srvSent, f), fromServer' = fromServer \o x,
           UNCHANGED <<pumpVars, phase, writer>>
    PROVE  ServerInv'
<1>0. /\ srvSent \in Seq(ServerFrame) /\ ServerRest \in Bytes(ServerFrame)
      /\ downBuf \in Bytes(ServerFrame) /\ fromServer \in Bytes(ServerFrame)
      /\ Len(srvSent) \in Nat
  BY HandedType
<1>1. Handed' = Handed /\ UNCHANGED <<down, downBuf, frag, phase>>
  BY DEF Handed, pumpVars
<1>2. NotYetDown'
  BY <1>1 DEF ServerInv, NotYetDown
<1>3. Relayed(Handed', srvSent')
  BY <1>0, <1>1, RelayedStays DEF ServerInv
<1>4. ServerRest' = ServerRest \o x
  <2>1. x \in Bytes(ServerFrame)
    <3>1. Halves(f) \in Bytes(ServerFrame)
      BY HalvesType
    <3>2. <<[of |-> f, part |-> HugePart]>> \in Bytes(ServerFrame)
      BY DEF Bytes, HugePart
    <3> QED BY <3>1, <3>2
  <2>2. (downBuf \o fromServer) \o x = downBuf \o (fromServer \o x)
    BY <2>1, RestJoins
  <2> QED BY <1>1, <2>2 DEF ServerRest
<1>5. ASSUME down' # "over"
      PROVE  \E c \in 0 .. Len(srvSent') :
                FramesAhead(ServerRest', srvSent', c) /\ Delivery(Handed', srvSent', frag', c)
  <2>1. PICK c \in 0 .. Len(srvSent) :
          FramesAhead(ServerRest, srvSent, c) /\ Delivery(Handed, srvSent, frag, c)
    BY <1>1, <1>5 DEF ServerInv, Relaying
  <2>2. FramesAhead(ServerRest \o x, Append(srvSent, f), c)
    BY <1>0, <2>1, FrameSent
  <2>3. Delivery(Handed, Append(srvSent, f), frag, c)
    BY <1>0, <2>1, DeliveryStays
  <2>4. c \in 0 .. Len(srvSent')
    <3>1. Len(Append(srvSent, f)) = Len(srvSent) + 1
      BY <1>0, AppendProperties
    <3> QED BY <1>0, <3>1
  <2> QED BY <1>1, <1>4, <2>2, <2>3, <2>4
<1> QED BY <1>2, <1>3, <1>5, ServerAfter

LEMMA ServerKeeps ==
    ASSUME Types, ServerInv, [Next]_vars
    PROVE  ServerInv'
<1>1. CASE DownPump
  BY <1>1, DownPumpServer
<1>2. CASE RunSession
  BY <1>2, RunSessionServer
<1>3. ASSUME NEW s \in ServerFrames, ServerSends(s)
      PROVE  ServerInv'
  <2> DEFINE f == [op |-> s.op, fin |-> s.fin, id |-> IF s.blank THEN 0 ELSE Len(srvSent) + 1]
             x == IF f.op = "huge" THEN <<[of |-> f, part |-> HugePart]>> ELSE Halves(f)
  <2>1. f \in ServerFrame /\ f.op = s.op
    <3>1. Len(srvSent) \in Nat
      BY HandedType
    <3> QED BY <3>1, BridgeAssumption DEF ServerFrame
  <2>2. /\ srvSent' = Append(srvSent, f)
        /\ fromServer' = fromServer \o (IF s.op = "huge" THEN <<[of |-> f, part |-> HugePart]>> ELSE Halves(f))
        /\ UNCHANGED <<pumpVars, phase, writer>>
    BY <1>3 DEF ServerSends, Outside
  <2>3. fromServer' = fromServer \o x
    BY <2>1, <2>2
  <2> HIDE DEF f
  <2> QED BY <2>1, <2>2, <2>3, FrameSentServer
<1>4. CASE ServerAnswersClose /\ ~SrvClosed
  <2> DEFINE f == [op |-> "close", fin |-> TRUE, id |-> 0]
             x == Halves(f)
  <2>1. f \in ServerFrame /\ f.op # "huge"
    BY DEF ServerFrame
  <2>2. /\ srvSent' = Append(srvSent, f) /\ fromServer' = fromServer \o x
        /\ UNCHANGED <<pumpVars, phase, writer>>
    BY <1>4 DEF ServerAnswersClose, Outside
  <2> HIDE DEF f
  <2>3. x = IF f.op = "huge" THEN <<[of |-> f, part |-> HugePart]>> ELSE Halves(f)
    BY <2>1
  <2> QED BY <2>1, <2>2, <2>3, FrameSentServer
<1>5. ASSUME UNCHANGED <<down, downBuf, frag, fromServer, srvSent, phase>>, Handed' = Handed
      PROVE  ServerInv'
  <2>1. ServerRest' = ServerRest
    BY <1>5 DEF ServerRest
  <2>2. NotYetDown'
    BY <1>5 DEF ServerInv, NotYetDown
  <2> QED BY <1>5, <2>1, <2>2, ServerRests
<1>6. ASSUME NEW w \in Writers, WriterTask(w)
      PROVE  ServerInv'
  <2>1. UNCHANGED <<down, downBuf, frag, fromServer, srvSent, phase>>
    BY <1>6 DEF WriterTask, WriterStarts, WriterWrites, WriterFails, pumpVars, netVars, ctlVars
  <2>2. Handed' = Handed
    BY <1>6, TaskSends DEF Handed, Writers
  <2> QED BY <1>5, <2>1, <2>2
<1>7. CASE UpPump
  <2>1. UNCHANGED <<down, downBuf, frag, fromServer, srvSent, phase>>
    BY <1>7 DEF UpPump, UpStart, UpReads, UpReadEnds, UpTakes, UpSplitDone, netVars, ctlVars
  <2>2. writer' = writer \/ \E x : Push("ws", x)
    BY <1>7 DEF UpPump, UpStart, UpReads, UpReadEnds, UpTakes, UpSplitDone, UpNext, UpEnds
  <2>3. Handed' = Handed
    BY <2>2, HandedElsewhere DEF Handed
  <2> QED BY <1>5, <2>1, <2>3
<1>8. CASE \/ SofiaConnects \/ SofiaSends \/ SofiaShuts \/ ServerGone \/ Drop
           \/ (ServerAnswersClose /\ SrvClosed) \/ UNCHANGED vars
  <2>1. UNCHANGED <<down, downBuf, frag, fromServer, srvSent, phase, writer>>
    BY <1>8 DEF SofiaConnects, SofiaSends, SofiaShuts, ServerGone, Drop, ServerAnswersClose, Outside,
                vars, pumpVars, netVars, ctlVars
  <2>2. Handed' = Handed
    BY <2>1 DEF Handed
  <2> QED BY <1>5, <2>1, <2>2
<1> QED BY <1>1, <1>2, <1>3, <1>4, <1>6, <1>7, <1>8 DEF Next

\* The words of WsBridge for a message and what it says.
LEMMA SameWords ==
    ASSUME Types
    PROVE  /\ DataFrames = DataAt(srvSent)
           /\ \A i, j \in DataFrames : MessageAt(srvSent, i, j) => Message(i, j)
           /\ \A i, j \in DataFrames : Message(i, j) => MessageAt(srvSent, i, j)
           /\ Spoken = SpokenAt(srvSent)
           /\ \A p, i, j : SaysAt(srvSent, p, i, j) => Says(p, i, j)
<1>1. DataFrames = DataAt(srvSent) /\ \A m \in DataAt(srvSent) : m \in Nat
  <2>1. srvSent \in Seq(ServerFrame)
    BY HandedType
  <2> QED BY <2>1, LenProperties DEF DataFrames, DataAt
<1>2. ASSUME NEW i \in DataFrames, NEW j \in DataFrames
      PROVE  MessageAt(srvSent, i, j) <=> Message(i, j)
  <2>1. \A m \in DataAt(srvSent) : /\ m \in (i + 1) .. j <=> i < m /\ m <= j
                                   /\ m \in i .. (j - 1) <=> i <= m /\ m < j
                                   /\ m \in i .. j <=> i <= m /\ m <= j
    BY <1>1
  <2>2. (\A k \in DataFrames \cap (i + 1) .. j : srvSent[k].op = "cont")
          <=> \A m \in DataAt(srvSent) : i < m /\ m <= j => srvSent[m].op = "cont"
    BY <1>1, <2>1
  <2>3. (\A k \in DataFrames \cap i .. (j - 1) : ~srvSent[k].fin)
          <=> \A m \in DataAt(srvSent) : i <= m /\ m < j => ~srvSent[m].fin
    BY <1>1, <2>1
  <2>4. (\E k \in DataFrames \cap i .. j : srvSent[k].id # 0) <=> ~Blank(srvSent, i, j)
    BY <1>1, <2>1 DEF Blank
  <2> QED BY <2>2, <2>3, <2>4 DEF Message, MessageAt, Runs
<1>3. Spoken = SpokenAt(srvSent)
  BY <1>1, <1>2 DEF Spoken, SpokenAt
<1>4. \A p, i, j : SaysAt(srvSent, p, i, j) => Says(p, i, j)
  BY <1>1 DEF SaysAt, Says
<1> QED BY <1>1, <1>2, <1>3, <1>4

\* Sofia is handed what the server said, in order and unchanged, for any number of
\* frames and however they are cut up: the bytes that came with the handshake included.
THEOREM ServerIsHeard == Spec => []Reassembled
<1>1. Init => Types /\ ServerInv
  <2> SUFFICES ASSUME Init PROVE Types /\ ServerInv
    OBVIOUS
  <2>1. Types
    BY InitTypes
  <2>2. /\ Handed = <<>> /\ downBuf = <<>> /\ fromServer = <<>> /\ srvSent = <<>> /\ frag = <<>>
        /\ down = "none"
    BY DEF Init, NewWriter, Writers, Handed
  <2>3. ServerRest = <<>> /\ Len(srvSent) = 0 /\ Len(ServerRest) = 0 /\ Len(Handed) = 0
    BY <2>2 DEF ServerRest
  <2>4. FramesAhead(ServerRest, srvSent, 0)
    BY <2>3 DEF FramesAhead
  <2>5. Delivery(Handed, srvSent, frag, 0)
    <3>1. SpokenAt(srvSent) \cap 1 .. 0 = {}
      OBVIOUS
    <3>2. Cardinality(SpokenAt(srvSent) \cap 1 .. 0) = 0
      BY <3>1, FS_EmptySet
    <3> QED BY <2>2, <2>3, <3>2 DEF Delivery
  <2>6. Relayed(Handed, srvSent)
    BY <2>3 DEF Relayed
  <2> QED BY <2>1, <2>2, <2>3, <2>4, <2>5, <2>6 DEF ServerInv, NotYetDown, Relaying
<1>2. (Types /\ ServerInv) /\ [Next]_vars => (Types /\ ServerInv)'
  BY NextKeeps, ServerKeeps
<1>3. Types /\ ServerInv => Reassembled
  <2> SUFFICES ASSUME Types, ServerInv PROVE Reassembled
    OBVIOUS
  <2>1. /\ Handed \in Seq(Seq(Nat)) /\ srvSent \in Seq(ServerFrame) /\ Len(srvSent) \in Nat
        /\ ServerRest \in Bytes(ServerFrame)
    BY HandedType
  <2>2. DOMAIN Handed = 1 .. Len(Handed)
    BY <2>1, LenProperties
  <2>3. ASSUME NEW n \in DOMAIN Handed
        PROVE  \E i, j \in DataFrames :
                  Message(i, j) /\ n = Cardinality(Spoken \cap 1 .. j) /\ Says(Handed[n], i, j)
    <3>1. PICK i \in DataAt(srvSent), j \in DataAt(srvSent) :
            /\ MessageAt(srvSent, i, j) /\ n = Cardinality(SpokenAt(srvSent) \cap 1 .. j)
            /\ SaysAt(srvSent, Handed[n], i, j)
      BY <2>2, <2>3 DEF ServerInv, Relayed
    <3> QED BY <3>1, SameWords
  <2>4. ASSUME down = "reading", downBuf = <<>>, fromServer = <<>>
        PROVE  Len(Handed) = Cardinality(Spoken)
    <3>1. PICK c \in 0 .. Len(srvSent) :
            FramesAhead(ServerRest, srvSent, c) /\ Delivery(Handed, srvSent, frag, c)
      BY <2>4 DEF ServerInv, Relaying
    <3>2. ServerRest = <<>>
      BY <2>4 DEF ServerRest
    <3>3. ASSUME c # Len(srvSent) PROVE FALSE
      <4>1. c + 1 \in 1 .. Len(srvSent) /\ c < c + 1 /\ NoHuge(srvSent, c, c + 1)
        BY <2>1, <3>3 DEF NoHuge
      <4>2. \E p \in DOMAIN ServerRest : p + 1 = 2 * ((c + 1) - c)
        BY <3>1, <4>1 DEF FramesAhead
      <4> QED BY <3>2, <4>2
    <3>4. SpokenAt(srvSent) \cap 1 .. Len(srvSent) = SpokenAt(srvSent)
      BY <2>1, FramesElements
    <3>5. Len(Handed) = Cardinality(SpokenAt(srvSent))
      BY <3>1, <3>3, <3>4 DEF Delivery
    <3> QED BY <3>5, SameWords
  <2> QED BY <2>3, <2>4 DEF Reassembled, Handed
<1> QED BY <1>1, <1>2, <1>3, PTL DEF Spec

-----------------------------------------------------------------------------
\* encode_frame and decode_frame.  A client frame of any length the reader admits is found
\* as soon as its last byte is there, not before it, and takes its own bytes only.
THEOREM AnyFrameReturns ==
    ASSUME NEW most \in Nat, NEW n \in 0 .. most, NEW have \in Nat, have >= 2
    PROVE  LET h == encode_frame(n)
               r == decode_frame(h, TRUE, have, most)
           IN  IF have < FrameBytes(h, n) THEN r.is = "short"
               ELSE r.is = "frame" /\ r.len = n /\ r.consumed = FrameBytes(h, n)
<1> DEFINE h == encode_frame(n)
           ext == CASE h.len7 = 126 -> 2 [] h.len7 = 127 -> 8 [] OTHER -> 0
           len == IF ext = 0 THEN h.len7 ELSE h.val
           r == decode_frame(h, TRUE, have, most)
<1>1. n \in Nat /\ n <= most
  OBVIOUS
<1>2. ext \in Nat /\ ext = h.ext /\ len = n
  <2>1. CASE n < 126
    BY <1>1, <2>1 DEF encode_frame
  <2>2. CASE 126 <= n /\ n <= 65535
    <3>1. n % 65536 = n
      BY <1>1, <2>2
    <3> QED BY <1>1, <2>2, <3>1 DEF encode_frame
  <2>3. CASE 65535 < n
    BY <1>1, <2>3 DEF encode_frame
  <2> QED BY <1>1, <2>1, <2>2, <2>3
<1>3. r = CASE have < 2 + ext -> [is |-> "short", len |-> 0, consumed |-> 0]
            [] have >= 2 + ext /\ len > most -> [is |-> "refused", len |-> len, consumed |-> 0]
            [] have >= 2 + ext /\ len <= most /\ have < 2 + ext + 4 + len
                 -> [is |-> "short", len |-> 0, consumed |-> 0]
            [] OTHER -> [is |-> "frame", len |-> len, consumed |-> 2 + ext + 4 + len]
  BY DEF decode_frame
<1>4. FrameBytes(h, n) = 2 + ext + 4 + n
  BY <1>2 DEF FrameBytes
<1> HIDE DEF h, ext, len, r
<1>5. CASE have < 2 + ext + 4 + n
  <2>1. r.is = "short"
    BY <1>1, <1>2, <1>3, <1>5
  <2> QED BY <1>4, <1>5, <2>1 DEF h, r
<1>6. CASE ~(have < 2 + ext + 4 + n)
  <2>1. r = [is |-> "frame", len |-> n, consumed |-> 2 + ext + 4 + n]
    BY <1>1, <1>2, <1>3, <1>6
  <2>2. r.is = "frame" /\ r.len = n /\ r.consumed = FrameBytes(h, n)
    BY <1>4, <2>1
  <2> QED BY <1>4, <1>6, <2>2 DEF h, r
<1> QED BY <1>5, <1>6

-----------------------------------------------------------------------------
(***************************************************************************)
(* Messages: what sofia says passes the bridge and comes back the same.    *)
(***************************************************************************)
\* The line that comes back from the one that has gone out.
LineBack(l) ==
    [map_tokens_in(map_tokens_out(l)) EXCEPT !.host = IF @ = "token" THEN "own" ELSE @]

LEMMA LineReturns ==
    ASSUME NEW l \in SofiaLines, ~BridgeRoute(l) PROVE LineBack(l) = l
<1> DEFINE o == map_tokens_out(l)
           i == map_tokens_in(o)
           b == [i EXCEPT !.host = IF @ = "token" THEN "own" ELSE @]
<1>1. /\ l \in Line /\ l.via \in {"none", "TCP"} /\ l.param \in {"none", "tcp"}
      /\ l.host \in {"own", "bare", "remote"}
  BY DEF SofiaLines, BridgeRoute, Line, Hosts
<1>2. /\ o \in Line /\ o.name = l.name /\ o.via = (IF l.via = "TCP" THEN "WS" ELSE l.via)
      /\ o.host = replace_loopback(l.host) /\ o.param = IF l.param = "tcp" THEN "ws" ELSE l.param
  BY <1>1 DEF map_tokens_out, Line, Hosts, replace_loopback
<1> HIDE DEF o
<1>3. /\ i \in Line /\ i.name = o.name /\ i.via = (IF o.via \in {"WS", "WSS"} THEN "TCP" ELSE o.via)
      /\ i.host = o.host /\ i.param = IF o.param \in {"ws", "wss"} THEN "tcp" ELSE o.param
  BY <1>2 DEF map_tokens_in, Line
<1> HIDE DEF i
<1>4. /\ b \in Line /\ b.name = i.name /\ b.via = i.via /\ b.param = i.param
      /\ b.host = IF i.host = "token" THEN "own" ELSE i.host
  BY <1>3 DEF Line, Hosts
<1> HIDE DEF b
<1>5. b.via = l.via /\ b.param = l.param /\ b.name = l.name
  BY <1>1, <1>2, <1>3, <1>4
<1>6. b.host = l.host
  BY <1>1, <1>2, <1>3, <1>4 DEF replace_loopback
<1>7. b = l
  BY <1>1, <1>4, <1>5, <1>6 DEF Line
<1> QED BY <1>7 DEF LineBack, b, i, o

\* The topmost Via teaches the bridge sofia's address.
LEMMA LearnsOwn ==
    ASSUME NEW msg \in Seq(SofiaLines), msg # <<>>, msg[1] = TopVia
    PROVE  Learn("none", msg) = "own"
<1> DEFINE I == {i \in DOMAIN msg : via_sent_by(msg[i]) # "none"}
           vias == Picked(msg, I)
<1>1. Learn("none", msg) = IF vias # <<>> THEN via_sent_by(vias[1]) ELSE "none"
  BY DEF Learn, Where
<1>2. Len(msg) \in Nat /\ DOMAIN msg = 1 .. Len(msg) /\ 1 \in DOMAIN msg
  BY LenProperties, EmptySeq
<1>3. via_sent_by(msg[1]) = "own"
  BY DEF TopVia, via_sent_by
<1>4. 1 \in I /\ I \in SUBSET DOMAIN msg
  BY <1>2, <1>3
<1> HIDE DEF I
<1>5. /\ Cardinality(I) \in Nat /\ DOMAIN vias = 1 .. Cardinality(I)
      /\ \A k \in DOMAIN vias : Nth(I, k) \in I /\ vias[k] = msg[Nth(I, k)]
      /\ \A k, l \in DOMAIN vias : k < l => Nth(I, k) < Nth(I, l)
      /\ \A i \in I : \E k \in DOMAIN vias : Nth(I, k) = i
  BY <1>4, PickedElements
<1> HIDE DEF vias
<1>6. PICK k \in DOMAIN vias : Nth(I, k) = 1
  BY <1>4, <1>5
<1>7. 1 \in DOMAIN vias /\ k \in Nat /\ 1 <= k
  BY <1>5
<1>8. Nth(I, 1) \in Nat /\ 1 <= Nth(I, 1)
  BY <1>2, <1>4, <1>5, <1>7
<1>9. k = 1
  <2>1. ~(1 < k)
    BY <1>5, <1>6, <1>7, <1>8
  <2> QED BY <1>7, <2>1
<1>10. vias[1] = msg[1]
  BY <1>5, <1>6, <1>9
<1>11. vias # <<>>
  BY <1>7
<1> QED BY <1>1, <1>3, <1>10, <1>11

\* rewrite_outbound and rewrite_inbound, as a pair.  Of a message of any length that begins
\* with sofia's Via, everything comes back but the Routes that named the bridge.
THEOREM AnyMessageReturns ==
    ASSUME NEW msg \in Seq(SofiaLines), msg # <<>>, msg[1] = TopVia
    PROVE  rewrite_inbound(rewrite_outbound(msg), Learn("none", msg))
               = Where(msg, LAMBDA l : ~BridgeRoute(l))
<1> DEFINE I == {i \in DOMAIN msg : ~BridgeRoute(msg[i])}
           kept == Picked(msg, I)
           n == Cardinality(I)
           out == [i \in DOMAIN kept |-> map_tokens_out(kept[i])]
<1>1. Where(msg, LAMBDA l : ~BridgeRoute(l)) = kept
  BY DEF Where
<1>2. rewrite_outbound(msg) = out
  BY <1>1, Zenon DEF rewrite_outbound, Where
<1>3. I \in SUBSET DOMAIN msg /\ \A i \in I : ~BridgeRoute(msg[i])
  OBVIOUS
<1> HIDE DEF I
<1>4. /\ kept \in Seq(SofiaLines) /\ n \in Nat /\ DOMAIN kept = 1 .. n
      /\ \A k \in DOMAIN kept : Nth(I, k) \in I /\ kept[k] = msg[Nth(I, k)]
  BY <1>3, PickedElements
<1>5. \A k \in 1 .. n : kept[k] \in SofiaLines /\ ~BridgeRoute(kept[k])
  <2>1. \A k \in 1 .. n : kept[k] \in SofiaLines
    BY <1>4, LenProperties, ElementOfSeq
  <2> QED BY <1>3, <1>4, <2>1
<1>6. kept = [k \in 1 .. n |-> kept[k]]
  BY <1>4, LenProperties
<1> HIDE DEF kept
<1>7. DOMAIN out = 1 .. n /\ \A k \in 1 .. n : out[k] = map_tokens_out(kept[k])
  BY <1>4
<1> HIDE DEF out
<1>8. rewrite_inbound(out, "own") =
          [k \in DOMAIN out |-> [map_tokens_in(out[k]) EXCEPT !.host = IF @ = "token" THEN "own" ELSE @]]
  <2>1. ASSUME NEW h PROVE (h = "token" /\ "own" # "none") <=> (h = "token")
    OBVIOUS
  <2> QED BY <2>1, Zenon DEF rewrite_inbound
<1>9. rewrite_inbound(out, "own") = [k \in 1 .. n |-> LineBack(kept[k])]
  <2>1. \A k \in 1 .. n : LineBack(kept[k]) =
            [map_tokens_in(out[k]) EXCEPT !.host = IF @ = "token" THEN "own" ELSE @]
    BY <1>7, Zenon DEF LineBack
  <2> DEFINE Back(k) == [map_tokens_in(out[k]) EXCEPT !.host = IF @ = "token" THEN "own" ELSE @]
  <2>2. rewrite_inbound(out, "own") = [k \in 1 .. n |-> Back(k)] /\ \A k \in 1 .. n : LineBack(kept[k]) = Back(k)
    BY <1>7, <1>8, <2>1, Zenon
  <2> HIDE DEF Back
  <2> QED BY <2>2
<1>10. \A k \in 1 .. n : LineBack(kept[k]) = kept[k]
  BY <1>5, LineReturns
<1>11. rewrite_inbound(out, "own") = kept
  BY <1>6, <1>9, <1>10
<1> QED BY <1>1, <1>2, <1>11, LearnsOwn

\* The bridge is transparent, whatever has passed it so far.
THEOREM WireReturns == Spec => []WireRoundTrip
<1>1. ASSUME NEW l \in SofiaLines
      PROVE  LET msg == <<TopVia, l>>
             IN  rewrite_inbound(rewrite_outbound(msg), Learn("none", msg))
                   = IF BridgeRoute(l) THEN <<TopVia>> ELSE msg
  <2> DEFINE msg == <<TopVia, l>>
             I == {i \in DOMAIN msg : ~BridgeRoute(msg[i])}
  <2>1. TopVia \in SofiaLines /\ ~BridgeRoute(TopVia)
    BY DEF TopVia, SofiaLines, Headers, Hosts, BridgeRoute
  <2>2. msg \in Seq(SofiaLines) /\ msg # <<>> /\ msg[1] = TopVia /\ msg[2] = l /\ DOMAIN msg = {1, 2}
    BY <2>1
  <2>3. I \in SUBSET DOMAIN msg /\ I = IF BridgeRoute(l) THEN {1} ELSE DOMAIN msg
    BY <2>1, <2>2
  <2> HIDE DEF msg
  <2>4. rewrite_inbound(rewrite_outbound(msg), Learn("none", msg)) = Picked(msg, I)
    BY <2>2, AnyMessageReturns DEF Where
  <2> HIDE DEF I
  <2>5. CASE BridgeRoute(l)
    <3>1. I = {1} /\ Cardinality({1}) = 1
      BY <2>3, <2>5, FS_Singleton
    <3>2. \A k \in 1 .. 1 : Nth(I, k) = 1
      <4>1. 1 \in 1 .. Cardinality(I) /\ I \in SUBSET (1 .. 2) /\ 2 \in Nat
        BY <3>1, SMT
      <4>2. Nth(I, 1) \in I
        BY <4>1, NthIsThere
      <4> QED BY <3>1, <4>2
    <3>3. Picked(msg, I) = [k \in 1 .. 1 |-> TopVia]
      BY <2>2, <3>1, <3>2 DEF Picked
    <3>4. <<TopVia>> = [k \in 1 .. 1 |-> TopVia]
      OBVIOUS
    <3> QED BY <2>4, <2>5, <3>3, <3>4 DEF msg
  <2>6. CASE ~BridgeRoute(l)
    <3>1. Picked(msg, I) = msg
      BY <2>2, <2>3, <2>6, PickedAll
    <3> QED BY <2>4, <2>6, <3>1 DEF msg
  <2> QED BY <2>5, <2>6
<1>2. MessageRoundTrip
  BY <1>1 DEF MessageRoundTrip
<1>3. FrameRoundTrip
  <2> DEFINE most == 1048576
  <2>1. most \in Nat /\ \A n \in Lengths : n \in Nat /\ n <= most
    BY SMT DEF Lengths
  <2>2. FrameRoundTrip =
            \A n \in Lengths :
                LET total == FrameBytes(encode_frame(n), n)
                IN  \A have \in ({2, 3, 4, 5, 8, 10, 14, total - 1, total, total + 1} \cap 2..(total + 1)) :
                      LET r == decode_frame(encode_frame(n), TRUE, have, most)
                      IN  IF have < total THEN r.is = "short"
                          ELSE r.is = "frame" /\ r.len = n /\ r.consumed = total
    BY SMT DEF FrameRoundTrip
  <2> HIDE DEF most
  <2>3. ASSUME NEW n \in Lengths, NEW have \in 2 .. FrameBytes(encode_frame(n), n) + 1
        PROVE  LET total == FrameBytes(encode_frame(n), n)
                   r == decode_frame(encode_frame(n), TRUE, have, most)
               IN  IF have < total THEN r.is = "short"
                   ELSE r.is = "frame" /\ r.len = n /\ r.consumed = total
    <3>1. n \in 0 .. most /\ have \in Nat /\ have >= 2
      BY <2>1
    <3> QED BY <2>1, <3>1, AnyFrameReturns
  <2> QED BY <2>2, <2>3
<1>4. WireRoundTrip
  BY <1>2, <1>3 DEF WireRoundTrip
<1> QED BY <1>4, PTL
=============================================================================
