--------------------------- MODULE WsBridgeProofs ---------------------------
(***************************************************************************)
(* What holds of the bridge for any number of messages and any server: its *)
(* state keeps its types, and each Writer is a FIFO pipe.                  *)
(***************************************************************************)
EXTENDS WsBridge, SubsequenceProofs

-----------------------------------------------------------------------------
(***************************************************************************)
(* Sequences.                                                              *)
(***************************************************************************)
\* Any cut of a sequence is a sequence of the same elements.
LEMMA SubSeqType ==
    ASSUME NEW S, NEW s \in Seq(S), NEW m \in Nat \ {0}, NEW n \in Nat, n <= Len(s)
    PROVE  SubSeq(s, m, n) \in Seq(S)
<1>1. \A i \in m .. n : s[i] \in S
  BY ElementOfSeq
<1> QED BY <1>1, SubSeqProperties

\* read_some: a chunk and what is left of the stream.
LEMMA ChunkType ==
    ASSUME NEW S, NEW s \in Seq(S), NEW c \in Chunks(s)
    PROVE  c \in Seq(S) /\ After(s, c) \in Seq(S)
<1>1. PICK k \in 1 .. Len(s) : c = SubSeq(s, 1, k)
  BY DEF Chunks
<1>2. c \in Seq(S)
  BY <1>1, SubSeqType
<1>3. After(s, c) \in Seq(S)
  BY <1>2, SubSeqType DEF After
<1> QED BY <1>2, <1>3

\* take_sip_message drops keepalives and nothing else.
LEMMA StrippedType ==
    ASSUME NEW S, NEW s \in Seq(S)
    PROVE  Stripped(s) \in Seq(S)
<1> DEFINE I == {i \in 1 .. Len(s) : s[i] # Crlf}
           k == SelectInSeq(s, LAMBDA u : u # Crlf)
<1>1. k = IF I # {} THEN Min(I) ELSE 0
  BY DEF SelectInSeq
<1>2. Stripped(s) = IF k = 0 THEN s ELSE SubSeq(s, k, Len(s))
  BY DEF Stripped
<1> HIDE DEF k
<1>3. I \subseteq 1 .. Len(s)
  OBVIOUS
<1> HIDE DEF I
<1>4. I # {} => Min(I) \in 1 .. Len(s)
  <2>1. I \in SUBSET Nat
    BY <1>3
  <2> QED BY <2>1, <1>3, MinIsElement
<1>5. k = 0 \/ k \in 1 .. Len(s)
  BY <1>1, <1>4
<1>6. k # 0 => SubSeq(s, k, Len(s)) \in Seq(S)
  BY <1>5, SubSeqType, LenProperties
<1> QED BY <1>2, <1>6

\* A sequence is its head and its tail.
LEMMA HeadAndTail ==
    ASSUME NEW S, NEW q \in Seq(S), q # <<>>
    PROVE  Head(q) \in S /\ Tail(q) \in Seq(S) /\ q = <<Head(q)>> \o Tail(q)
<1>1. /\ Head(q) \in S /\ Tail(q) \in Seq(S) /\ Len(q) \in Nat /\ Len(Tail(q)) = Len(q) - 1
      /\ \A i \in 1 .. Len(Tail(q)) : Tail(q)[i] = q[i + 1]
  BY HeadTailProperties
<1>2. /\ <<Head(q)>> \o Tail(q) \in Seq(S)
      /\ Len(<<Head(q)>> \o Tail(q)) = 1 + Len(Tail(q))
      /\ \A i \in 1 .. 1 + Len(Tail(q)) :
            (<<Head(q)>> \o Tail(q))[i] = IF i <= 1 THEN Head(q) ELSE Tail(q)[i - 1]
  <2>1. <<Head(q)>> \in Seq(S) /\ Len(<<Head(q)>>) = 1 /\ <<Head(q)>>[1] = Head(q)
    BY <1>1
  <2> QED BY <2>1, <1>1, ConcatProperties
<1>3. Head(q) = q[1]
  OBVIOUS
<1>4. ASSUME NEW i \in 1 .. Len(q)
      PROVE  q[i] = (<<Head(q)>> \o Tail(q))[i]
  <2>1. CASE i = 1
    BY <2>1, <1>1, <1>2, <1>3
  <2>2. CASE i # 1
    <3>1. i - 1 \in 1 .. Len(Tail(q)) /\ (i - 1) + 1 = i
      BY <2>2, <1>1
    <3>2. Tail(q)[i - 1] = q[i]
      BY <3>1, <1>1
    <3> QED BY <3>1, <3>2, <2>2, <1>1, <1>2
  <2> QED BY <2>1, <2>2
<1>5. Len(q) = Len(<<Head(q)>> \o Tail(q))
  BY <1>1, <1>2
<1>6. q = <<Head(q)>> \o Tail(q)
  BY <1>2, <1>4, <1>5, SeqEqual
<1> QED BY <1>1, <1>6

\* What came out, what is held and what waits: the head of what waits is taken to be
\* held ...
LEMMA HeadIsHeld ==
    ASSUME NEW S, NEW g \in Seq(S), NEW q \in Seq(S), q # <<>>
    PROVE  (g \o <<>>) \o q = (g \o <<Head(q)>>) \o Tail(q)
<1>1. Head(q) \in S /\ <<Head(q)>> \in Seq(S) /\ Tail(q) \in Seq(S)
  BY HeadAndTail
<1>2. g \o <<>> = g
  BY ConcatEmptySeq
<1>3. (g \o <<Head(q)>>) \o Tail(q) = g \o (<<Head(q)>> \o Tail(q))
  BY <1>1, ConcatAssociative
<1> QED BY <1>2, <1>3, HeadAndTail

\* ... and what was held comes out.
LEMMA HeldComesOut ==
    ASSUME NEW S, NEW g \in Seq(S), NEW x \in S, NEW q \in Seq(S)
    PROVE  /\ (g \o <<x>>) \o q = (Append(g, x) \o <<>>) \o q
           /\ ((g \o <<x>>) \o q)[Len(g) + 1] = x
           /\ Len((g \o <<x>>) \o q) > Len(g)
<1>1. Append(g, x) = g \o <<x>> /\ Append(g, x) \in Seq(S)
  BY AppendIsConcat, AppendProperties
<1>2. Append(g, x) \o <<>> = Append(g, x)
  BY <1>1, ConcatEmptySeq
<1>3. Len(g) \in Nat /\ Len(q) \in Nat /\ Len(Append(g, x)) = Len(g) + 1
      /\ Append(g, x)[Len(g) + 1] = x
  BY AppendProperties, LenProperties
<1>4. (Append(g, x) \o q)[Len(g) + 1] = Append(g, x)[Len(g) + 1]
      /\ Len(Append(g, x) \o q) = Len(g) + 1 + Len(q)
  BY <1>1, <1>3, ConcatProperties
<1> QED BY <1>1, <1>2, <1>3, <1>4

\* A task ends.
LEMMA RemoveType ==
    ASSUME NEW S, NEW s \in Seq(S), NEW i \in 1 .. Len(s)
    PROVE  RemoveAt(s, i) \in Seq(S) /\ (Len(s) = 1 => RemoveAt(s, i) = <<>>)
<1>1. Len(s) \in Nat
  BY LenProperties
<1>2. SubSeq(s, 1, i - 1) \in Seq(S) /\ SubSeq(s, i + 1, Len(s)) \in Seq(S)
  BY <1>1, SubSeqType
<1>3. SubSeq(s, 1, i - 1) \o SubSeq(s, i + 1, Len(s)) \in Seq(S)
  BY <1>2, ConcatProperties
<1>4. ASSUME Len(s) = 1
      PROVE  SubSeq(s, 1, i - 1) \o SubSeq(s, i + 1, Len(s)) = <<>>
  <2>1. SubSeq(s, 1, 0) = <<>> /\ SubSeq(s, 2, 1) = <<>>
    BY SubSeqEmpty
  <2>2. i = 1
    BY <1>4
  <2> QED BY <2>1, <2>2, <1>4
<1> QED BY <1>3, <1>4 DEF RemoveAt

-----------------------------------------------------------------------------
(***************************************************************************)
(* One Writer.                                                             *)
(***************************************************************************)
\* The item the task is writing, if there is a task and it is writing.
Held(r) == IF r.tasks = <<>> THEN <<>> ELSE r.tasks[1]

\* There is one task or none, as busy says; the queue waits for it; what was handed
\* over is what came out, what the task holds and what waits, in this order.
Fifo(r) ==
    /\ r.tasks = <<>> \/ r.tasks = <<Held(r)>>
    /\ r.busy <=> (r.tasks # <<>>)
    /\ r.tasks = <<>> => r.queue = <<>>
    /\ Len(Held(r)) <= 1
    /\ ~r.cut => r.sent = (r.got \o Held(r)) \o r.queue

\* Its fields.
LEMMA WriterFields ==
    ASSUME NEW S, NEW r \in WriterOf(S)
    PROVE  /\ r.queue \in Seq(S) /\ r.sent \in Seq(S) /\ r.got \in Seq(S)
           /\ r.tasks \in Seq(Seq(S)) /\ r.busy \in BOOLEAN /\ r.cut \in BOOLEAN
           /\ Held(r) \in Seq(S)
<1>1. /\ r.queue \in Seq(S) /\ r.sent \in Seq(S) /\ r.got \in Seq(S)
      /\ r.tasks \in Seq(Seq(S)) /\ r.busy \in BOOLEAN /\ r.cut \in BOOLEAN
  BY DEF WriterOf
<1>2. Held(r) \in Seq(S)
  <2>1. CASE r.tasks = <<>>
    BY <2>1 DEF Held
  <2>2. CASE r.tasks # <<>>
    <3>1. 1 \in 1 .. Len(r.tasks)
      BY <1>1, <2>2, EmptySeq
    <3> QED BY <3>1, <1>1, <2>2, ElementOfSeq DEF Held
  <2> QED BY <2>1, <2>2
<1> QED BY <1>1, <1>2

\* Writer::push.
LEMMA PushKeeps ==
    ASSUME NEW S, NEW r \in WriterOf(S), NEW x \in S
    PROVE  push(r, x) \in WriterOf(S) /\ (Fifo(r) => Fifo(push(r, x)))
<1> DEFINE p == push(r, x)
<1>1. /\ p.queue = Append(r.queue, x) /\ p.sent = Append(r.sent, x) /\ p.busy = TRUE
      /\ p.tasks = (IF r.busy THEN r.tasks ELSE Append(r.tasks, <<>>))
      /\ p.got = r.got /\ p.cut = r.cut
  BY DEF push, WriterOf, Ready
<1>2. p \in WriterOf(S)
  <2>1. /\ Append(r.queue, x) \in Seq(S) /\ Append(r.sent, x) \in Seq(S)
        /\ Append(r.tasks, <<>>) \in Seq(Seq(S))
    BY WriterFields
  <2> QED BY <2>1 DEF push, WriterOf, Ready
<1> HIDE DEF p
<1>3. ASSUME Fifo(r)
      PROVE  p.tasks = <<Held(r)>> /\ p.tasks # <<>> /\ Held(p) = Held(r)
  <2>1. CASE r.busy
    <3>1. r.tasks # <<>> /\ p.tasks = r.tasks
      BY <2>1, <1>1, <1>3 DEF Fifo
    <3> QED BY <3>1, <1>3 DEF Fifo, Held
  <2>2. CASE ~r.busy
    <3>1. r.tasks = <<>>
      BY <2>2, <1>3, WriterFields DEF Fifo
    <3>2. p.tasks = Append(<<>>, <<>>) /\ Held(r) = <<>>
      BY <2>2, <3>1, <1>1 DEF Held
    <3>3. p.tasks = <<<<>>>>
      BY <3>2
    <3> QED BY <3>2, <3>3 DEF Held
  <2> QED BY <2>1, <2>2, WriterFields
<1>4. ASSUME Fifo(r), ~r.cut
      PROVE  p.sent = (p.got \o Held(p)) \o p.queue
  <2>1. r.sent = (r.got \o Held(r)) \o r.queue
    BY <1>4 DEF Fifo
  <2>2. p.sent = Append(r.sent, x) /\ p.queue = Append(r.queue, x)
    BY <1>1
  <2>3. r.got \in Seq(S) /\ Held(r) \in Seq(S) /\ r.queue \in Seq(S)
    BY WriterFields
  <2>4. p.sent = (r.got \o Held(r)) \o p.queue
    <3> DEFINE g == r.got
               h == Held(r)
               q == r.queue
    <3>1. g \in Seq(S) /\ h \in Seq(S) /\ q \in Seq(S)
      BY <2>3
    <3>2. r.sent = (g \o h) \o q /\ p.sent = Append(r.sent, x) /\ p.queue = Append(q, x)
      BY <2>1, <2>2
    <3> HIDE DEF g, h, q
    <3>3. g \o h \in Seq(S) /\ (g \o h) \o q \in Seq(S) /\ <<x>> \in Seq(S)
      BY <3>1, ConcatProperties
    <3>4. Append((g \o h) \o q, x) = ((g \o h) \o q) \o <<x>>
      BY <3>3, AppendIsConcat
    <3>5. ((g \o h) \o q) \o <<x>> = (g \o h) \o (q \o <<x>>)
      BY <3>1, <3>3, ConcatAssociative, SMTT(30)
    <3>6. q \o <<x>> = Append(q, x)
      BY <3>1, AppendIsConcat
    <3>7. p.sent = (g \o h) \o p.queue
      BY <3>2, <3>4, <3>5, <3>6
    <3> QED BY <3>7 DEF g, h, q
  <2> QED BY <2>4, <1>1, <1>3, <1>4
<1>5. Fifo(r) => Fifo(p)
  BY <1>1, <1>3, <1>4 DEF Fifo
<1> QED BY <1>2, <1>5 DEF p

\* The top of a task's loop, with nothing held.
LEMMA PopKeeps ==
    ASSUME NEW S, NEW r \in WriterOf(S), NEW i \in DOMAIN r.tasks
    PROVE  /\ TaskPop(r, i) \in WriterOf(S)
           /\ Fifo(r) /\ r.tasks[i] = <<>> => Fifo(TaskPop(r, i))
           /\ TaskPop(r, i).sent = r.sent /\ TaskPop(r, i).got = r.got /\ TaskPop(r, i).cut = r.cut
<1> DEFINE p == TaskPop(r, i)
<1>0. /\ r.queue \in Seq(S) /\ r.sent \in Seq(S) /\ r.got \in Seq(S)
      /\ r.tasks \in Seq(Seq(S)) /\ r.busy \in BOOLEAN /\ r.cut \in BOOLEAN
      /\ Held(r) \in Seq(S) /\ i \in 1 .. Len(r.tasks) /\ Len(r.tasks) \in Nat
  BY WriterFields, LenProperties
<1>1. RemoveAt(r.tasks, i) \in Seq(Seq(S)) /\ (Len(r.tasks) = 1 => RemoveAt(r.tasks, i) = <<>>)
  BY <1>0, RemoveType
<1>2. CASE r.queue = <<>>
  <2>1. /\ p.queue = r.queue /\ p.sent = r.sent /\ p.got = r.got /\ p.cut = r.cut
        /\ p.busy = FALSE /\ p.tasks = RemoveAt(r.tasks, i)
    BY <1>2 DEF TaskPop, WriterOf
  <2>2. p \in WriterOf(S)
    BY <1>0, <1>1, <1>2 DEF TaskPop, WriterOf
  <2> HIDE DEF p
  <2>3. ASSUME Fifo(r), r.tasks[i] = <<>>
        PROVE  Fifo(p)
    <3>1. r.tasks = <<Held(r)>> /\ Held(r) = <<>>
      BY <2>3, <1>0 DEF Fifo
    <3>2. p.tasks = <<>> /\ Held(p) = <<>>
      BY <3>1, <2>1, <1>1 DEF Held
    <3> QED BY <2>1, <2>3, <3>1, <3>2, <1>2 DEF Fifo
  <2> QED BY <2>1, <2>2, <2>3 DEF p
<1>3. CASE r.queue # <<>>
  <2>1. /\ p.queue = Tail(r.queue) /\ p.sent = r.sent /\ p.got = r.got /\ p.cut = r.cut
        /\ p.busy = r.busy /\ p.tasks = [r.tasks EXCEPT ![i] = <<Head(r.queue)>>]
    BY <1>3 DEF TaskPop, WriterOf
  <2>2. Head(r.queue) \in S /\ Tail(r.queue) \in Seq(S) /\ <<Head(r.queue)>> \in Seq(S)
    BY <1>0, <1>3, HeadTailProperties
  <2>3. [r.tasks EXCEPT ![i] = <<Head(r.queue)>>] \in Seq(Seq(S))
    BY <1>0, <2>2, ExceptSeq
  <2>4. p \in WriterOf(S)
    BY <1>0, <1>3, <2>2, <2>3 DEF TaskPop, WriterOf
  <2> HIDE DEF p
  <2>5. ASSUME Fifo(r), r.tasks[i] = <<>>
        PROVE  Fifo(p)
    <3>1. r.tasks = <<Held(r)>> /\ Held(r) = <<>> /\ i = 1
      BY <2>5, <1>0 DEF Fifo
    <3>2. p.tasks = <<<<Head(r.queue)>>>>
      BY <3>1, <2>1
    <3>3. Held(p) = <<Head(r.queue)>> /\ p.tasks # <<>>
      BY <3>2 DEF Held
    <3>4. ~r.cut => r.sent = (r.got \o <<>>) \o r.queue
      BY <2>5, <3>1 DEF Fifo
    <3>5. (r.got \o <<>>) \o r.queue = (r.got \o <<Head(r.queue)>>) \o Tail(r.queue)
      <4>1. \A g, q \in Seq(S) :
               q # <<>> => (g \o <<>>) \o q = (g \o <<Head(q)>>) \o Tail(q)
        BY HeadIsHeld, Zenon
      <4> QED BY <4>1, <1>0, <1>3, Zenon
    <3>6. ~p.cut => p.sent = (p.got \o Held(p)) \o p.queue
      BY <3>3, <3>4, <3>5, <2>1
    <3>7. r.busy
      <4>1. r.tasks # <<>>
        BY <1>0
      <4> QED BY <4>1, <2>5, Zenon DEF Fifo
    <3>8. p.busy <=> (p.tasks # <<>>)
      BY <3>7, <3>3, <2>1, Zenon
    <3>9. p.tasks = <<Held(p)>> /\ Len(Held(p)) = 1
      BY <3>2, <3>3
    <3>10. Len(Held(p)) <= 1
      BY <3>9
    <3>11. /\ p.tasks = <<>> \/ p.tasks = <<Held(p)>>
           /\ p.tasks = <<>> => p.queue = <<>>
      BY <3>9, <3>3
    <3> QED BY <3>8, <3>10, <3>11, <3>6, Zenon DEF Fifo
  <2> QED BY <2>1, <2>4, <2>5 DEF p
<1> QED BY <1>2, <1>3

\* A write that failed.  With one task none is ever refused as pending.
LEMMA FailedKeeps ==
    ASSUME NEW S, NEW r \in WriterOf(S), NEW i \in DOMAIN r.tasks, NEW c \in BOOLEAN
    PROVE  /\ TaskFailed(r, i, c) \in WriterOf(S)
           /\ Fifo(r) /\ c => Fifo(TaskFailed(r, i, c))
           /\ Fifo(r) => ~Pending(r, i)
           /\ TaskFailed(r, i, c).sent = r.sent /\ TaskFailed(r, i, c).got = r.got
           /\ c => TaskFailed(r, i, c).cut = TRUE
           /\ ~c => TaskFailed(r, i, c).cut = r.cut
<1> DEFINE p == TaskFailed(r, i, c)
<1>1. /\ r.queue \in Seq(S) /\ r.sent \in Seq(S) /\ r.got \in Seq(S)
      /\ r.tasks \in Seq(Seq(S)) /\ r.busy \in BOOLEAN /\ r.cut \in BOOLEAN
      /\ i \in 1 .. Len(r.tasks) /\ Len(r.tasks) \in Nat
  BY WriterFields, LenProperties
<1>2. RemoveAt(r.tasks, i) \in Seq(Seq(S)) /\ (Len(r.tasks) = 1 => RemoveAt(r.tasks, i) = <<>>)
  BY <1>1, RemoveType
<1>3. /\ p.queue = <<>> /\ p.sent = r.sent /\ p.got = r.got /\ p.cut = (r.cut \/ c)
      /\ p.busy = FALSE /\ p.tasks = RemoveAt(r.tasks, i)
  BY DEF TaskFailed, WriterOf
<1>4. p \in WriterOf(S)
  <2>1. <<>> \in Seq(S)
    OBVIOUS
  <2> QED BY <2>1, <1>1, <1>2 DEF TaskFailed, WriterOf
<1> HIDE DEF p
<1>5. ASSUME Fifo(r)
      PROVE  Len(r.tasks) = 1
  <2>1. r.tasks = <<Held(r)>>
    BY <1>1, <1>5 DEF Fifo
  <2> QED BY <2>1
<1>6. ASSUME Fifo(r), c
      PROVE  Fifo(p)
  <2>1. p.tasks = <<>>
    BY <1>2, <1>3, <1>5, <1>6
  <2>2. Held(p) = <<>>
    BY <2>1 DEF Held
  <2>3. p.cut = TRUE
    BY <1>3, <1>6
  <2>4. Len(Held(p)) <= 1
    BY <2>2
  <2> QED BY <2>1, <2>3, <2>4, <1>3, Zenon DEF Fifo
<1>7. ASSUME Fifo(r)
      PROVE  ~Pending(r, i)
  BY <1>1, <1>5, <1>7 DEF Pending
<1>8. p.cut = (r.cut \/ c) => (c => p.cut = TRUE) /\ (~c => p.cut = r.cut)
  BY <1>1
<1> QED BY <1>3, <1>4, <1>6, <1>7, <1>8 DEF p

\* A write that succeeded: the item comes out next, and the loop goes round.
LEMMA WrittenKeeps ==
    ASSUME NEW S, NEW r \in WriterOf(S), NEW i \in DOMAIN r.tasks, r.tasks[i] # <<>>
    PROVE  /\ TaskWritten(r, i) \in WriterOf(S)
           /\ Fifo(r) => Fifo(TaskWritten(r, i))
           /\ TaskWritten(r, i).sent = r.sent /\ TaskWritten(r, i).cut = r.cut
           /\ TaskWritten(r, i).got = Append(r.got, r.tasks[i][1])
           /\ Fifo(r) /\ ~r.cut => /\ Len(r.got) < Len(r.sent)
                                   /\ r.tasks[i][1] = r.sent[Len(r.got) + 1]
<1> DEFINE x == r.tasks[i][1]
           r1 == [r EXCEPT !.got = Append(@, x)]
<1>1. /\ r.queue \in Seq(S) /\ r.sent \in Seq(S) /\ r.got \in Seq(S)
      /\ r.tasks \in Seq(Seq(S)) /\ r.busy \in BOOLEAN /\ r.cut \in BOOLEAN
      /\ Held(r) \in Seq(S) /\ i \in 1 .. Len(r.tasks) /\ Len(r.tasks) \in Nat
  BY WriterFields, LenProperties
<1>2. x \in S
  <2>1. r.tasks[i] \in Seq(S)
    BY <1>1, ElementOfSeq
  <2> QED BY <2>1, EmptySeq, ElementOfSeq
<1>3. Append(r.got, x) \in Seq(S)
  BY <1>1, <1>2, AppendProperties
<1>4. r1 \in WriterOf(S)
  BY <1>1, <1>3 DEF WriterOf
<1>5. /\ r1.queue = r.queue /\ r1.sent = r.sent /\ r1.got = Append(r.got, x)
      /\ r1.cut = r.cut /\ r1.busy = r.busy /\ r1.tasks = r.tasks
  BY DEF WriterOf
<1>6. TaskWritten(r, i) = TaskPop(r1, i)
  BY DEF TaskWritten
<1> HIDE DEF r1
<1>7. /\ TaskPop(r1, i) \in WriterOf(S)
      /\ TaskPop(r1, i).sent = r.sent /\ TaskPop(r1, i).got = r1.got /\ TaskPop(r1, i).cut = r.cut
  BY <1>1, <1>4, <1>5, PopKeeps
<1>8. ASSUME Fifo(r)
      PROVE  i = 1 /\ r.tasks = <<Held(r)>> /\ Held(r) = <<x>> /\ r.busy
  <2>1. r.tasks = <<Held(r)>> /\ r.tasks # <<>>
    BY <1>1, <1>8 DEF Fifo
  <2>2. i = 1 /\ Held(r) = r.tasks[i]
    BY <2>1, <1>1
  <2>3. Len(Held(r)) <= 1 /\ Held(r) # <<>>
    BY <2>2, <1>8 DEF Fifo
  <2>4. Len(Held(r)) = 1 /\ Held(r)[1] = x
    <3>1. Held(r) \in Seq(S) /\ Held(r) # <<>>
      BY <2>3, <1>1
    <3> DEFINE h == Held(r)
    <3> HIDE DEF h
    <3>2. Len(h) \in Nat \ {0}
      BY <3>1, EmptySeq DEF h
    <3>3. Len(h) <= 1
      BY <2>3 DEF h
    <3>4. Len(h) = 1
      <4>1. \A n \in Nat \ {0} : n <= 1 => n = 1
        OBVIOUS
      <4> QED BY <4>1, <3>2, <3>3, Zenon
    <3> QED BY <3>4, <2>2 DEF h
  <2>5. Held(r) = <<x>>
    BY <2>4, <1>1, <1>2, SeqEqual
  <2>6. r.busy
    BY <2>1, <1>8, Zenon DEF Fifo
  <2> QED BY <2>1, <2>2, <2>5, <2>6
<1>9. ASSUME Fifo(r), ~r.cut
      PROVE  /\ Len(r.got) < Len(r.sent) /\ x = r.sent[Len(r.got) + 1]
             /\ r.sent = (Append(r.got, x) \o <<>>) \o r.queue
  <2> DEFINE g == r.got
             q == r.queue
  <2>1. g \in Seq(S) /\ q \in Seq(S)
    BY <1>1
  <2>2. r.sent = (g \o <<x>>) \o q
    BY <1>8, <1>9 DEF Fifo
  <2> HIDE DEF g, q, x
  <2>3. /\ (g \o <<x>>) \o q = (Append(g, x) \o <<>>) \o q
        /\ ((g \o <<x>>) \o q)[Len(g) + 1] = x
        /\ Len((g \o <<x>>) \o q) > Len(g)
    BY <2>1, <1>2, HeldComesOut
  <2>4. Len(g) < Len(r.sent)
    <3>1. Len(g) \in Nat /\ Len(r.sent) \in Nat /\ Len(r.sent) > Len(g)
      BY <2>1, <2>2, <2>3, <1>1, LenProperties
    <3> QED BY <3>1
  <2> QED BY <2>2, <2>3, <2>4 DEF g, q
<1>10. ASSUME Fifo(r)
       PROVE  Fifo(TaskPop(r1, i))
  <2> DEFINE r2 == [r1 EXCEPT !.tasks = <<<<>>>>]
  <2>1. r2 \in WriterOf(S)
    <3>1. <<<<>>>> \in Seq(Seq(S))
      OBVIOUS
    <3> QED BY <3>1, <1>4 DEF WriterOf
  <2>2. /\ r2.queue = r.queue /\ r2.sent = r.sent /\ r2.got = Append(r.got, x)
        /\ r2.cut = r.cut /\ r2.busy = r.busy /\ r2.tasks = <<<<>>>>
    BY <1>4, <1>5 DEF WriterOf
  <2>3. TaskPop(r2, i) = TaskPop(r1, i)
    <3>1. RemoveAt(r1.tasks, i) = <<>> /\ RemoveAt(r2.tasks, i) = <<>>
      <4>1. r1.tasks \in Seq(Seq(S)) /\ r2.tasks \in Seq(Seq(S))
        BY <1>1, <1>5, <2>2
      <4>2. Len(r1.tasks) = 1 /\ Len(r2.tasks) = 1
        BY <1>5, <1>8, <1>10, <2>2
      <4>3. i \in 1 .. Len(r1.tasks) /\ i \in 1 .. Len(r2.tasks)
        BY <4>2, <1>8, <1>10
      <4>4. RemoveAt(r1.tasks, i) = <<>>
        BY <4>1, <4>2, <4>3, RemoveType
      <4>5. RemoveAt(r2.tasks, i) = <<>>
        BY <4>1, <4>2, <4>3, RemoveType
      <4> QED BY <4>4, <4>5
    <3>2. [r1.tasks EXCEPT ![i] = <<Head(r.queue)>>] = [r2.tasks EXCEPT ![i] = <<Head(r.queue)>>]
      BY <1>5, <1>8, <1>10, <2>2
    <3> QED BY <3>1, <3>2, <1>4, <1>5, <2>1, <2>2 DEF TaskPop, WriterOf
  <2> HIDE DEF r2
  <2>4. Fifo(r2)
    <3>1. Held(r2) = <<>> /\ r2.tasks # <<>> /\ r2.tasks = <<Held(r2)>>
      BY <2>2 DEF Held
    <3>2. Len(Held(r2)) <= 1
      BY <3>1
    <3>3. ~r2.cut => r2.sent = (r2.got \o Held(r2)) \o r2.queue
      BY <3>1, <2>2, <1>9, <1>10
    <3> QED BY <3>1, <3>2, <3>3, <2>2, <1>8, <1>10, Zenon DEF Fifo
  <2>5. i \in DOMAIN r2.tasks /\ r2.tasks[i] = <<>>
    BY <2>2, <1>8, <1>10
  <2> QED BY <2>1, <2>3, <2>4, <2>5, PopKeeps
<1> QED BY <1>5, <1>6, <1>7, <1>9, <1>10

\* Handing an item over is what Pipe calls Send.
LEMMA PushSends ==
    ASSUME NEW S, NEW s \in Seq(S), NEW x \in S
    PROVE  Len(Append(s, x)) = Len(s) + 1 /\ SubSeq(Append(s, x), 1, Len(s)) = s
<1>1. /\ Append(s, x) \in Seq(S) /\ Len(Append(s, x)) = Len(s) + 1 /\ Len(s) \in Nat
      /\ \A i \in 1 .. Len(s) : Append(s, x)[i] = s[i]
  BY AppendProperties, LenProperties
<1> DEFINE a == Append(s, x)
           t == SubSeq(a, 1, Len(s))
<1> HIDE DEF a
<1>2. a \in Seq(S) /\ Len(a) = Len(s) + 1 /\ \A i \in 1 .. Len(s) : a[i] = s[i]
  BY <1>1 DEF a
<1>3. \A i \in 1 .. Len(s) : a[i] \in S
  BY <1>2, <1>1, ElementOfSeq
<1>4. t \in Seq(S) /\ Len(t) = Len(s) /\ \A i \in 1 .. Len(s) : t[i] = a[i]
  BY <1>1, <1>3, SubSeqProperties
<1> HIDE DEF t
<1>5. t = s
  BY <1>2, <1>4, SeqEqual
<1> QED BY <1>1, <1>5 DEF t, a

-----------------------------------------------------------------------------
(***************************************************************************)
(* What a step does to the writers.                                        *)
(***************************************************************************)
WriterType ==
    /\ writer = [w \in Writers |-> writer[w]]
    /\ \A w \in Writers : writer[w] \in WriterOf(Item(w))

Unchanged(r, s) == s = r
Pushed(r, s, S) == \E x \in S : s = push(r, x)
Started(r, s) ==
    \E i \in DOMAIN r.tasks :
        r.tasks[i] = <<>> /\ s = IF r.queue # <<>> /\ Pending(r, i)
                                 THEN TaskFailed(r, i, FALSE) ELSE TaskPop(r, i)
Wrote(r, s) == ~r.cut /\ \E i \in DOMAIN r.tasks : r.tasks[i] # <<>> /\ s = TaskWritten(r, i)
Broke(r, s) == \E i \in DOMAIN r.tasks : s = TaskFailed(r, i, TRUE)

Step(r, s, S) ==
    Unchanged(r, s) \/ Pushed(r, s, S) \/ Started(r, s) \/ Wrote(r, s) \/ Broke(r, s)

\* The writers after a step of the bridge.
WritersStep ==
    /\ writer' = [w \in Writers |-> writer'[w]]
    /\ \A w \in Writers : Step(writer[w], writer'[w], Item(w))

LEMMA SameStep ==
    ASSUME WriterType, writer' = writer
    PROVE  WritersStep
BY DEF WriterType, WritersStep, Step, Unchanged

LEMMA OneWriterStep ==
    ASSUME WriterType, NEW w \in Writers, NEW r, Step(writer[w], r, Item(w)),
           writer' = [writer EXCEPT ![w] = r]
    PROVE  WritersStep
<1>1. writer = [v \in Writers |-> writer[v]]
  BY DEF WriterType
<1>2. writer' = [v \in Writers |-> IF v = w THEN r ELSE writer[v]]
  BY <1>1
<1>3. writer' = [v \in Writers |-> writer'[v]] /\ writer'[w] = r
  BY <1>2
<1>4. \A v \in Writers : v # w => writer'[v] = writer[v]
  BY <1>2
<1>5. \A v \in Writers : Step(writer[v], writer'[v], Item(v))
  BY <1>3, <1>4 DEF Step, Unchanged
<1> QED BY <1>3, <1>5 DEF WritersStep

LEMMA PushStep ==
    ASSUME WriterType, NEW w \in Writers, NEW x \in Item(w), Push(w, x)
    PROVE  WritersStep
<1>1. Step(writer[w], push(writer[w], x), Item(w))
  BY DEF Step, Pushed
<1> QED BY <1>1, OneWriterStep DEF Push

LEMMA TaskStep ==
    ASSUME WriterType, NEW w \in Writers, WriterTask(w)
    PROVE  WritersStep
<1>1. CASE WriterStarts(w)
  <2>1. PICK i \in DOMAIN writer[w].tasks :
          /\ writer[w].tasks[i] = <<>>
          /\ writer' = [writer EXCEPT ![w] =
                         IF writer[w].queue # <<>> /\ Pending(writer[w], i)
                         THEN TaskFailed(writer[w], i, FALSE) ELSE TaskPop(writer[w], i)]
    BY <1>1 DEF WriterStarts, Ready
  <2> DEFINE r == IF writer[w].queue # <<>> /\ Pending(writer[w], i)
                  THEN TaskFailed(writer[w], i, FALSE) ELSE TaskPop(writer[w], i)
  <2>2. Step(writer[w], r, Item(w))
    BY <2>1 DEF Step, Started
  <2>3. writer' = [writer EXCEPT ![w] = r]
    BY <2>1
  <2> HIDE DEF r
  <2> QED BY <2>2, <2>3, OneWriterStep
<1>2. CASE WriterWrites(w)
  <2>1. PICK i \in DOMAIN writer[w].tasks :
          /\ writer[w].tasks[i] # <<>>
          /\ writer' = [writer EXCEPT ![w] = TaskWritten(writer[w], i)]
    BY <1>2 DEF WriterWrites, Ready
  <2>2. ~writer[w].cut
    BY <1>2 DEF WriterWrites, MayWrite
  <2>3. Step(writer[w], TaskWritten(writer[w], i), Item(w))
    BY <2>1, <2>2 DEF Step, Wrote
  <2> QED BY <2>1, <2>3, OneWriterStep
<1>3. CASE WriterFails(w)
  <2>1. PICK i \in DOMAIN writer[w].tasks :
          writer' = [writer EXCEPT ![w] = TaskFailed(writer[w], i, TRUE)]
    BY <1>3 DEF WriterFails
  <2>2. Step(writer[w], TaskFailed(writer[w], i, TRUE), Item(w))
    BY <2>1 DEF Step, Broke
  <2> QED BY <2>1, <2>2, OneWriterStep
<1> QED BY <1>1, <1>2, <1>3 DEF WriterTask

\* A step keeps a writer's type and discipline, and is a step of Pipe.
LEMMA StepIsPipe ==
    ASSUME NEW S, NEW r \in WriterOf(S), NEW s, Step(r, s, S)
    PROVE  /\ s \in WriterOf(S)
           /\ Fifo(r) => Fifo(s)
           /\ Fifo(r) =>
                \/ s.sent = r.sent /\ s.got = r.got /\ s.cut = r.cut
                \/ /\ Len(s.sent) = Len(r.sent) + 1 /\ SubSeq(s.sent, 1, Len(r.sent)) = r.sent
                   /\ s.got = r.got /\ s.cut = r.cut
                \/ /\ ~r.cut /\ Len(r.got) < Len(r.sent)
                   /\ s.got = Append(r.got, r.sent[Len(r.got) + 1])
                   /\ s.sent = r.sent /\ s.cut = r.cut
                \/ s.cut = TRUE /\ s.sent = r.sent /\ s.got = r.got
<1>1. CASE Unchanged(r, s)
  BY <1>1 DEF Unchanged
<1>2. CASE Pushed(r, s, S)
  <2>1. PICK x \in S : s = push(r, x)
    BY <1>2 DEF Pushed
  <2>2. s.sent = Append(r.sent, x) /\ s.got = r.got /\ s.cut = r.cut
    BY <2>1 DEF push, WriterOf
  <2>3. Len(Append(r.sent, x)) = Len(r.sent) + 1 /\ SubSeq(Append(r.sent, x), 1, Len(r.sent)) = r.sent
    BY WriterFields, PushSends
  <2> QED BY <2>1, <2>2, <2>3, PushKeeps
<1>3. CASE Started(r, s)
  <2>1. PICK i \in DOMAIN r.tasks :
          r.tasks[i] = <<>> /\ s = IF r.queue # <<>> /\ Pending(r, i)
                                   THEN TaskFailed(r, i, FALSE) ELSE TaskPop(r, i)
    BY <1>3 DEF Started
  <2>2. CASE r.queue # <<>> /\ Pending(r, i)
    <3>1. s = TaskFailed(r, i, FALSE)
      BY <2>1, <2>2
    <3>2. s \in WriterOf(S) /\ ~Fifo(r)
      BY <3>1, <2>2, FailedKeeps
    <3> QED BY <3>2
  <2>3. CASE ~(r.queue # <<>> /\ Pending(r, i))
    <3>1. s = TaskPop(r, i)
      BY <2>1, <2>3
    <3>2. /\ s \in WriterOf(S) /\ (Fifo(r) => Fifo(s))
          /\ s.sent = r.sent /\ s.got = r.got /\ s.cut = r.cut
      BY <3>1, <2>1, PopKeeps
    <3> QED BY <3>2
  <2> QED BY <2>2, <2>3
<1>4. CASE Wrote(r, s)
  <2>1. PICK i \in DOMAIN r.tasks : r.tasks[i] # <<>> /\ s = TaskWritten(r, i)
    BY <1>4 DEF Wrote
  <2>2. ~r.cut
    BY <1>4 DEF Wrote
  <2>3. /\ s \in WriterOf(S) /\ (Fifo(r) => Fifo(s))
        /\ s.sent = r.sent /\ s.cut = r.cut
        /\ s.got = Append(r.got, r.tasks[i][1])
        /\ Fifo(r) /\ ~r.cut => /\ Len(r.got) < Len(r.sent)
                                /\ r.tasks[i][1] = r.sent[Len(r.got) + 1]
    BY <2>1, WrittenKeeps
  <2> QED BY <2>2, <2>3
<1>5. CASE Broke(r, s)
  <2>1. PICK i \in DOMAIN r.tasks : s = TaskFailed(r, i, TRUE)
    BY <1>5 DEF Broke
  <2>2. /\ s \in WriterOf(S) /\ (Fifo(r) => Fifo(s))
        /\ s.sent = r.sent /\ s.got = r.got /\ s.cut = TRUE
    BY <2>1, FailedKeeps
  <2> QED BY <2>2
<1> QED BY <1>1, <1>2, <1>3, <1>4, <1>5 DEF Step

LEMMA WriterTypeStep ==
    ASSUME WriterType, WritersStep
    PROVE  WriterType'
<1>1. \A w \in Writers : writer'[w] \in WriterOf(Item(w))
  BY StepIsPipe DEF WriterType, WritersStep
<1> QED BY <1>1 DEF WriterType, WritersStep

-----------------------------------------------------------------------------
(***************************************************************************)
(* Bytes.                                                                  *)
(***************************************************************************)
LEMMA HalvesType ==
    ASSUME NEW S, NEW x \in S
    PROVE  Halves(x) \in Bytes(S)
BY DEF Halves, Bytes, HugePart

LEMMA BytesJoin ==
    ASSUME NEW S, NEW a \in Bytes(S), NEW b \in Bytes(S)
    PROVE  a \o b \in Bytes(S)
BY ConcatProperties DEF Bytes

LEMMA BytesChunk ==
    ASSUME NEW S, NEW a \in Bytes(S), NEW c \in Chunks(a)
    PROVE  c \in Bytes(S) /\ After(a, c) \in Bytes(S)
BY ChunkType DEF Bytes

LEMMA BytesRest ==
    ASSUME NEW S, NEW a \in Bytes(S), Len(a) >= 2
    PROVE  a[1].of \in S /\ SubSeq(a, 3, Len(a)) \in Bytes(S)
<1> DEFINE B == [of : S, part : 0 .. HugePart]
<1>1. a \in Seq(B)
  BY DEF Bytes
<1> HIDE DEF B
<1>2. Len(a) \in Nat /\ 1 \in 1 .. Len(a) /\ 3 \in Nat \ {0} /\ Len(a) <= Len(a)
  BY <1>1, LenProperties
<1>3. SubSeq(a, 3, Len(a)) \in Seq(B)
  BY <1>1, <1>2, SubSeqType
<1>4. a[1] \in B
  BY <1>1, <1>2, ElementOfSeq
<1> QED BY <1>3, <1>4 DEF Bytes, B

LEMMA BytesStripped ==
    ASSUME NEW S, NEW a \in Bytes(S)
    PROVE  Stripped(a) \in Bytes(S)
BY StrippedType DEF Bytes

-----------------------------------------------------------------------------
(***************************************************************************)
(* Types.                                                                  *)
(***************************************************************************)
PumpType ==
    /\ upBuf \in Bytes(Nat) /\ downBuf \in Bytes(ServerFrame)
    /\ up \in {"none", "spawned", "reading", "split", "over"}
    /\ down \in {"none", "reading", "drain", "over"}
    /\ frag \in Seq(Nat) /\ Len(frag) <= MaxFragments /\ done \in BOOLEAN

NetType ==
    /\ link \in {"none", "open", "shut"} /\ local \in BOOLEAN /\ srv \in BOOLEAN
    /\ fromSofia \in Bytes(Nat) /\ fromServer \in Bytes(ServerFrame)
    /\ sofiaSent \in Nat /\ srvSent \in Seq(ServerFrame)

CtlType ==
    /\ cancelled \in BOOLEAN /\ accept \in {"waiting", "ended"}
    /\ phase \in {"none", "connecting", "handshake", "open", "over"}

Types == PumpType /\ NetType /\ CtlType /\ WriterType

LEMMA TypesOK == TypeOK <=> Types
BY DEF TypeOK, Types, PumpType, NetType, CtlType, WriterType

LEMMA CloseIsItem == [op |-> "close", of |-> 0] \in Item("ws")
BY DEF Item

LEMMA UpEndsStep ==
    ASSUME Types, UpEnds
    PROVE  WritersStep /\ up' = "over" /\ done' = TRUE
<1>1. "ws" \in Writers /\ WriterType /\ Push("ws", [op |-> "close", of |-> 0])
  BY DEF Types, UpEnds, Writers
<1> QED BY <1>1, CloseIsItem, PushStep DEF UpEnds

LEMMA UpNextStep ==
    ASSUME Types, UpNext
    PROVE  WritersStep /\ up' \in {"over", "reading"} /\ done' \in BOOLEAN
<1>1. CASE done \/ cancelled
  BY <1>1, UpEndsStep DEF UpNext
<1>2. CASE ~(done \/ cancelled)
  BY <1>2, SameStep DEF UpNext, Types, PumpType
<1> QED BY <1>1, <1>2

LEMMA RunSessionKeeps ==
    ASSUME Types, RunSession
    PROVE  Types' /\ WritersStep
<1>0. WriterType
  BY DEF Types
<1>1. CASE Accept \/ ConnectFails \/ TcpConnected
  <2>1. writer' = writer
    BY <1>1 DEF Accept, ConnectFails, TcpConnected
  <2>2. PumpType'
    BY <1>1 DEF Accept, ConnectFails, TcpConnected, pumpVars, Types, PumpType
  <2>3. NetType' /\ CtlType'
    BY <1>1 DEF Accept, ConnectFails, TcpConnected, CloseLocal, Types, NetType, CtlType
  <2> QED BY <1>0, <2>1, <2>2, <2>3, SameStep, WriterTypeStep DEF Types
<1>2. CASE Upgraded
  <2>1. writer' = writer
    BY <1>2 DEF Upgraded
  <2>2. downBuf' \in Bytes(ServerFrame) /\ fromServer' \in Bytes(ServerFrame)
    <3>1. PICK first \in Chunks(fromServer) \cup {<<>>} :
            downBuf' = first /\ fromServer' = After(fromServer, first)
      BY <1>2 DEF Upgraded
    <3>2. fromServer \in Bytes(ServerFrame)
      BY DEF Types, NetType
    <3>3. CASE first \in Chunks(fromServer)
      BY <3>1, <3>2, <3>3, BytesChunk
    <3>4. CASE first = <<>>
      <4>1. <<>> \in Bytes(ServerFrame)
        BY DEF Bytes
      <4>2. After(fromServer, <<>>) = SubSeq(fromServer, 1, Len(fromServer))
        BY DEF After
      <4>3. SubSeq(fromServer, 1, Len(fromServer)) = fromServer
        BY <3>2, SubSeqFull DEF Bytes
      <4> QED BY <4>1, <4>2, <4>3, <3>1, <3>2, <3>4
    <3> QED BY <3>1, <3>3, <3>4
  <2>3. PumpType' /\ NetType' /\ CtlType'
    BY <1>2, <2>2 DEF Upgraded, Types, PumpType, NetType, CtlType
  <2> QED BY <1>0, <2>1, <2>3, SameStep, WriterTypeStep DEF Types
<1> QED BY <1>1, <1>2 DEF RunSession

LEMMA UpPumpKeeps ==
    ASSUME Types, UpPump
    PROVE  Types' /\ WritersStep
<1>0. WriterType
  BY DEF Types
<1>1. CASE UpStart
  <2>1. WritersStep /\ up' \in {"over", "reading"} /\ done' \in BOOLEAN
    BY <1>1, UpNextStep DEF UpStart
  <2>2. PumpType' /\ NetType' /\ CtlType'
    BY <1>1, <2>1 DEF UpStart, netVars, ctlVars, Types, PumpType, NetType, CtlType
  <2> QED BY <1>0, <2>1, <2>2, WriterTypeStep DEF Types
<1>2. CASE UpReads
  <2>1. PICK c \in Chunks(fromSofia) : upBuf' = upBuf \o c /\ fromSofia' = After(fromSofia, c)
    BY <1>2 DEF UpReads
  <2>2. upBuf' \in Bytes(Nat) /\ fromSofia' \in Bytes(Nat)
    <3>1. fromSofia \in Bytes(Nat) /\ upBuf \in Bytes(Nat)
      BY DEF Types, PumpType, NetType
    <3>2. c \in Bytes(Nat) /\ After(fromSofia, c) \in Bytes(Nat)
      BY <3>1, BytesChunk
    <3> QED BY <2>1, <3>1, <3>2, BytesJoin
  <2>3. WritersStep /\ up' \in {"over", "split"} /\ done' \in BOOLEAN
    <3>1. CASE UpEnds
      BY <3>1, UpEndsStep
    <3>2. CASE up' = "split" /\ UNCHANGED <<done, writer>>
      BY <1>0, <3>2, SameStep DEF Types, PumpType
    <3> QED BY <1>2, <3>1, <3>2 DEF UpReads
  <2>4. PumpType' /\ NetType' /\ CtlType'
    BY <1>2, <2>2, <2>3 DEF UpReads, ctlVars, Types, PumpType, NetType, CtlType
  <2> QED BY <1>0, <2>3, <2>4, WriterTypeStep DEF Types
<1>3. CASE UpReadEnds
  <2>1. WritersStep /\ up' = "over" /\ done' = TRUE
    BY <1>3, UpEndsStep DEF UpReadEnds
  <2>2. PumpType' /\ NetType' /\ CtlType'
    BY <1>3, <2>1 DEF UpReadEnds, netVars, ctlVars, Types, PumpType, NetType, CtlType
  <2> QED BY <1>0, <2>1, <2>2, WriterTypeStep DEF Types
<1>4. CASE UpTakes
  <2> DEFINE s == Stripped(upBuf)
  <2>1. s \in Bytes(Nat)
    BY BytesStripped DEF Types, PumpType
  <2>2. Len(s) >= 2
    BY <1>4 DEF UpTakes, WholeMessage
  <2>3. Push("ws", [op |-> "text", of |-> s[1].of]) /\ upBuf' = SubSeq(s, 3, Len(s))
    BY <1>4 DEF UpTakes
  <2> HIDE DEF s
  <2>4. s[1].of \in Nat /\ upBuf' \in Bytes(Nat)
    BY <2>1, <2>2, <2>3, BytesRest
  <2>5. "ws" \in Writers /\ [op |-> "text", of |-> s[1].of] \in Item("ws")
    BY <2>4 DEF Writers, Item
  <2>6. WritersStep
    BY <1>0, <2>3, <2>5, PushStep
  <2>7. PumpType' /\ NetType' /\ CtlType'
    BY <1>4, <2>4 DEF UpTakes, netVars, ctlVars, Types, PumpType, NetType, CtlType
  <2> QED BY <1>0, <2>6, <2>7, WriterTypeStep DEF Types
<1>5. CASE UpSplitDone
  <2>1. WritersStep /\ up' \in {"over", "reading"} /\ done' \in BOOLEAN
    BY <1>5, UpNextStep DEF UpSplitDone
  <2>2. upBuf' \in Bytes(Nat)
    BY <1>5, BytesStripped DEF UpSplitDone, Types, PumpType
  <2>3. PumpType' /\ NetType' /\ CtlType'
    BY <1>5, <2>1, <2>2 DEF UpSplitDone, netVars, ctlVars, Types, PumpType, NetType, CtlType
  <2> QED BY <1>0, <2>1, <2>3, WriterTypeStep DEF Types
<1> QED BY <1>1, <1>2, <1>3, <1>4, <1>5 DEF UpPump

\* decode_frame takes a frame the server sent off the front.
LEMMA DrainTakes ==
    ASSUME Types, Drains
    PROVE  Frame \in ServerFrame /\ downBuf' \in Bytes(ServerFrame)
<1>1. downBuf \in Bytes(ServerFrame) /\ Len(downBuf) >= 2
  BY DEF Types, PumpType, Drains, WholeFrame
<1>2. downBuf[1].of \in ServerFrame /\ SubSeq(downBuf, 3, Len(downBuf)) \in Bytes(ServerFrame)
  BY <1>1, BytesRest
<1> QED BY <1>2 DEF Frame, Drains

LEMMA PayloadsType ==
    ASSUME Types, Frame \in ServerFrame
    PROVE  Payloads \in Seq(Nat)
<1>1. Frame.id \in Nat /\ frag \in Seq(Nat)
  BY DEF ServerFrame, Types, PumpType
<1> QED BY <1>1, AppendProperties DEF Payloads

LEMMA DrainKeeps ==
    ASSUME Types, Drain
    PROVE  Types' /\ WritersStep
<1>0. WriterType
  BY DEF Types
<1>1. CASE DrainBad \/ DrainTooLong
  <2>1. downBuf' \in Bytes(ServerFrame) /\ writer' = writer
    BY <1>1, DrainTakes DEF DrainBad, DrainTooLong
  <2>2. PumpType' /\ NetType' /\ CtlType'
    BY <1>1, <2>1 DEF DrainBad, DrainTooLong, Drains, DownReturns, CloseLocal, Types, PumpType, NetType, CtlType
  <2> QED BY <1>0, <2>1, <2>2, SameStep, WriterTypeStep DEF Types
<1>2. CASE DrainClose
  <2>1. downBuf' \in Bytes(ServerFrame) /\ "ws" \in Writers
    BY <1>2, DrainTakes DEF DrainClose, Writers
  <2>2. WritersStep
    BY <1>0, <1>2, <2>1, CloseIsItem, PushStep DEF DrainClose
  <2>3. PumpType' /\ NetType' /\ CtlType'
    BY <1>2, <2>1 DEF DrainClose, Drains, DownReturns, CloseLocal, Types, PumpType, NetType, CtlType
  <2> QED BY <1>0, <2>2, <2>3, WriterTypeStep DEF Types
<1>3. CASE DrainPing
  <2>1. downBuf' \in Bytes(ServerFrame) /\ Frame \in ServerFrame
    BY <1>3, DrainTakes DEF DrainPing
  <2>2. "ws" \in Writers /\ [op |-> "pong", of |-> Frame.id] \in Item("ws")
    BY <2>1 DEF Writers, Item, ServerFrame
  <2>3. WritersStep
    <3>1. CASE Frame.op = "ping"
      BY <1>0, <1>3, <2>2, <3>1, PushStep DEF DrainPing
    <3>2. CASE Frame.op # "ping"
      BY <1>0, <1>3, <3>2, SameStep DEF DrainPing
    <3> QED BY <3>1, <3>2
  <2>4. PumpType' /\ NetType' /\ CtlType'
    BY <1>3, <2>1 DEF DrainPing, Drains, Types, PumpType, NetType, CtlType
  <2> QED BY <1>0, <2>3, <2>4, WriterTypeStep DEF Types
<1>4. CASE DrainFragment
  <2>1. downBuf' \in Bytes(ServerFrame) /\ Payloads \in Seq(Nat) /\ writer' = writer
    BY <1>4, DrainTakes, PayloadsType DEF DrainFragment
  <2>2. Len(Payloads) <= MaxFragments
    <3>1. Len(Payloads) \in Nat
      BY <2>1, LenProperties
    <3> QED BY <1>4, <3>1, BridgeAssumption DEF DrainFragment, TooLong
  <2>3. PumpType' /\ NetType' /\ CtlType'
    BY <1>4, <2>1, <2>2 DEF DrainFragment, Drains, Types, PumpType, NetType, CtlType
  <2> QED BY <1>0, <2>1, <2>3, SameStep, WriterTypeStep DEF Types
<1>5. CASE DrainMessage
  <2>1. downBuf' \in Bytes(ServerFrame) /\ Payloads \in Seq(Nat)
    BY <1>5, DrainTakes, PayloadsType DEF DrainMessage
  <2>2. "tcp" \in Writers /\ Payloads \in Item("tcp")
    BY <2>1 DEF Writers, Item
  <2>3. WritersStep
    <3>1. CASE ToSet(Payloads) = {0}
      BY <1>0, <1>5, <3>1, SameStep DEF DrainMessage
    <3>2. CASE ToSet(Payloads) # {0}
      BY <1>0, <1>5, <2>2, <3>2, PushStep DEF DrainMessage
    <3> QED BY <3>1, <3>2
  <2>4. <<>> \in Seq(Nat) /\ Len(<<>>) <= MaxFragments
    BY BridgeAssumption
  <2>5. PumpType' /\ NetType' /\ CtlType'
    BY <1>5, <2>1, <2>4 DEF DrainMessage, Drains, Types, PumpType, NetType, CtlType
  <2> QED BY <1>0, <2>3, <2>5, WriterTypeStep DEF Types
<1>6. CASE DrainDone
  <2>1. PumpType' /\ NetType' /\ CtlType' /\ writer' = writer
    BY <1>6, ZenonT(60) DEF DrainDone, CloseLocal, Types, PumpType, NetType, CtlType
  <2> QED BY <1>0, <2>1, SameStep, WriterTypeStep DEF Types
<1> QED BY <1>1, <1>2, <1>3, <1>4, <1>5, <1>6 DEF Drain

LEMMA DownPumpKeeps ==
    ASSUME Types, DownPump
    PROVE  Types' /\ WritersStep
<1>0. WriterType
  BY DEF Types
<1>1. CASE Drain
  BY <1>1, DrainKeeps
<1>2. CASE DownReads
  <2>1. PICK c \in Chunks(fromServer) : downBuf' = downBuf \o c /\ fromServer' = After(fromServer, c)
    BY <1>2 DEF DownReads
  <2>2. downBuf' \in Bytes(ServerFrame) /\ fromServer' \in Bytes(ServerFrame)
    <3>1. fromServer \in Bytes(ServerFrame) /\ downBuf \in Bytes(ServerFrame)
      BY DEF Types, PumpType, NetType
    <3>2. c \in Bytes(ServerFrame) /\ After(fromServer, c) \in Bytes(ServerFrame)
      BY <3>1, BytesChunk
    <3> QED BY <2>1, <3>1, <3>2, BytesJoin
  <2>3. PumpType' /\ NetType' /\ CtlType' /\ writer' = writer
    BY <1>2, <2>2, ZenonT(60) DEF DownReads, DownReturns, CloseLocal, Types, PumpType, NetType, CtlType
  <2> QED BY <1>0, <2>3, SameStep, WriterTypeStep DEF Types
<1>3. CASE DownReadEnds
  <2>1. PumpType' /\ NetType' /\ CtlType' /\ writer' = writer
    BY <1>3 DEF DownReadEnds, DownReturns, CloseLocal, Types, PumpType, NetType, CtlType
  <2> QED BY <1>0, <2>1, SameStep, WriterTypeStep DEF Types
<1> QED BY <1>1, <1>2, <1>3 DEF DownPump

\* What happens around the bridge touches neither its pumps nor its writers.
LEMMA ServerSendsType ==
    ASSUME NetType, NEW f \in ServerFrame, NEW b \in Bytes(ServerFrame)
    PROVE  Append(srvSent, f) \in Seq(ServerFrame) /\ fromServer \o b \in Bytes(ServerFrame)
<1>1. srvSent \in Seq(ServerFrame) /\ fromServer \in Bytes(ServerFrame)
  BY DEF NetType
<1> QED BY <1>1, AppendProperties, BytesJoin

LEMMA OutsideKeeps ==
    ASSUME Types,
           \/ SofiaConnects \/ SofiaSends \/ SofiaShuts
           \/ \E s \in ServerFrames : ServerSends(s)
           \/ ServerGone \/ ServerAnswersClose \/ Drop
    PROVE  Types' /\ WritersStep
<1>0. WriterType /\ NetType
  BY DEF Types
<1>1. CASE SofiaConnects
  <2>1. PumpType' /\ NetType' /\ CtlType' /\ writer' = writer
    BY <1>1 DEF SofiaConnects, pumpVars, ctlVars, Types, PumpType, NetType, CtlType
  <2> QED BY <1>0, <2>1, SameStep, WriterTypeStep DEF Types
<1>2. CASE SofiaSends
  <2>1. PICK bytes \in {Halves(sofiaSent')}
                    \cup (IF "ping" \in Env THEN {<<Crlf>> \o Halves(sofiaSent')} ELSE {})
                    \cup (IF "huge" \in Env THEN {<<[of |-> 0, part |-> HugePart]>>} ELSE {}) :
         fromSofia' = fromSofia \o bytes
    BY <1>2 DEF SofiaSends
  <2>2. sofiaSent' \in Nat
    BY <1>0, <1>2 DEF SofiaSends, NetType
  <2>3. Halves(sofiaSent') \in Bytes(Nat)
    BY <2>2, HalvesType
  <2>4. <<Crlf>> \in Bytes(Nat) /\ <<[of |-> 0, part |-> HugePart]>> \in Bytes(Nat)
    BY DEF Crlf, Bytes, HugePart
  <2>5. <<Crlf>> \o Halves(sofiaSent') \in Bytes(Nat)
    BY <2>3, <2>4, BytesJoin
  <2>6. bytes \in Bytes(Nat)
    BY <2>1, <2>3, <2>4, <2>5
  <2>7. fromSofia' \in Bytes(Nat)
    BY <1>0, <2>1, <2>6, BytesJoin DEF NetType
  <2>8. PumpType' /\ NetType' /\ CtlType' /\ writer' = writer
    BY <1>2, <2>2, <2>7 DEF SofiaSends, Outside, pumpVars, Types, PumpType, NetType, CtlType
  <2> QED BY <1>0, <2>8, SameStep, WriterTypeStep DEF Types
<1>3. CASE SofiaShuts \/ ServerGone
  <2>1. PumpType' /\ NetType' /\ CtlType' /\ writer' = writer
    BY <1>3, ZenonT(30) DEF SofiaShuts, ServerGone, Outside, pumpVars, Types, PumpType, NetType, CtlType
  <2> QED BY <1>0, <2>1, SameStep, WriterTypeStep DEF Types
<1>4. CASE \E s \in ServerFrames : ServerSends(s)
  <2>1. PICK s \in ServerFrames : ServerSends(s)
    BY <1>4
  <2> DEFINE f == [op |-> s.op, fin |-> s.fin, id |-> IF s.blank THEN 0 ELSE Len(srvSent) + 1]
             b == IF s.op = "huge" THEN <<[of |-> f, part |-> HugePart]>> ELSE Halves(f)
  <2>2. f \in ServerFrame
    <3>1. Len(srvSent) \in Nat
      BY <1>0, LenProperties DEF NetType
    <3> QED BY <3>1, BridgeAssumption DEF ServerFrame
  <2>3. srvSent' = Append(srvSent, f) /\ fromServer' = fromServer \o b
    BY <2>1 DEF ServerSends
  <2>4. b \in Bytes(ServerFrame)
    <3>1. <<[of |-> f, part |-> HugePart]>> \in Bytes(ServerFrame)
      BY <2>2 DEF Bytes, HugePart
    <3> QED BY <2>2, <3>1, HalvesType
  <2> HIDE DEF f, b
  <2>5. srvSent' \in Seq(ServerFrame) /\ fromServer' \in Bytes(ServerFrame)
    BY <1>0, <2>2, <2>3, <2>4, ServerSendsType
  <2>6. PumpType' /\ NetType' /\ CtlType' /\ writer' = writer
    BY <2>1, <2>5, SMTT(30) DEF ServerSends, Outside, pumpVars, Types, PumpType, NetType, CtlType
  <2> QED BY <1>0, <2>6, SameStep, WriterTypeStep DEF Types
<1>5. CASE ServerAnswersClose
  <2> DEFINE f == [op |-> "close", fin |-> TRUE, id |-> 0]
  <2>1. f \in ServerFrame
    BY DEF ServerFrame
  <2>2. Halves(f) \in Bytes(ServerFrame)
    BY <2>1, HalvesType
  <2>3. CASE SrvClosed
    <3>1. /\ srv' = FALSE /\ UNCHANGED <<srvSent, fromServer>>
          /\ UNCHANGED <<cancelled, link, local, fromSofia, sofiaSent, pumpVars, accept, phase, writer>>
      BY <1>5, <2>3 DEF ServerAnswersClose, Outside
    <3>2. PumpType' /\ CtlType' /\ writer' = writer
      BY <3>1 DEF pumpVars, Types, PumpType, CtlType
    <3>3. NetType'
      BY <3>1 DEF Types, NetType
    <3> QED BY <1>0, <3>2, <3>3, SameStep, WriterTypeStep DEF Types
  <2>4. CASE ~SrvClosed
    <3>1. /\ srvSent' = Append(srvSent, f) /\ fromServer' = fromServer \o Halves(f)
          /\ UNCHANGED <<srv, cancelled, link, local, fromSofia, sofiaSent, pumpVars, accept, phase, writer>>
      BY <1>5, <2>4 DEF ServerAnswersClose, Outside
    <3> HIDE DEF f
    <3>2. srvSent' \in Seq(ServerFrame) /\ fromServer' \in Bytes(ServerFrame)
      BY <1>0, <2>1, <2>2, <3>1, ServerSendsType
    <3>3. PumpType' /\ CtlType' /\ writer' = writer
      BY <3>1 DEF pumpVars, Types, PumpType, CtlType
    <3>4. NetType'
      BY <3>1, <3>2 DEF Types, NetType
    <3> QED BY <1>0, <3>3, <3>4, SameStep, WriterTypeStep DEF Types
  <2> QED BY <2>3, <2>4
<1>6. CASE Drop
  <2>1. PumpType' /\ NetType' /\ CtlType' /\ writer' = writer
    BY <1>6 DEF Drop, Outside, netVars, pumpVars, Types, PumpType, NetType, CtlType
  <2> QED BY <1>0, <2>1, SameStep, WriterTypeStep DEF Types
<1> QED BY <1>1, <1>2, <1>3, <1>4, <1>5, <1>6

LEMMA TaskKeeps ==
    ASSUME Types, NEW w \in Writers, WriterTask(w)
    PROVE  Types' /\ WritersStep
<1>1. WritersStep /\ WriterType'
  BY TaskStep, WriterTypeStep DEF Types
<1>2. UNCHANGED <<pumpVars, netVars, ctlVars>>
  BY DEF WriterTask, WriterStarts, WriterWrites, WriterFails
<1>3. PumpType' /\ NetType' /\ CtlType'
  BY <1>2 DEF pumpVars, netVars, ctlVars, Types, PumpType, NetType, CtlType
<1> QED BY <1>1, <1>3 DEF Types

-----------------------------------------------------------------------------
(***************************************************************************)
(* Theorems.                                                               *)
(***************************************************************************)
LEMMA InitTypes == Init => Types /\ \A w \in Writers : Fifo(writer[w])
<1> SUFFICES ASSUME Init PROVE Types /\ \A w \in Writers : Fifo(writer[w])
  OBVIOUS
<1>1. \A w \in Writers : writer[w] = NewWriter
  BY DEF Init
<1>2. \A S : NewWriter \in WriterOf(S)
  BY DEF NewWriter, WriterOf
<1>3. WriterType
  <2>1. writer = [w \in Writers |-> writer[w]]
    BY DEF Init
  <2>2. \A w \in Writers : writer[w] \in WriterOf(Item(w))
    BY <1>1, <1>2
  <2> QED BY <2>1, <2>2 DEF WriterType
<1>4. \A S : <<>> \in Bytes(S)
  BY DEF Bytes
<1>5. PumpType /\ NetType /\ CtlType
  <2>1. <<>> \in Seq(Nat) /\ Len(<<>>) <= MaxFragments /\ <<>> \in Seq(ServerFrame)
    BY BridgeAssumption
  <2>2. PumpType
    BY <1>4, <2>1 DEF Init, PumpType
  <2>3. NetType
    BY <1>4, <2>1 DEF Init, NetType
  <2>4. CtlType
    BY DEF Init, CtlType
  <2> QED BY <2>2, <2>3, <2>4
<1>6. Fifo(NewWriter)
  <2>1. /\ NewWriter.tasks = <<>> /\ NewWriter.queue = <<>> /\ NewWriter.busy = FALSE
        /\ NewWriter.sent = <<>> /\ NewWriter.got = <<>>
    BY DEF NewWriter
  <2>2. Held(NewWriter) = <<>>
    BY <2>1 DEF Held
  <2>3. Len(Held(NewWriter)) <= 1 /\ NewWriter.sent = (NewWriter.got \o Held(NewWriter)) \o NewWriter.queue
    BY <2>1, <2>2
  <2> QED BY <2>1, <2>3 DEF Fifo
<1> QED BY <1>1, <1>3, <1>5, <1>6 DEF Types

LEMMA NextKeeps ==
    ASSUME Types, [Next]_vars
    PROVE  Types' /\ WritersStep
<1>1. CASE UNCHANGED vars
  <2>1. PumpType' /\ NetType' /\ CtlType' /\ writer' = writer
    BY <1>1 DEF vars, pumpVars, netVars, ctlVars, Types, PumpType, NetType, CtlType
  <2> QED BY <2>1, SameStep, WriterTypeStep DEF Types
<1>2. CASE Next
  BY <1>2, TaskKeeps, UpPumpKeeps, DownPumpKeeps, RunSessionKeeps, OutsideKeeps DEF Next
<1> QED BY <1>1, <1>2

\* The bridge's state keeps its types, and a fragmented message its limit
\* (MAX_WS_MESSAGE), whatever the server and sofia send.
THEOREM TypeCorrect == Spec => []TypeOK
<1>1. Init => Types
  BY InitTypes
<1>2. Types /\ [Next]_vars => Types'
  BY NextKeeps
<1>3. Types => TypeOK
  BY TypesOK
<1> QED BY <1>1, <1>2, <1>3, PTL DEF Spec

\* What makes a Writer work: its one task, its flag and its queue agree.
WritersInv == Types /\ \A w \in Writers : Fifo(writer[w])

LEMMA WritersInvariant == Spec => []WritersInv
<1>1. Init => WritersInv
  BY InitTypes DEF WritersInv
<1>2. WritersInv /\ [Next]_vars => WritersInv'
  <2> SUFFICES ASSUME WritersInv, [Next]_vars PROVE WritersInv'
    OBVIOUS
  <2>1. Types' /\ WritersStep
    BY NextKeeps DEF WritersInv
  <2>2. \A w \in Writers : Fifo(writer'[w])
    BY <2>1, StepIsPipe DEF WritersInv, Types, WriterType, WritersStep
  <2>3. \A w \in Writers : Fifo(writer[w])'
    BY <2>2 DEF Fifo, Held
  <2> QED BY <2>1, <2>3 DEF WritersInv
<1> QED BY <1>1, <1>2, PTL DEF Spec

\* Both Writers are FIFO pipes: every step of the bridge is a step of Pipe or none, so
\* no message is lost, doubled, overtaken or refused as pending before the stream breaks.
THEOREM WritersImplementPipe == Spec => WritersArePipes
<1>1. Init => WsPipe!Init /\ TcpPipe!Init
  BY DEF Init, NewWriter, Writers, WsPipe!Init, TcpPipe!Init
<1>2. WritersInv /\ [Next]_vars => [WsPipe!Next]_(WsPipe!pipeVars) /\ [TcpPipe!Next]_(TcpPipe!pipeVars)
  <2> SUFFICES ASSUME WritersInv, [Next]_vars
               PROVE  [WsPipe!Next]_(WsPipe!pipeVars) /\ [TcpPipe!Next]_(TcpPipe!pipeVars)
    OBVIOUS
  <2>1. \A w \in Writers :
            LET r == writer[w]
                s == writer'[w]
            IN  \/ s.sent = r.sent /\ s.got = r.got /\ s.cut = r.cut
                \/ /\ Len(s.sent) = Len(r.sent) + 1 /\ SubSeq(s.sent, 1, Len(r.sent)) = r.sent
                   /\ s.got = r.got /\ s.cut = r.cut
                \/ /\ ~r.cut /\ Len(r.got) < Len(r.sent)
                   /\ s.got = Append(r.got, r.sent[Len(r.got) + 1])
                   /\ s.sent = r.sent /\ s.cut = r.cut
                \/ s.cut = TRUE /\ s.sent = r.sent /\ s.got = r.got
    <3>1. WritersStep /\ Types
      BY NextKeeps DEF WritersInv
    <3>2. \A w \in Writers : /\ writer[w] \in WriterOf(Item(w)) /\ Fifo(writer[w])
                             /\ Step(writer[w], writer'[w], Item(w))
      BY <3>1 DEF WritersInv, Types, WriterType, WritersStep
    <3> QED BY <3>2, StepIsPipe
  <2>2. "ws" \in Writers /\ "tcp" \in Writers
    BY DEF Writers
  <2>3. [WsPipe!Next]_(WsPipe!pipeVars)
    BY <2>1, <2>2 DEF WsPipe!Next, WsPipe!pipeVars, WsPipe!Send, WsPipe!Deliver, WsPipe!Cut
  <2>4. [TcpPipe!Next]_(TcpPipe!pipeVars)
    BY <2>1, <2>2 DEF TcpPipe!Next, TcpPipe!pipeVars, TcpPipe!Send, TcpPipe!Deliver, TcpPipe!Cut
  <2> QED BY <2>3, <2>4
<1> QED BY <1>1, <1>2, WritersInvariant, PTL DEF Spec, WritersArePipes, WsPipe!Spec, TcpPipe!Spec
=============================================================================
