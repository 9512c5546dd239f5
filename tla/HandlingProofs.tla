---------------------------- MODULE HandlingProofs ----------------------------
(***************************************************************************)
(* Proofs about the way of one request through the server (MCHandling).    *)
(*                                                                         *)
(* What the handler does with its ServerContext: ContextIInv says of the   *)
(* context between two calls that its wire is a head and a body that fits  *)
(* it, and of an open stream how much of the body it wrote.  The           *)
(* operations call each other, so each has a lemma that says what it makes *)
(* of a context from which a response can start (Startable), and the       *)
(* actions follow from these.  Looping says what holds between two steps   *)
(* of the loops over the interceptors, however deep they nest.             *)
(*                                                                         *)
(* Which server gets the request: RouterIInv keeps, for each request, that *)
(* the log has an entry since it came in which its server was the right    *)
(* one.                                                                    *)
(*                                                                         *)
(* What a WebSocket session makes of messages: SessionIInv goes through    *)
(* the frames on their way and says of every place between two of them     *)
(* how much of which message is over there (Flow).                         *)
(***************************************************************************)
EXTENDS MCHandling, QueueLemmas, FiniteSetTheorems

Statuses == {200, 206, 400, 403, 404, 416, 500}
Sizes == Nat \cup {Unset, Junk}
Registered == [id : Nat, kind : Kinds]
Called == [id : Nat, kind : Kinds, early : BOOLEAN]
Spans == [begin : Int, end : Int, len : Int]
Heads == {"head"} \X Statuses \X Sizes \X BOOLEAN \X Spans
Pieces == {"plain", "chunk", "final"} \X Nat \X Nat
Contexts ==
  [sent : BOOLEAN, status : Statuses, length : Sizes, chunked : BOOLEAN,
   span : Spans, queue : Seq(Registered), ran : Seq(Called), wire : Seq(Heads \cup Pieces),
   threw : BOOLEAN]

HeadOf(c) == c.wire[1]
BodyOf(c) == Tail(c.wire)
RanIn(c, kind) == \E k \in Range(c.ran) : k.kind = kind

Wired(c) ==
  IF c.sent THEN c.wire # <<>> /\ HeadOf(c) \in Heads /\ BodyOf(c) \in Seq(Pieces)
            ELSE c.wire = <<>>

(* One that answers, and after it one that stops.                          *)
StoppedInside(r, j) ==
  \E k \in DOMAIN r : k < j /\ r[k].kind = "stop"
    /\ \E a \in DOMAIN r : a < k /\ r[a].kind = "answer"

Timely(r) == \A j \in DOMAIN r : r[j].early \/ StoppedInside(r, j)

InOrder(c, n) ==
  /\ \A j, k \in DOMAIN c.ran : j < k => c.ran[j].id < c.ran[k].id
  /\ \A j \in DOMAIN c.ran, k \in DOMAIN c.queue : c.ran[j].id < c.queue[k].id
  /\ \A j, k \in DOMAIN c.queue : j < k => c.queue[j].id < c.queue[k].id
  /\ \A j \in DOMAIN c.ran : c.ran[j].id < n
  /\ Timely(c.ran)
  /\ \A k \in DOMAIN c.queue : c.queue[k].id < n

(* A token more.                                                           *)
LEMMA LongerWire ==
  ASSUME NEW S, NEW w \in Seq(S), w # <<>>, NEW t \in S
  PROVE  /\ Append(w, t) \in Seq(S) /\ Append(w, t) # <<>> /\ Append(w, t)[1] = w[1]
         /\ Tail(Append(w, t)) = Append(Tail(w), t)
<1>1. Len(w) \in Nat /\ Len(w) > 0 /\ Append(w, t) \in Seq(S)
      /\ Len(Append(w, t)) = Len(w) + 1
  BY EmptySeq, LenProperties, AppendProperties
<1>2. /\ \A i \in 1 .. Len(w) : Append(w, t)[i] = w[i]
      /\ Append(w, t)[Len(w) + 1] = t
  BY <1>1, AppendProperties
<1>3. Append(w, t) # <<>> /\ 1 \in 1 .. Len(w)
  BY <1>1
<1>4. /\ Tail(w) \in Seq(S) /\ Len(Tail(w)) = Len(w) - 1
      /\ \A i \in 1 .. Len(w) - 1 : Tail(w)[i] = w[i + 1]
  BY <1>1, HeadTailProperties
<1>5. PICK a : a = Append(w, t)
  BY Zenon
<1>6. /\ Tail(a) \in Seq(S) /\ Len(Tail(a)) = Len(w)
      /\ \A i \in 1 .. Len(w) : Tail(a)[i] = a[i + 1]
  BY <1>1, <1>3, <1>5, HeadTailProperties
<1>7. PICK b : b = Tail(w)
  BY Zenon
<1>8. /\ Append(b, t) \in Seq(S) /\ Len(Append(b, t)) = Len(w)
      /\ \A i \in 1 .. Len(w) - 1 : Append(b, t)[i] = b[i]
      /\ Append(b, t)[Len(w)] = t
  BY <1>1, <1>4, <1>7, AppendProperties
<1>9. \A i \in 1 .. Len(w) : Tail(a)[i] = Append(b, t)[i]
  <2> SUFFICES ASSUME NEW i \in 1 .. Len(w) PROVE Tail(a)[i] = Append(b, t)[i]
    BY Zenon
  <2>1. CASE i = Len(w)
    BY <1>1, <1>2, <1>5, <1>6, <1>8, <2>1
  <2>2. CASE i # Len(w)
    <3>1. i \in 1 .. Len(w) - 1 /\ i + 1 \in 1 .. Len(w)
      BY <1>1, <2>2
    <3> QED BY <1>2, <1>4, <1>5, <1>6, <1>7, <1>8, <3>1
  <2> QED BY <2>1, <2>2, Zenon
<1>10. Tail(a) = Append(b, t)
  BY <1>6, <1>8, <1>9, SeqEqual, Zenon
<1> QED BY <1>1, <1>2, <1>3, <1>5, <1>7, <1>10

(* d is c but for the wire.                                                *)
SameButWire(c, d) ==
  /\ d.sent = c.sent /\ d.status = c.status /\ d.length = c.length /\ d.queue = c.queue
  /\ d.chunked = c.chunked /\ d.span = c.span /\ d.ran = c.ran /\ d.threw = c.threw

(* A token written after the head.                                         *)
LEMMA PutIs ==
  ASSUME NEW c \in Contexts, c.sent, Wired(c), NEW t \in Pieces
  PROVE  /\ Put(c, t) \in Contexts /\ SameButWire(c, Put(c, t)) /\ Wired(Put(c, t))
         /\ HeadOf(Put(c, t)) = HeadOf(c) /\ BodyOf(Put(c, t)) = Append(BodyOf(c), t)
<1> DEFINE w == c.wire
           d == Put(c, t)
           S == Heads \cup Pieces
<1>1. w \in Seq(S) /\ w # <<>> /\ HeadOf(c) \in Heads /\ BodyOf(c) \in Seq(Pieces)
  BY DEF Contexts, Wired
<1> HIDE DEF S
<1>2. /\ Append(w, t) \in Seq(S) /\ Append(w, t) # <<>> /\ Append(w, t)[1] = w[1]
      /\ Tail(Append(w, t)) = Append(Tail(w), t)
  <2> HIDE DEF w
  <2>1. t \in S
    BY DEF S
  <2> QED BY <1>1, <2>1, LongerWire
<1>3. d.wire = Append(w, t) /\ SameButWire(c, d)
  BY Zenon DEF Put, SameButWire, Contexts
<1>4. d \in Contexts
  <2>1. PICK v : v = Append(w, t)
    BY Zenon
  <2>2. [c EXCEPT !.wire = v] \in Contexts
    BY <1>2, <2>1, Zenon DEF Contexts, S
  <2> QED BY <2>1, <2>2 DEF Put
<1>5. HeadOf(d) = HeadOf(c) /\ BodyOf(d) = Append(BodyOf(c), t)
  BY <1>2, <1>3 DEF HeadOf, BodyOf
<1>6. BodyOf(d) \in Seq(Pieces)
  BY <1>1, <1>5, AppendProperties
<1> HIDE DEF d
<1>7. Wired(d)
  BY <1>1, <1>2, <1>3, <1>5, <1>6 DEF Wired, SameButWire
<1> QED BY <1>3, <1>4, <1>5, <1>7 DEF d

(* The head written.                                                       *)
LEMMA HeadPut ==
  ASSUME NEW c \in Contexts, NEW w \in Seq(Heads \cup Pieces)
  PROVE  [c EXCEPT !.sent = TRUE, !.wire = w] \in Contexts
<1>1. [c EXCEPT !.sent = TRUE] \in Contexts
  BY Zenon DEF Contexts
<1>2. PICK d : d = [c EXCEPT !.sent = TRUE]
  BY Zenon
<1>3. [d EXCEPT !.wire = w] \in Contexts
  BY <1>1, <1>2, Zenon DEF Contexts
<1>4. [c EXCEPT !.sent = TRUE, !.wire = w] = [d EXCEPT !.wire = w]
  BY <1>2
<1> QED BY <1>3, <1>4

(* c with a head.                                                          *)
LEMMA HeadIs ==
  ASSUME NEW c \in Contexts, c.wire = <<>>
  PROVE  LET d == WriteHead(c)
         IN /\ d \in Contexts /\ d.sent /\ Wired(d) /\ BodyOf(d) = <<>>
            /\ HeadOf(d) = <<"head", c.status, c.length, c.chunked, c.span>>
            /\ d.status = c.status /\ d.length = c.length /\ d.queue = c.queue
            /\ d.chunked = c.chunked /\ d.span = c.span /\ d.ran = c.ran /\ d.threw = c.threw
<1>1. PICK h : h = <<"head", c.status, c.length, c.chunked, c.span>>
  BY Zenon
<1>2. h \in Heads
  BY <1>1 DEF Heads, Contexts
<1>3. PICK v : v = Append(c.wire, h)
  BY Zenon
<1>4. v = <<h>> /\ v \in Seq(Heads \cup Pieces)
  <2>1. h \in Heads \cup Pieces
    BY <1>2
  <2> QED BY <1>3, <2>1
<1>5. [c EXCEPT !.sent = TRUE, !.wire = v] \in Contexts
  BY <1>4, HeadPut, Zenon
<1>6. PICK d : d = [c EXCEPT !.sent = TRUE, !.wire = v]
  BY Zenon
<1>7. WriteHead(c) = d
  BY <1>1, <1>3, <1>6 DEF WriteHead
<1>8. /\ d.sent /\ d.wire = v /\ d.status = c.status /\ d.length = c.length
      /\ d.queue = c.queue /\ d.chunked = c.chunked /\ d.span = c.span /\ d.ran = c.ran
      /\ d.threw = c.threw
  BY <1>6 DEF Contexts
<1>9. HeadOf(d) = h /\ BodyOf(d) = <<>> /\ d.wire # <<>>
  BY <1>4, <1>8 DEF HeadOf, BodyOf
<1>10. Wired(d)
  BY <1>2, <1>8, <1>9, EmptySeq DEF Wired
<1> QED BY <1>1, <1>5, <1>6, <1>7, <1>8, <1>9, <1>10

(* What the calls of interceptors make of c, in d, while loops of them     *)
(* have not ended.                                                         *)
HeadFits(c, d) ==
  HeadOf(d)[2] \in {c.status, 403} /\ HeadOf(d)[4] = c.chunked /\ HeadOf(d)[5] = c.span

Unanswered(c, d) ==
  /\ d.length = c.length
  /\ d.sent => /\ ~d.threw /\ BodyOf(d) = <<>>
               /\ HeadOf(d) = <<"head", d.status, c.length, c.chunked, c.span>>

InsideLoop(d) == d.queue = <<>> \/ StoppedInside(d.ran, Len(d.ran) + 1)

Looping(c, d, loops, n) ==
  /\ d \in Contexts /\ loops \in Nat
  /\ Wired(d) /\ InOrder(d, n) /\ d.chunked = c.chunked /\ d.span = c.span
  /\ d.status \in {c.status, 403}
  /\ d.threw => RanIn(d, "throw")
  /\ d.sent => HeadFits(c, d)
  /\ d.sent \/ loops > 0
  /\ loops > 1 => RanIn(d, "answer")
  /\ d.sent /\ loops > 0 => InsideLoop(d) /\ RanIn(d, "answer")
  /\ ~RanIn(d, "answer") => Unanswered(c, d)
  /\ \A kind : RanIn(c, kind) => RanIn(d, kind)

(* A loop that ended: the head, if there is none, and the text.            *)
LEMMA LoopEnds ==
  ASSUME NEW n \in Nat, NEW c \in Contexts, NEW i, Looping(c, i.c, i.loops, n),
         i.loops > 0, ~i.c.threw, i.loops > 1 => InsideLoop(i.c)
  PROVE  /\ EndLoop(i) = [c |-> EndLoop(i).c, loops |-> i.loops - 1]
         /\ Looping(c, EndLoop(i).c, i.loops - 1, n)
         /\ EndLoop(i).c.queue = i.c.queue
<1>0. PICK b, m : b = i.c /\ m = i.loops
  BY Zenon
<1>1. /\ b \in Contexts /\ m \in Nat /\ m > 0 /\ ~b.threw /\ (m > 1 => InsideLoop(b))
      /\ Wired(b) /\ InOrder(b, n) /\ b.chunked = c.chunked /\ b.span = c.span
      /\ b.status \in {c.status, 403}
      /\ b.sent => HeadFits(c, b)
      /\ m > 1 => RanIn(b, "answer")
      /\ b.sent => RanIn(b, "answer")
      /\ ~RanIn(b, "answer") => b.length = c.length
      /\ \A kind : RanIn(c, kind) => RanIn(b, kind)
  BY <1>0 DEF Looping, Unanswered
<1>2. PICK g : g = IF b.sent THEN b ELSE WriteHead(b)
  OBVIOUS
<1>3. /\ g \in Contexts /\ g.sent /\ Wired(g)
      /\ g.status = b.status /\ g.length = b.length /\ g.queue = b.queue
      /\ g.chunked = b.chunked /\ g.span = b.span /\ g.ran = b.ran /\ g.threw = b.threw
      /\ HeadFits(c, g)
      /\ ~b.sent => /\ BodyOf(g) = <<>>
                    /\ HeadOf(g) = <<"head", b.status, b.length, b.chunked, b.span>>
  <2>1. CASE b.sent
    BY <1>1, <1>2, <2>1
  <2>2. CASE ~b.sent
    <3>1. g = WriteHead(b) /\ b.wire = <<>>
      BY <1>1, <1>2, <2>2 DEF Wired
    <3>2. /\ g \in Contexts /\ g.sent /\ Wired(g) /\ BodyOf(g) = <<>>
          /\ HeadOf(g) = <<"head", b.status, b.length, b.chunked, b.span>>
          /\ g.status = b.status /\ g.length = b.length /\ g.queue = b.queue
          /\ g.chunked = b.chunked /\ g.span = b.span /\ g.ran = b.ran /\ g.threw = b.threw
      BY <1>1, <3>1, HeadIs
    <3>3. HeadFits(c, g)
      <4>1. PICK h : h = HeadOf(g)
        OBVIOUS
      <4>2. h[2] = b.status /\ h[4] = b.chunked /\ h[5] = b.span
        BY <3>2, <4>1
      <4> QED BY <1>1, <4>1, <4>2 DEF HeadFits
    <3> QED BY <2>2, <3>2, <3>3
  <2> QED BY <2>1, <2>2
<1>4. PICK d : d = IF m > 1 THEN Put(g, <<"plain", 0, PageSize>>) ELSE g
  OBVIOUS
<1>5. EndLoop(i) = [c |-> d, loops |-> m - 1]
  BY <1>0, <1>2, <1>4, Zenon DEF EndLoop
<1>6. /\ d \in Contexts /\ SameButWire(g, d) /\ Wired(d) /\ HeadOf(d) = HeadOf(g)
      /\ m > 1 \/ BodyOf(d) = BodyOf(g)
  <2>1. CASE m > 1
    <3>1. PICK t : t = <<"plain", 0, PageSize>>
      BY Zenon
    <3>2. t \in Pieces
      BY <3>1, SizesAssumption DEF Pieces
    <3>3. d = Put(g, t)
      BY <1>4, <2>1, <3>1
    <3> QED BY <1>3, <2>1, <3>2, <3>3, PutIs
  <2>2. CASE ~(m > 1)
    <3>1. d = g
      BY <1>4, <2>2
    <3> QED BY <1>3, <3>1 DEF SameButWire
  <2> QED BY <2>1, <2>2
<1>7. /\ d.sent /\ d.status = b.status /\ d.length = b.length /\ d.queue = b.queue
      /\ d.chunked = b.chunked /\ d.span = b.span /\ d.ran = b.ran /\ ~d.threw
  BY <1>1, <1>3, <1>6 DEF SameButWire
<1>8. InOrder(d, n) /\ \A kind : RanIn(d, kind) <=> RanIn(b, kind)
  BY <1>1, <1>7 DEF InOrder, RanIn
<1>9. HeadFits(c, d)
  BY <1>3, <1>6 DEF HeadFits
<1>10. m - 1 \in Nat /\ (m - 1 > 0 => m > 1)
  BY <1>1
<1>11. m - 1 > 0 => InsideLoop(d) /\ RanIn(d, "answer")
  BY <1>1, <1>7, <1>8, <1>10 DEF InsideLoop
<1>12. ~RanIn(d, "answer") => Unanswered(c, d)
  <2> SUFFICES ASSUME ~RanIn(d, "answer") PROVE Unanswered(c, d)
    OBVIOUS
  <2>1. ~b.sent /\ ~(m > 1) /\ b.length = c.length
    BY <1>1, <1>8
  <2>2. BodyOf(d) = <<>> /\ HeadOf(d) = <<"head", b.status, b.length, b.chunked, b.span>>
    BY <1>3, <1>6, <2>1
  <2> QED BY <1>1, <1>7, <2>1, <2>2 DEF Unanswered
<1>13. Looping(c, d, m - 1, n)
  <2>1. m - 1 > 1 => RanIn(d, "answer")
    BY <1>10, <1>11
  <2>2. d.chunked = c.chunked /\ d.span = c.span /\ d.status \in {c.status, 403}
    BY <1>1, <1>7
  <2>3. \A kind : RanIn(c, kind) => RanIn(d, kind)
    BY <1>1, <1>8
  <2> QED BY <1>6, <1>7, <1>8, <1>9, <1>10, <1>11, <1>12, <2>1, <2>2, <2>3 DEF Looping
<1>14. EndLoop(i).c = d
  BY <1>5
<1> QED BY <1>0, <1>5, <1>7, <1>13, <1>14

(* The sequence of what ran, with one more.                                *)
LEMMA OneMoreRan ==
  ASSUME NEW r \in Seq(Called), NEW x \in Called
  PROVE  LET s == Append(r, x)
             N == Len(r)
         IN /\ s \in Seq(Called) /\ N \in Nat /\ Len(s) = N + 1 /\ s[N + 1] = x
            /\ DOMAIN r = 1 .. N /\ DOMAIN s = 1 .. N + 1
            /\ \A j \in 1 .. N : s[j] = r[j]
            /\ \A j \in 1 .. N + 1 : StoppedInside(r, j) => StoppedInside(s, j)
            /\ StoppedInside(r, N + 1) => StoppedInside(s, N + 2)
<1>1. PICK s : s = Append(r, x)
  BY Zenon
<1>2. PICK N : N = Len(r)
  BY Zenon
<1>3. /\ s \in Seq(Called) /\ N \in Nat /\ Len(s) = N + 1 /\ s[N + 1] = x
      /\ \A j \in 1 .. N : s[j] = r[j]
  BY <1>1, <1>2, AppendProperties, LenProperties
<1>4. DOMAIN r = 1 .. N /\ DOMAIN s = 1 .. N + 1
  BY <1>2, <1>3, LenProperties
<1>5. \A k \in 1 .. N : k \in 1 .. N + 1
  BY <1>3
<1>6. \A j \in 1 .. N + 1 : StoppedInside(r, j) => StoppedInside(s, j)
  BY <1>3, <1>4, <1>5 DEF StoppedInside
<1>7. StoppedInside(r, N + 1) => StoppedInside(s, N + 2)
  <2> SUFFICES ASSUME StoppedInside(r, N + 1) PROVE StoppedInside(s, N + 2)
    OBVIOUS
  <2>1. PICK k \in 1 .. N : /\ k < N + 1 /\ r[k].kind = "stop"
                            /\ \E a \in 1 .. N : a < k /\ r[a].kind = "answer"
    BY <1>4 DEF StoppedInside
  <2>2. PICK a \in 1 .. N : a < k /\ r[a].kind = "answer"
    BY <2>1
  <2>3. k < N + 2
    BY <1>3
  <2> QED BY <1>3, <1>4, <1>5, <2>1, <2>2, <2>3 DEF StoppedInside
<1> QED BY <1>1, <1>2, <1>3, <1>4, <1>6, <1>7

(* The front of the queue is called.                                       *)
LEMMA FrontPopped ==
  ASSUME NEW n \in Nat, NEW c \in Contexts, NEW b \in Contexts, InOrder(b, n),
         b.queue # <<>>, b.sent => StoppedInside(b.ran, Len(b.ran) + 1)
  PROVE  LET d == Pop(b)
             x == Last(d.ran)
         IN /\ d \in Contexts /\ InOrder(d, n) /\ Len(d.queue) = Len(b.queue) - 1
            /\ d.sent = b.sent /\ d.wire = b.wire /\ d.status = b.status
            /\ d.length = b.length /\ d.chunked = b.chunked /\ d.span = b.span
            /\ d.threw = b.threw
            /\ x.kind \in Kinds /\ RanIn(d, x.kind)
            /\ \A kind : RanIn(b, kind) => RanIn(d, kind)
            /\ \A kind : RanIn(d, kind) => RanIn(b, kind) \/ kind = x.kind
            /\ b.sent => StoppedInside(d.ran, Len(d.ran) + 1)
            /\ RanIn(b, "answer") /\ x.kind = "stop" => StoppedInside(d.ran, Len(d.ran) + 1)
<1>0. PICK q, r : q = b.queue /\ r = b.ran
  BY Zenon
<1>1. /\ q \in Seq(Registered) /\ r \in Seq(Called) /\ b.sent \in BOOLEAN /\ q # <<>>
      /\ StoppedInside(r, Len(r) + 1) \/ ~b.sent
  BY <1>0 DEF Contexts
<1>2. PICK N, L : N = Len(r) /\ L = Len(q)
  BY Zenon
<1>3. PICK t : t = Tail(q)
  BY Zenon
<1>4. /\ t \in Seq(Registered) /\ L \in Nat /\ L > 0 /\ Len(t) = L - 1
      /\ DOMAIN q = 1 .. L /\ DOMAIN t = 1 .. L - 1
      /\ \A k \in 1 .. L - 1 : t[k] = q[k + 1]
  BY <1>1, <1>2, <1>3, EmptySeq, LenProperties, HeadTailProperties
<1>5. 1 \in 1 .. L /\ q[1] \in Registered /\ q[1].id \in Nat /\ q[1].kind \in Kinds
  <2>1. 1 \in 1 .. L
    BY <1>4
  <2>2. q[1] \in Registered
    BY <1>1, <1>2, <2>1, ElementOfSeq
  <2> QED BY <2>1, <2>2 DEF Registered
<1>6. PICK x : x = [id |-> q[1].id, kind |-> q[1].kind, early |-> ~b.sent]
  BY Zenon
<1>7. x \in Called /\ x.id = q[1].id /\ x.kind = q[1].kind /\ x.early = ~b.sent
  BY <1>1, <1>5, <1>6 DEF Called
<1>8. PICK s : s = Append(r, x)
  BY Zenon
<1>9. /\ s \in Seq(Called) /\ N \in Nat /\ Len(s) = N + 1 /\ s[N + 1] = x
      /\ DOMAIN r = 1 .. N /\ DOMAIN s = 1 .. N + 1
      /\ \A j \in 1 .. N : s[j] = r[j]
      /\ \A j \in 1 .. N + 1 : StoppedInside(r, j) => StoppedInside(s, j)
      /\ StoppedInside(r, N + 1) => StoppedInside(s, N + 2)
  <2> HIDE DEF Called
  <2> QED BY <1>1, <1>2, <1>7, <1>8, OneMoreRan
<1>10. PICK d : d = [b EXCEPT !.queue = t, !.ran = s]
  BY Zenon
<1>11. Pop(b) = d
  BY <1>0, <1>3, <1>6, <1>8, <1>10 DEF Pop, Take
<1>12. /\ d \in Contexts /\ d.queue = t /\ d.ran = s
       /\ d.sent = b.sent /\ d.wire = b.wire /\ d.status = b.status
       /\ d.length = b.length /\ d.chunked = b.chunked /\ d.span = b.span
       /\ d.threw = b.threw
  BY <1>4, <1>9, <1>10 DEF Contexts
<1>13. Last(d.ran) = x
  BY <1>9, <1>12 DEF Last
<1>14. /\ \A j, k \in 1 .. N : j < k => r[j].id < r[k].id
       /\ \A j \in 1 .. N, k \in 1 .. L : r[j].id < q[k].id
       /\ \A j, k \in 1 .. L : j < k => q[j].id < q[k].id
       /\ \A j \in 1 .. N : r[j].id < n
       /\ \A k \in 1 .. L : q[k].id < n
       /\ \A j \in 1 .. N : r[j].early \/ StoppedInside(r, j)
  BY <1>0, <1>4, <1>9, Zenon DEF InOrder, Timely
<1>15. /\ \A j \in 1 .. N + 1 : j \in 1 .. N \/ j = N + 1
       /\ \A j \in 1 .. N : j \in 1 .. N + 1
       /\ \A k \in 1 .. L - 1 : k + 1 \in 1 .. L /\ 1 < k + 1
  BY <1>4, <1>9
<1>16. InOrder(d, n)
  <2>1. \A j, k \in 1 .. N + 1 : j < k => s[j].id < s[k].id
    <3> SUFFICES ASSUME NEW j \in 1 .. N + 1, NEW k \in 1 .. N + 1, j < k
                 PROVE  s[j].id < s[k].id
      OBVIOUS
    <3>1. j \in 1 .. N
      BY <1>9
    <3>2. CASE k \in 1 .. N
      BY <1>9, <1>14, <3>1, <3>2
    <3>3. CASE k = N + 1
      BY <1>5, <1>7, <1>9, <1>14, <3>1, <3>3
    <3> QED BY <1>15, <3>2, <3>3
  <2>2. \A j \in 1 .. N + 1, k \in 1 .. L - 1 : s[j].id < t[k].id
    <3> SUFFICES ASSUME NEW j \in 1 .. N + 1, NEW k \in 1 .. L - 1
                 PROVE  s[j].id < t[k].id
      OBVIOUS
    <3>1. t[k] = q[k + 1] /\ k + 1 \in 1 .. L /\ 1 < k + 1
      BY <1>4, <1>15
    <3>2. CASE j \in 1 .. N
      BY <1>9, <1>14, <3>1, <3>2
    <3>3. CASE j = N + 1
      BY <1>5, <1>7, <1>9, <1>14, <3>1, <3>3
    <3> QED BY <1>15, <3>2, <3>3
  <2>3. \A j, k \in 1 .. L - 1 : j < k => t[j].id < t[k].id
    <3>1. \A j, k \in 1 .. L - 1 : j < k => j + 1 < k + 1
      BY <1>4
    <3> QED BY <1>4, <1>14, <1>15, <3>1
  <2>4. \A j \in 1 .. N + 1 : s[j].id < n
    BY <1>5, <1>7, <1>9, <1>14, <1>15
  <2>5. \A k \in 1 .. L - 1 : t[k].id < n
    BY <1>4, <1>14, <1>15
  <2>6. Timely(s)
    <3> SUFFICES ASSUME NEW j \in 1 .. N + 1 PROVE s[j].early \/ StoppedInside(s, j)
      BY <1>9 DEF Timely
    <3>1. CASE j \in 1 .. N
      BY <1>9, <1>14, <1>15, <3>1
    <3>2. CASE j = N + 1
      <4>1. s[j].early \/ StoppedInside(r, N + 1)
        BY <1>1, <1>2, <1>7, <1>9, <3>2
      <4>2. StoppedInside(r, N + 1) => StoppedInside(s, N + 1)
        BY <1>9, <3>2
      <4> QED BY <3>2, <4>1, <4>2
    <3> QED BY <1>15, <3>1, <3>2
  <2> QED BY <1>4, <1>9, <1>12, <2>1, <2>2, <2>3, <2>4, <2>5, <2>6, Zenon DEF InOrder
<1>17. N + 1 \in 1 .. N + 1 /\ RanIn(d, x.kind)
  <2>1. N + 1 \in 1 .. N + 1
    BY <1>9
  <2> QED BY <1>9, <1>12, <2>1 DEF RanIn, Range
<1>18. \A kind : RanIn(b, kind) => RanIn(d, kind)
  <2> SUFFICES ASSUME NEW j \in 1 .. N PROVE RanIn(d, r[j].kind)
    BY <1>0, <1>9 DEF RanIn, Range
  <2>1. j \in 1 .. N + 1 /\ s[j] = r[j]
    BY <1>9, <1>15
  <2> QED BY <1>9, <1>12, <2>1 DEF RanIn, Range
<1>19. \A kind : RanIn(d, kind) => RanIn(b, kind) \/ kind = x.kind
  <2> SUFFICES ASSUME NEW j \in 1 .. N + 1, s[j].kind # x.kind PROVE RanIn(b, s[j].kind)
    BY <1>9, <1>12 DEF RanIn, Range
  <2>1. j \in 1 .. N
    BY <1>9, <1>15
  <2> QED BY <1>0, <1>9, <2>1 DEF RanIn, Range
<1>20. b.sent => StoppedInside(d.ran, Len(d.ran) + 1)
  <2>1. (N + 1) + 1 = N + 2
    BY <1>9
  <2> QED BY <1>1, <1>2, <1>9, <1>12, <2>1
<1>21. RanIn(b, "answer") /\ x.kind = "stop" => StoppedInside(d.ran, Len(d.ran) + 1)
  <2> SUFFICES ASSUME RanIn(b, "answer"), x.kind = "stop"
               PROVE  StoppedInside(s, Len(s) + 1)
    BY <1>12
  <2>1. PICK a \in 1 .. N : r[a].kind = "answer"
    BY <1>0, <1>9 DEF RanIn, Range
  <2>2. PICK k : k = N + 1
    BY <1>9
  <2>3. k \in 1 .. N + 1 /\ k < Len(s) + 1 /\ a < k /\ a \in 1 .. N + 1
    BY <1>9, <2>2
  <2> QED BY <1>9, <2>1, <2>2, <2>3 DEF StoppedInside
<1> QED
  <2>1. Len(d.queue) = Len(b.queue) - 1
    BY <1>0, <1>2, <1>4, <1>12
  <2> QED BY <1>5, <1>7, <1>11, <1>12, <1>13, <1>16, <1>17, <1>18, <1>19, <1>20, <1>21, <2>1

(* The next interceptor, while a loop has not ended.                       *)
LEMMA NextCalled ==
  ASSUME NEW n \in Nat, NEW c \in Contexts, NEW i, Looping(c, i.c, i.loops, n),
         i = [c |-> i.c, loops |-> i.loops],
         i.loops > 0, ~i.c.threw, i.c.queue # <<>>
  PROVE  LET j == CallNext(i)
         IN /\ j = [c |-> j.c, loops |-> j.loops] /\ Looping(c, j.c, j.loops, n)
            /\ Len(j.c.queue) = Len(i.c.queue) - 1 /\ j.loops <= i.loops + 1
<1>0. PICK b, m : b = i.c /\ m = i.loops
  BY Zenon
<1>1. /\ b \in Contexts /\ m \in Nat /\ m > 0 /\ ~b.threw /\ b.queue # <<>>
      /\ Wired(b) /\ InOrder(b, n) /\ b.chunked = c.chunked /\ b.span = c.span
      /\ b.status \in {c.status, 403}
      /\ b.sent => HeadFits(c, b)
      /\ m > 1 => RanIn(b, "answer")
      /\ b.sent => RanIn(b, "answer") /\ StoppedInside(b.ran, Len(b.ran) + 1)
      /\ ~RanIn(b, "answer") => b.length = c.length
      /\ \A kind : RanIn(c, kind) => RanIn(b, kind)
  BY <1>0 DEF Looping, Unanswered, InsideLoop
<1>2. PICK d : d = Pop(b)
  OBVIOUS
<1>3. PICK kind : kind = Last(d.ran).kind
  OBVIOUS
<1>4. /\ d \in Contexts /\ InOrder(d, n) /\ Len(d.queue) = Len(b.queue) - 1
      /\ d.sent = b.sent /\ d.wire = b.wire /\ d.status = b.status
      /\ d.length = b.length /\ d.chunked = b.chunked /\ d.span = b.span
      /\ d.threw = b.threw
      /\ kind \in Kinds /\ RanIn(d, kind)
      /\ \A k : RanIn(b, k) => RanIn(d, k)
      /\ b.sent => StoppedInside(d.ran, Len(d.ran) + 1)
      /\ RanIn(b, "answer") /\ kind = "stop" => StoppedInside(d.ran, Len(d.ran) + 1)
  BY <1>1, <1>2, <1>3, FrontPopped
<1>5. Wired(d) /\ (d.sent => HeadFits(c, d))
  BY <1>1, <1>4 DEF Wired, HeadOf, BodyOf, HeadFits
<1>6. /\ d.chunked = c.chunked /\ d.span = c.span /\ d.status \in {c.status, 403}
      /\ ~d.threw /\ (m > 1 => RanIn(d, "answer"))
      /\ d.sent => InsideLoop(d) /\ RanIn(d, "answer")
      /\ ~RanIn(d, "answer") => Unanswered(c, d)
      /\ \A k : RanIn(c, k) => RanIn(d, k)
  BY <1>1, <1>4 DEF InsideLoop, Unanswered
<1>7. Looping(c, d, m, n)
  BY <1>1, <1>4, <1>5, <1>6 DEF Looping
<1>8. PICK e : e = [i EXCEPT !.c = d]
  BY Zenon
<1>9. e = [c |-> d, loops |-> m] /\ e.c = d /\ e.loops = m
  <2>1. i = [c |-> b, loops |-> m]
    BY <1>0
  <2>2. e = [c |-> d, loops |-> m]
    BY ONLY <2>1, <1>8
  <2> QED BY <2>2
<1>10. PICK j : j = CallNext(i)
  OBVIOUS
<1>11. \/ kind = "stop" /\ j = EndLoop(e)
       \/ kind = "throw" /\ j = [i EXCEPT !.c = Throw(d)]
       \/ kind = "forbid" /\ j = [i EXCEPT !.c = [d EXCEPT !.status = 403]]
       \/ kind = "answer" /\ ~d.sent /\ j = [c |-> [d EXCEPT !.length = PageSize], loops |-> m + 1]
       \/ j = e
  BY <1>0, <1>2, <1>3, <1>8, <1>10, ZenonT(60) DEF CallNext
<1>12. PICK l : l = Len(b.queue)
  OBVIOUS
<1>13. l \in Nat
  <2>1. b.queue \in Seq(Registered)
    BY <1>1 DEF Contexts
  <2> QED BY <1>12, <2>1, LenProperties
<1> DEFINE Goal(g) == /\ g = [c |-> g.c, loops |-> g.loops] /\ Looping(c, g.c, g.loops, n)
                      /\ Len(g.c.queue) = l - 1 /\ g.loops <= m + 1
<1>14. CASE kind = "stop" /\ j = EndLoop(e)
  <2>1. m > 1 => InsideLoop(d)
    BY <1>1, <1>4, <1>14 DEF InsideLoop
  <2>2. /\ j = [c |-> j.c, loops |-> m - 1] /\ Looping(c, j.c, m - 1, n)
        /\ j.c.queue = d.queue
    BY <1>1, <1>6, <1>7, <1>9, <1>14, <2>1, LoopEnds
  <2>3. j.loops = m - 1 /\ m - 1 <= m + 1
    BY <1>1, <2>2
  <2>4. Goal(j)
    BY <1>4, <1>12, <2>2, <2>3
  <2> QED BY <1>0, <1>10, <1>12, <2>4
<1>15. CASE kind = "throw" /\ j = [i EXCEPT !.c = Throw(d)]
  <2>1. PICK g : g = Throw(d)
    OBVIOUS
  <2>2. /\ g \in Contexts /\ g.threw /\ g.queue = d.queue /\ g.ran = d.ran /\ g.sent = d.sent
        /\ g.wire = d.wire /\ g.status = d.status /\ g.length = d.length
        /\ g.chunked = d.chunked /\ g.span = d.span
    BY <1>4, <2>1, Zenon DEF Throw, Contexts
  <2>3. \A k : RanIn(g, k) <=> RanIn(d, k)
    BY <2>2 DEF RanIn
  <2>4. Wired(g) /\ InOrder(g, n) /\ (d.sent => HeadFits(c, g) /\ InsideLoop(g))
    BY <1>4, <1>5, <1>6, <2>2 DEF Wired, HeadOf, BodyOf, HeadFits, InOrder, InsideLoop
  <2>5. ~RanIn(g, "answer") => Unanswered(c, g)
    <3>1. ~RanIn(g, "answer") => ~g.sent /\ g.length = c.length
      BY <1>6, <2>2, <2>3 DEF Unanswered
    <3> QED BY <3>1 DEF Unanswered
  <2>6. Looping(c, g, m, n)
    BY <1>1, <1>4, <1>6, <1>15, <2>2, <2>3, <2>4, <2>5 DEF Looping
  <2>7. j = [c |-> g, loops |-> m]
    <3>1. i = [c |-> b, loops |-> m]
      BY <1>0
    <3>2. j = [i EXCEPT !.c = g]
      BY <1>15, <2>1
    <3> QED BY ONLY <3>1, <3>2
  <2>8. j.c = g /\ j.loops = m /\ m <= m + 1
    BY <1>1, <2>7
  <2>9. Goal(j)
    BY <1>4, <1>12, <2>2, <2>6, <2>7, <2>8
  <2> QED BY <1>0, <1>10, <1>12, <2>9
<1>16. CASE kind = "forbid" /\ j = [i EXCEPT !.c = [d EXCEPT !.status = 403]]
  <2>1. PICK g : g = [d EXCEPT !.status = 403]
    BY Zenon
  <2>2. /\ g \in Contexts /\ g.status = 403 /\ g.queue = d.queue /\ g.ran = d.ran
        /\ g.sent = d.sent /\ g.wire = d.wire /\ g.threw = d.threw /\ g.length = d.length
        /\ g.chunked = d.chunked /\ g.span = d.span
    <3>1. PICK st : st = 403
      BY Zenon
    <3>2. st \in Statuses /\ g = [d EXCEPT !.status = st]
      BY <2>1, <3>1 DEF Statuses
    <3>3. /\ g \in Contexts /\ g.status = st /\ g.queue = d.queue /\ g.ran = d.ran
          /\ g.sent = d.sent /\ g.wire = d.wire /\ g.threw = d.threw /\ g.length = d.length
          /\ g.chunked = d.chunked /\ g.span = d.span
      BY <1>4, <3>2, Zenon DEF Contexts
    <3> QED BY <3>1, <3>3
  <2>3. \A k : RanIn(g, k) <=> RanIn(d, k)
    BY <2>2 DEF RanIn
  <2>4. Wired(g) /\ InOrder(g, n) /\ (d.sent => HeadFits(c, g) /\ InsideLoop(g))
    BY <1>4, <1>5, <1>6, <2>2 DEF Wired, HeadOf, BodyOf, HeadFits, InOrder, InsideLoop
  <2>5. ~RanIn(g, "answer") => Unanswered(c, g)
    <3>1. ~RanIn(g, "answer") => ~g.sent /\ g.length = c.length
      BY <1>6, <2>2, <2>3 DEF Unanswered
    <3> QED BY <3>1 DEF Unanswered
  <2>6. Looping(c, g, m, n)
    BY <1>1, <1>4, <1>6, <2>2, <2>3, <2>4, <2>5 DEF Looping
  <2>7. j = [c |-> g, loops |-> m]
    <3>1. i = [c |-> b, loops |-> m]
      BY <1>0
    <3>2. j = [i EXCEPT !.c = g]
      BY <1>16, <2>1
    <3> QED BY ONLY <3>1, <3>2
  <2>8. j.c = g /\ j.loops = m /\ m <= m + 1
    BY <1>1, <2>7
  <2>9. Goal(j)
    BY <1>4, <1>12, <2>2, <2>6, <2>7, <2>8
  <2> QED BY <1>0, <1>10, <1>12, <2>9
<1>17. CASE kind = "answer" /\ ~d.sent
            /\ j = [c |-> [d EXCEPT !.length = PageSize], loops |-> m + 1]
  <2>1. PICK g : g = [d EXCEPT !.length = PageSize]
    BY Zenon
  <2>2. /\ g \in Contexts /\ g.length = PageSize /\ g.queue = d.queue /\ g.ran = d.ran
        /\ g.sent = d.sent /\ g.wire = d.wire /\ g.threw = d.threw /\ g.status = d.status
        /\ g.chunked = d.chunked /\ g.span = d.span
    <3>1. PageSize \in Sizes
      BY SizesAssumption DEF Sizes
    <3> QED BY <1>4, <2>1, <3>1, Zenon DEF Contexts
  <2>3. RanIn(g, "answer") /\ \A k : RanIn(g, k) <=> RanIn(d, k)
    BY <1>4, <1>17, <2>2 DEF RanIn
  <2>4. Wired(g) /\ InOrder(g, n)
    BY <1>4, <1>5, <2>2 DEF Wired, HeadOf, BodyOf, InOrder
  <2>5. m + 1 \in Nat /\ m + 1 > 0 /\ ~g.sent
    BY <1>1, <1>17, <2>2
  <2>6. Looping(c, g, m + 1, n)
    BY <1>6, <2>2, <2>3, <2>4, <2>5 DEF Looping
  <2>7. j = [c |-> g, loops |-> m + 1]
    BY <1>17, <2>1
  <2>8. j.c = g /\ j.loops = m + 1
    BY <2>7
  <2>9. Goal(j)
    BY <1>4, <1>12, <2>2, <2>5, <2>6, <2>7, <2>8
  <2> QED BY <1>0, <1>10, <1>12, <2>9
<1>18. CASE j = e
  <2>1. j.c = d /\ j.loops = m /\ j = [c |-> d, loops |-> m] /\ m <= m + 1
    BY <1>1, <1>9, <1>18
  <2>2. Goal(j)
    BY <1>4, <1>7, <1>12, <2>1
  <2> QED BY <1>0, <1>10, <1>12, <2>2
<1> QED BY <1>11, <1>14, <1>15, <1>16, <1>17, <1>18

(* What WriteHeaders makes of a context that sent nothing.                 *)
Headed(c, d, n) ==
  /\ d \in Contexts /\ Wired(d) /\ InOrder(d, n) /\ d.chunked = c.chunked /\ d.span = c.span
  /\ d.status \in {c.status, 403}
  /\ d.threw => RanIn(d, "throw")
  /\ d.threw \/ d.sent
  /\ d.sent => HeadFits(c, d)
  /\ ~RanIn(d, "answer") => Unanswered(c, d)
  /\ \A kind : RanIn(c, kind) => RanIn(d, kind)

(* A context whose handler can go on, and that sent nothing.               *)
Silent(c, n) == c \in Contexts /\ InOrder(c, n) /\ ~c.sent /\ ~c.threw /\ c.wire = <<>>

(* One step of the loops, and the states that they go through.             *)
LoopStep(i) ==
  IF i.c.threw \/ i.loops = 0 THEN i
  ELSE IF i.c.queue = <<>> THEN EndLoop(i) ELSE CallNext(i)

LoopStates(c, n) ==
  {i \in [c : Contexts, loops : Nat] : Looping(c, i.c, i.loops, n)}

Settled(i) == i.c.threw \/ i.loops = 0
Weight(i) == 2 * Len(i.c.queue) + i.loops

(* Every step calls an interceptor or ends a loop, and so makes i lighter. *)
LEMMA LoopSteps ==
  ASSUME NEW n \in Nat, NEW c \in Contexts, NEW i \in LoopStates(c, n)
  PROVE  /\ LoopStep(i) \in LoopStates(c, n)
         /\ Weight(i) \in Nat
         /\ Settled(i) => LoopStep(i) = i
         /\ ~Settled(i) => Weight(LoopStep(i)) < Weight(i)
<1>1. PICK b, m : b = i.c /\ m = i.loops
  BY Zenon
<1>2. b \in Contexts /\ m \in Nat /\ Looping(c, b, m, n) /\ i = [c |-> b, loops |-> m]
  BY <1>1 DEF LoopStates
<1>3. PICK l : l = Len(b.queue)
  OBVIOUS
<1>4. l \in Nat /\ b.queue \in Seq(Registered)
  <2>1. b.queue \in Seq(Registered)
    BY <1>2 DEF Contexts
  <2> QED BY <1>3, <2>1, LenProperties
<1>5. Weight(i) = 2 * l + m /\ 2 * l + m \in Nat
  BY <1>1, <1>2, <1>3, <1>4 DEF Weight
<1>6. PICK j : j = LoopStep(i)
  OBVIOUS
<1>7. CASE Settled(i)
  <2>1. j = i
    BY <1>6, <1>7 DEF LoopStep, Settled
  <2> QED BY <1>5, <1>6, <1>7, <2>1
<1>8. CASE ~Settled(i)
  <2>1. m > 0 /\ ~b.threw
    BY <1>1, <1>2, <1>8 DEF Settled
  <2>2. /\ j = [c |-> j.c, loops |-> j.loops] /\ Looping(c, j.c, j.loops, n)
        /\ 2 * Len(j.c.queue) + j.loops < 2 * l + m
    <3>1. CASE b.queue = <<>>
      <4>1. j = EndLoop(i)
        BY <1>1, <1>6, <1>8, <3>1 DEF LoopStep, Settled
      <4>2. InsideLoop(b)
        BY <3>1 DEF InsideLoop
      <4>3. /\ j = [c |-> j.c, loops |-> m - 1] /\ Looping(c, j.c, m - 1, n)
            /\ j.c.queue = b.queue
        BY <1>1, <1>2, <2>1, <4>1, <4>2, LoopEnds
      <4>4. j.loops = m - 1
        BY <4>3
      <4>5. PICK w : w = Len(j.c.queue)
        OBVIOUS
      <4>6. w = l
        BY <1>3, <4>3, <4>5
      <4>7. 2 * w + j.loops < 2 * l + m
        BY <1>2, <1>4, <4>4, <4>6
      <4> QED BY <4>3, <4>4, <4>5, <4>7
    <3>2. CASE b.queue # <<>>
      <4>1. j = CallNext(i)
        BY <1>1, <1>6, <1>8, <3>2 DEF LoopStep, Settled
      <4>2. /\ j = [c |-> j.c, loops |-> j.loops] /\ Looping(c, j.c, j.loops, n)
            /\ Len(j.c.queue) = Len(b.queue) - 1 /\ j.loops <= m + 1
        BY <1>1, <1>2, <2>1, <3>2, <4>1, NextCalled
      <4>3. PICK w : w = Len(j.c.queue)
        OBVIOUS
      <4>4. w = l - 1 /\ j.loops \in Nat
        BY <1>3, <4>2, <4>3 DEF Looping
      <4>5. 2 * w + j.loops < 2 * l + m
        BY <1>2, <1>4, <4>2, <4>4
      <4> QED BY <4>2, <4>3, <4>5
    <3> QED BY <3>1, <3>2
  <2>3. j \in LoopStates(c, n)
    <3>1. j.c \in Contexts /\ j.loops \in Nat
      BY <2>2 DEF Looping
    <3> QED BY <2>2, <3>1 DEF LoopStates
  <2> QED BY <1>5, <1>6, <1>8, <2>2, <2>3 DEF Weight
<1> QED BY <1>7, <1>8

(* The loops over headerhandlers: they end, and leave a head.              *)
LEMMA HeadWritten ==
  ASSUME NEW n \in Nat, NEW c, Silent(c, n)
  PROVE  Headed(c, WriteHeaders(c), n)
<1>0. c \in Contexts /\ InOrder(c, n) /\ ~c.sent /\ ~c.threw /\ c.wire = <<>>
  BY DEF Silent
<1>1. PICK S : S = LoopStates(c, n)
  OBVIOUS
<1>2. PICK z : z = [c |-> c, loops |-> 1]
  BY Zenon
<1>3. z.c = c /\ z.loops = 1 /\ z \in [c : Contexts, loops : Nat]
  BY <1>0, <1>2
<1>4. z \in S
  <2>1. Looping(c, c, 1, n)
    BY <1>0 DEF Looping, Wired, Unanswered
  <2> QED BY <1>1, <1>3, <2>1 DEF LoopStates
<1>5. PICK N : N = 2 * Len(c.queue) + 1
  OBVIOUS
<1>6. N \in Nat /\ Weight(z) = N
  <2>1. c.queue \in Seq(Registered)
    BY <1>0 DEF Contexts
  <2>2. PICK l : l = Len(c.queue)
    OBVIOUS
  <2>3. l \in Nat
    BY <2>1, <2>2, LenProperties
  <2> QED BY <1>3, <1>5, <2>2, <2>3 DEF Weight
<1>7. \A i \in S : /\ LoopStep(i) \in S /\ Weight(i) \in Nat
                   /\ Settled(i) => LoopStep(i) = i
                   /\ ~Settled(i) => Weight(LoopStep(i)) < Weight(i)
  BY <1>0, <1>1, LoopSteps
<1> DEFINE step == [i \in S |-> [k \in 1 .. N |-> LoopStep(i)]]
           Runs(f) == f = [k \in 0 .. N |-> IF k = 0 THEN z ELSE LoopStep(f[k - 1])]
<1>8. \E f : Runs(f)
  <2>1. step \in [S -> [1 .. N -> S]]
    BY <1>7
  <2>2. \A i \in S : \A k \in 1 .. N : step[i][k] = LoopStep(i)
    OBVIOUS
  <2> HIDE DEF step
  <2>3. PICK f \in [0 .. N -> S] : Recurs(f, z, N, step)
    BY <1>4, <1>6, <2>1, Recursion, Zenon
  <2>4. \A k \in 0 .. N : k # 0 => step[f[k - 1]][k] = LoopStep(f[k - 1])
    <3> SUFFICES ASSUME NEW k \in 0 .. N, k # 0
                 PROVE  step[f[k - 1]][k] = LoopStep(f[k - 1])
      OBVIOUS
    <3>1. k - 1 \in 0 .. N /\ k \in 1 .. N
      BY <1>6
    <3>2. f[k - 1] \in S
      BY <3>1
    <3> QED BY <2>2, <3>1, <3>2
  <2>5. f = [k \in 0 .. N |-> IF k = 0 THEN z ELSE LoopStep(f[k - 1])]
    BY <2>3, <2>4, Zenon DEF Recurs
  <2> QED BY <2>5
<1>9. PICK g : g = CHOOSE f : Runs(f)
  BY Zenon
<1>10. Runs(g)
  BY <1>8, <1>9, Zenon
<1>11. WriteHeaders(c) = g[N].c
  BY <1>0, <1>2, <1>5, <1>9, ZenonT(60) DEF WriteHeaders, CallInterceptors, LoopStep
<1>12. g[0] = z /\ \A k \in 1 .. N : g[k] = LoopStep(g[k - 1])
  BY <1>6, <1>10
<1> HIDE DEF Runs, step
<1> DEFINE G == {k \in Nat : k <= N => g[k] \in S /\ (Settled(g[k]) \/ Weight(g[k]) <= N - k)}
<1>13. 0 \in G
  BY <1>4, <1>6, <1>12
<1>14. ASSUME NEW k \in Nat, k \in G PROVE k + 1 \in G
  <2> SUFFICES ASSUME k + 1 <= N
               PROVE  g[k + 1] \in S /\ (Settled(g[k + 1]) \/ Weight(g[k + 1]) <= N - (k + 1))
    OBVIOUS
  <2>1. k <= N /\ k + 1 \in 1 .. N /\ (k + 1) - 1 = k
    BY <1>6
  <2>2. g[k] \in S /\ (Settled(g[k]) \/ Weight(g[k]) <= N - k) /\ g[k + 1] = LoopStep(g[k])
    BY <1>12, <1>14, <2>1
  <2>3. PICK i, j : i = g[k] /\ j = g[k + 1]
    BY Zenon
  <2>4. j \in S /\ Weight(i) \in Nat /\ Weight(j) \in Nat
    BY <1>7, <2>2, <2>3
  <2>5. CASE Settled(i)
    BY <1>7, <2>2, <2>3, <2>4, <2>5
  <2>6. CASE ~Settled(i)
    <3>1. Weight(j) < Weight(i) /\ Weight(i) <= N - k
      BY <1>7, <2>2, <2>3, <2>6
    <3>2. PICK wi, wj : wi = Weight(i) /\ wj = Weight(j)
      BY Zenon
    <3>3. wj <= N - (k + 1)
      BY <1>6, <2>4, <3>1, <3>2
    <3> QED BY <2>3, <2>4, <3>2, <3>3
  <2> QED BY <2>5, <2>6
<1>15. Nat \subseteq G
  <2> HIDE DEF G
  <2> QED BY <1>13, <1>14, SetInduction
<1>16. g[N] \in S /\ (Settled(g[N]) \/ Weight(g[N]) <= 0)
  BY <1>6, <1>15
<1>17. PICK i : i = g[N]
  BY Zenon
<1>18. Looping(c, i.c, i.loops, n)
  BY <1>1, <1>16, <1>17 DEF LoopStates
<1>19. i.c.threw \/ i.loops = 0
  <2> SUFFICES ASSUME Weight(i) <= 0 PROVE i.loops = 0
    BY <1>16, <1>17 DEF Settled
  <2>1. i.loops \in Nat /\ i.c.queue \in Seq(Registered)
    BY <1>18 DEF Looping, Contexts
  <2>2. PICK l : l = Len(i.c.queue)
    OBVIOUS
  <2>3. l \in Nat /\ 2 * l + i.loops <= 0
    BY <2>1, <2>2, LenProperties DEF Weight
  <2> QED BY <2>1, <2>3
<1>20. Headed(c, i.c, n)
  BY <1>18, <1>19 DEF Looping, Headed
<1> QED BY <1>11, <1>17, <1>20

(* f adds up the lengths of the pieces.                                    *)
Sums(f, b) ==
  f = [k \in 0 .. Len(b) |-> IF k = 0 THEN 0 ELSE f[k - 1] + b[k][3]]

(* Such a function exists: induction over the number of pieces.            *)
LEMMA SumExists ==
  ASSUME NEW b \in Seq(Pieces)
  PROVE  \E f \in [0 .. Len(b) -> Nat] : Sums(f, b)
<1>1. PICK N : N = Len(b)
  OBVIOUS
<1>2. N \in Nat /\ \A k \in 1 .. N : b[k][3] \in Nat
  <2>1. \A k \in 1 .. N : b[k] \in Pieces
    BY <1>1, LenProperties, ElementOfSeq
  <2> QED BY <1>1, <2>1, LenProperties DEF Pieces
<1> DEFINE step == [s \in Nat |-> [k \in 1 .. N |-> s + b[k][3]]]
<1>3. step \in [Nat -> [1 .. N -> Nat]]
  BY <1>2
<1>4. \A s \in Nat : \A k \in 1 .. N : step[s][k] = s + b[k][3]
  OBVIOUS
<1> HIDE DEF step
<1>5. PICK f \in [0 .. N -> Nat] : Recurs(f, 0, N, step)
  BY <1>2, <1>3, Recursion, Zenon
<1>6. \A k \in 0 .. N : k # 0 => step[f[k - 1]][k] = f[k - 1] + b[k][3]
  <2> SUFFICES ASSUME NEW k \in 0 .. N, k # 0 PROVE step[f[k - 1]][k] = f[k - 1] + b[k][3]
    OBVIOUS
  <2>1. k - 1 \in 0 .. N /\ k \in 1 .. N
    BY <1>2
  <2>2. f[k - 1] \in Nat
    BY <2>1
  <2> QED BY <1>4, <2>1, <2>2
<1>7. f = [k \in 0 .. N |-> IF k = 0 THEN 0 ELSE f[k - 1] + b[k][3]]
  BY <1>5, <1>6, Zenon DEF Recurs
<1> QED BY <1>1, <1>7, Zenon DEF Sums

(* What the first pieces add up to does not depend on the others.          *)
LEMMA SumOfPrefix ==
  ASSUME NEW b, NEW a, Len(b) \in Nat, Len(a) \in Nat, Len(b) <= Len(a),
         \A k \in 1 .. Len(b) : a[k] = b[k],
         NEW f, Sums(f, b), NEW g, Sums(g, a)
  PROVE  \A k \in 0 .. Len(b) : f[k] = g[k]
<1> DEFINE G == {k \in Nat : k <= Len(b) => f[k] = g[k]}
<1>1. /\ f[0] = 0 /\ \A k \in 1 .. Len(b) : f[k] = f[k - 1] + b[k][3]
      /\ g[0] = 0 /\ \A k \in 1 .. Len(a) : g[k] = g[k - 1] + a[k][3]
  <2>1. /\ \A k \in 0 .. Len(b) : f[k] = IF k = 0 THEN 0 ELSE f[k - 1] + b[k][3]
        /\ \A k \in 0 .. Len(a) : g[k] = IF k = 0 THEN 0 ELSE g[k - 1] + a[k][3]
    BY Zenon DEF Sums
  <2> QED BY <2>1
<1>2. 0 \in G
  BY <1>1
<1>3. ASSUME NEW k \in Nat, k \in G PROVE k + 1 \in G
  <2> SUFFICES ASSUME k + 1 <= Len(b) PROVE f[k + 1] = g[k + 1]
    OBVIOUS
  <2>1. k + 1 \in 1 .. Len(b) /\ k + 1 \in 1 .. Len(a) /\ (k + 1) - 1 = k /\ k <= Len(b)
    OBVIOUS
  <2>2. f[k] = g[k]
    BY <1>3, <2>1
  <2> QED BY <1>1, <2>1, <2>2
<1>4. Nat \subseteq G
  <2> HIDE DEF G
  <2> QED BY <1>2, <1>3, SetInduction
<1> QED BY <1>4

(* Bytes is its last value.                                                *)
LEMMA BytesAre ==
  ASSUME NEW b \in Seq(Pieces)
  PROVE  \E f \in [0 .. Len(b) -> Nat] : Sums(f, b) /\ Bytes(b) = f[Len(b)]
<1> DEFINE first == CHOOSE f : Sums(f, b)
<1>1. PICK f \in [0 .. Len(b) -> Nat] : Sums(f, b)
  BY SumExists
<1>2. Sums(first, b)
  BY <1>1
<1>3. Bytes(b) = first[Len(b)]
  BY DEF Bytes, Sums
<1> HIDE DEF first
<1>4. Len(b) \in Nat
  BY LenProperties
<1>5. first[Len(b)] = f[Len(b)]
  BY <1>1, <1>2, <1>4, SumOfPrefix
<1> QED BY <1>1, <1>3, <1>5

(* An empty body has no bytes.                                             *)
LEMMA NoBytes == Bytes(<<>>) = 0
<1>1. <<>> \in Seq(Pieces) /\ Len(<<>>) = 0
  BY EmptySeq
<1>2. PICK f : Sums(f, <<>>) /\ Bytes(<<>>) = f[0]
  BY <1>1, BytesAre, Zenon
<1>3. f[0] = 0
  BY <1>1, <1>2 DEF Sums
<1> QED BY <1>2, <1>3

(* A piece more adds its bytes.                                            *)
LEMMA MoreBytes ==
  ASSUME NEW b \in Seq(Pieces), NEW t \in Pieces
  PROVE  Bytes(b) \in Nat /\ Bytes(Append(b, t)) = Bytes(b) + t[3]
<1>1. PICK a : a = Append(b, t)
  BY Zenon
<1>2. PICK N : N = Len(b)
  OBVIOUS
<1>3. /\ N \in Nat /\ a \in Seq(Pieces) /\ Len(a) = N + 1
      /\ \A k \in 1 .. N : a[k] = b[k]
      /\ a[N + 1] = t
  BY <1>1, <1>2, AppendProperties, LenProperties
<1>4. PICK f \in [0 .. N -> Nat] : Sums(f, b) /\ Bytes(b) = f[N]
  BY <1>2, BytesAre
<1>5. PICK g : Sums(g, a) /\ Bytes(a) = g[N + 1]
  BY <1>3, BytesAre
<1>6. \A k \in 0 .. N : f[k] = g[k]
  <2>1. Len(b) \in Nat /\ Len(a) \in Nat /\ Len(b) <= Len(a) /\ \A k \in 1 .. Len(b) : a[k] = b[k]
    BY <1>2, <1>3
  <2> QED BY <1>2, <1>4, <1>5, <2>1, SumOfPrefix
<1>7. g[N + 1] = g[N] + a[N + 1][3]
  <2>1. \A k \in 0 .. N + 1 : g[k] = IF k = 0 THEN 0 ELSE g[k - 1] + a[k][3]
    BY <1>3, <1>5, Zenon DEF Sums
  <2>2. N + 1 \in 0 .. N + 1 /\ N + 1 # 0 /\ (N + 1) - 1 = N
    BY <1>3
  <2>3. g[N + 1] = g[(N + 1) - 1] + a[N + 1][3]
    BY <2>1, <2>2
  <2> QED BY <2>2, <2>3
<1>8. f[N] = g[N] /\ f[N] \in Nat
  BY <1>3, <1>4, <1>6
<1> QED BY <1>1, <1>3, <1>4, <1>5, <1>7, <1>8

-----------------------------------------------------------------------------
Good(c, n) ==
  /\ c \in Contexts /\ Wired(c) /\ InOrder(c, n)
  /\ ~c.sent /\ ~RanIn(c, "throw") => ~c.chunked
  /\ ~c.sent /\ ~c.threw => c.status # 206

Clean(c) == ~RanIn(c, "answer") /\ ~RanIn(c, "throw")

(* A head and the body that follows it.                                    *)
Fits(h, b) ==
  IF h[4]
    THEN /\ h[3] < 0
         /\ \A k \in DOMAIN b : IF k = Len(b) THEN b[k][1] \in {"chunk", "final"}
                                              ELSE b[k][1] = "chunk"
    ELSE /\ \A k \in DOMAIN b : b[k][1] = "plain"
         /\ h[3] >= 0 => Bytes(b) <= h[3]

Over(h, b) == h[4] => b # <<>> /\ Last(b)[1] = "final"

Framed(c) ==
  c.sent /\ Clean(c) => Fits(HeadOf(c), BodyOf(c)) /\ Over(HeadOf(c), BodyOf(c))

Exact(c) ==
  c.sent /\ HeadOf(c)[2] = 206 /\ ~RanIn(c, "answer") /\ ~c.threw =>
    LET span == HeadOf(c)[5]
    IN /\ \E s \in Sources : s.len = span.len
       /\ 0 <= span.begin /\ span.end < span.len
       /\ HeadOf(c)[3] = span.end - span.begin + 1 /\ HeadOf(c)[3] > 1
       /\ request.method # "HEAD" => BodyOf(c) = <<<<"plain", span.begin, HeadOf(c)[3]>>>>
       /\ request.range.first # Absent =>
            span.begin .. span.end = AskedFor(request.range, span.len)

(* A context that wrote more.                                              *)
LEMMA GoodWire ==
  ASSUME NEW c, NEW d \in Contexts, NEW n, Good(c, n), c.sent, SameButWire(c, d), Wired(d)
  PROVE  Good(d, n) /\ d.sent /\ \A kind : RanIn(d, kind) <=> RanIn(c, kind)
BY DEF Good, SameButWire, InOrder, RanIn

(* Bytes written without chunk framing; of none nothing is written.        *)
LEMMA PlainIs ==
  ASSUME NEW c \in Contexts, c.sent, Wired(c), NEW from \in Nat, NEW n \in Int
  PROVE  LET d == Plain(c, from, n)
         IN /\ d \in Contexts /\ SameButWire(c, d) /\ Wired(d) /\ HeadOf(d) = HeadOf(c)
            /\ BodyOf(d) = IF n > 0 THEN Append(BodyOf(c), <<"plain", from, n>>) ELSE BodyOf(c)
<1>1. CASE n > 0
  <2>1. <<"plain", from, n>> \in Pieces
    <3>1. n \in Nat
      BY <1>1
    <3> QED BY <3>1 DEF Pieces
  <2>2. Plain(c, from, n) = Put(c, <<"plain", from, n>>)
    BY <1>1 DEF Plain
  <2> HIDE DEF Pieces
  <2> QED BY <1>1, <2>1, <2>2, PutIs
<1>2. CASE ~(n > 0)
  BY <1>2, Zenon DEF Plain, SameButWire
<1> QED BY <1>1, <1>2

(* No body fits a head that announces no chunks.                           *)
LEMMA EmptyBody ==
  ASSUME NEW h \in Heads, ~h[4]
  PROVE  Fits(h, <<>>) /\ Over(h, <<>>)
BY NoBytes DEF Fits, Over

(* An empty body, and one that is a piece, fit.                            *)
LEMMA OnePiece ==
  ASSUME NEW h \in Heads, ~h[4], NEW from \in Nat, NEW n \in Int, h[3] >= 0 => n <= h[3]
  PROVE  LET b == IF n > 0 THEN <<<<"plain", from, n>>>> ELSE <<>>
         IN Fits(h, b) /\ Over(h, b)
<1>1. CASE n > 0
  <2>1. PICK t : t = <<"plain", from, n>>
    BY Zenon
  <2>2. t \in Pieces /\ t[1] = "plain" /\ t[3] = n
    <3>1. n \in Nat
      BY <1>1
    <3> QED BY <2>1, <3>1 DEF Pieces
  <2>3. PICK e : e = <<>>
    OBVIOUS
  <2>31. e \in Seq(Pieces) /\ Append(e, t) = <<t>> /\ Bytes(e) = 0
    BY <2>3, EmptySeq, NoBytes
  <2>32. Bytes(Append(e, t)) = Bytes(e) + t[3]
    BY <2>2, <2>31, MoreBytes, Zenon
  <2>4. Bytes(<<t>>) = n
    BY <2>2, <2>31, <2>32
  <2>5. Fits(h, <<t>>) /\ Over(h, <<t>>)
    BY <2>2, <2>4 DEF Fits, Over
  <2> QED BY <1>1, <2>1, <2>5
<1>2. CASE ~(n > 0)
  <2>1. Fits(h, <<>>) /\ Over(h, <<>>)
    BY EmptyBody
  <2> QED BY <1>2, <2>1
<1> QED BY <1>1, <1>2

-----------------------------------------------------------------------------
(* A context from which a response can be started.                         *)
Startable(c, n) == Silent(c, n) /\ (~RanIn(c, "throw") => ~c.chunked)

(* WriteHeaders alone.                                                     *)
LEMMA HeadAlone ==
  ASSUME NEW n \in Nat, NEW c, Startable(c, n)
  PROVE  Good(WriteHeaders(c), n) /\ Framed(WriteHeaders(c))
<1>1. PICK d : d = WriteHeaders(c)
  OBVIOUS
<1>2. Headed(c, d, n)
  BY <1>1, HeadWritten DEF Startable
<1>3. Good(d, n)
  BY <1>2 DEF Headed, Good
<1>4. Framed(d)
  <2> SUFFICES ASSUME d.sent, Clean(d)
               PROVE  Fits(HeadOf(d), BodyOf(d)) /\ Over(HeadOf(d), BodyOf(d))
    BY DEF Framed
  <2>1. BodyOf(d) = <<>> /\ HeadOf(d) \in Heads /\ ~RanIn(c, "throw") /\ ~d.threw
    BY <1>2 DEF Headed, Clean, Wired, Unanswered
  <2>2. ~HeadOf(d)[4]
    BY <1>2, <2>1 DEF Headed, Startable, HeadFits
  <2>4. PICK h : h = HeadOf(d)
    OBVIOUS
  <2> HIDE DEF HeadOf
  <2>5. Fits(h, <<>>) /\ Over(h, <<>>)
    BY <2>1, <2>2, <2>4, EmptyBody
  <2> QED BY <2>1, <2>4, <2>5
<1> QED BY <1>1, <1>3, <1>4

ClosedAtOnce(c) == request.method = "HEAD" /\ Http11 /\ c.length < 0

(* What OpenResponse makes of a context from which a response can start.   *)
Opened(c, d, n) ==
  /\ Good(d, n) /\ d.status \in {c.status, 403}
  /\ d.threw \/ d.sent
  /\ d.threw => RanIn(d, "throw")
  /\ d.sent => HeadOf(d)[2] \in {c.status, 403}
  /\ d.sent /\ Clean(d) =>
       /\ HeadOf(d)[3] = c.length /\ HeadOf(d)[4] = (Http11 /\ c.length < 0)
       /\ BodyOf(d) = IF ClosedAtOnce(c) THEN <<<<"final", 0, 0>>>> ELSE <<>>

(* The final chunk written.                                                *)
LEMMA FinalPut ==
  ASSUME NEW c \in Contexts, c.sent, Wired(c)
  PROVE  LET d == Put(c, <<"final", 0, 0>>)
         IN /\ d \in Contexts /\ SameButWire(c, d) /\ Wired(d)
            /\ HeadOf(d) = HeadOf(c) /\ BodyOf(d) = Append(BodyOf(c), <<"final", 0, 0>>)
<1>1. <<"final", 0, 0>> \in Pieces
  BY DEF Pieces
<1> HIDE DEF Pieces
<1> QED BY <1>1, PutIs

(* OpenResponseStream: chunks exactly when there is no length on HTTP/1.1. *)
LEMMA ResponseOpened ==
  ASSUME NEW n \in Nat, NEW c, Startable(c, n)
  PROVE  Opened(c, OpenResponse(c), n)
<1>0. /\ c \in Contexts /\ InOrder(c, n) /\ ~c.sent /\ ~c.threw /\ c.wire = <<>>
      /\ ~RanIn(c, "throw") => ~c.chunked
  BY DEF Startable, Silent
<1>1. PICK ch : ch = (Http11 /\ c.length < 0)
  OBVIOUS
<1>2. PICK e : e = [c EXCEPT !.chunked = @ \/ (Http11 /\ c.length < 0)]
  BY Zenon
<1>3. /\ e \in Contexts /\ e.sent = c.sent /\ e.threw = c.threw /\ e.wire = c.wire
      /\ e.status = c.status /\ e.length = c.length /\ e.queue = c.queue /\ e.ran = c.ran
      /\ e.span = c.span /\ e.chunked = (c.chunked \/ (Http11 /\ c.length < 0))
  BY <1>0, <1>2, Zenon DEF Contexts
<1>4. Silent(e, n) /\ \A kind : RanIn(e, kind) <=> RanIn(c, kind)
  BY <1>0, <1>3 DEF Silent, InOrder, RanIn
<1>5. PICK o : o = WriteHeaders(e)
  OBVIOUS
<1>6. Headed(e, o, n)
  BY <1>4, <1>5, HeadWritten
<1>7. Good(o, n)
  BY <1>6 DEF Headed, Good
<1>71. o.status \in {c.status, 403}
  BY <1>3, <1>6 DEF Headed
<1>8. /\ o.threw \/ o.sent
      /\ o.threw => RanIn(o, "throw")
      /\ o.sent => HeadOf(o)[2] \in {c.status, 403}
  BY <1>3, <1>6 DEF Headed, HeadFits
<1>9. o.sent /\ Clean(o) =>
        HeadOf(o)[3] = c.length /\ HeadOf(o)[4] = (Http11 /\ c.length < 0) /\ BodyOf(o) = <<>>
  <2> SUFFICES ASSUME o.sent, Clean(o)
               PROVE  /\ HeadOf(o)[3] = c.length /\ HeadOf(o)[4] = (Http11 /\ c.length < 0)
                      /\ BodyOf(o) = <<>>
    OBVIOUS
  <2>1. ~c.chunked /\ ~o.threw
    BY <1>0, <1>4, <1>6 DEF Headed, Clean
  <2>2. HeadOf(o)[3] = e.length /\ HeadOf(o)[4] = o.chunked
    <3>1. o.chunked = e.chunked /\ HeadOf(o) = <<"head", o.status, e.length, e.chunked, e.span>>
      BY <1>6 DEF Headed, Unanswered, Clean
    <3> QED BY <3>1
  <2>3. o.chunked = e.chunked /\ BodyOf(o) = <<>>
    BY <1>6 DEF Headed, Clean, Unanswered
  <2>4. c.chunked = FALSE
    BY <1>0, <2>1 DEF Contexts
  <2>5. e.chunked = (Http11 /\ c.length < 0)
    BY <1>3, <2>4
  <2> QED BY <1>3, <2>2, <2>3, <2>5
<1>10. PICK d : d = OpenResponse(c)
  OBVIOUS
<1>11. CASE ~o.threw /\ ClosedAtOnce(c)
  <2>1. d = Put(o, <<"final", 0, 0>>)
    BY <1>2, <1>5, <1>10, <1>11 DEF OpenResponse, ClosedAtOnce
  <2>2. o \in Contexts /\ o.sent /\ Wired(o)
    BY <1>6, <1>11 DEF Headed
  <2>3. /\ d \in Contexts /\ SameButWire(o, d) /\ Wired(d)
        /\ HeadOf(d) = HeadOf(o) /\ BodyOf(d) = Append(BodyOf(o), <<"final", 0, 0>>)
    BY <2>1, <2>2, FinalPut
  <2>4. Good(d, n) /\ d.sent /\ \A kind : RanIn(d, kind) <=> RanIn(o, kind)
    BY <1>7, <2>2, <2>3, GoodWire
  <2>5. d.threw = o.threw /\ d.status = o.status /\ (Clean(d) <=> Clean(o))
    BY <2>3, <2>4 DEF SameButWire, Clean
  <2>6. BodyOf(o) = <<>> => BodyOf(d) = <<<<"final", 0, 0>>>>
    BY <2>3
  <2>7. Opened(c, d, n)
    BY <1>71, <1>8, <1>9, <1>11, <2>2, <2>3, <2>4, <2>5, <2>6 DEF Opened
  <2> QED BY <1>10, <2>7
<1>12. CASE o.threw
  <2>1. d = o
    BY <1>2, <1>5, <1>10, <1>12 DEF OpenResponse
  <2>2. ~Clean(o)
    BY <1>8, <1>12 DEF Clean
  <2> QED BY <1>7, <1>71, <1>8, <1>10, <2>1, <2>2 DEF Opened
<1>13. CASE ~ClosedAtOnce(c)
  <2>1. d = o
    BY <1>2, <1>5, <1>10, <1>13 DEF OpenResponse, ClosedAtOnce
  <2> QED BY <1>7, <1>71, <1>8, <1>9, <1>10, <1>13, <2>1 DEF Opened
<1> QED BY <1>11, <1>12, <1>13

(* What sending a text leaves.                                             *)
Answers(c, d, n) ==
  /\ Good(d, n) /\ Framed(d) /\ d.status \in {c.status, 403}
  /\ d.threw \/ d.sent
  /\ d.threw => RanIn(d, "throw")
  /\ d.sent => HeadOf(d)[2] \in {c.status, 403}

(* SendText: the head announces the size of the text.                      *)
LEMMA TextSent ==
  ASSUME NEW n \in Nat, NEW c, Startable(c, n), NEW size \in Nat
  PROVE  Answers(c, SendText(c, size), n)
<1>0. c \in Contexts /\ ~c.sent /\ InOrder(c, n)
  BY DEF Startable, Silent
<1>1. PICK e : e = [c EXCEPT !.length = size]
  BY Zenon
<1>2. /\ e \in Contexts /\ e.sent = c.sent /\ e.threw = c.threw /\ e.wire = c.wire
      /\ e.status = c.status /\ e.length = size /\ e.queue = c.queue /\ e.ran = c.ran
      /\ e.chunked = c.chunked
  BY <1>0, <1>1, Zenon DEF Contexts, Sizes
<1>3. Startable(e, n)
  BY <1>2 DEF Startable, Silent, InOrder, RanIn
<1>4. PICK o : o = OpenResponse(e)
  OBVIOUS
<1>5. Opened(e, o, n)
  BY <1>3, <1>4, ResponseOpened
<1>6. PICK d : d = SendText(c, size)
  OBVIOUS
<1>7. CASE o.threw
  <2>1. d = o
    BY <1>0, <1>1, <1>4, <1>6, <1>7 DEF SendText
  <2>2. RanIn(o, "throw")
    BY <1>5, <1>7 DEF Opened
  <2>3. Framed(o)
    BY <2>2 DEF Framed, Clean
  <2> QED BY <1>2, <1>5, <1>6, <1>7, <2>1, <2>3 DEF Opened, Answers
<1>8. CASE ~o.threw
  <2>1. d = Plain(o, 0, size)
    BY <1>0, <1>1, <1>4, <1>6, <1>8 DEF SendText
  <2>2. o \in Contexts /\ o.sent /\ Wired(o) /\ Good(o, n) /\ HeadOf(o) \in Heads
    BY <1>5, <1>8 DEF Opened, Good, Wired
  <2>3. /\ d \in Contexts /\ SameButWire(o, d) /\ Wired(d) /\ HeadOf(d) = HeadOf(o)
        /\ BodyOf(d) = IF size > 0 THEN Append(BodyOf(o), <<"plain", 0, size>>) ELSE BodyOf(o)
    BY <2>1, <2>2, PlainIs
  <2>4. Good(d, n) /\ d.sent /\ \A kind : RanIn(d, kind) <=> RanIn(o, kind)
    BY <2>2, <2>3, GoodWire
  <2>5. d.threw = o.threw /\ d.status = o.status /\ (Clean(d) <=> Clean(o))
    BY <2>3, <2>4 DEF SameButWire, Clean
  <2>6. Framed(d)
    <3> SUFFICES ASSUME Clean(d)
                 PROVE  Fits(HeadOf(d), BodyOf(d)) /\ Over(HeadOf(d), BodyOf(d))
      BY DEF Framed
    <3>1. ~(e.length < 0)
      BY <1>2
    <3>2. HeadOf(o)[3] = size /\ ~HeadOf(o)[4] /\ BodyOf(o) = <<>>
      BY <1>2, <1>5, <2>2, <2>5, <3>1, Zenon DEF Opened, ClosedAtOnce
    <3>3. BodyOf(d) = IF size > 0 THEN <<<<"plain", 0, size>>>> ELSE <<>>
      BY <2>3, <3>2
    <3>4. PICK h : h = HeadOf(d)
      OBVIOUS
    <3>5. h \in Heads /\ ~h[4] /\ (h[3] >= 0 => size <= h[3]) /\ 0 \in Nat
      BY <2>2, <2>3, <3>2, <3>4
    <3> QED BY <3>3, <3>4, <3>5, OnePiece
  <2> QED BY <1>2, <1>5, <1>6, <1>8, <2>2, <2>3, <2>4, <2>5, <2>6 DEF Answers, Opened
<1> QED BY <1>7, <1>8

(* SendErrorPage, with another status.                                     *)
WithStatus(c, s) == [c EXCEPT !.status = s]

(* The status set before.                                                  *)
LEMMA StatusSet ==
  ASSUME NEW n \in Nat, NEW c, Startable(c, n), NEW s \in Statuses
  PROVE  Startable(WithStatus(c, s), n) /\ WithStatus(c, s).status = s
<1> DEFINE e == WithStatus(c, s)
<1>0. c \in Contexts
  BY DEF Startable, Silent
<1>2. /\ e \in Contexts /\ e.sent = c.sent /\ e.threw = c.threw /\ e.wire = c.wire
      /\ e.status = s /\ e.length = c.length /\ e.queue = c.queue /\ e.ran = c.ran
      /\ e.chunked = c.chunked
  BY <1>0, Zenon DEF Contexts, WithStatus
<1> HIDE DEF e
<1>3. Startable(e, n)
  BY <1>2 DEF Startable, Silent, InOrder, RanIn
<1> QED BY <1>2, <1>3 DEF e

(* The error page, with the status the context has or with another.        *)
LEMMA ErrorPageSent ==
  ASSUME NEW n \in Nat, NEW c, Startable(c, n)
  PROVE  /\ Answers(c, SendErrorPage(c), n)
         /\ \A s \in Statuses :
              /\ SendStatus(c, s) = SendErrorPage(WithStatus(c, s))
              /\ Startable(WithStatus(c, s), n) /\ WithStatus(c, s).status = s
              /\ Answers(WithStatus(c, s), SendErrorPage(WithStatus(c, s)), n)
<1>1. PageSize \in Nat /\ ~c.sent
  BY SizesAssumption DEF Startable, Silent
<1>2. \A e : Startable(e, n) => Answers(e, SendErrorPage(e), n)
  BY <1>1, TextSent DEF SendErrorPage
<1>3. ASSUME NEW s \in Statuses
      PROVE  SendStatus(c, s) = SendErrorPage(WithStatus(c, s))
  BY <1>1, <1>3 DEF SendStatus, WithStatus
<1> QED BY <1>2, <1>3, StatusSet

(* What the properties ask of a context with no stream open.               *)
Kept(c, n) == Good(c, n) /\ Framed(c) /\ Exact(c)

(* Only a head that says 206 has to be exact.                              *)
LEMMA NotPartial ==
  ASSUME NEW c, c.sent => HeadOf(c)[2] # 206
  PROVE  Exact(c)
BY DEF Exact

(* An exception changes nothing that was written.                          *)
LEMMA Thrown ==
  ASSUME NEW n, NEW c, Good(c, n)
  PROVE  LET d == Throw(c)
         IN /\ Good(d, n) /\ Exact(d) /\ d.threw /\ (Framed(c) => Framed(d))
            /\ d.sent = c.sent /\ d.wire = c.wire /\ d.ran = c.ran
<1> DEFINE d == Throw(c)
<1>0. c \in Contexts
  BY DEF Good
<1>1. /\ d \in Contexts /\ d.sent = c.sent /\ d.wire = c.wire /\ d.status = c.status
      /\ d.length = c.length /\ d.queue = c.queue /\ d.ran = c.ran /\ d.chunked = c.chunked
      /\ d.threw
  BY <1>0, Zenon DEF Contexts, Throw
<1> HIDE DEF d
<1>2. Good(d, n)
  BY <1>1 DEF Good, Wired, HeadOf, BodyOf, InOrder, RanIn
<1>3. Framed(c) => Framed(d)
  BY <1>1 DEF Framed, Clean, RanIn, HeadOf, BodyOf
<1>4. Exact(d)
  BY <1>1 DEF Exact
<1> QED BY <1>1, <1>2, <1>3, <1>4 DEF d

(* A status and no body.                                                   *)
LEMMA Refused ==
  ASSUME NEW n \in Nat, NEW c, Startable(c, n), NEW s \in {400, 416}
  PROVE  Kept(Refuse(c, s), n)
<1>1. s \in Statuses
  BY DEF Statuses
<1>2. PICK e : e = WithStatus(c, s)
  OBVIOUS
<1>3. Startable(e, n) /\ e.status = s
  BY <1>1, <1>2, StatusSet
<1>4. PICK d : d = WriteHeaders(e)
  OBVIOUS
<1>5. Headed(e, d, n) /\ Good(d, n) /\ Framed(d)
  BY <1>3, <1>4, HeadWritten, HeadAlone DEF Startable
<1>6. d.sent => HeadOf(d)[2] \in {s, 403}
  BY <1>3, <1>5 DEF Headed, HeadFits
<1>7. Exact(d)
  BY <1>6, NotPartial
<1>8. Refuse(c, s) = d
  BY <1>2, <1>4 DEF Refuse, WithStatus
<1> QED BY <1>5, <1>7, <1>8 DEF Kept

(* Bytes of a source after the head alone was written.                     *)
LEMMA Copied ==
  ASSUME NEW n \in Nat, NEW e, Startable(e, n), NEW o, o = WriteHeaders(e), ~o.threw,
         NEW from \in Nat, NEW k \in Nat, k = e.length, NEW fails \in BOOLEAN
  PROVE  LET d == CopyPlain(o, from, k, fails)
         IN /\ Good(d, n) /\ Framed(d) /\ d.sent /\ HeadOf(d) = HeadOf(o)
            /\ fails => Exact(d)
            /\ ~fails /\ ~RanIn(d, "answer") =>
                 /\ ~RanIn(o, "answer") /\ HeadOf(d)[3] = k
                 /\ BodyOf(d) = IF k > 0 THEN <<<<"plain", from, k>>>> ELSE <<>>
<1>1. Headed(e, o, n) /\ Good(o, n)
  BY HeadWritten, HeadAlone DEF Startable
<1>2. o \in Contexts /\ o.sent /\ Wired(o) /\ HeadOf(o) \in Heads
  BY <1>1 DEF Headed, Wired
<1>3. ~RanIn(o, "answer") => HeadOf(o)[3] = k /\ BodyOf(o) = <<>>
  BY <1>1, <1>2 DEF Headed, Unanswered
<1>4. Clean(o) => ~HeadOf(o)[4]
  BY <1>1, <1>2 DEF Headed, Clean, Startable, HeadFits
<1>5. ASSUME NEW j \in Nat, j <= k
      PROVE  LET d == Plain(o, from, j)
             IN /\ Good(d, n) /\ Framed(d) /\ d.sent /\ HeadOf(d) = HeadOf(o)
                /\ ~RanIn(d, "answer") =>
                     /\ ~RanIn(o, "answer") /\ HeadOf(d)[3] = k
                     /\ BodyOf(d) = IF j > 0 THEN <<<<"plain", from, j>>>> ELSE <<>>
  <2>1. PICK d : d = Plain(o, from, j)
    OBVIOUS
  <2>2. /\ d \in Contexts /\ SameButWire(o, d) /\ Wired(d) /\ HeadOf(d) = HeadOf(o)
        /\ BodyOf(d) = IF j > 0 THEN Append(BodyOf(o), <<"plain", from, j>>) ELSE BodyOf(o)
    BY <1>2, <2>1, PlainIs
  <2>3. Good(d, n) /\ d.sent /\ \A kind : RanIn(d, kind) <=> RanIn(o, kind)
    BY <1>1, <1>2, <2>2, GoodWire
  <2>4. ~RanIn(d, "answer") =>
           /\ ~RanIn(o, "answer") /\ HeadOf(d)[3] = k
           /\ BodyOf(d) = IF j > 0 THEN <<<<"plain", from, j>>>> ELSE <<>>
    <3> SUFFICES ASSUME ~RanIn(d, "answer")
                 PROVE  /\ ~RanIn(o, "answer") /\ HeadOf(d)[3] = k
                        /\ BodyOf(d) = IF j > 0 THEN <<<<"plain", from, j>>>> ELSE <<>>
      OBVIOUS
    <3>1. ~RanIn(o, "answer") /\ HeadOf(d)[3] = k /\ BodyOf(o) = <<>>
      BY <1>3, <2>2, <2>3
    <3>2. PICK t : t = <<"plain", from, j>>
      BY Zenon
    <3>3. BodyOf(d) = IF j > 0 THEN <<t>> ELSE <<>>
      BY <2>2, <3>1, <3>2
    <3> QED BY <3>1, <3>2, <3>3
  <2>5. Framed(d)
    <3> SUFFICES ASSUME Clean(d) PROVE Fits(HeadOf(d), BodyOf(d)) /\ Over(HeadOf(d), BodyOf(d))
      BY DEF Framed
    <3>1. PICK h : h = HeadOf(d)
      OBVIOUS
    <3>2. ~h[4] /\ h \in Heads /\ (h[3] >= 0 => j <= h[3])
      BY <1>2, <1>4, <1>5, <2>2, <2>3, <2>4, <3>1 DEF Clean
    <3>3. BodyOf(d) = IF j > 0 THEN <<<<"plain", from, j>>>> ELSE <<>>
      BY <2>4 DEF Clean
    <3> QED BY <3>1, <3>2, <3>3, OnePiece
  <2> QED BY <2>1, <2>2, <2>3, <2>4, <2>5
<1>6. CASE fails
  <2>1. k \div 2 \in Nat /\ k \div 2 <= k
    OBVIOUS
  <2>2. PICK d : d = Plain(o, from, k \div 2)
    OBVIOUS
  <2>3. Good(d, n) /\ Framed(d) /\ d.sent /\ HeadOf(d) = HeadOf(o)
    BY <1>5, <2>1, <2>2
  <2>4. PICK t : t = Throw(d)
    OBVIOUS
  <2>5. Good(t, n) /\ Framed(t) /\ t.sent /\ HeadOf(t) = HeadOf(o) /\ Exact(t)
    BY <2>3, <2>4, Thrown DEF HeadOf
  <2>6. CopyPlain(o, from, k, fails) = t
    BY <1>6, <2>2, <2>4 DEF CopyPlain
  <2> QED BY <1>6, <2>5, <2>6, Zenon
<1>7. CASE ~fails
  <2>1. CopyPlain(o, from, k, fails) = Plain(o, from, k)
    BY <1>7 DEF CopyPlain
  <2>2. PICK d : d = Plain(o, from, k)
    OBVIOUS
  <2>3. /\ Good(d, n) /\ Framed(d) /\ d.sent /\ HeadOf(d) = HeadOf(o)
        /\ ~RanIn(d, "answer") =>
             /\ ~RanIn(o, "answer") /\ HeadOf(d)[3] = k
             /\ BodyOf(d) = IF k > 0 THEN <<<<"plain", from, k>>>> ELSE <<>>
    BY <1>5, <2>2
  <2> QED BY <1>7, <2>1, <2>2, <2>3
<1> QED BY <1>6, <1>7

(* With a Content-Length, and a status, set before.                        *)
WithLength(c, k) == [c EXCEPT !.length = k]
WithBoth(c, s, k) == [c EXCEPT !.status = s, !.length = k]

(* The Content-Length set before.                                          *)
LEMMA LengthSet ==
  ASSUME NEW n \in Nat, NEW c, Startable(c, n), NEW k \in Nat,
         NEW e, e = WithLength(c, k)
  PROVE  Startable(e, n) /\ e.length = k /\ e.status = c.status
<1>1. c \in Contexts /\ k \in Sizes
  BY DEF Startable, Silent, Sizes
<1>2. /\ e \in Contexts /\ e.sent = c.sent /\ e.threw = c.threw /\ e.wire = c.wire
      /\ e.status = c.status /\ e.length = k /\ e.queue = c.queue /\ e.ran = c.ran
      /\ e.chunked = c.chunked
  BY <1>1, Zenon DEF Contexts, WithLength
<1> QED BY <1>2 DEF Startable, Silent, InOrder, RanIn

(* All three set before, as for a range.                                   *)
WithRange(c, s, k, sp) == [c EXCEPT !.status = s, !.length = k, !.span = sp]

(* The Content-Range set before.                                           *)
LEMMA SpanSet ==
  ASSUME NEW n \in Nat, NEW c, Startable(c, n), NEW sp \in Spans,
         NEW e, e = [c EXCEPT !.span = sp]
  PROVE  Startable(e, n) /\ e.length = c.length /\ e.status = c.status /\ e.span = sp
<1>1. c \in Contexts
  BY DEF Startable, Silent
<1>2. /\ e \in Contexts /\ e.sent = c.sent /\ e.threw = c.threw /\ e.wire = c.wire
      /\ e.status = c.status /\ e.length = c.length /\ e.queue = c.queue /\ e.ran = c.ran
      /\ e.chunked = c.chunked /\ e.span = sp
  BY <1>1, Zenon DEF Contexts
<1> QED BY <1>2 DEF Startable, Silent, InOrder, RanIn

(* All of them.                                                            *)
LEMMA RangeSet ==
  ASSUME NEW n \in Nat, NEW c, Startable(c, n), NEW k \in Nat, NEW s \in Statuses,
         NEW sp \in Spans, NEW e, e = WithRange(c, s, k, sp)
  PROVE  Startable(e, n) /\ e.length = k /\ e.status = s /\ e.span = sp
<1>1. PICK d : d = WithStatus(c, s)
  OBVIOUS
<1>2. Startable(d, n) /\ d.status = s
  BY <1>1, StatusSet
<1>3. PICK f : f = WithLength(d, k)
  OBVIOUS
<1>4. Startable(f, n) /\ f.length = k /\ f.status = s
  BY <1>2, <1>3, LengthSet
<1>5. e = [f EXCEPT !.span = sp]
  BY <1>1, <1>3 DEF WithLength, WithRange, WithStatus, Startable, Silent, Contexts
<1> QED BY <1>4, <1>5, SpanSet

(* SendStream with a Range header: 206 with exactly these bytes, or 416.   *)
LEMMA RangeSent ==
  ASSUME NEW n \in Nat, NEW c, Startable(c, n), NEW s \in Sources, request \in Requests,
         request.range.kind = "bytes"
  PROVE  Kept(SendRange(c, request.range, s), n)
<1> DEFINE r == request.range
           begin == Begin(r)
           end == End(r, s.len)
<1>1. /\ r.first \in Nat \cup {Absent} /\ r.last \in Nat \cup {Absent} /\ s.len \in Nat \cup {-1}
      /\ s.fails \in BOOLEAN
  BY RequestsAssumption, SourcesAssumption, Zenon
<1>2. /\ begin \in Nat /\ end \in Int /\ s.len \in Int
      /\ r.first # Absent => begin .. end = AskedFor(r, s.len)
  BY <1>1 DEF Begin, End, Absent, AskedFor
<1>3. CASE end > s.len - 1 \/ begin >= end
  <2>1. PICK e : e = [c EXCEPT !.span = [NoSpan EXCEPT !.len = s.len]]
    BY Zenon
  <2>2. Startable(e, n)
    <3>1. PICK sp : sp = [NoSpan EXCEPT !.len = s.len]
      BY Zenon
    <3>2. sp \in Spans
      <4>1. PICK x : x = s.len
        BY Zenon
      <4>2. x \in Int
        BY <1>2, <4>1
      <4>3. sp = [NoSpan EXCEPT !.len = x]
        BY <3>1, <4>1, Zenon
      <4>4. sp = [begin |-> -1, end |-> -1, len |-> x]
        BY <4>3 DEF NoSpan, Absent
      <4> QED BY ONLY <4>2, <4>4 DEF Spans
    <3> QED BY <2>1, <3>1, <3>2, SpanSet
  <2>3. SendRange(c, r, s) = Refuse(e, 416)
    BY <1>3, <2>1, Zenon DEF SendRange
  <2> QED BY <2>2, <2>3, Refused
<1>4. CASE ~(end > s.len - 1 \/ begin >= end)
  <2>1. PICK b, z, k : b = begin /\ z = end /\ k = end - begin + 1
    BY Zenon
  <2>2. /\ b \in Nat /\ z \in Int /\ k = z - b + 1 /\ k \in Nat /\ k > 1 /\ z < s.len /\ 0 <= b
        /\ r.first # Absent => b .. z = AskedFor(r, s.len)
    <3> HIDE DEF begin, end
    <3> QED BY <1>1, <1>2, <1>4, <2>1
  <2>3. PICK sp : sp = [begin |-> b, end |-> z, len |-> s.len]
    BY Zenon
  <2>31. sp \in Spans /\ sp.begin = b /\ sp.end = z /\ sp.len = s.len
    <3>1. PICK x : x = s.len
      BY Zenon
    <3>2. x \in Int /\ b \in Int /\ z \in Int
      BY <1>2, <2>2, <3>1
    <3>3. sp = [begin |-> b, end |-> z, len |-> x]
      BY <2>3, <3>1, Zenon
    <3>4. sp \in Spans /\ sp.begin = b /\ sp.end = z /\ sp.len = x
      BY ONLY <3>2, <3>3 DEF Spans
    <3> QED BY <3>1, <3>4
  <2>4. PICK st : st = 206
    BY Zenon
  <2>41. PICK e : e = WithRange(c, st, k, sp)
    BY Zenon
  <2>42. st \in Statuses
    BY <2>4 DEF Statuses
  <2>43. Startable(e, n) /\ e.length = k /\ e.span = sp
    BY <2>2, <2>31, <2>41, <2>42, RangeSet
  <2>5. PICK o : o = WriteHeaders(e)
    OBVIOUS
  <2>51. o = WriteHeaders([c EXCEPT !.status = 206, !.length = end - begin + 1,
                                    !.span = [begin |-> begin, end |-> end, len |-> s.len]])
    BY <2>1, <2>3, <2>4, <2>41, <2>5, Zenon DEF WithRange
  <2>6. Headed(e, o, n) /\ Good(o, n) /\ Framed(o)
    BY <2>43, <2>5, HeadWritten, HeadAlone DEF Startable
  <2>7. o.sent => HeadOf(o)[5] = sp /\ (~RanIn(o, "answer") => HeadOf(o)[3] = k)
    BY <2>43, <2>6 DEF Headed, HeadFits, Unanswered
  <2>71. ASSUME NEW d, d.sent, HeadOf(d) = HeadOf(o), o.sent,
                ~RanIn(d, "answer") => ~RanIn(o, "answer"),
                \/ request.method = "HEAD"
                \/ ~RanIn(d, "answer") => BodyOf(d) = <<<<"plain", b, k>>>>
         PROVE  Exact(d)
    <3> SUFFICES ASSUME ~RanIn(d, "answer")
                 PROVE  LET span == HeadOf(d)[5]
                        IN /\ \E t \in Sources : t.len = span.len
                           /\ 0 <= span.begin /\ span.end < span.len
                           /\ HeadOf(d)[3] = span.end - span.begin + 1 /\ HeadOf(d)[3] > 1
                           /\ request.method # "HEAD" =>
                                BodyOf(d) = <<<<"plain", span.begin, HeadOf(d)[3]>>>>
                           /\ request.range.first # Absent =>
                                span.begin .. span.end = AskedFor(request.range, span.len)
      BY DEF Exact
    <3>1. PICK h : h = HeadOf(d)
      OBVIOUS
    <3>2. h[5] = sp /\ h[3] = k
      BY <2>7, <2>71, <3>1
    <3>3. \E t \in Sources : t.len = sp.len
      BY <2>31
    <3>4. request.method # "HEAD" => BodyOf(d) = <<<<"plain", b, k>>>>
      BY <2>71
    <3> QED BY <2>2, <2>31, <3>1, <3>2, <3>3, <3>4
  <2>8. CASE o.threw \/ request.method = "HEAD"
    <3>1. SendRange(c, r, s) = o
      BY <1>4, <2>51, <2>8, Zenon DEF SendRange
    <3>2. Exact(o)
      <4>1. CASE o.threw \/ ~o.sent
        BY <4>1 DEF Exact
      <4>2. CASE ~o.threw /\ o.sent
        BY <2>8, <2>71, <4>2
      <4> QED BY <4>1, <4>2
    <3> QED BY <2>6, <3>1, <3>2 DEF Kept
  <2>9. CASE ~(o.threw \/ request.method = "HEAD")
    <3>1. SendRange(c, r, s) = CopyPlain(o, begin, end - begin + 1, s.fails)
      BY <1>4, <2>51, <2>9, Zenon DEF SendRange
    <3>2. PICK d : d = CopyPlain(o, b, k, s.fails)
      OBVIOUS
    <3>3. SendRange(c, r, s) = d
      BY <2>1, <3>1, <3>2
    <3>4. /\ Good(d, n) /\ Framed(d) /\ d.sent /\ HeadOf(d) = HeadOf(o)
          /\ s.fails => Exact(d)
          /\ ~s.fails /\ ~RanIn(d, "answer") =>
               /\ ~RanIn(o, "answer")
               /\ BodyOf(d) = IF k > 0 THEN <<<<"plain", b, k>>>> ELSE <<>>
      BY <1>1, <2>2, <2>43, <2>5, <2>9, <3>2, Copied
    <3>5. Exact(d)
      <4>1. CASE s.fails
        BY <3>4, <4>1
      <4>2. CASE ~s.fails
        <5>1. ~RanIn(d, "answer") => /\ ~RanIn(o, "answer")
                                     /\ BodyOf(d) = <<<<"plain", b, k>>>>
          BY <2>2, <3>4, <4>2
        <5>2. o.sent
          BY <2>6, <2>9 DEF Headed
        <5> QED BY <2>71, <3>4, <5>1, <5>2
      <4> QED BY <4>1, <4>2
    <3> QED BY <3>3, <3>4, <3>5 DEF Kept
  <2> QED BY <2>8, <2>9
<1> QED BY <1>3, <1>4

(* An answer that is not partial.                                          *)
LEMMA AnswersKept ==
  ASSUME NEW n, NEW c, NEW d, Answers(c, d, n), c.status # 206
  PROVE  Kept(d, n)
<1>1. d.sent => HeadOf(d)[2] # 206
  BY DEF Answers
<1>2. Exact(d)
  BY <1>1, NotPartial
<1> QED BY <1>2 DEF Answers, Kept

(* SendStream from a source that can seek.                                 *)
LEMMA SeekableSent ==
  ASSUME NEW n \in Nat, NEW c, Startable(c, n), c.status # 206, NEW s \in Sources,
         request \in Requests
  PROVE  Kept(SendSeekable(c, s), n)
<1>1. /\ request.range.kind \in {"none", "no equals", "refused", "no number", "bytes"}
      /\ s.len \in Nat \cup {-1} /\ s.fails \in BOOLEAN
  BY RequestsAssumption, SourcesAssumption, Zenon
<1>2. Good(c, n) /\ ~c.sent /\ c \in Contexts
  BY DEF Startable, Silent, Good, Wired
<1>3. Kept(c, n)
  BY <1>2 DEF Kept, Framed, Exact
<1>4. CASE request.range.kind = "no equals"
  <2>1. SendSeekable(c, s) = SendErrorPage(WithStatus(c, 400))
    BY <1>4, Zenon DEF SendSeekable, WithStatus
  <2>2. PICK st : st = 400
    OBVIOUS
  <2>3. st \in Statuses
    BY <2>2 DEF Statuses
  <2>4. /\ Answers(WithStatus(c, st), SendErrorPage(WithStatus(c, st)), n)
        /\ WithStatus(c, st).status = st
    BY <2>3, ErrorPageSent
  <2> QED BY <2>1, <2>2, <2>4, AnswersKept
<1>5. CASE request.range.kind = "refused"
  <2>1. SendSeekable(c, s) = Refuse(c, 400)
    BY <1>5 DEF SendSeekable
  <2> QED BY <2>1, Refused
<1>6. CASE request.range.kind = "no number"
  <2>1. SendSeekable(c, s) = Throw(c)
    BY <1>6, Zenon DEF SendSeekable
  <2>2. PICK d : d = Throw(c)
    OBVIOUS
  <2>3. Good(d, n) /\ Exact(d) /\ Framed(d)
    BY <1>2, <1>3, <2>2, Thrown DEF Kept
  <2> QED BY <2>1, <2>2, <2>3 DEF Kept
<1>7. CASE request.range.kind = "none" /\ s.len < 0
  <2>1. SendSeekable(c, s) = c
    BY <1>7 DEF SendSeekable
  <2> QED BY <1>3, <2>1
<1>8. CASE request.range.kind = "none" /\ ~(s.len < 0)
  <2>0. PICK k : k = s.len
    OBVIOUS
  <2>1. PICK e : e = WithLength(c, k)
    OBVIOUS
  <2>2. Startable(e, n) /\ e.length = k /\ e.status = c.status /\ k \in Nat
    <3>1. k \in Nat
      BY <1>1, <1>8, <2>0
    <3> QED BY <2>1, <3>1, LengthSet
  <2>3. PICK o : o = WriteHeaders(e)
    OBVIOUS
  <2>4. Headed(e, o, n) /\ Good(o, n) /\ Framed(o)
    BY <2>2, <2>3, HeadWritten, HeadAlone DEF Startable
  <2>5. o.sent => HeadOf(o)[2] # 206
    BY <2>2, <2>4 DEF Headed, HeadFits
  <2>6. CASE o.threw \/ request.method = "HEAD"
    <3>1. SendSeekable(c, s) = o
      BY <1>8, <2>0, <2>1, <2>3, <2>6 DEF SendSeekable, WithLength
    <3> QED BY <2>4, <2>5, <3>1, NotPartial DEF Kept
  <2>7. CASE ~(o.threw \/ request.method = "HEAD")
    <3>3. PICK z, fl : z = 0 /\ fl = s.fails
      OBVIOUS
    <3>1. PICK d : d = CopyPlain(o, z, k, fl)
      OBVIOUS
    <3>2. SendSeekable(c, s) = d
      BY <1>8, <2>0, <2>1, <2>3, <2>7, <3>1, <3>3 DEF SendSeekable, WithLength
    <3>4. z \in Nat /\ fl \in BOOLEAN /\ k \in Nat /\ k = e.length /\ ~o.threw
      BY <1>1, <2>2, <2>7, <3>3, Zenon
    <3>5. Good(d, n) /\ Framed(d) /\ d.sent /\ HeadOf(d) = HeadOf(o)
      BY <2>2, <2>3, <3>1, <3>4, Copied
    <3>6. HeadOf(d)[2] # 206
      BY <2>4, <2>5, <2>7, <3>5 DEF Headed
    <3> QED BY <3>2, <3>5, <3>6, NotPartial DEF Kept
  <2> QED BY <2>6, <2>7
<1>9. CASE request.range.kind = "bytes"
  <2>1. SendSeekable(c, s) = SendRange(c, request.range, s)
    BY <1>9 DEF SendSeekable
  <2> QED BY <1>9, <2>1, RangeSent
<1> QED BY <1>1, <1>4, <1>5, <1>6, <1>7, <1>8, <1>9, Zenon

(* A chunk and the final chunk, or the final chunk alone, fit.             *)
LEMMA LastPiece ==
  ASSUME NEW h, h[4], h[3] < 0, NEW f, f[1] = "final"
  PROVE  /\ Fits(h, <<f>>) /\ Over(h, <<f>>)
         /\ \A t : t[1] = "chunk" => Fits(h, <<t, f>>) /\ Over(h, <<t, f>>)
<1>1. /\ Len(<<f>>) = 1 /\ DOMAIN <<f>> = {1} /\ <<f>>[1] = f /\ <<f>> # <<>>
      /\ Last(<<f>>) = f
  BY DEF Last
<1>2. Fits(h, <<f>>) /\ Over(h, <<f>>)
  BY <1>1 DEF Fits, Over
<1>3. ASSUME NEW t, t[1] = "chunk" PROVE Fits(h, <<t, f>>) /\ Over(h, <<t, f>>)
  <2>1. PICK b : b = <<t, f>>
    BY Zenon
  <2>2. Len(b) = 2 /\ DOMAIN b = {1, 2} /\ b[1] = t /\ b[2] = f /\ b # <<>> /\ Last(b) = f
    BY <2>1 DEF Last
  <2>3. Fits(h, b) /\ Over(h, b)
    BY <1>3, <2>2 DEF Fits, Over
  <2> QED BY <2>1, <2>3
<1> QED BY <1>2, <1>3

(* The same when the source fails at the end.                              *)
LEMMA FailsOrNot ==
  ASSUME NEW n \in Nat, NEW d, Kept(d, n), NEW b \in BOOLEAN
  PROVE  Kept(IF b THEN Throw(d) ELSE d, n)
<1>1. PICK t : t = Throw(d)
  OBVIOUS
<1>2. Kept(t, n)
  BY <1>1, Thrown DEF Kept
<1> QED BY <1>1, <1>2

(* SendStream through an HttpStream.                                       *)
LEMMA UnseekableSent ==
  ASSUME NEW n \in Nat, NEW c, Startable(c, n), c.status # 206, NEW s \in Sources,
         request \in Requests
  PROVE  Kept(SendUnseekable(c, s), n)
<1>0. s.len \in Nat \cup {-1} /\ s.fails \in BOOLEAN /\ c.length \in Sizes /\ c \in Contexts
  BY SourcesAssumption DEF Startable, Silent, Contexts
<1>01. c.length \in Int
  BY <1>0 DEF Sizes, Unset, Junk
<1>1. PICK o : o = OpenResponse(c)
  OBVIOUS
<1>2. Opened(c, o, n)
  BY <1>1, ResponseOpened
<1>3. PICK k : k = IF s.fails THEN s.len \div 2 ELSE s.len
  OBVIOUS
<1>4. k \in Int
  BY <1>0, <1>3
<1>5. PICK over : over = (c.length >= 0 /\ k > c.length)
  OBVIOUS
<1>6. CASE o.threw \/ request.method = "HEAD"
  <2>1. SendUnseekable(c, s) = o
    BY <1>1, <1>6 DEF SendUnseekable
  <2>2. Good(o, n) /\ (o.sent => HeadOf(o)[2] # 206)
    BY <1>2 DEF Opened
  <2>3. Framed(o)
    <3> SUFFICES ASSUME o.sent, Clean(o)
                 PROVE  Fits(HeadOf(o), BodyOf(o)) /\ Over(HeadOf(o), BodyOf(o))
      BY DEF Framed
    <3>1. /\ HeadOf(o)[3] = c.length /\ HeadOf(o)[4] = (Http11 /\ c.length < 0)
          /\ BodyOf(o) = IF ClosedAtOnce(c) THEN <<<<"final", 0, 0>>>> ELSE <<>>
          /\ request.method = "HEAD" /\ HeadOf(o) \in Heads
      <4>1. o.threw => RanIn(o, "throw")
        BY <1>2 DEF Opened
      <4>2. request.method = "HEAD"
        BY <1>6, <4>1 DEF Clean
      <4>3. HeadOf(o) \in Heads
        BY <1>2 DEF Opened, Good, Wired
      <4> QED BY <1>2, <4>2, <4>3 DEF Opened
    <3>2. PICK h : h = HeadOf(o)
      OBVIOUS
    <3>3. CASE ClosedAtOnce(c)
      <4>1. PICK t : t = <<"final", 0, 0>>
        BY Zenon
      <4>2. t[1] = "final" /\ BodyOf(o) = <<t>>
        BY <3>1, <3>3, <4>1
      <4>3. h[4] /\ h[3] < 0
        BY <3>1, <3>2, <3>3, Zenon DEF ClosedAtOnce
      <4>4. Fits(h, <<t>>) /\ Over(h, <<t>>)
        BY <4>2, <4>3, LastPiece
      <4> QED BY <3>2, <4>2, <4>4
    <3>4. CASE ~ClosedAtOnce(c)
      <4>1. ~h[4] /\ BodyOf(o) = <<>> /\ h \in Heads
        BY <3>1, <3>2, <3>4, Zenon DEF ClosedAtOnce
      <4> QED BY <3>2, <4>1, EmptyBody
    <3> QED BY <3>3, <3>4
  <2> QED BY <2>1, <2>2, <2>3, NotPartial DEF Kept
<1>7. CASE ~(o.threw \/ request.method = "HEAD")
  <2>1. /\ o \in Contexts /\ o.sent /\ Wired(o) /\ Good(o, n) /\ HeadOf(o) \in Heads
        /\ HeadOf(o)[2] # 206
        /\ Clean(o) => /\ HeadOf(o)[3] = c.length /\ HeadOf(o)[4] = (Http11 /\ c.length < 0)
                       /\ BodyOf(o) = <<>>
    BY <1>2, <1>7 DEF Opened, Good, Wired, ClosedAtOnce
  <2>2. ASSUME NEW j \in Int, c.length >= 0 => j <= c.length, c.length >= 0 \/ ~Http11
        PROVE  Kept(Plain(o, 0, j), n)
    <3>1. PICK d : d = Plain(o, 0, j)
      OBVIOUS
    <3>2. /\ d \in Contexts /\ SameButWire(o, d) /\ Wired(d) /\ HeadOf(d) = HeadOf(o)
          /\ BodyOf(d) = IF j > 0 THEN Append(BodyOf(o), <<"plain", 0, j>>) ELSE BodyOf(o)
      BY <2>1, <3>1, PlainIs
    <3>3. Good(d, n) /\ d.sent /\ \A kind : RanIn(d, kind) <=> RanIn(o, kind)
      BY <2>1, <3>2, GoodWire
    <3>4. Framed(d)
      <4> SUFFICES ASSUME Clean(d) PROVE Fits(HeadOf(d), BodyOf(d)) /\ Over(HeadOf(d), BodyOf(d))
        BY DEF Framed
      <4>1. PICK h : h = HeadOf(d)
        OBVIOUS
      <4>2. Clean(o)
        BY <3>3 DEF Clean
      <4>3. h[3] = c.length /\ h[4] = (Http11 /\ c.length < 0) /\ BodyOf(o) = <<>> /\ h \in Heads
        BY <2>1, <3>2, <4>1, <4>2
      <4>31. ~h[4]
        <5>1. ~(Http11 /\ c.length < 0)
          BY <1>01, <2>2
        <5> QED BY <4>3, <5>1, Zenon
      <4>4. ~h[4] /\ (h[3] >= 0 => j <= h[3]) /\ h \in Heads
        BY <2>2, <4>3, <4>31
      <4>5. PICK t : t = <<"plain", 0, j>>
        BY Zenon
      <4>6. BodyOf(d) = IF j > 0 THEN <<t>> ELSE <<>>
        BY <3>2, <4>3, <4>5
      <4>7. PICK z : z = 0
        OBVIOUS
      <4>8. z \in Nat /\ t = <<"plain", z, j>>
        BY <4>5, <4>7
      <4>9. LET b == IF j > 0 THEN <<<<"plain", z, j>>>> ELSE <<>> IN Fits(h, b) /\ Over(h, b)
        BY <2>2, <4>4, <4>8, OnePiece
      <4> QED BY <4>1, <4>6, <4>8, <4>9
    <3>5. HeadOf(d)[2] # 206
      BY <2>1, <3>2
    <3> QED BY <3>1, <3>3, <3>4, <3>5, NotPartial DEF Kept
  <2>3. CASE c.length >= 0
    <3>1. PICK j : j = IF over THEN c.length ELSE k
      OBVIOUS
    <3>2. j \in Int /\ j <= c.length
      <4>1. CASE over
        BY <1>01, <2>3, <3>1, <4>1
      <4>2. CASE ~over
        <5>1. ~(k > c.length) /\ j = k
          BY <1>5, <2>3, <3>1, <4>2, Zenon
        <5> QED BY <1>01, <1>4, <5>1
      <4> QED BY <4>1, <4>2
    <3>3. SendUnseekable(c, s) =
            IF s.fails \/ over THEN Throw(Plain(o, 0, j)) ELSE Plain(o, 0, j)
      BY <1>1, <1>3, <1>5, <1>7, <2>3, <3>1, Zenon DEF SendUnseekable
    <3>4. Kept(Plain(o, 0, j), n)
      BY <2>2, <2>3, <3>2
    <3>5. (s.fails \/ over) \in BOOLEAN
      BY <1>0, <1>5
    <3> QED BY <3>3, <3>4, <3>5, FailsOrNot, Zenon
  <2>4. CASE ~(c.length >= 0) /\ Http11
    <3>1. PICK m : m = IF k > 0 THEN Put(o, <<"chunk", 0, k>>) ELSE o
      OBVIOUS
    <3>2. PICK t : t = <<"chunk", 0, k>>
      BY Zenon
    <3>3. k > 0 => t \in Pieces /\ t[1] = "chunk"
      <4>1. k > 0 => k \in Nat
        BY <1>4
      <4> QED BY <3>2, <4>1 DEF Pieces
    <3>4. /\ m \in Contexts /\ SameButWire(o, m) /\ Wired(m) /\ HeadOf(m) = HeadOf(o)
          /\ BodyOf(m) = IF k > 0 THEN Append(BodyOf(o), t) ELSE BodyOf(o)
      <4>1. CASE k > 0
        BY <2>1, <3>1, <3>2, <3>3, <4>1, PutIs, ZenonT(30)
      <4>2. CASE ~(k > 0)
        BY <2>1, <3>1, <4>2, Zenon DEF SameButWire
      <4> QED BY <4>1, <4>2
    <3>5. Good(m, n) /\ m.sent /\ \A kind : RanIn(m, kind) <=> RanIn(o, kind)
      BY <2>1, <3>4, GoodWire
    <3>6. PICK d : d = Put(m, <<"final", 0, 0>>)
      OBVIOUS
    <3>7. /\ d \in Contexts /\ SameButWire(m, d) /\ Wired(d)
          /\ HeadOf(d) = HeadOf(m) /\ BodyOf(d) = Append(BodyOf(m), <<"final", 0, 0>>)
      BY <3>4, <3>5, <3>6, FinalPut
    <3>8. Good(d, n) /\ d.sent /\ \A kind : RanIn(d, kind) <=> RanIn(m, kind)
      BY <3>5, <3>7, GoodWire
    <3>9. Framed(d)
      <4> SUFFICES ASSUME Clean(d) PROVE Fits(HeadOf(d), BodyOf(d)) /\ Over(HeadOf(d), BodyOf(d))
        BY DEF Framed
      <4>1. PICK h : h = HeadOf(d)
        OBVIOUS
      <4>2. Clean(o)
        BY <3>5, <3>8 DEF Clean
      <4>21. c.length < 0
        BY <1>01, <2>4
      <4>3. h[3] < 0 /\ h[4] /\ BodyOf(o) = <<>>
        BY <2>1, <2>4, <3>4, <3>7, <4>1, <4>2, <4>21, ZenonT(30)
      <4>4. PICK f : f = <<"final", 0, 0>>
        BY Zenon
      <4>5. BodyOf(d) = IF k > 0 THEN <<t, f>> ELSE <<f>>
        BY <3>4, <3>7, <4>3, <4>4
      <4>6. f[1] = "final" /\ (k > 0 => t[1] = "chunk")
        BY <3>3, <4>4
      <4>7. Fits(h, <<f>>) /\ Over(h, <<f>>)
        BY <4>3, <4>6, LastPiece
      <4>8. k > 0 => Fits(h, <<t, f>>) /\ Over(h, <<t, f>>)
        BY <4>3, <4>6, LastPiece, Zenon
      <4> QED BY <4>1, <4>5, <4>7, <4>8
    <3>10. HeadOf(d)[2] # 206
      BY <2>1, <3>4, <3>7
    <3>11. Kept(d, n)
      BY <3>8, <3>9, <3>10, NotPartial DEF Kept
    <3>12. ~over
      BY <1>5, <2>4, Zenon
    <3>13. SendUnseekable(c, s) = IF s.fails THEN Throw(d) ELSE d
      BY <1>1, <1>3, <1>5, <1>7, <2>4, <3>1, <3>6, <3>12 DEF SendUnseekable
    <3> QED BY <1>0, <3>11, <3>13, FailsOrNot
  <2>5. CASE ~(c.length >= 0) /\ ~Http11
    <3>1. ~over
      BY <1>5, <2>5, Zenon
    <3>2. SendUnseekable(c, s) = IF s.fails THEN Throw(Plain(o, 0, k)) ELSE Plain(o, 0, k)
      BY <1>1, <1>3, <1>5, <1>7, <2>5, <3>1 DEF SendUnseekable
    <3>3. Kept(Plain(o, 0, k), n)
      BY <1>4, <2>2, <2>5
    <3> QED BY <1>0, <3>2, <3>3, FailsOrNot
  <2> QED BY <2>3, <2>4, <2>5
<1> QED BY <1>6, <1>7

(* SendStream.                                                             *)
LEMMA StreamSent ==
  ASSUME NEW n \in Nat, NEW c, Startable(c, n), c.status # 206, NEW s \in Sources,
         request \in Requests
  PROVE  Kept(SendStream(c, s), n)
<1>1. Good(c, n) /\ ~c.sent
  BY DEF Startable, Silent, Good, Wired
<1>2. CASE s.len = 0
  <2>1. SendStream(c, s) = Throw(c)
    BY <1>1, <1>2 DEF SendStream
  <2>2. PICK d : d = Throw(c)
    OBVIOUS
  <2>3. Good(d, n) /\ Exact(d) /\ Framed(d)
    BY <1>1, <2>2, Thrown DEF Framed
  <2> QED BY <2>1, <2>2, <2>3 DEF Kept
<1>3. CASE s.len # 0 /\ s.seek
  <2>1. SendStream(c, s) = SendSeekable(c, s)
    BY <1>1, <1>3 DEF SendStream
  <2> QED BY <2>1, SeekableSent
<1>4. CASE s.len # 0 /\ ~s.seek
  <2>1. SendStream(c, s) = SendUnseekable(c, s)
    BY <1>1, <1>4 DEF SendStream
  <2> QED BY <2>1, UnseekableSent
<1> QED BY <1>2, <1>3, <1>4

Streams == [open : BOOLEAN, length : Sizes, position : Nat]

(* A stream the handler has open, and what was written to it.              *)
Open(c, st) ==
  /\ c.sent /\ HeadOf(c)[2] # 206
  /\ st.length >= 0 => st.position <= st.length
  /\ Clean(c) =>
       IF Http11 /\ st.length < 0
         THEN /\ HeadOf(c)[4] /\ HeadOf(c)[3] < 0
              /\ \A k \in DOMAIN BodyOf(c) : BodyOf(c)[k][1] = "chunk"
         ELSE /\ ~HeadOf(c)[4] /\ HeadOf(c)[3] = st.length
              /\ \A k \in DOMAIN BodyOf(c) : BodyOf(c)[k][1] = "plain"
              /\ st.length >= 0 => Bytes(BodyOf(c)) = st.position

InBody(c, st) == IF st.open THEN Open(c, st) ELSE Framed(c)

IsAnswered(c, how) ==
  (c.sent /\ (how = "unhandled" => HeadOf(c)[2] # 200)) \/ RanIn(c, "throw")

Phases == {"reading", "handling", "ending", "done"}
Ways == {"none", "true", "false", "unhandled", "threw"}

ContextIInv ==
  /\ request \in Requests /\ phase \in Phases /\ calls \in 0 .. MaxCalls /\ returned \in Ways
  /\ stream \in Streams
  /\ Good(ctx, calls) /\ InBody(ctx, stream)
  /\ returned # "threw" => Exact(ctx)
  /\ phase = "reading" => ctx = NewContext /\ ~stream.open /\ returned = "none"
  /\ phase = "handling" => returned = "none"
  /\ phase \in {"ending", "done"} => ~stream.open
  /\ phase \in {"ending", "done"} /\ request.line # "none" /\ returned # "true" =>
       IsAnswered(ctx, returned)

(* The invariant of a step, from what it says of the new context and stream.*)
LEMMA StepTo ==
  ASSUME ContextIInv, NEW c, NEW st \in Streams, NEW n \in 0 .. MaxCalls,
         request' = request, ctx' = c, stream' = st, calls' = n,
         phase' \in Phases, returned' \in Ways,
         Good(c, n), InBody(c, st), returned' # "threw" => Exact(c),
         phase' # "reading", phase' = "handling" => returned' = "none",
         phase' \in {"ending", "done"} => ~st.open,
         phase' \in {"ending", "done"} /\ request.line # "none" /\ returned' # "true" =>
           IsAnswered(c, returned')
  PROVE  ContextIInv'
<1>1. InBody(c, st)'
  BY DEF InBody, Open, Http11, Framed, Fits, Over, Clean
<1>2. Exact(c) => Exact(c)'
  BY DEF Exact
<1>3. request' \in Requests
  BY DEF ContextIInv
<1> QED BY <1>1, <1>2, <1>3 DEF ContextIInv

(* What the invariant says of a context before a call.                     *)
LEMMA Types ==
  ASSUME ContextIInv
  PROVE  /\ calls \in Nat /\ MaxCalls \in Nat
         /\ ctx \in Contexts /\ Wired(ctx) /\ stream \in Streams
         /\ ~ctx.sent /\ ~ctx.threw => Startable(ctx, calls) /\ ctx.status # 206
         /\ ~ctx.sent => ~stream.open
<1>1. calls \in Nat /\ MaxCalls \in Nat
  BY SizesAssumption DEF ContextIInv
<1>2. ctx \in Contexts /\ Wired(ctx) /\ stream \in Streams
  BY DEF ContextIInv, Good
<1>3. ~ctx.sent /\ ~ctx.threw => Startable(ctx, calls) /\ ctx.status # 206
  BY DEF ContextIInv, Good, Startable, Silent, Wired
<1>4. ~ctx.sent => ~stream.open
  BY <1>2 DEF ContextIInv, InBody, Open, Streams
<1> QED BY <1>1, <1>2, <1>3, <1>4

(* One call more.                                                          *)
LEMMA LaterGood ==
  ASSUME NEW n \in Nat, NEW c, Good(c, n)
  PROVE  Good(c, n + 1)
<1>1. c \in Contexts
  BY DEF Good
<1>2. /\ c.ran \in Seq(Called) /\ c.queue \in Seq(Registered)
      /\ \A k \in DOMAIN c.ran : c.ran[k].id \in Nat
      /\ \A k \in DOMAIN c.queue : c.queue[k].id \in Nat
  <2>1. c.ran \in Seq(Called) /\ c.queue \in Seq(Registered)
    BY <1>1 DEF Contexts
  <2>2. /\ \A k \in DOMAIN c.ran : c.ran[k] \in Called
        /\ \A k \in DOMAIN c.queue : c.queue[k] \in Registered
    BY <2>1, LenProperties, ElementOfSeq
  <2> QED BY <2>1, <2>2 DEF Called, Registered
<1>3. InOrder(c, n) => InOrder(c, n + 1)
  BY <1>2 DEF InOrder
<1> QED BY <1>3 DEF Good

(* The invariant holds when a request arrives.                             *)
LEMMA ContextInit == Init => ContextIInv
<1> SUFFICES ASSUME Init PROVE ContextIInv
  OBVIOUS
<1>1. /\ request \in Requests /\ phase = "reading" /\ ctx = NewContext /\ stream = NoStream
      /\ calls = 0 /\ returned = "none"
  BY DEF Init
<1>2. NewContext \in Contexts
  <2>1. <<>> \in Seq(Registered) /\ <<>> \in Seq(Called) /\ <<>> \in Seq(Heads \cup Pieces)
    BY EmptySeq
  <2>2. NoSpan \in Spans
    BY DEF NoSpan, Spans, Absent
  <2>3. 200 \in Statuses /\ Unset \in Sizes
    BY DEF Statuses, Sizes
  <2> QED BY <2>1, <2>2, <2>3 DEF NewContext, Contexts
<1>3. Good(NewContext, 0)
  <2>1. DOMAIN <<>> = {}
    OBVIOUS
  <2>2. PICK c : c = NewContext
    BY Zenon
  <2>3. /\ ~c.sent /\ ~c.threw /\ ~c.chunked /\ c.status = 200
        /\ c.wire = <<>> /\ c.queue = <<>> /\ c.ran = <<>>
    BY <2>2 DEF NewContext
  <2>4. Timely(<<>>)
    BY <2>1 DEF Timely
  <2>5. Wired(c) /\ InOrder(c, 0)
    BY <2>1, <2>3, <2>4 DEF Wired, InOrder
  <2>6. c.status # 206
    BY <2>3
  <2>7. c \in Contexts
    BY <1>2, <2>2
  <2>8. Good(c, 0)
    BY <2>3, <2>5, <2>6, <2>7 DEF Good
  <2> QED BY <2>2, <2>8
<1>4. Framed(NewContext) /\ Exact(NewContext)
  BY DEF Framed, Exact, NewContext
<1>5. NoStream \in Streams /\ ~NoStream.open
  BY DEF NoStream, Streams, Sizes
<1>6. calls \in 0 .. MaxCalls
  BY <1>1, SizesAssumption
<1> QED BY <1>1, <1>3, <1>4, <1>5, <1>6 DEF ContextIInv, InBody, Phases, Ways

(* d has the wire, and the interceptors, of c.                             *)
LEMMA SameWire ==
  ASSUME NEW c, NEW d, d.sent = c.sent, d.wire = c.wire, d.ran = c.ran, NEW st
  PROVE  /\ d.threw = c.threw => (Exact(c) => Exact(d))
         /\ InBody(c, st) => InBody(d, st)
         /\ Framed(c) => Framed(d)
<1>1. HeadOf(d) = HeadOf(c) /\ BodyOf(d) = BodyOf(c) /\ \A kind : RanIn(d, kind) <=> RanIn(c, kind)
  BY DEF HeadOf, BodyOf, RanIn
<1>2. Clean(d) <=> Clean(c)
  BY <1>1 DEF Clean
<1>3. d.threw = c.threw => (Exact(c) => Exact(d))
  BY <1>1 DEF Exact
<1>4. InBody(c, st) => InBody(d, st)
  BY <1>1, <1>2 DEF InBody, Open, Framed
<1>5. Framed(c) => Framed(d)
  BY <1>1, <1>2 DEF Framed
<1> QED BY <1>3, <1>4, <1>5

(* The calls that change what is to be sent.                               *)
LEMMA SetterSteps ==
  ASSUME ContextIInv,
         \/ WithStatusCode
         \/ \E n \in Lengths : WithContentLength(n)
         \/ \E kind \in Kinds : WithHeaderIntercepter(kind)
  PROVE  ContextIInv'
<1>1. /\ calls \in Nat /\ MaxCalls \in Nat /\ ctx \in Contexts /\ stream \in Streams
      /\ Good(ctx, calls) /\ InBody(ctx, stream) /\ (returned # "threw" => Exact(ctx))
  BY Types DEF ContextIInv
<1>2. ASSUME NEW c, Call(c), UNCHANGED stream, Good(c, calls + 1),
             c.sent = ctx.sent, c.wire = ctx.wire, c.ran = ctx.ran, c.threw = ctx.threw
      PROVE  ContextIInv'
  <2>1. /\ phase = "handling" /\ returned = "none" /\ calls < MaxCalls /\ calls' = calls + 1
        /\ ctx' = c /\ UNCHANGED <<request, phase, returned, stream>>
    BY <1>2 DEF Call, Handling
  <2>2. Exact(c) /\ InBody(c, stream)
    BY <1>1, <1>2, <2>1, SameWire
  <2>3. calls + 1 \in 0 .. MaxCalls
    BY <1>1, <2>1
  <2>4. PICK n : n = calls + 1
    OBVIOUS
  <2>5. PICK st : st = stream
    OBVIOUS
  <2> QED BY <1>1, <1>2, <2>1, <2>2, <2>3, <2>4, <2>5, StepTo DEF Phases, Ways
<1>3. Good(ctx, calls + 1)
  BY <1>1, LaterGood
<1>4. CASE WithStatusCode
  <2>0. PICK st : st = 403
    OBVIOUS
  <2>1. PICK c : c = [ctx EXCEPT !.status = st]
    BY Zenon
  <2>11. st \in Statuses /\ st # 206
    BY <2>0 DEF Statuses
  <2>2. /\ c \in Contexts /\ c.sent = ctx.sent /\ c.threw = ctx.threw /\ c.wire = ctx.wire
        /\ c.status = st /\ c.length = ctx.length /\ c.queue = ctx.queue /\ c.ran = ctx.ran
        /\ c.chunked = ctx.chunked
    BY <1>1, <2>1, <2>11, Zenon DEF Contexts
  <2>3. Good(c, calls + 1)
    BY <1>3, <2>2, <2>11 DEF Good, Wired, HeadOf, BodyOf, InOrder, RanIn
  <2>4. Call(c) /\ UNCHANGED stream
    BY <1>4, <2>0, <2>1 DEF WithStatusCode
  <2> QED BY <1>2, <2>2, <2>3, <2>4
<1>5. CASE \E n \in Lengths : WithContentLength(n)
  <2>0. PICK n \in Lengths : WithContentLength(n)
    BY <1>5
  <2>1. PICK c : c = [ctx EXCEPT !.length = n]
    BY Zenon
  <2>11. n \in Sizes
    BY SizesAssumption DEF Sizes, Junk
  <2>2. /\ c \in Contexts /\ c.sent = ctx.sent /\ c.threw = ctx.threw /\ c.wire = ctx.wire
        /\ c.status = ctx.status /\ c.length = n /\ c.queue = ctx.queue /\ c.ran = ctx.ran
        /\ c.chunked = ctx.chunked
    BY <1>1, <2>1, <2>11, Zenon DEF Contexts
  <2>3. Good(c, calls + 1)
    BY <1>3, <2>2 DEF Good, Wired, HeadOf, BodyOf, InOrder, RanIn
  <2>4. Call(c) /\ UNCHANGED stream
    BY <2>0, <2>1 DEF WithContentLength
  <2> QED BY <1>2, <2>2, <2>3, <2>4
<1>6. CASE \E kind \in Kinds : WithHeaderIntercepter(kind)
  <2>0. PICK kind \in Kinds : WithHeaderIntercepter(kind)
    BY <1>6
  <2>1. PICK e : e = [id |-> calls, kind |-> kind]
    BY Zenon
  <2>2. e \in Registered /\ e.id = calls
    BY <1>1, <2>1 DEF Registered
  <2>3. PICK q : q = ctx.queue
    OBVIOUS
  <2>4. PICK w : w = Append(q, e)
    BY Zenon
  <2>5. q \in Seq(Registered)
    BY <1>1, <2>3 DEF Contexts
  <2>6. /\ w \in Seq(Registered) /\ DOMAIN w = 1 .. Len(q) + 1 /\ DOMAIN q = 1 .. Len(q)
        /\ Len(q) \in Nat /\ w[Len(q) + 1] = e
        /\ \A k \in 1 .. Len(q) : w[k] = q[k]
    BY <2>2, <2>4, <2>5, AppendProperties, LenProperties
  <2>7. PICK c : c = [ctx EXCEPT !.queue = w]
    BY Zenon
  <2>8. /\ c \in Contexts /\ c.sent = ctx.sent /\ c.threw = ctx.threw /\ c.wire = ctx.wire
        /\ c.status = ctx.status /\ c.length = ctx.length /\ c.queue = w /\ c.ran = ctx.ran
        /\ c.chunked = ctx.chunked
    BY <1>1, <2>6, <2>7, Zenon DEF Contexts
  <2>9. /\ \A j, k \in DOMAIN ctx.ran : j < k => ctx.ran[j].id < ctx.ran[k].id
        /\ \A j \in DOMAIN ctx.ran, k \in DOMAIN q : ctx.ran[j].id < q[k].id
        /\ \A j, k \in DOMAIN q : j < k => q[j].id < q[k].id
        /\ \A j \in DOMAIN ctx.ran : ctx.ran[j].id < calls
        /\ Timely(ctx.ran)
        /\ \A k \in DOMAIN q : q[k].id < calls
    BY <1>1, <2>3 DEF Good, InOrder
  <2>10. /\ \A j \in DOMAIN ctx.ran : ctx.ran[j].id < calls + 1
         /\ \A k \in DOMAIN q : q[k].id < calls + 1
    BY <1>3, <2>3 DEF Good, InOrder
  <2>11. \A k \in DOMAIN w : (k \in DOMAIN q /\ w[k] = q[k]) \/ (k = Len(q) + 1 /\ w[k].id = calls)
    BY <2>2, <2>6
  <2>12. \A k \in DOMAIN w : w[k].id < calls + 1
    BY <1>1, <2>10, <2>11
  <2>13. \A j \in DOMAIN ctx.ran, k \in DOMAIN w : ctx.ran[j].id < w[k].id
    BY <2>9, <2>11
  <2>14. \A j, k \in DOMAIN w : j < k => w[j].id < w[k].id
    <3> SUFFICES ASSUME NEW j \in DOMAIN w, NEW k \in DOMAIN w, j < k PROVE w[j].id < w[k].id
      OBVIOUS
    <3>1. j \in DOMAIN q /\ w[j] = q[j]
      BY <2>6, <2>11
    <3> QED BY <2>9, <2>11, <3>1
  <2>15. InOrder(c, calls + 1)
    BY <2>8, <2>9, <2>10, <2>12, <2>13, <2>14 DEF InOrder
  <2>16. Good(c, calls + 1)
    BY <1>3, <2>8, <2>15 DEF Good, Wired, HeadOf, BodyOf, RanIn
  <2>17. Call(c) /\ UNCHANGED stream
    BY <2>0, <2>1, <2>3, <2>4, <2>7 DEF WithHeaderIntercepter
  <2> QED BY <1>2, <2>8, <2>16, <2>17
<1> QED BY <1>4, <1>5, <1>6

(* Process before it calls the handler.                                    *)
LEMMA ReadStep ==
  ASSUME ContextIInv, ReadRequest
  PROVE  ContextIInv'
<1>1. /\ phase = "reading" /\ ctx = NewContext /\ ~stream.open /\ returned = "none"
      /\ request \in Requests /\ calls \in 0 .. MaxCalls /\ stream \in Streams
      /\ UNCHANGED <<request, stream, calls, returned>>
  BY DEF ContextIInv, ReadRequest
<1>2. calls \in Nat /\ Startable(ctx, calls) /\ ctx.status # 206
  <2>1. ~ctx.sent /\ ~ctx.threw
    BY <1>1 DEF NewContext
  <2> QED BY <2>1, Types
<1>3. ASSUME NEW c, NEW d, c.status # 206, Answers(c, d, calls), ctx' = d, phase' = "done"
      PROVE  ContextIInv'
  <2>1. Kept(d, calls)
    BY <1>2, <1>3, AnswersKept
  <2>2. d.sent \/ RanIn(d, "throw")
    BY <1>3 DEF Answers
  <2>3. IsAnswered(d, "none") /\ InBody(d, stream)
    BY <1>1, <2>1, <2>2 DEF IsAnswered, InBody, Kept
  <2>4. PICK st : st = stream
    OBVIOUS
  <2>5. PICK n : n = calls
    OBVIOUS
  <2> QED BY <1>1, <1>3, <2>1, <2>3, <2>4, <2>5, StepTo DEF Kept, Phases, Ways
<1>4. ASSUME UNCHANGED ctx, phase' = "handling" \/ (phase' = "done" /\ request.line = "none")
      PROVE  ContextIInv'
  <2>1. Good(ctx, calls) /\ InBody(ctx, stream) /\ Exact(ctx)
    BY <1>1 DEF ContextIInv
  <2>2. PICK c : c = ctx
    OBVIOUS
  <2>3. PICK st : st = stream
    OBVIOUS
  <2>4. PICK n : n = calls
    OBVIOUS
  <2> QED BY <1>1, <1>4, <2>1, <2>2, <2>3, <2>4, StepTo DEF Phases, Ways
<1>5. PICK status : status = 400
  OBVIOUS
<1>6. PICK refused : refused = WithStatus(ctx, status)
  OBVIOUS
<1>7. /\ refused.status # 206 /\ Answers(refused, SendErrorPage(refused), calls)
      /\ SendText(refused, PageSize) = SendErrorPage(refused)
  <2>1. status \in Statuses /\ status # 206
    BY <1>5 DEF Statuses
  <2>2. refused.status = status /\ Answers(refused, SendErrorPage(refused), calls)
    BY <1>2, <1>6, <2>1, ErrorPageSent
  <2>3. SendText(refused, PageSize) = SendErrorPage(refused)
    BY DEF SendErrorPage
  <2> QED BY <2>1, <2>2, <2>3
<1>8. refused = [ctx EXCEPT !.status = 400]
  BY <1>5, <1>6 DEF WithStatus
<1>9. CASE ctx' = SendErrorPage(refused) /\ phase' = "done"
  <2>1. PICK d : d = SendErrorPage(refused)
    OBVIOUS
  <2> QED BY <1>3, <1>7, <1>9, <2>1
<1>10. CASE ctx' = SendText(ctx, PageSize) /\ phase' = "done"
  <2>1. PICK d : d = SendText(ctx, PageSize)
    OBVIOUS
  <2>2. PICK c : c = ctx
    OBVIOUS
  <2>3. Answers(c, d, calls)
    BY <1>2, <2>1, <2>2, TextSent, SizesAssumption
  <2> QED BY <1>2, <1>3, <1>10, <2>1, <2>2, <2>3
<1>11. \/ ctx' = SendErrorPage(refused) /\ phase' = "done"
       \/ ctx' = SendText(ctx, PageSize) /\ phase' = "done"
       \/ UNCHANGED ctx /\ (phase' = "handling" \/ (phase' = "done" /\ request.line = "none"))
  BY <1>7, <1>8 DEF ReadRequest
<1> QED BY <1>4, <1>9, <1>10, <1>11

(* A call that changes the context only when nothing was sent.             *)
LEMMA CallStep ==
  ASSUME ContextIInv, NEW c, Call(c), UNCHANGED stream,
         ctx.sent => c = ctx, ~ctx.sent => Kept(c, calls)
  PROVE  ContextIInv'
<1>1. /\ phase = "handling" /\ returned = "none" /\ calls < MaxCalls /\ calls' = calls + 1
      /\ ctx' = c /\ UNCHANGED <<request, phase, returned, stream>>
  BY DEF Call, Handling
<1>2. calls \in Nat /\ MaxCalls \in Nat /\ stream \in Streams /\ (~ctx.sent => ~stream.open)
  BY Types
<1>3. Good(c, calls) /\ InBody(c, stream) /\ Exact(c)
  <2>1. CASE ctx.sent
    BY <1>1, <2>1 DEF ContextIInv
  <2>2. CASE ~ctx.sent
    BY <1>2, <2>2 DEF InBody, Kept
  <2> QED BY <2>1, <2>2
<1>4. PICK n : n = calls + 1
  OBVIOUS
<1>5. PICK st : st = stream
  OBVIOUS
<1>6. Good(c, n) /\ n \in 0 .. MaxCalls
  BY <1>1, <1>2, <1>3, <1>4, LaterGood
<1> QED BY <1>1, <1>2, <1>3, <1>4, <1>5, <1>6, StepTo DEF Phases, Ways

(* The handler calls WriteHeaders: once more changes nothing.              *)
LEMMA HeadersStep ==
  ASSUME ContextIInv, CallWriteHeaders
  PROVE  ContextIInv'
<1>1. PICK c : c = WriteHeaders(ctx)
  OBVIOUS
<1>2. Call(c) /\ UNCHANGED stream
  BY <1>1 DEF CallWriteHeaders
<1>3. ~ctx.threw /\ calls \in Nat
  BY <1>2, Types DEF Call, Handling
<1>4. ctx.sent => c = ctx
  BY <1>1 DEF WriteHeaders
<1>5. ASSUME ~ctx.sent PROVE Kept(c, calls)
  <2>1. Startable(ctx, calls) /\ ctx.status # 206
    BY <1>3, <1>5, Types
  <2>2. Good(c, calls) /\ Framed(c)
    BY <1>1, <1>3, <2>1, HeadAlone
  <2>3. Headed(ctx, c, calls)
    BY <1>1, <1>3, <2>1, HeadWritten DEF Startable
  <2>4. c.sent => HeadOf(c)[2] \in {ctx.status, 403}
    BY <2>3 DEF Headed, HeadFits
  <2>5. c.sent => HeadOf(c)[2] # 206
    BY <2>1, <2>4
  <2>6. Exact(c)
    BY <2>5, NotPartial
  <2> QED BY <2>2, <2>6 DEF Kept
<1> QED BY <1>2, <1>4, <1>5, CallStep

(* The handler calls one of the operations that send.                      *)
LEMMA SendStep ==
  ASSUME ContextIInv, CallSend
  PROVE  ContextIInv'
<1>1. UNCHANGED stream /\ calls \in Nat /\ request \in Requests
  BY Types DEF CallSend, ContextIInv
<1>2. ASSUME NEW c, Call(c), ctx.sent => c = ctx,
             Startable(ctx, calls) /\ ctx.status # 206 => Kept(c, calls)
      PROVE  ContextIInv'
  <2>1. ~ctx.threw
    BY <1>2 DEF Call, Handling
  <2>2. ~ctx.sent => Kept(c, calls)
    BY <1>2, <2>1, Types
  <2> QED BY <1>1, <1>2, <2>2, CallStep
<1>3. ASSUME NEW size \in TextSizes, Call(SendText(ctx, size)) PROVE ContextIInv'
  <2>1. PICK c : c = SendText(ctx, size)
    OBVIOUS
  <2>2. ctx.sent => c = ctx
    BY <2>1 DEF SendText
  <2>3. ASSUME Startable(ctx, calls), ctx.status # 206 PROVE Kept(c, calls)
    <3>1. size \in Nat
      BY SizesAssumption
    <3>2. Answers(ctx, c, calls)
      BY <1>1, <2>1, <2>3, <3>1, TextSent
    <3> QED BY <2>3, <3>2, AnswersKept
  <2> QED BY <1>2, <1>3, <2>1, <2>2, <2>3
<1>4. ASSUME Call(SendErrorPage(ctx)) PROVE ContextIInv'
  <2>1. PICK c : c = SendErrorPage(ctx)
    OBVIOUS
  <2>2. ctx.sent => c = ctx
    BY <2>1 DEF SendText, SendErrorPage
  <2>3. ASSUME Startable(ctx, calls), ctx.status # 206 PROVE Kept(c, calls)
    <3>1. Answers(ctx, c, calls)
      BY <1>1, <2>1, <2>3, ErrorPageSent
    <3> QED BY <2>3, <3>1, AnswersKept
  <2> QED BY <1>2, <1>4, <2>1, <2>2, <2>3
<1>5. ASSUME NEW status \in {400, 404}, Call(SendStatus(ctx, status)) PROVE ContextIInv'
  <2>1. PICK c : c = SendStatus(ctx, status)
    OBVIOUS
  <2>2. ctx.sent => c = ctx
    BY <2>1 DEF SendStatus
  <2>3. ASSUME Startable(ctx, calls), ctx.status # 206 PROVE Kept(c, calls)
    <3>1. status \in Statuses /\ status # 206
      BY DEF Statuses
    <3>2. PICK e : e = WithStatus(ctx, status)
      OBVIOUS
    <3>3. c = SendErrorPage(e) /\ e.status = status /\ Answers(e, SendErrorPage(e), calls)
      BY <1>1, <2>1, <2>3, <3>1, <3>2, ErrorPageSent
    <3>4. Answers(e, c, calls)
      BY <3>3
    <3> QED BY <3>1, <3>3, <3>4, AnswersKept
  <2> QED BY <1>2, <1>5, <2>1, <2>2, <2>3
<1>6. ASSUME NEW s \in Sources, Call(SendStream(ctx, s)) PROVE ContextIInv'
  <2>1. PICK c : c = SendStream(ctx, s)
    OBVIOUS
  <2>2. ctx.sent => c = ctx
    BY <2>1 DEF SendStream
  <2>3. ASSUME Startable(ctx, calls), ctx.status # 206 PROVE Kept(c, calls)
    BY <1>1, <2>1, <2>3, StreamSent
  <2> QED BY <1>2, <1>6, <2>1, <2>2, <2>3
<1> QED BY <1>3, <1>4, <1>5, <1>6 DEF CallSend

(* The handler calls OpenResponseStream.                                   *)
LEMMA StreamOpens ==
  ASSUME ContextIInv, CallOpenResponseStream
  PROVE  ContextIInv'
<1>1. PICK d : d = OpenResponse(ctx)
  OBVIOUS
<1>2. PICK st : st = [open |-> ~d.threw /\ ~ClosedAtOnce(ctx),
                      length |-> ctx.length, position |-> 0]
  BY Zenon
<1>3. /\ phase = "handling" /\ returned = "none" /\ ~ctx.threw /\ ~ctx.sent /\ calls < MaxCalls
      /\ calls' = calls + 1 /\ ctx' = d /\ UNCHANGED <<request, phase, returned>>
  BY <1>1 DEF CallOpenResponseStream, Call, Handling
<1>4. stream' = st
  BY <1>2, <1>3 DEF CallOpenResponseStream, ClosedAtOnce
<1>5. /\ calls \in Nat /\ MaxCalls \in Nat /\ Startable(ctx, calls) /\ ctx.status # 206
      /\ ctx \in Contexts
  BY <1>3, Types
<1>6. Opened(ctx, d, calls)
  BY <1>1, <1>5, ResponseOpened
<1>7. /\ Good(d, calls) /\ (d.threw => RanIn(d, "throw")) /\ d.threw \in BOOLEAN
      /\ d.threw \/ d.sent
      /\ d.sent => HeadOf(d)[2] # 206
  BY <1>5, <1>6 DEF Opened, Good, Contexts
<1>8. d.sent /\ Clean(d) =>
        /\ HeadOf(d)[3] = ctx.length /\ HeadOf(d)[4] = (Http11 /\ ctx.length < 0)
        /\ BodyOf(d) = IF ClosedAtOnce(ctx) THEN <<<<"final", 0, 0>>>> ELSE <<>>
  BY <1>6 DEF Opened
<1>9. ctx.length \in Sizes
  BY <1>5 DEF Contexts
<1>10. /\ st.open = (~d.threw /\ ~ClosedAtOnce(ctx)) /\ st.length = ctx.length /\ st.position = 0
       /\ st \in Streams
  <2>1. (~d.threw /\ ~ClosedAtOnce(ctx)) \in BOOLEAN
    OBVIOUS
  <2> QED BY <1>2, <1>9, <2>1 DEF Streams
<1>11. ASSUME st.open PROVE InBody(d, st)
  <2>1. ~d.threw /\ ~ClosedAtOnce(ctx)
    BY <1>10, <1>11, Zenon
  <2>2. st.length >= 0 => st.position <= st.length
    BY <1>9, <1>10
  <2>3. ASSUME Clean(d)
        PROVE  IF Http11 /\ st.length < 0
                 THEN /\ HeadOf(d)[4] /\ HeadOf(d)[3] < 0
                      /\ \A k \in DOMAIN BodyOf(d) : BodyOf(d)[k][1] = "chunk"
                 ELSE /\ ~HeadOf(d)[4] /\ HeadOf(d)[3] = st.length
                      /\ \A k \in DOMAIN BodyOf(d) : BodyOf(d)[k][1] = "plain"
                      /\ st.length >= 0 => Bytes(BodyOf(d)) = st.position
    <3>1. BodyOf(d) = <<>>
      BY <1>7, <1>8, <2>1, <2>3
    <3>2. DOMAIN BodyOf(d) = {} /\ Bytes(BodyOf(d)) = 0
      BY <3>1, NoBytes
    <3>3. HeadOf(d)[3] = st.length /\ HeadOf(d)[4] = (Http11 /\ st.length < 0)
      BY <1>7, <1>8, <1>10, <2>1, <2>3
    <3> QED BY <1>10, <3>2, <3>3, Zenon
  <2>4. Open(d, st)
    BY <1>7, <2>1, <2>2, <2>3 DEF Open
  <2> QED BY <1>11, <2>4 DEF InBody
<1>12. ASSUME ~st.open PROVE InBody(d, st)
  <2>1. ASSUME d.sent, Clean(d) PROVE Fits(HeadOf(d), BodyOf(d)) /\ Over(HeadOf(d), BodyOf(d))
    <3>1. ClosedAtOnce(ctx)
      BY <1>7, <1>10, <1>12, <2>1, Zenon DEF Clean
    <3>2. PICK f : f = <<"final", 0, 0>>
      BY Zenon
    <3>3. BodyOf(d) = <<f>> /\ f[1] = "final"
      BY <1>8, <2>1, <3>1, <3>2
    <3>4. HeadOf(d)[4] /\ HeadOf(d)[3] < 0
      BY <1>8, <2>1, <3>1, Zenon DEF ClosedAtOnce
    <3> QED BY <3>3, <3>4, LastPiece
  <2> QED BY <1>12, <2>1 DEF InBody, Framed
<1>13. InBody(d, st)
  BY <1>11, <1>12
<1>14. Exact(d)
  BY <1>7, NotPartial
<1>15. PICK n : n = calls + 1
  OBVIOUS
<1>16. Good(d, n) /\ n \in 0 .. MaxCalls
  BY <1>3, <1>5, <1>7, <1>15, LaterGood
<1> QED BY <1>3, <1>4, <1>10, <1>13, <1>14, <1>15, <1>16, StepTo DEF Phases, Ways

(* The handler writes to its stream, and no more than was announced.       *)
LEMMA StreamWritten ==
  ASSUME ContextIInv, NEW n \in TextSizes, WriteStream(n)
  PROVE  ContextIInv'
<1>1. PICK len : len = stream.length
  OBVIOUS
<1>2. PICK pos : pos = stream.position
  OBVIOUS
<1>3. PICK fits : fits = IF len < 0 \/ n <= len - pos THEN n ELSE len - pos
  OBVIOUS
<1>4. PICK st : st = [stream EXCEPT !.position = @ + fits]
  BY Zenon
<1>5. /\ stream.open /\ stream' = st
      /\ IF len < 0 /\ Http11
           THEN Call(IF n > 0 THEN Put(ctx, <<"chunk", pos, n>>) ELSE ctx)
           ELSE Call(Plain(ctx, pos, fits))
  BY <1>1, <1>2, <1>3, <1>4 DEF WriteStream
<1>6. PICK d : ctx' = d
  OBVIOUS
<1>7. /\ phase = "handling" /\ returned = "none" /\ ~ctx.threw /\ calls < MaxCalls
      /\ calls' = calls + 1 /\ UNCHANGED <<request, phase, returned>>
      /\ d = IF len < 0 /\ Http11 THEN IF n > 0 THEN Put(ctx, <<"chunk", pos, n>>) ELSE ctx
                                  ELSE Plain(ctx, pos, fits)
  BY <1>5, <1>6 DEF Call, Handling
<1>8. /\ calls \in Nat /\ MaxCalls \in Nat /\ ctx \in Contexts /\ Wired(ctx) /\ stream \in Streams
      /\ Good(ctx, calls) /\ Open(ctx, stream) /\ ctx.sent /\ HeadOf(ctx)[2] # 206
  BY <1>5, Types DEF ContextIInv, InBody, Open
<1>9. len \in Sizes /\ pos \in Nat /\ n \in Nat /\ (len >= 0 => pos <= len)
  BY <1>1, <1>2, <1>8, SizesAssumption DEF Streams, Open
<1>10. /\ fits \in Nat /\ (len >= 0 => pos + fits <= len) /\ (len < 0 => fits = n)
  BY <1>3, <1>9 DEF Sizes, Unset, Junk
<1>11. /\ st \in Streams /\ st.open /\ st.length = len /\ st.position = pos + fits
  BY <1>1, <1>2, <1>4, <1>5, <1>8, <1>9, <1>10 DEF Streams
<1>12. BodyOf(ctx) \in Seq(Pieces)
  BY <1>8 DEF Wired
<1>13. PICK b : b = BodyOf(ctx)
  OBVIOUS
<1>14. Clean(ctx) =>
         IF Http11 /\ len < 0
           THEN /\ HeadOf(ctx)[4] /\ HeadOf(ctx)[3] < 0
                /\ \A k \in DOMAIN b : b[k][1] = "chunk"
           ELSE /\ ~HeadOf(ctx)[4] /\ HeadOf(ctx)[3] = len
                /\ \A k \in DOMAIN b : b[k][1] = "plain"
                /\ len >= 0 => Bytes(b) = pos
  BY <1>1, <1>2, <1>8, <1>13 DEF Open
<1>15. /\ d \in Contexts /\ SameButWire(ctx, d) /\ Wired(d) /\ HeadOf(d) = HeadOf(ctx)
       /\ \/ BodyOf(d) = b /\ ((Http11 /\ len < 0) \/ fits = 0)
          \/ \E t \in Pieces :
               /\ BodyOf(d) = Append(b, t) /\ t[3] = fits
               /\ t[1] = IF Http11 /\ len < 0 THEN "chunk" ELSE "plain"
  <2>1. CASE len < 0 /\ Http11 /\ n > 0
    <3>1. PICK t : t = <<"chunk", pos, n>>
      BY Zenon
    <3>2. t \in Pieces /\ t[1] = "chunk" /\ t[3] = fits
      BY <1>9, <1>10, <2>1, <3>1 DEF Pieces
    <3>3. d = Put(ctx, t)
      BY <1>7, <2>1, <3>1
    <3>4. /\ d \in Contexts /\ SameButWire(ctx, d) /\ Wired(d) /\ HeadOf(d) = HeadOf(ctx)
          /\ BodyOf(d) = Append(b, t)
      BY <1>8, <1>13, <3>2, <3>3, PutIs
    <3> QED BY <2>1, <3>2, <3>4
  <2>2. CASE len < 0 /\ Http11 /\ ~(n > 0)
    BY <1>7, <1>8, <1>13, <2>2, Zenon DEF SameButWire
  <2>3. CASE ~(len < 0 /\ Http11)
    <3>1. d = Plain(ctx, pos, fits) /\ fits \in Int
      BY <1>7, <1>10, <2>3
    <3>2. /\ d \in Contexts /\ SameButWire(ctx, d) /\ Wired(d) /\ HeadOf(d) = HeadOf(ctx)
          /\ BodyOf(d) = IF fits > 0 THEN Append(b, <<"plain", pos, fits>>) ELSE b
      BY <1>8, <1>9, <1>13, <3>1, PlainIs, Zenon
    <3>3. PICK t : t = <<"plain", pos, fits>>
      BY Zenon
    <3>4. t \in Pieces /\ t[1] = "plain" /\ t[3] = fits
      BY <1>9, <1>10, <3>3 DEF Pieces
    <3> QED BY <1>10, <2>3, <3>2, <3>3, <3>4
  <2> QED BY <2>1, <2>2, <2>3
<1>16. Good(d, calls) /\ d.sent /\ \A kind : RanIn(d, kind) <=> RanIn(ctx, kind)
  BY <1>8, <1>15, GoodWire
<1>17. Clean(d) <=> Clean(ctx)
  BY <1>16 DEF Clean
<1>18. ASSUME Clean(d)
       PROVE  IF Http11 /\ st.length < 0
                THEN /\ HeadOf(d)[4] /\ HeadOf(d)[3] < 0
                     /\ \A k \in DOMAIN BodyOf(d) : BodyOf(d)[k][1] = "chunk"
                ELSE /\ ~HeadOf(d)[4] /\ HeadOf(d)[3] = st.length
                     /\ \A k \in DOMAIN BodyOf(d) : BodyOf(d)[k][1] = "plain"
                     /\ st.length >= 0 => Bytes(BodyOf(d)) = st.position
  <2>1. IF Http11 /\ len < 0
          THEN /\ HeadOf(d)[4] /\ HeadOf(d)[3] < 0
               /\ \A k \in DOMAIN b : b[k][1] = "chunk"
          ELSE /\ ~HeadOf(d)[4] /\ HeadOf(d)[3] = len
               /\ \A k \in DOMAIN b : b[k][1] = "plain"
               /\ len >= 0 => Bytes(b) = pos
    BY <1>14, <1>15, <1>17, <1>18
  <2>2. CASE BodyOf(d) = b /\ ((Http11 /\ len < 0) \/ fits = 0)
    <3>1. pos + fits = pos \/ (Http11 /\ len < 0)
      BY <1>9, <2>2
    <3> QED BY <1>11, <2>1, <2>2, <3>1
  <2>3. ASSUME NEW t \in Pieces, BodyOf(d) = Append(b, t), t[3] = fits,
               t[1] = IF Http11 /\ len < 0 THEN "chunk" ELSE "plain"
        PROVE  IF Http11 /\ st.length < 0
                 THEN /\ HeadOf(d)[4] /\ HeadOf(d)[3] < 0
                      /\ \A k \in DOMAIN BodyOf(d) : BodyOf(d)[k][1] = "chunk"
                 ELSE /\ ~HeadOf(d)[4] /\ HeadOf(d)[3] = st.length
                      /\ \A k \in DOMAIN BodyOf(d) : BodyOf(d)[k][1] = "plain"
                      /\ st.length >= 0 => Bytes(BodyOf(d)) = st.position
    <3>1. Bytes(BodyOf(d)) = Bytes(b) + fits
      BY <1>12, <1>13, <2>3, MoreBytes
    <3>2. b \in Seq(Pieces) /\ DOMAIN b = 1 .. Len(b) /\ Len(b) \in Nat
      BY <1>12, <1>13, LenProperties
    <3>3. /\ DOMAIN BodyOf(d) = 1 .. Len(b) + 1
          /\ \A k \in DOMAIN BodyOf(d) :
               (k \in DOMAIN b /\ BodyOf(d)[k] = b[k]) \/ BodyOf(d)[k] = t
      <4>1. /\ DOMAIN Append(b, t) = 1 .. Len(b) + 1 /\ Append(b, t)[Len(b) + 1] = t
            /\ \A k \in 1 .. Len(b) : Append(b, t)[k] = b[k]
        BY <3>2, AppendProperties, LenProperties
      <4> QED BY <2>3, <3>2, <4>1
    <3>4. CASE Http11 /\ len < 0
      BY <1>11, <2>1, <2>3, <3>3, <3>4
    <3>5. CASE ~(Http11 /\ len < 0)
      <4>1. \A k \in DOMAIN BodyOf(d) : BodyOf(d)[k][1] = "plain"
        BY <2>1, <2>3, <3>3, <3>5
      <4>2. len >= 0 => Bytes(BodyOf(d)) = st.position
        BY <1>11, <2>1, <3>1, <3>5
      <4> QED BY <1>11, <2>1, <3>5, <4>1, <4>2
    <3> QED BY <3>4, <3>5
  <2> QED BY <1>15, <2>2, <2>3
<1>19. Open(d, st)
  <2>1. st.length >= 0 => st.position <= st.length
    BY <1>10, <1>11
  <2> QED BY <1>8, <1>15, <1>16, <1>18, <2>1 DEF Open
<1>20. Exact(d)
  BY <1>8, <1>15, NotPartial
<1>21. PICK m : m = calls + 1
  OBVIOUS
<1>22. Good(d, m) /\ m \in 0 .. MaxCalls
  BY <1>7, <1>8, <1>16, <1>21, LaterGood
<1>23. InBody(d, st)
  BY <1>11, <1>19 DEF InBody
<1> QED BY <1>5, <1>6, <1>7, <1>11, <1>20, <1>21, <1>22, <1>23, StepTo DEF Phases, Ways

(* What is left when the streams of the handler are gone.                  *)
LEMMA StreamDropped ==
  ASSUME ContextIInv
  PROVE  LET c == DropStream(ctx)
         IN /\ Good(c, calls) /\ Framed(c) /\ (Exact(ctx) => Exact(c)) /\ SameButWire(ctx, c)
            /\ ~ctx.sent => c = ctx
<1>1. PICK c : c = DropStream(ctx)
  OBVIOUS
<1>2. /\ calls \in Nat /\ ctx \in Contexts /\ Wired(ctx) /\ stream \in Streams
      /\ Good(ctx, calls) /\ InBody(ctx, stream) /\ (~ctx.sent => ~stream.open)
  BY Types DEF ContextIInv
<1>3. CASE stream.open /\ stream.length < 0 /\ Http11
  <2>1. Open(ctx, stream) /\ ctx.sent /\ HeadOf(ctx)[2] # 206
    BY <1>2, <1>3 DEF InBody, Open
  <2>2. PICK b : b = BodyOf(ctx)
    OBVIOUS
  <2>3. PICK f : f = <<"final", 0, 0>>
    BY Zenon
  <2>4. /\ c \in Contexts /\ SameButWire(ctx, c) /\ Wired(c)
        /\ HeadOf(c) = HeadOf(ctx) /\ BodyOf(c) = Append(b, f)
    BY <1>1, <1>2, <1>3, <2>1, <2>2, <2>3, FinalPut DEF DropStream
  <2>5. Good(c, calls) /\ c.sent /\ \A kind : RanIn(c, kind) <=> RanIn(ctx, kind)
    BY <1>2, <2>1, <2>4, GoodWire
  <2>6. Clean(c) <=> Clean(ctx)
    BY <2>5 DEF Clean
  <2>7. ASSUME Clean(c) PROVE Fits(HeadOf(c), BodyOf(c)) /\ Over(HeadOf(c), BodyOf(c))
    <3>1. HeadOf(c)[4] /\ HeadOf(c)[3] < 0 /\ \A k \in DOMAIN b : b[k][1] = "chunk"
      BY <1>3, <2>1, <2>2, <2>4, <2>6, <2>7 DEF Open
    <3>2. b \in Seq(Pieces) /\ f \in Pieces /\ f[1] = "final"
      BY <1>2, <2>1, <2>2, <2>3 DEF Wired, Pieces
    <3>3. /\ DOMAIN Append(b, f) = 1 .. Len(b) + 1 /\ Append(b, f)[Len(b) + 1] = f
          /\ \A k \in 1 .. Len(b) : Append(b, f)[k] = b[k]
          /\ Len(Append(b, f)) = Len(b) + 1 /\ Len(b) \in Nat /\ DOMAIN b = 1 .. Len(b)
          /\ Append(b, f) # <<>>
      BY <3>2, AppendProperties, LenProperties
    <3>4. PICK a : a = Append(b, f)
      BY Zenon
    <3>5. \A k \in DOMAIN a : IF k = Len(a) THEN a[k][1] = "final" ELSE a[k][1] = "chunk"
      <4>1. \A k \in DOMAIN a : k = Len(a) \/ k \in DOMAIN b
        BY <3>3, <3>4
      <4> QED BY <3>1, <3>2, <3>3, <3>4, <4>1
    <3>6. a # <<>> /\ Last(a)[1] = "final"
      <4>1. Last(a) = a[Len(a)] /\ Len(a) \in DOMAIN a
        BY <3>3, <3>4 DEF Last
      <4> QED BY <3>3, <3>4, <3>5, <4>1
    <3>7. Fits(HeadOf(c), a) /\ Over(HeadOf(c), a)
      BY <3>1, <3>5, <3>6 DEF Fits, Over
    <3> QED BY <2>4, <3>4, <3>7
  <2>8. Framed(c)
    BY <2>7 DEF Framed
  <2>9. Exact(c)
    BY <2>1, <2>4, NotPartial
  <2> QED BY <1>1, <2>1, <2>4, <2>5, <2>8, <2>9
<1>4. CASE ~(stream.open /\ stream.length < 0 /\ Http11)
  <2>1. c = ctx
    BY <1>1, <1>4 DEF DropStream
  <2>2. Framed(ctx)
    <3>1. CASE ~stream.open
      BY <1>2, <3>1 DEF InBody
    <3>2. CASE stream.open
      <4>1. Open(ctx, stream) /\ stream.length \in Sizes
        BY <1>2, <3>2 DEF InBody, Streams
      <4>2. ASSUME Clean(ctx) PROVE Fits(HeadOf(ctx), BodyOf(ctx)) /\ Over(HeadOf(ctx), BodyOf(ctx))
        <5>1. /\ ~HeadOf(ctx)[4] /\ HeadOf(ctx)[3] = stream.length
              /\ \A k \in DOMAIN BodyOf(ctx) : BodyOf(ctx)[k][1] = "plain"
              /\ stream.length >= 0 => Bytes(BodyOf(ctx)) = stream.position
              /\ stream.length >= 0 => stream.position <= stream.length
          BY <1>4, <3>2, <4>1, <4>2 DEF Open
        <5> QED BY <5>1 DEF Fits, Over
      <4> QED BY <4>2 DEF Framed
    <3> QED BY <3>1, <3>2
  <2> QED BY <1>1, <1>2, <2>1, <2>2 DEF SameButWire
<1> QED BY <1>3, <1>4

(* The handler returns: its stream ends, and what nobody handled is answered.*)
LEMMA ReturnStep ==
  ASSUME ContextIInv, NEW handled \in BOOLEAN, HandlerReturns(handled)
  PROVE  ContextIInv'
<1>1. PICK c : c = DropStream(ctx)
  OBVIOUS
<1>2. PICK d : d = ctx'
  OBVIOUS
<1>3. /\ phase = "handling" /\ ~ctx.threw /\ returned = "none" /\ phase' = "ending"
      /\ stream' = NoStream /\ UNCHANGED <<request, calls>>
      /\ returned' = IF handled THEN "true" ELSE IF ctx.sent THEN "false" ELSE "unhandled"
      /\ d = IF handled THEN c ELSE IF c.status = 200 THEN SendStatus(c, 404) ELSE SendErrorPage(c)
  BY <1>1, <1>2 DEF HandlerReturns, Handling, Outcome
<1>4. calls \in Nat /\ calls \in 0 .. MaxCalls /\ Exact(ctx)
  BY <1>3, Types DEF ContextIInv
<1>5. /\ Good(c, calls) /\ Framed(c) /\ Exact(c) /\ c.sent = ctx.sent /\ c.threw = ctx.threw
      /\ ~ctx.sent => c = ctx
  BY <1>1, <1>4, StreamDropped DEF SameButWire
<1>6. /\ Kept(d, calls)
      /\ ~handled => IsAnswered(d, returned')
  <2>1. CASE handled
    BY <1>3, <1>5, <2>1 DEF Kept
  <2>2. CASE ~handled /\ ctx.sent
    <3>1. d = c
      BY <1>3, <1>5, <2>2 DEF SendStatus, SendErrorPage, SendText
    <3>2. returned' = "false"
      BY <1>3, <2>2
    <3> QED BY <1>5, <2>2, <3>1, <3>2, Zenon DEF Kept, IsAnswered
  <2>3. CASE ~handled /\ ~ctx.sent
    <3>1. Startable(c, calls) /\ c.status # 206
      BY <1>3, <1>5, <2>3, Types
    <3>2. PICK status : status = 404
      OBVIOUS
    <3>3. status \in Statuses /\ status # 206 /\ status # 200
      BY <3>2 DEF Statuses
    <3>4. PICK e : e = IF c.status = 200 THEN WithStatus(c, status) ELSE c
      OBVIOUS
    <3>5. d = SendErrorPage(e) /\ Answers(e, d, calls) /\ e.status # 206 /\ e.status # 200
      <4>1. CASE c.status = 200
        <5>1. e = WithStatus(c, status)
          BY <3>4, <4>1
        <5>2. /\ SendStatus(c, status) = SendErrorPage(e) /\ e.status = status
              /\ Answers(e, SendErrorPage(e), calls)
          BY <1>4, <3>1, <3>3, <5>1, ErrorPageSent
        <5>3. d = SendStatus(c, status)
          BY <1>3, <2>3, <3>2, <4>1
        <5> QED BY <3>3, <5>2, <5>3
      <4>2. CASE c.status # 200
        <5>1. e = c /\ d = SendErrorPage(e)
          BY <1>3, <2>3, <3>4, <4>2
        <5>2. Answers(e, d, calls)
          BY <1>4, <3>1, <5>1, ErrorPageSent
        <5> QED BY <3>1, <4>2, <5>1, <5>2
      <4> QED BY <4>1, <4>2
    <3>6. Kept(d, calls)
      BY <3>5, AnswersKept
    <3>7. (d.sent /\ HeadOf(d)[2] # 200) \/ RanIn(d, "throw")
      BY <3>5 DEF Answers
    <3> QED BY <3>6, <3>7 DEF IsAnswered
  <2> QED BY <2>1, <2>2, <2>3
<1>7. PICK st : st = NoStream
  OBVIOUS
<1>8. st \in Streams /\ ~st.open
  BY <1>7 DEF NoStream, Streams, Sizes
<1>9. PICK n : n = calls
  OBVIOUS
<1>10. InBody(d, st)
  BY <1>6, <1>8 DEF InBody, Kept
<1>11. returned' \in Ways /\ (returned' # "true" => ~handled)
  BY <1>3 DEF Ways
<1> QED BY <1>2, <1>3, <1>4, <1>6, <1>7, <1>8, <1>9, <1>10, <1>11, StepTo DEF Kept, Phases

(* The handler throws.                                                     *)
LEMMA ThrowStep ==
  ASSUME ContextIInv, HandlerThrows
  PROVE  ContextIInv'
<1>1. PICK d : d = Throw(ctx)
  OBVIOUS
<1>2. /\ phase = "handling" /\ returned = "none" /\ ctx' = d
      /\ UNCHANGED <<request, phase, stream, calls, returned>>
  BY <1>1 DEF HandlerThrows, Handling
<1>3. Good(ctx, calls) /\ InBody(ctx, stream) /\ stream \in Streams /\ calls \in 0 .. MaxCalls
  BY DEF ContextIInv
<1>4. Good(d, calls) /\ Exact(d) /\ d.sent = ctx.sent /\ d.wire = ctx.wire /\ d.ran = ctx.ran
  BY <1>1, <1>3, Thrown
<1>5. InBody(d, stream)
  BY <1>3, <1>4, SameWire
<1>6. PICK n : n = calls
  OBVIOUS
<1>7. PICK st : st = stream
  OBVIOUS
<1> QED BY <1>2, <1>3, <1>4, <1>5, <1>6, <1>7, StepTo DEF Phases, Ways

(* The context of the catch blocks, before the error page and after it.    *)
Retried(c) == [c EXCEPT !.threw = FALSE, !.status = 500]
Caught(c) == [c EXCEPT !.threw = FALSE]

(* The catch blocks: unwinding ends the stream, then the error page.       *)
LEMMA CatchStep ==
  ASSUME ContextIInv, Catch
  PROVE  ContextIInv'
<1>1. PICK c : c = DropStream(ctx)
  OBVIOUS
<1>2. PICK e : e = Retried(c)
  OBVIOUS
<1>3. PICK o : o = SendErrorPage(e)
  OBVIOUS
<1>4. PICK d : d = Caught(o)
  OBVIOUS
<1>5. /\ ctx' = d /\ stream' = NoStream /\ returned' = "threw" /\ phase' = "done"
      /\ UNCHANGED <<request, calls>>
  BY <1>1, <1>2, <1>3, <1>4 DEF Catch, SendException, Retried, Caught
<1>6. calls \in Nat /\ calls \in 0 .. MaxCalls
  BY Types DEF ContextIInv
<1>7. Good(c, calls) /\ Framed(c)
  BY <1>1, StreamDropped
<1>8. /\ e \in Contexts /\ e.sent = c.sent /\ ~e.threw /\ e.wire = c.wire /\ e.ran = c.ran
      /\ e.queue = c.queue /\ e.chunked = c.chunked /\ e.status = 500
  <2>1. PICK status : status = 500
    OBVIOUS
  <2>2. c \in Contexts /\ status \in Statuses
    BY <1>7, <2>1 DEF Good, Statuses
  <2>3. e = [c EXCEPT !.threw = FALSE, !.status = status]
    BY <1>2, <2>1 DEF Retried
  <2>4. /\ e.sent = c.sent /\ ~e.threw /\ e.wire = c.wire /\ e.ran = c.ran
        /\ e.queue = c.queue /\ e.chunked = c.chunked /\ e.status = status
    BY <2>2, <2>3 DEF Contexts
  <2>5. e \in Contexts
    BY <2>2, <2>3, Zenon DEF Contexts
  <2> QED BY <2>1, <2>4, <2>5
<1>9. Good(e, calls) /\ Framed(e)
  <2>1. Good(e, calls)
    BY <1>7, <1>8 DEF Good, Wired, HeadOf, BodyOf, InOrder, RanIn
  <2> QED BY <1>7, <1>8, <2>1, SameWire
<1>10. /\ Good(o, calls) /\ Framed(o) /\ (~o.sent => o.status # 206 /\ RanIn(o, "throw"))
  <2>1. CASE e.sent
    <3>1. o = e
      BY <1>3, <2>1 DEF SendErrorPage, SendText
    <3> QED BY <1>9, <2>1, <3>1
  <2>2. CASE ~e.sent
    <3>1. Startable(e, calls)
      BY <1>8, <1>9, <2>2 DEF Startable, Silent, Good, Wired
    <3>2. Answers(e, o, calls)
      BY <1>3, <1>6, <3>1, ErrorPageSent
    <3> QED BY <1>8, <3>2 DEF Answers
  <2> QED BY <2>1, <2>2
<1>11. /\ d \in Contexts /\ d.sent = o.sent /\ d.wire = o.wire /\ d.ran = o.ran /\ d.queue = o.queue
       /\ d.chunked = o.chunked /\ d.status = o.status
  BY <1>4, <1>10, ZenonT(30) DEF Caught, Good, Contexts
<1>12. Good(d, calls)
  BY <1>10, <1>11 DEF Good, Wired, HeadOf, BodyOf, InOrder, RanIn
<1>13. Framed(d)
  BY <1>10, <1>11, SameWire
<1>14. IsAnswered(d, "threw")
  BY <1>10, <1>11 DEF IsAnswered, RanIn
<1>15. PICK st : st = NoStream
  OBVIOUS
<1>16. st \in Streams /\ ~st.open
  BY <1>15 DEF NoStream, Streams, Sizes
<1>17. InBody(d, st)
  BY <1>13, <1>16 DEF InBody
<1>18. PICK n : n = calls
  OBVIOUS
<1> QED BY <1>5, <1>6, <1>12, <1>14, <1>15, <1>16, <1>17, <1>18, StepTo DEF Phases, Ways

(* Process returns.                                                        *)
LEMMA ProcessEnds ==
  ASSUME ContextIInv, ProcessReturns
  PROVE  ContextIInv'
<1>1. phase = "ending" /\ phase' = "done" /\ UNCHANGED <<request, ctx, stream, calls, returned>>
  BY DEF ProcessReturns
<1>2. PICK c : c = ctx
  OBVIOUS
<1>3. PICK st : st = stream
  OBVIOUS
<1>4. PICK n : n = calls
  OBVIOUS
<1> QED BY <1>1, <1>2, <1>3, <1>4, StepTo DEF ContextIInv, Phases

(* One step each.                                                          *)
LEMMA ContextStep == ContextIInv /\ [Next]_vars => ContextIInv'
<1> SUFFICES ASSUME ContextIInv, [Next]_vars PROVE ContextIInv'
  OBVIOUS
<1>1. ASSUME UNCHANGED vars PROVE ContextIInv'
  BY <1>1 DEF vars, ContextIInv, InBody, Open, Http11, Framed, Exact
<1>2. CASE ReadRequest
  BY <1>2, ReadStep
<1>3. CASE \/ WithStatusCode
           \/ \E n \in Lengths : WithContentLength(n)
           \/ \E kind \in Kinds : WithHeaderIntercepter(kind)
  BY <1>3, SetterSteps
<1>4. CASE CallWriteHeaders
  BY <1>4, HeadersStep
<1>5. CASE CallSend
  BY <1>5, SendStep
<1>6. CASE CallOpenResponseStream
  BY <1>6, StreamOpens
<1>7. CASE \E n \in TextSizes : WriteStream(n)
  BY <1>7, StreamWritten
<1>8. CASE \E handled \in BOOLEAN : HandlerReturns(handled)
  BY <1>8, ReturnStep
<1>9. CASE HandlerThrows
  BY <1>9, ThrowStep
<1>10. CASE Catch
  BY <1>10, CatchStep
<1>11. CASE ProcessReturns
  BY <1>11, ProcessEnds
<1>12. CASE Done
  BY <1>1, <1>12 DEF Done
<1> QED BY <1>1, <1>2, <1>3, <1>4, <1>5, <1>6, <1>7, <1>8, <1>9, <1>10, <1>11, <1>12 DEF Next

(* The invariant in the words of the properties.                           *)
LEMMA ContextImplies ==
  ASSUME ContextIInv
  PROVE  Inv /\ InterceptorsInOrder /\ Answered /\ PartialIsExact
<1>1. /\ calls \in Nat /\ ctx \in Contexts /\ Wired(ctx) /\ stream \in Streams /\ Good(ctx, calls)
      /\ InBody(ctx, stream) /\ InOrder(ctx, calls)
  BY Types DEF ContextIInv, Good
<1>2. /\ Head1 = HeadOf(ctx) /\ Body = BodyOf(ctx) /\ (Started <=> ctx.sent)
      /\ \A kind : Ran(kind) <=> RanIn(ctx, kind)
  BY <1>1 DEF Head1, HeadOf, Body, BodyOf, Started, Wired, Ran, RanIn
<1>3. TypeOK
  BY <1>1 DEF TypeOK, ContextIInv, Contexts, Streams, Sizes, Statuses, Phases, Ways
<1>4. OneHeadFirst
  <2>1. Started => Head1[1] = "head"
    BY <1>1, <1>2 DEF Wired, Heads
  <2>2. ASSUME NEW k \in DOMAIN ctx.wire, ctx.wire[k][1] = "head", k # 1 PROVE FALSE
    <3>1. PICK w : w = ctx.wire
      OBVIOUS
    <3>2. w \in Seq(Heads \cup Pieces) /\ w # <<>> /\ ctx.sent
      BY <1>1, <2>2, <3>1 DEF Contexts, Wired
    <3>3. Tail(w) \in Seq(Pieces)
      BY <1>1, <3>1, <3>2 DEF Wired, BodyOf
    <3>4. /\ DOMAIN w = 1 .. Len(w) /\ Len(w) \in Nat /\ Len(Tail(w)) = Len(w) - 1
          /\ \A i \in 1 .. Len(Tail(w)) : Tail(w)[i] = w[i + 1]
      BY <3>2, HeadTailProperties, LenProperties
    <3>5. PICK b : b = Tail(w)
      BY Zenon
    <3>6. k - 1 \in 1 .. Len(b)
      BY <2>2, <3>1, <3>4, <3>5
    <3>7. b[k - 1] = w[k]
      BY <2>2, <3>1, <3>4, <3>5, <3>6
    <3>8. b[k - 1] \in Pieces
      BY <3>3, <3>5, <3>6, ElementOfSeq
    <3>9. w[k][1] \in {"plain", "chunk", "final"}
      BY <3>7, <3>8 DEF Pieces
    <3> QED BY <2>2, <3>1, <3>9
  <2> QED BY <1>2, <2>1, <2>2 DEF OneHeadFirst
<1>5. BodyFitsHead
  <2> SUFFICES ASSUME Started, ~Ran("answer"), ~Ran("throw")
               PROVE  IF Head1[4]
                        THEN /\ Head1[3] < 0
                             /\ \A k \in DOMAIN Body :
                                  IF k = Len(Body) THEN Body[k][1] \in {"chunk", "final"}
                                                   ELSE Body[k][1] = "chunk"
                             /\ phase = "done" => Body # <<>> /\ Last(Body)[1] = "final"
                        ELSE /\ \A k \in DOMAIN Body : Body[k][1] = "plain"
                             /\ Head1[3] >= 0 => Bytes(Body) <= Head1[3]
    BY DEF BodyFitsHead
  <2>1. ctx.sent /\ Clean(ctx)
    BY <1>2 DEF Clean
  <2>2. Fits(Head1, Body) /\ (phase = "done" => Over(Head1, Body))
    <3>1. CASE ~stream.open
      BY <1>1, <1>2, <2>1, <3>1 DEF InBody, Framed
    <3>2. CASE stream.open
      <4>1. /\ Open(ctx, stream) /\ phase # "done"
            /\ stream.length \in Sizes /\ stream.position \in Nat
        BY <1>1, <3>2 DEF InBody, ContextIInv, Streams
      <4>2. CASE Http11 /\ stream.length < 0
        BY <1>2, <2>1, <4>1, <4>2 DEF Open, Fits
      <4>3. CASE ~(Http11 /\ stream.length < 0)
        BY <1>2, <2>1, <4>1, <4>3 DEF Open, Fits
      <4> QED BY <4>2, <4>3
    <3> QED BY <3>1, <3>2
  <2>3. PICK b : b = Body
    OBVIOUS
  <2>4. PICK h : h = Head1
    OBVIOUS
  <2> QED BY <2>2, <2>3, <2>4 DEF Fits, Over
<1>6. InterceptorsInOrder
  BY <1>1 DEF InOrder, Timely, StoppedInside, InterceptorsInOrder
<1>7. Answered
  BY <1>2 DEF Answered, ContextIInv, IsAnswered
<1>8. PartialIsExact
  BY <1>2 DEF PartialIsExact, ContextIInv, Exact
<1> QED BY <1>3, <1>4, <1>5, <1>6, <1>7, <1>8 DEF Inv

(* The invariant holds in both parts of MCHandling.                        *)
LEMMA ContextAlways == PartsSpec => []ContextIInv
<1>1. PartsInit => ContextIInv
  BY ContextInit DEF PartsInit
<1>2. ContextIInv /\ [PartsNext]_allVars => ContextIInv'
  <2> SUFFICES ASSUME ContextIInv, [PartsNext]_allVars
               PROVE  ContextIInv'
    OBVIOUS
  <2>1. [Next]_vars
    BY DEF PartsNext, ContextPart, ServersPart, SessionPart, Finished, Stopped, allVars
  <2> QED BY <2>1, ContextStep
<1> QED BY <1>1, <1>2, PTL DEF PartsSpec

(* Whatever the handler, and the interceptors, call in which order, and    *)
(* wherever an exception passes: there is one head, it is the first thing  *)
(* written, and the body is framed and bounded as it announces, the final  *)
(* chunk included.  (HttpServer.cpp: WriteHeaders, OpenResponseStream,     *)
(* SendText, SendStream, Process)                                          *)
THEOREM ContextCorrect == PartsSpec => []Inv
<1> QED BY ContextAlways, ContextImplies, PTL

(* Interceptors run in the order they were registered, each at most once,  *)
(* and after the head only inside the loop that an earlier one, which      *)
(* answered, left open, however many are registered and wherever one       *)
(* stops a loop or throws.  (HttpServer.cpp: WriteHeaders)                 *)
THEOREM InterceptorsInOrderCorrect == PartsSpec => []InterceptorsInOrder
<1> QED BY ContextAlways, ContextImplies, PTL

(* A request that began has a head on the wire when Process ends, unless   *)
(* the handler claims it or an interceptor throws, and what nobody handled is*)
(* not answered with 200.  (HttpServer.cpp: Process)                       *)
THEOREM AnsweredCorrect == PartsSpec => []Answered
<1> QED BY ContextAlways, ContextImplies, PTL

(* A response 206 announces and sends a part of the source, and exactly    *)
(* the part that was asked for when the range has a first byte: not when   *)
(* it is a suffix.  (HttpServer.cpp: SendStream)                           *)
THEOREM PartialIsExactCorrect == PartsSpec => []PartialIsExact
<1> QED BY ContextAlways, ContextImplies, PTL

-----------------------------------------------------------------------------
Mounted == [point : Points, server : Servers]
Fronts == Servers \cup {Mounts, None}
Seen == [front : Fronts, servers : Seq(Mounted)]
Places == {"new", "front", "plain", "mounts", "mounted", "root", "handled", "unhandled"}
Routed ==
  [at : Places, target : Seq(STRING), path : Seq(STRING),
   by : Servers \cup {Root, None}, since : Nat]

(* What RightServer says of a request q and a log l.                       *)
NewestOf(m, q) ==
  \E i \in M!Matching(m, q.target) :
    /\ m[i].server = q.by
    /\ m[i].point.path \o q.path = q.target
    /\ \A j \in M!Matching(m, q.target) : i <= j

Right(q, l) ==
  /\ q.at = "mounted" => \E n \in q.since .. Len(l) : NewestOf(l[n].servers, q)
  /\ q.at = "plain" => \E n \in q.since .. Len(l) : l[n].front = q.by
  /\ q.at \in {"root", "handled", "unhandled"} => q.path = q.target

RoutedOK(q, l) ==
  /\ q \in Routed
  /\ q.at # "new" => q.since \in 1 .. Len(l)
  /\ q.at \in {"front", "mounts", "plain"} => q.path = q.target
  /\ Right(q, l)

(* The log ends with the servers as they are.                              *)
LogIsNow(l, f, m) ==
  /\ l \in Seq(Seen) /\ Len(l) \in 1 .. MaxChanges + 1
  /\ l[Len(l)].front = f /\ l[Len(l)].servers = m

RouterIInv ==
  /\ front \in Fronts /\ servers \in Seq(Mounted)
  /\ LogIsNow(log, front, servers)
  /\ DOMAIN routed = Clients
  /\ \A r \in Clients : RoutedOK(routed[r], log)

(* What the invariant says of the log, in the words of the property.       *)
LEMMA RouterImplies == RouterIInv => M!Inv
<1> SUFFICES ASSUME RouterIInv PROVE M!Inv
  OBVIOUS
<1>1. M!TypeOK
  BY DEF RouterIInv, M!TypeOK, RoutedOK, Routed, Places, Fronts, Mounted, LogIsNow
<1>2. ASSUME NEW r \in Clients, NEW n \in routed[r].since .. Len(log)
      PROVE  log[n] \in M!Seen(r)
  BY <1>2 DEF M!Seen
<1>3. ASSUME NEW r \in Clients PROVE Right(routed[r], log)
  BY <1>3 DEF RouterIInv, RoutedOK
<1>4. M!RightServer
  <2> SUFFICES ASSUME NEW r \in Clients
      PROVE  LET q == routed[r] IN
        /\ q.at = "mounted" =>
            \E s \in M!Seen(r) : \E i \in M!Matching(s.servers, q.target) :
              /\ s.servers[i].server = q.by
              /\ s.servers[i].point.path \o q.path = q.target
              /\ \A j \in M!Matching(s.servers, q.target) : i <= j
        /\ q.at = "plain" => \E s \in M!Seen(r) : s.front = q.by
        /\ q.at \in {"root", "handled", "unhandled"} => q.path = q.target
    BY Zenon DEF M!RightServer
  <2> DEFINE q == routed[r]
  <2>1. Right(q, log)
    BY <1>3
  <2>2. ASSUME q.at = "mounted"
        PROVE  \E s \in M!Seen(r) : \E i \in M!Matching(s.servers, q.target) :
              /\ s.servers[i].server = q.by
              /\ s.servers[i].point.path \o q.path = q.target
              /\ \A j \in M!Matching(s.servers, q.target) : i <= j
    <3>1. PICK n \in q.since .. Len(log) : NewestOf(log[n].servers, q)
      BY <2>1, <2>2 DEF Right
    <3>2. log[n] \in M!Seen(r)
      BY <1>2
    <3> QED BY <3>1, <3>2, Zenon DEF NewestOf
  <2>3. ASSUME q.at = "plain" PROVE \E s \in M!Seen(r) : s.front = q.by
    <3>1. PICK n \in q.since .. Len(log) : log[n].front = q.by
      BY <2>1, <2>3 DEF Right
    <3> QED BY <1>2, <3>1, Zenon
  <2> QED BY <2>1, <2>2, <2>3, Zenon DEF Right
<1> QED BY <1>1, <1>4 DEF M!Inv

(* The invariant holds when no server is mounted and no request came.      *)
LEMMA RouterInit == M!Init => RouterIInv
<1> SUFFICES ASSUME M!Init PROVE RouterIInv
  OBVIOUS
<1>1. front = Mounts /\ servers = <<>> /\ log = <<[front |-> Mounts, servers |-> <<>>]>>
  BY DEF M!Init
<1>2. [front |-> Mounts, servers |-> <<>>] \in Seen
  <2>1. Mounts \in Fronts /\ <<>> \in Seq(Mounted)
    BY EmptySeq DEF Fronts
  <2> QED BY <2>1 DEF Seen
<1> HIDE DEF Seen
<1>3. LogIsNow(log, front, servers)
  BY <1>1, <1>2, ChangesAssumption DEF LogIsNow
<1>4. front \in Fronts /\ servers \in Seq(Mounted)
  BY <1>1, EmptySeq DEF Fronts
<1>5. DOMAIN routed = Clients /\ \A r \in Clients : routed[r] = M!New
  BY DEF M!Init
<1>6. RoutedOK(M!New, log)
  <2>1. M!New \in Routed
    BY EmptySeq DEF M!New, Routed, Places
  <2> QED BY <2>1 DEF RoutedOK, Right, M!New
<1> QED BY <1>3, <1>4, <1>5, <1>6 DEF RouterIInv

(* A step that changes the servers and appends them to the log.            *)
LEMMA ChangeStep ==
  ASSUME RouterIInv, NEW f \in Fronts, NEW m \in Seq(Mounted), Len(log) <= MaxChanges
  PROVE  LET l == Append(log, [front |-> f, servers |-> m])
         IN LogIsNow(l, f, m) /\ \A r \in Clients : RoutedOK(routed[r], l)
<1> DEFINE now == [front |-> f, servers |-> m]
           l == Append(log, now)
<1>1. now \in Seen /\ now.front = f /\ now.servers = m
  BY DEF Seen
<1>2. log \in Seq(Seen) /\ Len(log) \in 1 .. MaxChanges + 1
  BY DEF RouterIInv, LogIsNow
<1> HIDE DEF now, Seen
<1>3. /\ l \in Seq(Seen) /\ Len(l) = Len(log) + 1 /\ l[Len(l)] = now
      /\ \A n \in 1 .. Len(log) : l[n] = log[n]
  BY <1>1, <1>2, AppendProperties
<1> HIDE DEF l
<1>4. LogIsNow(l, f, m)
  BY <1>1, <1>2, <1>3, ChangesAssumption DEF LogIsNow
<1>5. ASSUME NEW r \in Clients PROVE RoutedOK(routed[r], l)
  <2> DEFINE q == routed[r]
  <2>1. RoutedOK(q, log)
    BY DEF RouterIInv
  <2>2. q.at # "new" => q.since \in 1 .. Len(log) /\ q.since .. Len(log) \subseteq q.since .. Len(l)
                        /\ q.since .. Len(log) \subseteq 1 .. Len(log)
    BY <1>2, <1>3, <2>1 DEF RoutedOK
  <2> HIDE DEF q
  <2>3. Right(q, l)
    BY <1>3, <2>1, <2>2 DEF RoutedOK, Right
  <2>4. q.at # "new" => q.since \in 1 .. Len(l)
    BY <1>2, <1>3, <2>2
  <2>5. RoutedOK(q, l)
    BY <2>1, <2>3, <2>4 DEF RoutedOK
  <2> QED BY <2>5 DEF q
<1> QED BY <1>4, <1>5 DEF l, now

(* SetServer, Mount and Unmount: the log grows by what they leave.         *)
LEMMA OwnerSteps ==
  ASSUME RouterIInv,
         \/ \E s \in Servers \cup {Mounts, None} : M!SetServer(s)
         \/ \E p \in Points : M!Unmount(p.text) \/ \E s \in Servers : M!Mount(p, s)
  PROVE  RouterIInv'
<1>1. ASSUME NEW f \in Fronts, NEW m \in Seq(Mounted), Len(log) <= MaxChanges,
             front' = f, servers' = m, routed' = routed,
             log' = Append(log, [front |-> front', servers |-> servers'])
      PROVE  RouterIInv'
  BY <1>1, ChangeStep DEF RouterIInv
<1>2. front \in Fronts /\ servers \in Seq(Mounted)
  BY DEF RouterIInv
<1>3. CASE \E s \in Servers \cup {Mounts, None} : M!SetServer(s)
  BY <1>1, <1>2, <1>3 DEF M!SetServer, M!Record, Fronts
<1>4. CASE \E p \in Points : \E s \in Servers : M!Mount(p, s)
  <2>1. PICK p \in Points, s \in Servers : M!Mount(p, s)
    BY <1>4
  <2> DEFINE e == [point |-> p, server |-> s]
  <2>2. e \in Mounted
    BY DEF Mounted
  <2>3. servers' = <<e>> \o servers
    BY <2>1 DEF M!Mount
  <2> HIDE DEF e
  <2>4. <<e>> \o servers \in Seq(Mounted)
    BY <1>2, <2>2, ConcatProperties
  <2>5. Len(log) <= MaxChanges /\ front' = front /\ routed' = routed
        /\ log' = Append(log, [front |-> front', servers |-> servers'])
    BY <2>1 DEF M!Mount, M!Record
  <2> QED BY <1>1, <1>2, <2>3, <2>4, <2>5, Zenon
<1>5. CASE \E p \in Points : M!Unmount(p.text)
  <2>1. PICK p \in Points : M!Unmount(p.text)
    BY <1>5
  <2>21. PICK same : same = {i \in DOMAIN servers : servers[i].point.text = p.text}
    BY Zenon
  <2>22. PICK k : k = M!First(same)
    OBVIOUS
  <2>2. servers' = IF same = {} THEN servers ELSE M!RemoveAt(servers, k)
    BY <2>1, <2>21, <2>22 DEF M!Unmount
  <2>3. same # {} => k \in 1 .. Len(servers)
    <3>1. /\ DOMAIN servers = 1 .. Len(servers)
          /\ same \in SUBSET Nat /\ same \subseteq 1 .. Len(servers)
      BY <1>2, <2>21, LenProperties
    <3>2. same # {} => M!First(same) \in same
      BY <3>1, Least, Zenon DEF M!First
    <3> QED BY <2>22, <3>1, <3>2, Zenon
  <2>4. servers' \in Seq(Mounted)
    <3>1. CASE same = {}
      BY <1>2, <2>2, <3>1
    <3>2. CASE same # {}
      <4>1. servers' = CutOut(servers, k)
        BY <2>2, <3>2, Zenon DEF M!RemoveAt, CutOut
      <4> QED BY <1>2, <2>3, <3>2, <4>1, CutOutElements
    <3> QED BY <3>1, <3>2
  <2>5. Len(log) <= MaxChanges /\ front' = front /\ routed' = routed
        /\ log' = Append(log, [front |-> front', servers |-> servers'])
    BY <2>1 DEF M!Unmount, M!Record
  <2> QED BY <1>1, <1>2, <2>4, <2>5
<1> QED BY <1>3, <1>4, <1>5

(* A step of one request: g is f but for the request r.                    *)
OnlyAt(g, f, r) ==
  DOMAIN g = DOMAIN f /\ \A c \in DOMAIN f : c # r => g[c] = f[c]

(* A step of one request leaves the others as they are.                    *)
LEMMA OneRequest ==
  ASSUME RouterIInv, NEW r \in Clients, OnlyAt(routed', routed, r),
         RoutedOK(routed'[r], log), UNCHANGED <<front, servers, log>>
  PROVE  RouterIInv'
BY DEF RouterIInv, OnlyAt

(* What a step of a request leaves: its target, when it came.              *)
Moved(d, q, at, path, by) ==
  /\ d \in Routed /\ d.at = at /\ d.path = path /\ d.by = by
  /\ d.target = q.target /\ d.since = q.since

(* A request that moves on, by its new place.                              *)
LEMMA MovedOK ==
  ASSUME NEW q, RoutedOK(q, log), LogIsNow(log, front, servers), q.at # "new",
         NEW at \in Places \ {"new"}, NEW path, NEW by, NEW d, Moved(d, q, at, path, by),
         at \in {"front", "mounts", "plain", "root", "handled", "unhandled"} =>
           path = q.target,
         at = "plain" => by = front,
         at = "mounted" => NewestOf(servers, d)
  PROVE  RoutedOK(d, log)
<1>1. q \in Routed /\ q.since \in 1 .. Len(log)
  BY DEF RoutedOK
<1>2. d \in Routed /\ d.since = q.since /\ d.at = at /\ d.by = by /\ d.path = path
      /\ d.target = q.target
  BY DEF Moved
<1>3. Len(log) \in q.since .. Len(log)
  BY <1>1 DEF LogIsNow
<1>4. log[Len(log)].front = front /\ log[Len(log)].servers = servers
  BY DEF LogIsNow
<1>6. Right(d, log)
  BY <1>2, <1>3, <1>4 DEF Right
<1> QED BY <1>1, <1>2, <1>6 DEF RoutedOK

(* The ways the steps write it.                                            *)
LEMMA MovedIs ==
  ASSUME NEW f, NEW r \in DOMAIN f, f[r] \in Routed, NEW at \in Places,
         NEW path \in Seq(STRING), NEW by \in Servers \cup {Root, None}, NEW g,
         \/ g = [f EXCEPT ![r].at = at, ![r].by = by, ![r].path = path]
         \/ g = [f EXCEPT ![r].at = at, ![r].path = path, ![r].by = by]
         \/ g = [f EXCEPT ![r].at = at, ![r].by = by] /\ path = f[r].path
         \/ g = [f EXCEPT ![r].at = at, ![r].path = path] /\ by = f[r].by
         \/ g = [f EXCEPT ![r].at = at] /\ path = f[r].path /\ by = f[r].by
  PROVE  OnlyAt(g, f, r) /\ Moved(g[r], f[r], at, path, by)
<1>1. CASE g = [f EXCEPT ![r].at = at, ![r].by = by, ![r].path = path]
  BY <1>1, Zenon DEF OnlyAt, Moved, Routed
<1>2. CASE g = [f EXCEPT ![r].at = at, ![r].path = path, ![r].by = by]
  BY <1>2, Zenon DEF OnlyAt, Moved, Routed
<1>3. CASE g = [f EXCEPT ![r].at = at, ![r].by = by] /\ path = f[r].path
  BY <1>3, Zenon DEF OnlyAt, Moved, Routed
<1>4. CASE g = [f EXCEPT ![r].at = at, ![r].path = path] /\ by = f[r].by
  BY <1>4, Zenon DEF OnlyAt, Moved, Routed
<1>5. CASE g = [f EXCEPT ![r].at = at] /\ path = f[r].path /\ by = f[r].by
  BY <1>5 DEF OnlyAt, Moved, Routed
<1> QED BY <1>1, <1>2, <1>3, <1>4, <1>5

(* Handle of the two servers, step by step.                                *)
LEMMA RequestSteps ==
  ASSUME RouterIInv, NEW r \in Clients,
         M!Handle(r) \/ \E p \in Targets : M!Arrive(r, p)
  PROVE  RouterIInv'
<1> DEFINE q == routed[r]
<1>0. /\ RoutedOK(q, log) /\ DOMAIN routed = Clients /\ front \in Fronts
      /\ servers \in Seq(Mounted) /\ LogIsNow(log, front, servers)
  BY DEF RouterIInv
<1>1. /\ q \in Routed /\ q.at \in Places /\ q.target \in Seq(STRING)
      /\ q.path \in Seq(STRING) /\ q.by \in Servers \cup {Root, None}
  BY <1>0 DEF RoutedOK, Routed
<1>2. ASSUME NEW at \in Places \ {"new"}, NEW path \in Seq(STRING),
             NEW by \in Servers \cup {Root, None}, q.at # "new",
             \/ routed' = [routed EXCEPT ![r].at = at, ![r].by = by, ![r].path = path]
             \/ routed' = [routed EXCEPT ![r].at = at, ![r].path = path, ![r].by = by]
             \/ routed' = [routed EXCEPT ![r].at = at, ![r].by = by] /\ path = q.path
             \/ routed' = [routed EXCEPT ![r].at = at, ![r].path = path] /\ by = q.by
             \/ routed' = [routed EXCEPT ![r].at = at] /\ path = q.path /\ by = q.by,
             UNCHANGED <<front, servers, log>>,
             at \in {"front", "mounts", "plain", "root", "handled", "unhandled"} =>
               path = q.target,
             at = "plain" => by = front,
             at = "mounted" =>
               \A d : Moved(d, q, at, path, by) => NewestOf(servers, d)
      PROVE  RouterIInv'
  <2>1. OnlyAt(routed', routed, r) /\ Moved(routed'[r], q, at, path, by)
    BY <1>0, <1>1, <1>2, MovedIs, Zenon
  <2>2. RoutedOK(routed'[r], log)
    BY <1>0, <1>2, <2>1, MovedOK
  <2> QED BY <1>2, <2>1, <2>2, OneRequest
<1>4. CASE \E p \in Targets : M!Arrive(r, p)
  <2>1. PICK p \in Targets : M!Arrive(r, p)
    BY <1>4
  <2> DEFINE d == [at |-> "front", target |-> p, path |-> p, by |-> None, since |-> Len(log)]
  <2>2. routed' = [routed EXCEPT ![r] = d] /\ UNCHANGED <<front, servers, log>>
    BY <2>1 DEF M!Arrive
  <2>3. Len(log) \in 1 .. Len(log) /\ p \in Seq(STRING)
    BY <1>0, PathsAssumption DEF LogIsNow
  <2>4. RoutedOK(d, log)
    BY <2>3 DEF RoutedOK, Right, Routed, Places
  <2> HIDE DEF d
  <2>5. OnlyAt(routed', routed, r) /\ routed'[r] = d
    BY <1>0, <2>2 DEF OnlyAt
  <2> QED BY <2>2, <2>4, <2>5, OneRequest, Zenon
<1>5. CASE M!GetServer(r)
  <2>1. PICK at : at = CASE front = None -> "unhandled"
                         [] front = Mounts -> "mounts"
                         [] OTHER -> "plain"
    OBVIOUS
  <2>2. PICK by : by = IF front = Mounts THEN None ELSE front
    OBVIOUS
  <2>3. /\ at \in {"unhandled", "mounts", "plain"} /\ by \in Servers \cup {Root, None}
        /\ at = "plain" => by = front
    BY <1>0, <2>1, <2>2, ServersAssumption DEF Fronts
  <2>4. q.at = "front" /\ q.path = q.target /\ UNCHANGED <<front, servers, log>>
    BY <1>0, <1>5 DEF M!GetServer, RoutedOK
  <2>5. routed' = [routed EXCEPT ![r].at = at, ![r].by = by]
    BY <1>5, <2>1, <2>2 DEF M!GetServer
  <2> HIDE DEF q
  <2> QED BY <1>1, <1>2, <2>3, <2>4, <2>5, Zenon DEF Places
<1>6. CASE M!PlainAnswers(r)
  <2>1. PICK at \in {"handled", "unhandled"} : routed' = [routed EXCEPT ![r].at = at]
    BY <1>6, Zenon DEF M!PlainAnswers
  <2>4. q.at = "plain" /\ q.path = q.target /\ UNCHANGED <<front, servers, log>>
    BY <1>0, <1>6 DEF M!PlainAnswers, RoutedOK
  <2> HIDE DEF q
  <2> QED BY <1>1, <1>2, <2>1, <2>4, Zenon DEF Places
<1>7. CASE M!Route(r)
  <2> DEFINE S == M!Matching(servers, q.path)
             k == M!First(S)
             e == servers[k]
             rest == SubSeq(q.path, Len(e.point.path) + 1, Len(q.path))
  <2>1. /\ q.at = "mounts" /\ q.path = q.target /\ S # {}
        /\ UNCHANGED <<front, servers, log>>
        /\ routed' = [routed EXCEPT ![r].at = "mounted", ![r].by = e.server, ![r].path = rest]
    BY <1>0, <1>7 DEF M!Route, RoutedOK
  <2>2. k \in S /\ \A j \in S : k <= j
    <3>1. S \in SUBSET Nat
      BY <1>0, LenProperties DEF M!Matching
    <3> HIDE DEF S
    <3> QED BY <2>1, <3>1, Least, Zenon DEF M!First, Min
  <2>3. k \in DOMAIN servers /\ M!StartsWith(q.path, e.point.path) /\ e \in Mounted
    <3>1. k \in DOMAIN servers /\ M!StartsWith(q.path, e.point.path)
      <4> HIDE DEF k
      <4> QED BY <2>2 DEF M!Matching
    <3> HIDE DEF k
    <3> QED BY <1>0, <3>1, LenProperties, ElementOfSeq
  <2>4. e.point.path \in Seq(STRING) /\ e.server \in Servers
    <3> HIDE DEF e
    <3> QED BY <2>3, PathsAssumption DEF Mounted
  <2>5. rest \in Seq(STRING) /\ e.point.path \o rest = q.path
    <3>1. PICK p : p = e.point.path
      OBVIOUS
    <3>2. p \in Seq(STRING) /\ q.path \in Seq(STRING) /\ Len(p) \in Nat /\ Len(q.path) \in Nat
          /\ Len(p) <= Len(q.path) /\ SubSeq(q.path, 1, Len(p)) = p
      BY <1>1, <2>3, <2>4, <3>1, LenProperties DEF M!StartsWith
    <3> HIDE DEF q
    <3>3. PICK t : t = SubSeq(q.path, Len(p) + 1, Len(q.path))
      BY Zenon
    <3>4. /\ t \in Seq(STRING) /\ Len(t) = Len(q.path) - Len(p)
          /\ \A i \in 1 .. Len(q.path) - Len(p) : t[i] = q.path[Len(p) + i]
      <4>1. Len(p) + 1 \in Nat /\ 1 <= Len(p) + 1 /\ Len(p) + 1 <= Len(q.path) + 1
        BY <3>2
      <4>2. /\ t \in Seq(STRING) /\ Len(t) = Len(q.path) - (Len(p) + 1) + 1
            /\ \A i \in 1 .. Len(q.path) - (Len(p) + 1) + 1 : t[i] = q.path[(Len(p) + 1) + i - 1]
        BY <3>2, <3>3, <4>1, PartOf
      <4> QED BY <3>2, <4>2
    <3>5. \A i \in 1 .. Len(p) : p[i] = q.path[i]
      BY <3>2
    <3>6. /\ p \o t \in Seq(STRING) /\ Len(p \o t) = Len(q.path)
          /\ \A i \in 1 .. Len(q.path) : (p \o t)[i] = q.path[i]
      BY <3>2, <3>4, <3>5, ConcatProperties
    <3>7. p \o t = q.path
      BY <3>2, <3>6, SeqEqual, Zenon
    <3> QED BY <3>1, <3>3, <3>4, <3>7, Zenon
  <2>6. ASSUME NEW d, Moved(d, q, "mounted", rest, e.server)
        PROVE  NewestOf(servers, d)
    <3>2. d.target = q.target /\ d.path = rest /\ d.by = e.server
      BY <2>6 DEF Moved
    <3> HIDE DEF q, rest
    <3>3. S = M!Matching(servers, d.target)
      BY <2>1, <3>2
    <3> HIDE DEF S, k
    <3>4. /\ k \in M!Matching(servers, d.target) /\ servers[k].server = d.by
          /\ servers[k].point.path \o d.path = d.target
          /\ \A j \in M!Matching(servers, d.target) : k <= j
      BY <2>1, <2>2, <2>5, <3>2, <3>3
    <3>5. NewestOf(servers, d)
      BY <3>4, Zenon DEF NewestOf
    <3> QED BY <3>5
  <2>7. "mounted" \in Places \ {"new"} /\ q.at # "new" /\ e.server \in Servers \cup {Root, None}
    BY <2>1, <2>4 DEF Places
  <2> HIDE DEF e, rest, q, S
  <2> QED BY <1>2, <2>1, <2>5, <2>6, <2>7, ZenonT(30)
<1>8. CASE M!RouteToRoot(r)
  <2>1. /\ q.at = "mounts" /\ q.path = q.target /\ UNCHANGED <<front, servers, log>>
        /\ routed' = [routed EXCEPT ![r].at = "root", ![r].by = Root]
    BY <1>0, <1>8 DEF M!RouteToRoot, RoutedOK
  <2>2. "root" \in Places \ {"new"} /\ Root \in Servers \cup {Root, None} /\ q.at # "new"
    BY <2>1 DEF Places
  <2> HIDE DEF q
  <2> QED BY <1>1, <1>2, <2>1, <2>2, Zenon
<1>9. CASE M!MountedAnswers(r)
  <2>1. q.at = "mounted" /\ UNCHANGED <<front, servers, log>>
    BY <1>9 DEF M!MountedAnswers
  <2>2. CASE routed' = [routed EXCEPT ![r].at = "handled", ![r].path = q.target]
    <3>1. "handled" \in Places \ {"new"} /\ q.at # "new"
      BY <2>1 DEF Places
    <3> HIDE DEF q
    <3> QED BY <1>1, <1>2, <2>1, <2>2, <3>1, Zenon
  <2>3. CASE routed' = [routed EXCEPT ![r].at = "root", ![r].path = q.target, ![r].by = Root]
    <3>1. "root" \in Places \ {"new"} /\ Root \in Servers \cup {Root, None} /\ q.at # "new"
      BY <2>1 DEF Places
    <3> HIDE DEF q
    <3> QED BY <1>1, <1>2, <2>1, <2>3, <3>1, Zenon
  <2> QED BY <1>9, <2>2, <2>3 DEF M!MountedAnswers
<1>10. CASE M!RootAnswers(r)
  <2>1. PICK at \in {"handled", "unhandled"} : routed' = [routed EXCEPT ![r].at = at]
    BY <1>10, Zenon DEF M!RootAnswers
  <2>4. q.at = "root" /\ q.path = q.target /\ UNCHANGED <<front, servers, log>>
    BY <1>0, <1>10 DEF M!RootAnswers, RoutedOK, Right
  <2> HIDE DEF q
  <2> QED BY <1>1, <1>2, <2>1, <2>4, ZenonT(30) DEF Places
<1> QED BY <1>4, <1>5, <1>6, <1>7, <1>8, <1>9, <1>10 DEF M!Handle

(* A request runs in a server that was mounted or in front at some moment  *)
(* since it came, the newest mount that fits, with the rest of its path.   *)
(* (MountableServer.cpp:72-95, ChangeableServer.cpp:41-47)                 *)
THEOREM RightServerCorrect == PartsSpec => []RightServer
<1>1. PartsInit => RouterIInv
  BY RouterInit DEF PartsInit
<1>2. RouterIInv /\ [PartsNext]_allVars => RouterIInv'
  <2> SUFFICES ASSUME RouterIInv, [PartsNext]_allVars
               PROVE  RouterIInv'
    OBVIOUS
  <2>1. CASE UNCHANGED composedVars
    BY <2>1 DEF composedVars, RouterIInv
  <2>2. CASE M!Next
    BY <2>2, OwnerSteps, RequestSteps DEF M!Next
  <2> QED BY <2>1, <2>2
          DEF PartsNext, ContextPart, ServersPart, SessionPart, Finished, Stopped, allVars
<1>3. RouterIInv => RightServer
  BY RouterImplies DEF RightServer
<1> QED BY <1>1, <1>2, <1>3, PTL DEF PartsSpec

-----------------------------------------------------------------------------
(***************************************************************************)
(* The WebSocket session.                                                  *)
(*                                                                         *)
(* Flow is what makes its messages whole: one can go through the frames on *)
(* their way in one direction, from the reader to the writer, and say of   *)
(* each place between two frames how many messages (D) and how many parts  *)
(* of the next (I) are over there.  The reader stands at the first place   *)
(* with what it has received and put together, the writer at the last with *)
(* what it has still to write, and each frame takes one place to the next  *)
(* (Between).  A lost connection cuts the way off at any place; CutOff is  *)
(* what the reader is left with when the last frame was torn.              *)
(***************************************************************************)

(* Frames on their way, and the parts of a message.                        *)
Operands == {"first", "more", "ping", "pong", "close", "head"}
Wares == [op : Operands, part : Nat \X Int, fin : BOOLEAN]
Parts == Nat \X Int
Positive == Nat \ {0}

IsData(f) == f.op \in {"first", "more"}
Beginning(m, k, n) == m = [j \in 1 .. n |-> <<k, j>>]
WholeOf(s, k) == [j \in 1 .. s[k] |-> <<k, j>>]
TornOf(m, k, s) ==
  k \in DOMAIN s /\ \E i \in DOMAIN WholeOf(s, k) : m = [WholeOf(s, k) EXCEPT ![i][2] = -1]
AllWhole(g, s) == \A j \in DOMAIN g : j \in DOMAIN s /\ g[j] = WholeOf(s, j)

(* Between two frames so many messages are over, and so many parts of the  *)
(* next have passed.  A frame f takes d messages and i parts to e and j;   *)
(* s are the sizes, b what was sent before the first close.                *)
Between(f, d, i, e, j, s, b) ==
  IF IsData(f)
    THEN /\ d + 1 \in DOMAIN s /\ i < s[d + 1]
         /\ f.part[1] = d + 1 /\ f.part[2] \in {i + 1, -1}
         /\ f.op = IF i = 0 THEN "first" ELSE "more"
         /\ f.fin <=> i + 1 = s[d + 1]
         /\ IF f.fin THEN e = d + 1 /\ j = 0 ELSE e = d /\ j = i + 1
    ELSE e = d /\ i = 0 /\ j = 0 /\ (f.op = "close" => b \in 0 .. d)

Marked(o, D, I, s, b) ==
  /\ D \in Seq(Nat) /\ I \in Seq(Nat) /\ Len(D) = Len(o) + 1 /\ Len(I) = Len(o) + 1
  /\ \A k \in 1 .. Len(o) : Between(o[k], D[k], I[k], D[k + 1], I[k + 1], s, b)

(* The reader: what it has of a message, what it was given, where it is.   *)
AtReader(m, g, st, d, i, s) ==
  /\ AllWhole(g, s)
  /\ st = "call" => m = <<>>
  /\ IF st = "deliver" /\ m # <<>>
       THEN Len(g) + 1 \in DOMAIN s /\ m = WholeOf(s, Len(g) + 1) /\ d = Len(g) + 1 /\ i = 0
       ELSE d = Len(g) /\ Beginning(m, Len(g) + 1, i)

(* The writer: what its thread has still to write.                         *)
AtWriter(td, s, d, i) ==
  IF td # <<>> /\ IsData(td[1]) THEN d = Len(s) - 1 /\ i = s[Len(s)] - Len(td)
                                ELSE d = Len(s) /\ i = 0

(* Nothing comes any more, and the last frame was cut.                     *)
CutOff(lnk, o, s, m, g, st) ==
  /\ lnk = "lost" /\ o = <<>>
  /\ \/ AllWhole(g, s) /\ st = "deliver" /\ TornOf(m, Len(g) + 1, s)
     \/ AllWhole(g, s) /\ st \notin {"call", "deliver"}
     \/ m = <<>> /\ \A j \in DOMAIN g : /\ j \in DOMAIN s
                                        /\ \/ g[j] = WholeOf(s, j)
                                           \/ j = Len(g) /\ TornOf(g[j], j, s)

Marks(o, td, s, b, m, g, st, broken, D, I) ==
  /\ Marked(o, D, I, s, b) /\ AtReader(m, g, st, D[1], I[1], s)
  /\ ~broken => AtWriter(td, s, D[Len(o) + 1], I[Len(o) + 1])

Flow(lnk, o, td, s, b, m, g, st, broken) ==
  \/ CutOff(lnk, o, s, m, g, st)
  \/ \E D, I : Marks(o, td, s, b, m, g, st, broken, D, I)

ToWrite(td, s) ==
  /\ td \in Seq(Wares)
  /\ \/ td = <<>>
     \/ Len(td) = 1 /\ td[1].op \in {"ping", "pong", "close"} /\ td[1].part = <<0, 0>>
     \/ /\ Len(s) >= 1 /\ Len(td) <= s[Len(s)]
        /\ \A j \in 1 .. Len(td) : td[j] = W!Part(Len(s), s[Len(s)] - Len(td) + j, s[Len(s)])

(* The beginning of a message, and the next part of it.                    *)
LEMMA NextPart ==
  ASSUME NEW k \in Nat, NEW n \in Nat, NEW m, Beginning(m, k, n)
  PROVE  /\ m \in Seq(Parts) /\ Len(m) = n /\ (m = <<>> <=> n = 0)
         /\ Beginning(Append(m, <<k, n + 1>>), k, n + 1)
         /\ Beginning(<<<<k, 1>>>>, k, 1)
<1> DEFINE P == [j \in 1 .. n |-> <<k, j>>]
<1>1. m = P
  BY DEF Beginning
<1>2. P \in Seq(Parts) /\ Len(P) = n
  <2>1. \A j \in 1 .. n : <<k, j>> \in Parts
    BY DEF Parts
  <2>2. P \in [1 .. n -> Parts]
    BY <2>1
  <2> HIDE DEF P
  <2> QED BY <2>2, LenProperties
<1>3. m = <<>> <=> n = 0
  <2> HIDE DEF P
  <2> QED BY <1>1, <1>2, EmptySeq, LenProperties
<1>4. PICK t : t = <<k, n + 1>>
  BY Zenon
<1>5. t \in Parts
  BY <1>4 DEF Parts
<1>6. PICK a : a = Append(m, t)
  BY Zenon
<1>7. /\ DOMAIN a = 1 .. n + 1 /\ a[n + 1] = t /\ \A j \in 1 .. n : a[j] = m[j]
      /\ a = [j \in 1 .. n + 1 |-> a[j]]
  <2> HIDE DEF P
  <2>1. a \in Seq(Parts) /\ Len(a) = n + 1 /\ a[n + 1] = t /\ \A j \in 1 .. n : a[j] = m[j]
    BY <1>1, <1>2, <1>5, <1>6, AppendProperties
  <2> QED BY <2>1, LenProperties
<1>8. \A j \in 1 .. n + 1 : a[j] = <<k, j>>
  <2>1. \A j \in 1 .. n : m[j] = <<k, j>>
    BY <1>1
  <2>2. \A j \in 1 .. n + 1 : j \in 1 .. n \/ j = n + 1
    OBVIOUS
  <2> HIDE DEF P
  <2> QED BY <1>4, <1>7, <2>1, <2>2, Zenon
<1>9. Beginning(a, k, n + 1)
  <2> HIDE DEF P
  <2> QED BY <1>7, <1>8 DEF Beginning
<1>10. Beginning(<<<<k, 1>>>>, k, 1)
  <2>1. \A j \in 1 .. 1 : j = 1
    OBVIOUS
  <2>2. <<<<k, 1>>>> = [j \in 1 .. 1 |-> <<k, j>>]
    BY <2>1
  <2> QED BY <2>2 DEF Beginning
<1> HIDE DEF P
<1> QED BY <1>1, <1>2, <1>3, <1>4, <1>6, <1>9, <1>10

(* More messages sent.                                                     *)
LEMMA MoreSent ==
  ASSUME NEW s \in Seq(Positive), NEW x \in Positive
  PROVE  /\ Append(s, x) \in Seq(Positive) /\ Len(Append(s, x)) = Len(s) + 1
         /\ Append(s, x)[Len(s) + 1] = x
         /\ \A k \in DOMAIN s : k \in DOMAIN Append(s, x) /\ Append(s, x)[k] = s[k]
<1>1. s \in Seq(Positive) /\ x \in Positive
  OBVIOUS
<1> QED BY <1>1, AppendProperties, LenProperties

(* s stays what it is, as far as it goes.                                  *)
Longer(s, t) == \A k \in DOMAIN s : k \in DOMAIN t /\ t[k] = s[k]

(* What was sent before stays whole.                                       *)
LEMMA StillWhole ==
  ASSUME NEW s, NEW t, Longer(s, t)
  PROVE  /\ \A k \in DOMAIN s : WholeOf(t, k) = WholeOf(s, k)
         /\ \A g : AllWhole(g, s) => AllWhole(g, t)
         /\ \A m, k : TornOf(m, k, s) => TornOf(m, k, t)
<1>1. \A k \in DOMAIN s : WholeOf(t, k) = WholeOf(s, k)
  BY DEF WholeOf, Longer
<1>2. \A g : AllWhole(g, s) => AllWhole(g, t)
  BY <1>1 DEF AllWhole, Longer
<1>3. \A m, k : TornOf(m, k, s) => TornOf(m, k, t)
  BY <1>1, Zenon DEF TornOf, Longer
<1> QED BY <1>1, <1>2, <1>3

(* The writer broke off, or has nobody to write to: its frames go nowhere. *)
LEMMA FlowBreaks ==
  ASSUME NEW lnk, NEW o, NEW td, NEW s, NEW b, NEW m, NEW g, NEW st, NEW br, NEW td2,
         Flow(lnk, o, td, s, b, m, g, st, br)
  PROVE  Flow(lnk, o, td2, s, b, m, g, st, TRUE)
<1>1. \A D, I : Marks(o, td, s, b, m, g, st, br, D, I) => Marks(o, td2, s, b, m, g, st, TRUE, D, I)
  BY DEF Marks
<1> QED BY <1>1, Zenon DEF Flow

(* The writer has a message more, or another frame, to write.              *)
LEMMA FlowStarts ==
  ASSUME NEW lnk, NEW o \in Seq(Wares), NEW td, NEW s, NEW b, NEW m, NEW g, NEW st, NEW br,
         Flow(lnk, o, td, s, b, m, g, st, br),
         NEW td2, NEW t, Longer(s, t),
         \A d, i \in Nat : AtWriter(td, s, d, i) => AtWriter(td2, t, d, i)
  PROVE  Flow(lnk, o, td2, t, b, m, g, st, br)
<1>1. CASE CutOff(lnk, o, s, m, g, st)
  <2>1. CutOff(lnk, o, t, m, g, st)
    BY <1>1, StillWhole DEF CutOff, Longer
  <2> QED BY <2>1 DEF Flow
<1>2. ASSUME NEW D, NEW I, Marks(o, td, s, b, m, g, st, br, D, I)
      PROVE  Marks(o, td2, t, b, m, g, st, br, D, I)
  <2>1. Marked(o, D, I, s, b) /\ AtReader(m, g, st, D[1], I[1], s)
    BY <1>2 DEF Marks
  <2>2. Marked(o, D, I, t, b)
    <3>1. \A k \in 1 .. Len(o) : Between(o[k], D[k], I[k], D[k + 1], I[k + 1], t, b)
      BY <2>1, Zenon DEF Marked, Between, Longer
    <3> QED BY <2>1, <3>1 DEF Marked
  <2>3. AtReader(m, g, st, D[1], I[1], t)
    BY <2>1, StillWhole DEF AtReader, Longer
  <2>4. D[Len(o) + 1] \in Nat /\ I[Len(o) + 1] \in Nat
    <3>1. D \in Seq(Nat) /\ I \in Seq(Nat) /\ Len(D) = Len(o) + 1 /\ Len(I) = Len(o) + 1
      BY <2>1 DEF Marked
    <3>2. Len(o) + 1 \in 1 .. Len(D) /\ Len(o) + 1 \in 1 .. Len(I)
      BY <3>1, LenProperties
    <3> QED BY <3>1, <3>2, ElementOfSeq
  <2>5. ~br => AtWriter(td2, t, D[Len(o) + 1], I[Len(o) + 1])
    BY <1>2, <2>4 DEF Marks
  <2> QED BY <2>2, <2>3, <2>5 DEF Marks
<1> QED BY <1>1, <1>2 DEF Flow

(* The first close.                                                        *)
LEMMA FlowCloses ==
  ASSUME NEW lnk, NEW o, NEW td, NEW s, NEW b, NEW m, NEW g, NEW st, NEW br,
         Flow(lnk, o, td, s, b, m, g, st, br), NEW b2, b = b2 \/ b = -1
  PROVE  Flow(lnk, o, td, s, b2, m, g, st, br)
<1>1. ASSUME NEW D, NEW I, Marks(o, td, s, b, m, g, st, br, D, I)
      PROVE  Marks(o, td, s, b2, m, g, st, br, D, I)
  <2>1. Marked(o, D, I, s, b2)
    <3>1. \A d : b \in 0 .. d => b2 \in 0 .. d
      OBVIOUS
    <3> QED BY <1>1, <3>1, Zenon DEF Marks, Marked, Between
  <2> QED BY <1>1, <2>1 DEF Marks
<1> QED BY <1>1 DEF Flow

(* A frame more on its way.                                                *)
LEMMA FlowGrows ==
  ASSUME NEW lnk, lnk # "lost", NEW o \in Seq(Wares), NEW td, NEW s, NEW b, NEW m, NEW g, NEW st,
         Flow(lnk, o, td, s, b, m, g, st, FALSE), NEW td2, NEW f \in Wares,
         \A d, i \in Nat : AtWriter(td, s, d, i) =>
           \E e, j \in Nat : Between(f, d, i, e, j, s, b) /\ AtWriter(td2, s, e, j)
  PROVE  Flow(lnk, Append(o, f), td2, s, b, m, g, st, FALSE)
<1>1. PICK D, I : Marks(o, td, s, b, m, g, st, FALSE, D, I)
  BY Zenon DEF Flow, CutOff
<1>2. PICK n : n = Len(o)
  OBVIOUS
<1>3. /\ D \in Seq(Nat) /\ I \in Seq(Nat) /\ Len(D) = n + 1 /\ Len(I) = n + 1 /\ n \in Nat
      /\ DOMAIN D = 1 .. n + 1 /\ DOMAIN I = 1 .. n + 1
      /\ \A k \in 1 .. n : Between(o[k], D[k], I[k], D[k + 1], I[k + 1], s, b)
      /\ AtReader(m, g, st, D[1], I[1], s) /\ AtWriter(td, s, D[n + 1], I[n + 1])
  BY <1>1, <1>2, LenProperties DEF Marks, Marked
<1>4. D[n + 1] \in Nat /\ I[n + 1] \in Nat
  BY <1>3, ElementOfSeq
<1>5. PICK e, j \in Nat : Between(f, D[n + 1], I[n + 1], e, j, s, b) /\ AtWriter(td2, s, e, j)
  BY <1>3, <1>4
<1>6. PICK o2 : o2 = Append(o, f)
  BY Zenon
<1>7. PICK D2 : D2 = Append(D, e)
  BY Zenon
<1>8. PICK I2 : I2 = Append(I, j)
  BY Zenon
<1>9. Len(o2) = n + 1 /\ o2[n + 1] = f /\ \A k \in 1 .. n : o2[k] = o[k]
  BY <1>2, <1>6, AppendProperties
<1>10. /\ D2 \in Seq(Nat) /\ Len(D2) = n + 2 /\ D2[n + 2] = e /\ \A k \in 1 .. n + 1 : D2[k] = D[k]
       /\ I2 \in Seq(Nat) /\ Len(I2) = n + 2 /\ I2[n + 2] = j /\ \A k \in 1 .. n + 1 : I2[k] = I[k]
  <2>1. n + 1 + 1 = n + 2
    BY <1>3
  <2> QED BY <1>3, <1>5, <1>7, <1>8, <2>1, AppendProperties
<1>11. ASSUME NEW k \in 1 .. n + 1
       PROVE  Between(o2[k], D2[k], I2[k], D2[k + 1], I2[k + 1], s, b)
  <2>1. CASE k = n + 1
    <3>1. k + 1 = n + 2 /\ k \in 1 .. n + 1
      BY <1>3, <2>1
    <3>2. o2[k] = f /\ D2[k] = D[n + 1] /\ I2[k] = I[n + 1] /\ D2[k + 1] = e /\ I2[k + 1] = j
      BY <1>9, <1>10, <2>1, <3>1, Zenon
    <3> QED BY <1>5, <3>2
  <2>2. CASE k # n + 1
    <3>1. k \in 1 .. n /\ k \in 1 .. n + 1 /\ k + 1 \in 1 .. n + 1
      BY <1>3, <2>2
    <3>2. /\ o2[k] = o[k] /\ D2[k] = D[k] /\ I2[k] = I[k]
          /\ D2[k + 1] = D[k + 1] /\ I2[k + 1] = I[k + 1]
      BY <1>9, <1>10, <3>1
    <3> QED BY <1>3, <3>1, <3>2, Zenon
  <2> QED BY <2>1, <2>2
<1>12. D2[1] = D[1] /\ I2[1] = I[1] /\ n + 1 + 1 = n + 2
  <2>1. 1 \in 1 .. n + 1
    BY <1>3
  <2> QED BY <1>3, <1>10, <2>1
<1>13. Marked(o2, D2, I2, s, b)
  BY <1>3, <1>9, <1>10, <1>11, <1>12 DEF Marked
<1>14. AtReader(m, g, st, D2[1], I2[1], s)
  BY <1>3, <1>12
<1>15. AtWriter(td2, s, D2[Len(o2) + 1], I2[Len(o2) + 1])
  BY <1>5, <1>9, <1>10, <1>12, Zenon
<1> QED BY <1>6, <1>13, <1>14, <1>15 DEF Flow, Marks

(* The reader goes elsewhere.                                              *)
LEMMA FlowMoves ==
  ASSUME NEW lnk, NEW o, NEW td, NEW s, NEW b, NEW m, NEW g, NEW st, NEW br,
         Flow(lnk, o, td, s, b, m, g, st, br), NEW st2,
         st = "call" \/ (st # "deliver" /\ st2 \notin {"call", "deliver"})
  PROVE  Flow(lnk, o, td, s, b, m, g, st2, br)
<1>1. CASE CutOff(lnk, o, s, m, g, st)
  BY <1>1 DEF CutOff, Flow
<1>2. ASSUME NEW D, NEW I, Marks(o, td, s, b, m, g, st, br, D, I)
      PROVE  Marks(o, td, s, b, m, g, st2, br, D, I)
  <2>1. AtReader(m, g, st, D[1], I[1], s)
    BY <1>2 DEF Marks
  <2>2. st # "deliver" /\ (st = "call" => m = <<>>)
    BY <2>1 DEF AtReader
  <2>3. AtReader(m, g, st2, D[1], I[1], s)
    BY <2>1, <2>2 DEF AtReader
  <2> QED BY <1>2, <2>3 DEF Marks
<1> QED BY <1>1, <1>2 DEF Flow

(* Taking the first frame.                                                 *)
LEMMA FlowShrinks ==
  ASSUME NEW o \in Seq(Wares), o # <<>>, NEW td, NEW s, NEW b, NEW m, NEW g, NEW st, NEW br,
         NEW D, NEW I, Marks(o, td, s, b, m, g, st, br, D, I),
         NEW m2, NEW g2, NEW st2,
         AtReader(m2, g2, st2, D[2], I[2], s)
  PROVE  Marks(Tail(o), td, s, b, m2, g2, st2, br, Tail(D), Tail(I))
<1>1. PICK n : n = Len(o)
  OBVIOUS
<1>2. /\ D \in Seq(Nat) /\ I \in Seq(Nat) /\ Len(D) = n + 1 /\ Len(I) = n + 1
      /\ n \in Nat /\ n # 0
      /\ \A k \in 1 .. n : Between(o[k], D[k], I[k], D[k + 1], I[k + 1], s, b)
      /\ ~br => AtWriter(td, s, D[n + 1], I[n + 1])
  BY <1>1, LenProperties, EmptySeq DEF Marks, Marked
<1>3. D # <<>> /\ I # <<>>
  BY <1>2, EmptySeq
<1>4. PICK o2 : o2 = Tail(o)
  BY Zenon
<1>5. PICK D2 : D2 = Tail(D)
  BY Zenon
<1>6. PICK I2 : I2 = Tail(I)
  BY Zenon
<1>7. /\ Len(o2) = n - 1 /\ \A k \in 1 .. n - 1 : o2[k] = o[k + 1]
  <2>1. Len(o2) = n - 1 /\ \A k \in 1 .. Len(o2) : o2[k] = o[k + 1]
    BY <1>1, <1>2, <1>4, HeadTailProperties
  <2> QED BY <2>1
<1>8. /\ D2 \in Seq(Nat) /\ Len(D2) = n /\ \A k \in 1 .. n : D2[k] = D[k + 1]
      /\ I2 \in Seq(Nat) /\ Len(I2) = n /\ \A k \in 1 .. n : I2[k] = I[k + 1]
  <2>1. /\ D2 \in Seq(Nat) /\ Len(D2) = Len(D) - 1 /\ \A k \in 1 .. Len(D2) : D2[k] = D[k + 1]
        /\ I2 \in Seq(Nat) /\ Len(I2) = Len(I) - 1 /\ \A k \in 1 .. Len(I2) : I2[k] = I[k + 1]
    BY <1>2, <1>3, <1>5, <1>6, HeadTailProperties
  <2>2. n + 1 - 1 = n
    BY <1>2
  <2> QED BY <1>2, <2>1, <2>2
<1>9. ASSUME NEW k \in 1 .. n - 1
      PROVE  Between(o2[k], D2[k], I2[k], D2[k + 1], I2[k + 1], s, b)
  <2>1. k + 1 \in 1 .. n /\ k \in 1 .. n
    BY <1>2
  <2>2. /\ o2[k] = o[k + 1] /\ D2[k] = D[k + 1] /\ I2[k] = I[k + 1]
        /\ D2[k + 1] = D[k + 1 + 1] /\ I2[k + 1] = I[k + 1 + 1]
    BY <1>7, <1>8, <2>1, Zenon
  <2> QED BY <1>2, <2>1, <2>2
<1>10. D2[1] = D[2] /\ I2[1] = I[2]
  <2>1. 1 \in 1 .. n /\ 1 + 1 = 2
    BY <1>2
  <2> QED BY <1>8, <2>1
<1>11. n - 1 + 1 = n /\ n \in 1 .. n
  BY <1>2
<1>12. Marked(o2, D2, I2, s, b)
  BY <1>7, <1>8, <1>9, <1>11 DEF Marked
<1>13. ~br => AtWriter(td, s, D2[Len(o2) + 1], I2[Len(o2) + 1])
  BY <1>2, <1>7, <1>8, <1>11
<1> QED BY <1>4, <1>5, <1>6, <1>10, <1>12, <1>13, Zenon DEF Marks

(* The part that was cut ends what there is of its message.                *)
LEMMA TornEnds ==
  ASSUME NEW s \in Seq(Positive), NEW k \in DOMAIN s, NEW m, NEW n \in Nat,
         s[k] = n + 1, Beginning(m, k, n)
  PROVE  /\ TornOf(Append(m, <<k, -1>>), k, s)
         /\ n = 0 => TornOf(<<<<k, -1>>>>, k, s)
<1>1. k \in Nat
  BY LenProperties
<1>2. m \in Seq(Parts) /\ Len(m) = n
  BY <1>1, NextPart, Zenon
<1>3. PICK t : t = <<k, -1>>
  BY Zenon
<1>4. t \in Parts
  BY <1>1, <1>3 DEF Parts
<1>5. PICK a : a = Append(m, t)
  BY Zenon
<1>6. /\ a \in Seq(Parts) /\ Len(a) = n + 1 /\ a[n + 1] = t
      /\ \A j \in 1 .. n : a[j] = m[j]
  BY <1>2, <1>4, <1>5, AppendProperties
<1>7. DOMAIN a = 1 .. n + 1 /\ a = [j \in 1 .. n + 1 |-> a[j]]
  BY <1>6, LenProperties
<1>8. PICK w : w = WholeOf(s, k)
  OBVIOUS
<1>9. w = [j \in 1 .. n + 1 |-> <<k, j>>]
  BY <1>8 DEF WholeOf
<1>10. PICK v : v = [w EXCEPT ![n + 1][2] = -1]
  BY Zenon
<1>11. /\ v = [j \in 1 .. n + 1 |-> v[j]]
       /\ \A j \in 1 .. n + 1 : v[j] = IF j = n + 1 THEN t ELSE <<k, j>>
  <2>1. v = [w EXCEPT ![n + 1] = [w[n + 1] EXCEPT ![2] = -1]]
    BY <1>10
  <2>2. w[n + 1] = <<k, n + 1>> /\ \A j \in 1 .. n + 1 : w[j] = <<k, j>>
    BY <1>9
  <2>3. [w[n + 1] EXCEPT ![2] = -1] = t
    BY <1>3, <2>2
  <2>4. v = [w EXCEPT ![n + 1] = t]
    BY <2>1, <2>3, Zenon
  <2> QED BY <1>9, <2>2, <2>4, Zenon
<1>12. \A j \in 1 .. n + 1 : a[j] = IF j = n + 1 THEN t ELSE <<k, j>>
  <2>1. \A j \in 1 .. n : m[j] = <<k, j>>
    BY DEF Beginning
  <2>2. \A j \in 1 .. n + 1 : j \in 1 .. n \/ j = n + 1
    OBVIOUS
  <2>3. \A j \in 1 .. n : j # n + 1
    OBVIOUS
  <2> QED BY <1>6, <2>1, <2>2, <2>3, Zenon
<1>13. a = v
  <2>1. \A j \in 1 .. n + 1 : a[j] = v[j]
    BY <1>11, <1>12, Zenon
  <2> QED BY <1>7, <1>11, <2>1
<1>14. TornOf(a, k, s)
  <2>1. n + 1 \in DOMAIN w
    BY <1>9
  <2>2. \E i \in DOMAIN w : a = [w EXCEPT ![i][2] = -1]
    BY <1>10, <1>13, <2>1, Zenon
  <2> QED BY <1>8, <2>2, Zenon DEF TornOf
<1>15. ASSUME n = 0
       PROVE  a = <<t>>
  <2>1. Len(a) = 1 /\ a[1] = t /\ a = [j \in 1 .. 1 |-> a[j]]
    BY <1>6, <1>7, <1>15
  <2>2. \A j \in 1 .. 1 : j = 1
    OBVIOUS
  <2> QED BY <2>1, <2>2
<1> QED BY <1>3, <1>5, <1>14, <1>15, Zenon

(* read_packet: a fragment comes in.                                       *)
LEMMA FlowReadsData ==
  ASSUME NEW lnk, NEW o \in Seq(Wares), o # <<>>, NEW td, NEW s \in Seq(Positive), NEW b,
         NEW m, NEW g \in Seq(Seq(Parts)), NEW br,
         Flow(lnk, o, td, s, b, m, g, "read", br), IsData(o[1]),
         o[1].part[2] = -1 => lnk = "lost" /\ Len(o) = 1,
         NEW m2, m2 = IF o[1].op = "first" THEN <<o[1].part>>
                         ELSE IF m = <<>> THEN m ELSE Append(m, o[1].part),
         NEW st2, st2 = IF o[1].fin THEN "deliver" ELSE "loop"
  PROVE  Flow(lnk, Tail(o), td, s, b, m2, g, st2, br)
<1>1. PICK D, I : Marks(o, td, s, b, m, g, "read", br, D, I)
  BY DEF Flow, CutOff
<1>2. PICK f : f = o[1]
  OBVIOUS
<1>3. PICK d : d = D[1]
  OBVIOUS
<1>4. PICK i : i = I[1]
  OBVIOUS
<1>5. PICK k : k = Len(g) + 1
  OBVIOUS
<1>6. Len(o) \in Nat /\ Len(o) # 0 /\ 1 \in 1 .. Len(o) /\ f \in Wares
  <2>1. Len(o) \in Nat /\ Len(o) # 0
    BY LenProperties, EmptySeq
  <2>2. 1 \in 1 .. Len(o)
    BY <2>1
  <2> QED BY <1>2, <2>1, <2>2, ElementOfSeq
<1>7. /\ Between(f, d, i, D[2], I[2], s, b) /\ AtReader(m, g, "read", d, i, s)
      /\ i \in Nat
  <2>1. /\ AtReader(m, g, "read", d, i, s) /\ I \in Seq(Nat) /\ Len(I) = Len(o) + 1
        /\ \A x \in 1 .. Len(o) : Between(o[x], D[x], I[x], D[x + 1], I[x + 1], s, b)
    BY <1>1, <1>3, <1>4 DEF Marks, Marked
  <2>2. 1 \in 1 .. Len(I) /\ 1 + 1 = 2
    BY <1>6, <2>1
  <2>3. i \in Nat
    BY <1>4, <2>1, <2>2, ElementOfSeq
  <2>4. Between(o[1], D[1], I[1], D[1 + 1], I[1 + 1], s, b)
    BY <1>6, <2>1
  <2>5. Between(f, d, i, D[2], I[2], s, b)
    BY <1>2, <1>3, <1>4, <2>2, <2>4
  <2> QED BY <2>1, <2>3, <2>5
<1>8. /\ AllWhole(g, s) /\ d = Len(g) /\ Beginning(m, k, i) /\ k = d + 1 /\ k \in Nat
  <2>1. AllWhole(g, s) /\ d = Len(g) /\ Beginning(m, Len(g) + 1, i)
    BY <1>7 DEF AtReader
  <2>2. Len(g) \in Nat
    BY LenProperties
  <2> QED BY <1>5, <2>1, <2>2
<1>9. /\ k \in DOMAIN s /\ i < s[k] /\ f.part[1] = k /\ f.part[2] \in {i + 1, -1}
      /\ f.op = (IF i = 0 THEN "first" ELSE "more")
      /\ f.fin <=> i + 1 = s[k]
      /\ IF f.fin THEN D[2] = k /\ I[2] = 0 ELSE D[2] = d /\ I[2] = i + 1
  BY <1>2, <1>7, <1>8 DEF Between
<1>10. PICK t : t = f.part
  OBVIOUS
<1>11. t = <<k, f.part[2]>>
  <2>1. t \in Nat \X Int
    BY <1>6, <1>10 DEF Wares
  <2> QED BY <1>9, <1>10, <2>1
<1>12. s[k] \in Nat
  BY <1>9, ElementOfSeq, LenProperties DEF Positive
<1>13. m \in Seq(Parts) /\ Len(m) = i /\ (m = <<>> <=> i = 0)
  BY <1>7, <1>8, NextPart, Zenon
<1>14. m2 = IF i = 0 THEN <<t>> ELSE Append(m, t)
  <2>1. CASE i = 0
    <3>1. o[1].op = "first" /\ o[1].part = t
      BY <1>2, <1>9, <1>10, <2>1
    <3> QED BY <2>1, <3>1
  <2>2. CASE i # 0
    <3>1. o[1].op # "first" /\ o[1].part = t /\ m # <<>>
      BY <1>2, <1>9, <1>10, <1>13, <2>2
    <3> QED BY <2>2, <3>1
  <2> QED BY <2>1, <2>2
<1>15. CASE f.part[2] = i + 1
  <2>1. Beginning(m2, k, i + 1)
    <3>1. t = <<k, i + 1>>
      BY <1>11, <1>15
    <3>2. Beginning(Append(m, <<k, i + 1>>), k, i + 1)
      BY <1>7, <1>8, NextPart, Zenon
    <3>3. CASE i = 0
      <4>1. Beginning(<<<<k, 1>>>>, k, 1)
        BY <1>7, <1>8, NextPart, Zenon
      <4>2. t = <<k, 1>> /\ i + 1 = 1
        BY <3>1, <3>3
      <4> QED BY <1>14, <3>3, <4>1, <4>2, Zenon
    <3>4. CASE i # 0
      BY <1>14, <3>1, <3>2, <3>4, Zenon
    <3> QED BY <3>3, <3>4
  <2>2. AtReader(m2, g, st2, D[2], I[2], s)
    <3>1. CASE f.fin
      <4>1. m2 = WholeOf(s, k)
        BY <1>9, <2>1, <3>1, Zenon DEF WholeOf, Beginning
      <4>2. Len(g) + 1 \in DOMAIN s /\ m2 = WholeOf(s, Len(g) + 1) /\ D[2] = Len(g) + 1 /\ I[2] = 0
        BY <1>5, <1>9, <3>1, <4>1, Zenon
      <4>3. m2 # <<>>
        <5>1. PICK n : n = i + 1
          OBVIOUS
        <5>2. n \in Nat /\ n # 0 /\ Beginning(m2, k, n)
          BY <1>7, <2>1, <5>1
        <5>3. m2 \in Seq(Parts) /\ Len(m2) = n
          <6>1. k \in Nat /\ n \in Nat /\ Beginning(m2, k, n)
            BY <1>8, <5>2
          <6> QED BY ONLY <6>1, NextPart, Zenon
        <5> QED BY <5>2, <5>3, EmptySeq, Zenon
      <4>4. st2 = "deliver"
        BY <1>2, <3>1
      <4> QED BY <1>8, <4>2, <4>3, <4>4, Zenon DEF AtReader
    <3>2. CASE ~f.fin
      <4>1. st2 = "loop"
        BY <1>2, <3>2
      <4>2. D[2] = Len(g) /\ Beginning(m2, Len(g) + 1, I[2])
        BY <1>5, <1>8, <1>9, <2>1, <3>2
      <4> QED BY <1>8, <4>1, <4>2 DEF AtReader
    <3> QED BY <3>1, <3>2
  <2>3. Marks(Tail(o), td, s, b, m2, g, st2, br, Tail(D), Tail(I))
    BY <1>1, <2>2, FlowShrinks
  <2> QED BY <2>3 DEF Flow
<1>16. CASE f.part[2] # i + 1
  <2>1. f.part[2] = -1
    BY <1>9, <1>16
  <2>2. lnk = "lost" /\ Tail(o) = <<>>
    <3>1. lnk = "lost" /\ Len(o) = 1
      BY <1>2, <2>1
    <3>2. Tail(o) \in Seq(Wares) /\ Len(Tail(o)) = 0
      BY <3>1, HeadTailProperties
    <3> QED BY <3>1, <3>2, EmptySeq, Zenon
  <2>3. t = <<k, -1>>
    BY <1>11, <2>1
  <2>4. CASE f.fin
    <3>1. s[k] = i + 1
      BY <1>9, <2>4
    <3>2. /\ TornOf(Append(m, <<k, -1>>), k, s)
          /\ i = 0 => TornOf(<<<<k, -1>>>>, k, s)
      BY <1>7, <1>8, <1>9, <3>1, TornEnds
    <3>3. TornOf(m2, k, s)
      BY <1>14, <2>3, <3>2, Zenon
    <3>4. st2 = "deliver"
      BY <1>2, <2>4
    <3> QED BY <1>5, <1>8, <2>2, <3>3, <3>4 DEF Flow, CutOff
  <2>5. CASE ~f.fin
    <3>1. st2 = "loop"
      BY <1>2, <2>5
    <3> QED BY <1>8, <2>2, <3>1 DEF Flow, CutOff
  <2> QED BY <2>4, <2>5
<1> QED BY <1>15, <1>16

(* A ping, a pong, a close frame or the head comes in: never in the middle *)
(* of a message.                                                           *)
LEMMA FlowReadsControl ==
  ASSUME NEW lnk, NEW o \in Seq(Wares), o # <<>>, NEW td, NEW s \in Seq(Positive), NEW b,
         NEW m, NEW g \in Seq(Seq(Parts)), NEW st, NEW br,
         Flow(lnk, o, td, s, b, m, g, st, br), ~IsData(o[1]), st # "deliver", NEW st2
  PROVE  /\ Flow(lnk, Tail(o), td, s, b, m, g, st2, br)
         /\ m = <<>>
         /\ o[1].op = "close" => b \in 0 .. Len(g)
<1>1. PICK D, I : Marks(o, td, s, b, m, g, st, br, D, I)
  BY DEF Flow, CutOff
<1>2. 1 \in 1 .. Len(o) /\ 1 + 1 = 2
  BY LenProperties, EmptySeq
<1>3. Between(o[1], D[1], I[1], D[2], I[2], s, b) /\ AtReader(m, g, st, D[1], I[1], s)
  <2>1. /\ AtReader(m, g, st, D[1], I[1], s)
        /\ \A x \in 1 .. Len(o) : Between(o[x], D[x], I[x], D[x + 1], I[x + 1], s, b)
    BY <1>1 DEF Marks, Marked
  <2>2. Between(o[1], D[1], I[1], D[1 + 1], I[1 + 1], s, b)
    BY <1>2, <2>1
  <2> QED BY <1>2, <2>1, <2>2
<1>4. /\ D[2] = D[1] /\ I[1] = 0 /\ I[2] = 0
      /\ o[1].op = "close" => b \in 0 .. D[1]
  BY <1>3 DEF Between
<1>5. AllWhole(g, s) /\ D[1] = Len(g) /\ Beginning(m, Len(g) + 1, 0)
  BY <1>3, <1>4 DEF AtReader
<1>6. m = <<>>
  <2>1. Len(g) + 1 \in Nat /\ 0 \in Nat
    BY LenProperties
  <2> QED BY <1>5, <2>1, NextPart, Zenon
<1>7. AtReader(m, g, st2, D[2], I[2], s)
  BY <1>4, <1>5, <1>6 DEF AtReader
<1>8. Marks(Tail(o), td, s, b, m, g, st2, br, Tail(D), Tail(I))
  BY <1>1, <1>7, FlowShrinks
<1> QED BY <1>4, <1>5, <1>6, <1>8 DEF Flow

(* OnReceive gets the message.                                             *)
LEMMA FlowDelivers ==
  ASSUME NEW lnk, NEW o, NEW td, NEW s, NEW b, NEW m \in Seq(Parts), NEW g \in Seq(Seq(Parts)),
         NEW br, Flow(lnk, o, td, s, b, m, g, "deliver", br),
         NEW g2, g2 = IF m = <<>> THEN g ELSE Append(g, m),
         NEW st2, st2 # "deliver"
  PROVE  Flow(lnk, o, td, s, b, <<>>, g2, st2, br)
<1>1. m # <<>> => /\ Len(g2) = Len(g) + 1 /\ DOMAIN g2 = 1 .. Len(g) + 1
                  /\ g2[Len(g) + 1] = m /\ \A j \in 1 .. Len(g) : g2[j] = g[j]
  <2>1. m # <<>> => g2 \in Seq(Seq(Parts)) /\ Len(g2) = Len(g) + 1
    BY AppendProperties
  <2>2. m # <<>> => g2[Len(g) + 1] = m /\ \A j \in 1 .. Len(g) : g2[j] = g[j]
    BY AppendProperties
  <2> QED BY <2>1, <2>2, LenProperties
<1>2. DOMAIN g = 1 .. Len(g) /\ Len(g) \in Nat
  BY LenProperties
<1>3. \A j \in 1 .. Len(g) + 1 : j \in 1 .. Len(g) \/ j = Len(g) + 1
  BY <1>2
<1>4. m = <<>> => g2 = g
  OBVIOUS
<1>5. CASE CutOff(lnk, o, s, m, g, "deliver")
  <2>1. CASE AllWhole(g, s) /\ TornOf(m, Len(g) + 1, s)
    <3>1. m # <<>>
      <4>1. PICK i \in DOMAIN WholeOf(s, Len(g) + 1) :
              m = [WholeOf(s, Len(g) + 1) EXCEPT ![i][2] = -1]
        BY <2>1, Zenon DEF TornOf
      <4>2. i \in DOMAIN m
        BY <4>1
      <4>3. DOMAIN <<>> = {}
        OBVIOUS
      <4> QED BY <4>2, <4>3
    <3>2. \A j \in DOMAIN g2 : /\ j \in DOMAIN s
                               /\ g2[j] = WholeOf(s, j) \/ (j = Len(g2) /\ TornOf(g2[j], j, s))
      <4>1. ASSUME NEW j \in 1 .. Len(g)
            PROVE  j \in DOMAIN s /\ g2[j] = WholeOf(s, j)
        BY <1>1, <1>2, <2>1, <3>1, Zenon DEF AllWhole
      <4>2. Len(g) + 1 \in DOMAIN s /\ TornOf(g2[Len(g) + 1], Len(g) + 1, s)
        BY <1>1, <2>1, <3>1, Zenon DEF TornOf
      <4> QED BY <1>1, <1>3, <3>1, <4>1, <4>2
    <3> QED BY <1>5, <3>2 DEF CutOff, Flow
  <2>2. CASE m = <<>> /\ \A j \in DOMAIN g : /\ j \in DOMAIN s
                                             /\ \/ g[j] = WholeOf(s, j)
                                                \/ j = Len(g) /\ TornOf(g[j], j, s)
    BY <1>4, <1>5, <2>2 DEF CutOff, Flow
  <2> QED BY <1>5, <2>1, <2>2 DEF CutOff
<1>6. ASSUME NEW D, NEW I, Marks(o, td, s, b, m, g, "deliver", br, D, I)
      PROVE  Marks(o, td, s, b, <<>>, g2, st2, br, D, I)
  <2>1. AtReader(m, g, "deliver", D[1], I[1], s)
    BY <1>6 DEF Marks
  <2>2. CASE m = <<>>
    BY <1>4, <1>6, <2>1, <2>2 DEF AtReader, Marks
  <2>3. CASE m # <<>>
    <3>1. /\ AllWhole(g, s) /\ Len(g) + 1 \in DOMAIN s /\ m = WholeOf(s, Len(g) + 1)
          /\ D[1] = Len(g) + 1 /\ I[1] = 0
      BY <2>1, <2>3 DEF AtReader
    <3>2. AllWhole(g2, s)
      <4>1. \A j \in 1 .. Len(g) : j \in DOMAIN s /\ g2[j] = WholeOf(s, j)
        BY <1>1, <1>2, <2>3, <3>1, Zenon DEF AllWhole
      <4> QED BY <1>1, <1>3, <2>3, <3>1, <4>1 DEF AllWhole
    <3>3. Beginning(<<>>, Len(g2) + 1, 0)
      <4>1. 1 .. 0 = {}
        OBVIOUS
      <4>2. <<>> = [j \in 1 .. 0 |-> <<Len(g2) + 1, j>>]
        BY <4>1
      <4> QED BY <4>2 DEF Beginning
    <3>4. AtReader(<<>>, g2, st2, D[1], I[1], s)
      BY <1>1, <2>3, <3>1, <3>2, <3>3 DEF AtReader
    <3> QED BY <1>6, <3>4 DEF Marks
  <2> QED BY <2>2, <2>3
<1> QED BY <1>5, <1>6 DEF Flow

(* The connection is lost with the last frames on their way, and perhaps   *)
(* with the end of one.                                                    *)
Remains(o, o2) ==
  /\ o2 \in Seq(Wares) /\ Len(o2) <= Len(o)
  /\ \A k \in 1 .. Len(o2) : o2[k] = o[k] \/ (k = Len(o2) /\ o2[k] = W!Torn(o[k]))

(* Torn leaves a frame what it was, but for its payload.                   *)
LEMMA TornWare ==
  ASSUME NEW f \in Wares
  PROVE  /\ W!Torn(f) \in Wares /\ W!Torn(f).op = f.op /\ W!Torn(f).fin = f.fin
         /\ W!Torn(f).part = <<f.part[1], -1>>
<1>1. PICK t : t = f.part
  OBVIOUS
<1>2. t \in Nat \X Int /\ f.op \in Operands /\ f.fin \in BOOLEAN
  BY <1>1 DEF Wares
<1>3. PICK u : u = [t EXCEPT ![2] = -1]
  BY Zenon
<1>4. u = <<t[1], -1>> /\ u \in Nat \X Int
  BY <1>2, <1>3
<1>5. PICK w : w = [f EXCEPT !.part = u]
  BY Zenon
<1>6. w = W!Torn(f)
  BY <1>1, <1>3, <1>5 DEF W!Torn
<1>7. w.op = f.op /\ w.fin = f.fin /\ w.part = u
  BY <1>5 DEF Wares
<1>8. w \in Wares
  BY <1>4, <1>5 DEF Wares
<1> QED BY <1>1, <1>4, <1>6, <1>7, <1>8

(* A direction that is lost keeps what it says.                            *)
LEMMA FlowLoses ==
  ASSUME NEW o \in Seq(Wares), NEW td, NEW s, NEW b, NEW m, NEW g, NEW st, NEW br,
         Flow("up", o, td, s, b, m, g, st, br), NEW o2, Remains(o, o2)
  PROVE  Flow("lost", o2, td, s, b, m, g, st, TRUE)
<1>1. PICK D, I : Marks(o, td, s, b, m, g, st, br, D, I)
  BY DEF Flow, CutOff
<1>2. PICK n : n = Len(o)
  OBVIOUS
<1>3. PICK l : l = Len(o2)
  OBVIOUS
<1>4. /\ n \in Nat /\ l \in Nat /\ l <= n
      /\ \A k \in 1 .. l : o2[k] = o[k] \/ (k = l /\ o2[k] = W!Torn(o[k]))
  BY <1>2, <1>3, LenProperties DEF Remains
<1>5. /\ D \in Seq(Nat) /\ I \in Seq(Nat) /\ Len(D) = n + 1 /\ Len(I) = n + 1
      /\ \A k \in 1 .. n : Between(o[k], D[k], I[k], D[k + 1], I[k + 1], s, b)
  BY <1>1, <1>2 DEF Marks, Marked
<1>6. PICK D2 : D2 = SubSeq(D, 1, l + 1)
  BY Zenon
<1>7. PICK I2 : I2 = SubSeq(I, 1, l + 1)
  BY Zenon
<1>8. /\ D2 \in Seq(Nat) /\ Len(D2) = l + 1 /\ \A k \in 1 .. l + 1 : D2[k] = D[k]
      /\ I2 \in Seq(Nat) /\ Len(I2) = l + 1 /\ \A k \in 1 .. l + 1 : I2[k] = I[k]
  <2>1. \A k \in 1 .. l + 1 : D[k] \in Nat /\ I[k] \in Nat
    <3>1. \A k \in 1 .. l + 1 : k \in 1 .. n + 1
      BY <1>4
    <3> QED BY <1>5, <3>1, ElementOfSeq
  <2>2. 1 <= l + 1 /\ l + 1 - 1 + 1 = l + 1 /\ \A k \in 1 .. l + 1 : 1 + k - 1 = k
    BY <1>4
  <2>3. /\ D2 \in Seq(Nat) /\ Len(D2) = l + 1 - 1 + 1
        /\ \A k \in 1 .. l + 1 - 1 + 1 : D2[k] = D[1 + k - 1]
    BY <1>4, <1>6, <2>1, <2>2, SubSeqProperties
  <2>4. /\ I2 \in Seq(Nat) /\ Len(I2) = l + 1 - 1 + 1
        /\ \A k \in 1 .. l + 1 - 1 + 1 : I2[k] = I[1 + k - 1]
    BY <1>4, <1>7, <2>1, <2>2, SubSeqProperties
  <2> QED BY <2>2, <2>3, <2>4, Zenon
<1>9. ASSUME NEW k \in 1 .. l
      PROVE  Between(o2[k], D2[k], I2[k], D2[k + 1], I2[k + 1], s, b)
  <2>1. k \in 1 .. n /\ k \in 1 .. l + 1 /\ k + 1 \in 1 .. l + 1
    BY <1>4
  <2>2. Between(o[k], D2[k], I2[k], D2[k + 1], I2[k + 1], s, b)
    BY <1>5, <1>8, <2>1, Zenon
  <2>3. o[k] \in Wares
    BY <1>2, <2>1, ElementOfSeq
  <2>4. CASE o2[k] = o[k]
    BY <2>2, <2>4
  <2>5. CASE o2[k] = W!Torn(o[k])
    <3>1. /\ o2[k].op = o[k].op /\ o2[k].fin = o[k].fin
          /\ o2[k].part = <<o[k].part[1], -1>>
      BY <2>3, <2>5, TornWare
    <3>2. o2[k].part[1] = o[k].part[1] /\ o2[k].part[2] = -1
      BY <3>1
    <3> QED BY <2>2, <3>1, <3>2 DEF Between, IsData
  <2> QED BY <1>4, <2>4, <2>5
<1>10. D2[1] = D[1] /\ I2[1] = I[1]
  <2>1. 1 \in 1 .. l + 1
    BY <1>4
  <2> QED BY <1>8, <2>1
<1>11. Marks(o2, td, s, b, m, g, st, TRUE, D2, I2)
  <2>1. Marked(o2, D2, I2, s, b)
    BY <1>3, <1>8, <1>9 DEF Marked
  <2>2. AtReader(m, g, st, D2[1], I2[1], s)
    BY <1>1, <1>10 DEF Marks
  <2> QED BY <2>1, <2>2 DEF Marks
<1> QED BY <1>11, Zenon DEF Flow

Stations == {"connect", "begin", "handshake", "loop", "read", "call", "deliver", "garbled",
           "returned", "threw", "failed"}
Sends == W!Operations \cup {W!Idle, [kind |-> "pong", size |-> 0], [kind |-> "data", size |-> 1]}
BothCalls == [W!Thread -> Sends]

SessionTypes ==
  /\ wLink \in {"up", "lost"}
  /\ wAccepted \in BOOLEAN
  /\ wAlive \in [W!End -> {"up", "ended", "crashed"}]
  /\ wStrm \in [W!End -> BOOLEAN]
  /\ wEos \in [W!End -> BOOLEAN]
  /\ wHasInit \in [W!End -> BOOLEAN]
  /\ wClosed \in [W!End -> BOOLEAN]
  /\ wLock \in [W!End -> W!Thread \cup {"free"}]
  /\ wOut \in [W!End -> Seq(Wares)]
  /\ wTodo \in [W!End -> Seq(Wares)]
  /\ wCall \in [W!End -> BothCalls]
  /\ wCalls \in [W!End -> Nat]
  /\ wOpen \in [W!End -> {"absent", "running", "done"}]
  /\ wStart \in [W!End -> Stations]
  /\ wMessage \in [W!End -> Seq(Parts)]
  /\ wReceived \in [W!End -> Seq(Seq(Parts))]
  /\ wSent \in [W!End -> Seq(Positive)]
  /\ wTold \in [W!End -> Seq(BOOLEAN)]
  /\ wBeforeClose \in [W!End -> Int]
Bounded ==
  \A x \in W!End : wCalls[x] <= SessionCalls[x] /\ wBeforeClose[x] \in -1 .. Len(wSent[x])

(* One direction of the connection, from the end x to the end y.           *)
Whence(lnk, o, td, s, b, lk, m, g, st, br) ==
  /\ Flow(lnk, o, td, s, b, m, g, st, br)
  /\ ToWrite(td, s)
  /\ lk = "free" => td = <<>>
  /\ \A k \in 1 .. Len(o) : o[k].part[2] = -1 => lnk = "lost" /\ k = Len(o)
Way(x, y) ==
  Whence(wLink, wOut[x], wTodo[x], wSent[x], wBeforeClose[x], wLock[x],
         wMessage[y], wReceived[y], wStart[y], wLink = "lost" \/ wAlive[y] # "up")

InItsCall(x) == wCall[x]["start"].kind # "none" => wStart[x] = "call"

(* The head of the answer goes before the data of the server.              *)
HeadBefore(o) == \A j \in 1 .. Len(o) : IsData(o[j]) => \E i \in 1 .. j - 1 : o[i].op = "head"
HasHead(o) == \E i \in 1 .. Len(o) : o[i].op = "head"
HeadHolds(o, td, has, st, st2, br) ==
  /\ st = "connect" => HeadBefore(o) /\ (has /\ ~br => HasHead(o))
  /\ td # <<>> /\ IsData(td[1]) => has
  /\ st2 \in {"begin", "handshake"} => ~has
HeadFirst ==
  HeadHolds(wOut["server"], wTodo["server"], wHasInit["server"], wStart["client"],
        wStart["server"], wLink = "lost" \/ wAlive["client"] # "up")

SessionIInv ==
  /\ SessionTypes
  /\ Bounded
  /\ \A x, y \in W!End : x # y => Way(x, y)
  /\ \A x \in W!End : InItsCall(x)
  /\ HeadFirst

(* A session has two ends.                                                 *)
LEMMA Peers ==
  /\ W!End = {"server", "client"}
  /\ \A x, y \in W!End : x # y => W!Peer(x) = y
  /\ \A x \in W!End : \E y \in W!End : y # x
BY DEF W!End, W!Peer

(* The kinds of the sending operations.                                    *)
LEMMA WhichCalls ==
  ASSUME NEW c \in Sends
  PROVE  /\ c.kind \in {"none", "data", "ping", "pong", "close"}
         /\ c.size \in Nat
         /\ W!Idle.kind = "none"
<1>1. \A n \in Fragments : n \in Nat
  BY FragmentsAssumption
<1> QED BY <1>1 DEF Sends, W!Operations, W!Idle

(* A writer that has something else to write is where it was.             *)
SamePlace(td, s, td2, u) ==
  \A d, i \in Nat : AtWriter(td, s, d, i) => AtWriter(td2, u, d, i)

(* What mtx guards: the frames of one operation.                           *)
LEMMA FramesToWrite ==
  ASSUME NEW s \in Seq(Positive), NEW c \in Sends, c.kind # "none",
         NEW fr, fr = IF c.kind = "data"
                        THEN [i \in 1 .. c.size |-> W!Part(Len(s) + 1, i, c.size)]
                        ELSE <<W!Control(c.kind)>>,
         NEW t, t = IF c.kind = "data" /\ c.size > 0 THEN Append(s, c.size) ELSE s
  PROVE  /\ fr \in Seq(Wares) /\ t \in Seq(Positive) /\ Len(t) \in {Len(s), Len(s) + 1}
         /\ Longer(s, t)
         /\ ToWrite(fr, t)
         /\ SamePlace(<<>>, s, fr, t)
         /\ fr # <<>> /\ IsData(fr[1]) => c.kind = "data"
<1>1. Len(s) \in Nat /\ DOMAIN s = 1 .. Len(s)
  BY LenProperties
<1>2. PICK n : n = c.size
  OBVIOUS
<1>3. n \in Nat
  BY <1>2, WhichCalls
<1>4. PICK k : k = Len(s) + 1
  OBVIOUS
<1>5. k \in Nat /\ k >= 1 /\ k - 1 = Len(s)
  BY <1>1, <1>4
<1>6. CASE c.kind = "data" /\ n > 0
  <2>1. fr = [i \in 1 .. n |-> W!Part(k, i, n)]
    BY <1>2, <1>4, <1>6
  <2>2. t = Append(s, n) /\ n \in Positive
    BY <1>2, <1>3, <1>6 DEF Positive
  <2>3. /\ t \in Seq(Positive) /\ Len(t) = k /\ t[k] = n /\ Longer(s, t)
    BY <1>4, <2>2, MoreSent DEF Longer
  <2>4. \A i \in 1 .. n : /\ W!Part(k, i, n) \in Wares /\ IsData(W!Part(k, i, n))
    <3>1. ASSUME NEW i \in 1 .. n
          PROVE  /\ W!Part(k, i, n) \in Wares /\ IsData(W!Part(k, i, n))
      <4>1. PICK op : op = IF i = 1 THEN "first" ELSE "more"
        OBVIOUS
      <4>2. PICK fin : fin = (i = n)
        OBVIOUS
      <4>3. W!Part(k, i, n) = [op |-> op, part |-> <<k, i>>, fin |-> fin]
        BY <4>1, <4>2 DEF W!Part
      <4>4. op \in {"first", "more"} /\ fin \in BOOLEAN /\ <<k, i>> \in Nat \X Int
        BY <1>5, <4>1, <4>2
      <4> QED BY <4>3, <4>4 DEF Wares, Operands, IsData
    <3> QED BY <3>1
  <2>5. fr \in [1 .. n -> Wares]
    BY <2>1, <2>4, Zenon
  <2>6. fr \in Seq(Wares) /\ Len(fr) = n /\ fr # <<>>
    <3>1. fr \in Seq(Wares) /\ Len(fr) = n
      BY ONLY <1>3, <2>5, LenProperties
    <3> QED BY ONLY <1>3, <1>6, <3>1, EmptySeq
  <2>7. IsData(fr[1])
    <3>1. 1 \in 1 .. n
      BY <1>3, <1>6
    <3> QED BY <2>1, <2>4, <3>1, Zenon
  <2>8. ToWrite(fr, t)
    <3>1. \A j \in 1 .. n : fr[j] = W!Part(k, n - n + j, n)
      <4>1. \A j \in 1 .. n : n - n + j = j
        BY ONLY <1>3
      <4> QED BY ONLY <2>1, <4>1
    <3>2. \A j \in 1 .. Len(fr) : fr[j] = W!Part(Len(t), t[Len(t)] - Len(fr) + j, t[Len(t)])
      BY <2>3, <2>6, <3>1, Zenon
    <3>3. Len(t) >= 1 /\ Len(fr) <= t[Len(t)]
      BY <1>3, <1>5, <2>3, <2>6
    <3> QED BY <2>6, <3>2, <3>3, Zenon DEF ToWrite
  <2>9. SamePlace(<<>>, s, fr, t)
    <3>1. t[Len(t)] - Len(fr) = 0 /\ Len(t) - 1 = Len(s)
      BY <1>3, <1>5, <2>3, <2>6
    <3> QED BY <2>6, <2>7, <3>1, Zenon DEF AtWriter, SamePlace
  <2> QED BY <1>4, <1>6, <2>3, <2>6, <2>8, <2>9
<1>7. CASE c.kind = "data" /\ ~(n > 0)
  <2>1. n = 0
    BY <1>3, <1>7
  <2>2. fr = <<>>
    <3>1. 1 .. 0 = {}
      OBVIOUS
    <3>2. fr = [i \in 1 .. 0 |-> W!Part(Len(s) + 1, i, 0)]
      BY <1>2, <1>7, <2>1
    <3>3. DOMAIN fr = {} /\ fr = [i \in {} |-> fr[i]]
      BY <3>1, <3>2
    <3>4. DOMAIN <<>> = {} /\ <<>> = [i \in {} |-> <<>>[i]]
      OBVIOUS
    <3> QED BY <3>1, <3>2
  <2>3. t = s
    BY <1>2, <1>7
  <2>4. /\ ToWrite(<<>>, s) /\ <<>> \in Seq(Wares) /\ Longer(s, s)
        /\ SamePlace(<<>>, s, <<>>, s)
    BY DEF ToWrite, Longer, SamePlace
  <2> QED BY ONLY s \in Seq(Positive), <1>1, <2>2, <2>3, <2>4
<1>8. CASE c.kind # "data"
  <2>1. PICK f : f = W!Control(c.kind)
    OBVIOUS
  <2>2. fr = <<f>> /\ t = s
    BY <1>8, <2>1
  <2>3. f.op = c.kind /\ c.kind \in {"ping", "pong", "close"} /\ f.part = <<0, 0>>
    BY <1>8, <2>1, WhichCalls DEF W!Control
  <2>4. f \in Wares
    BY <2>1, <2>3 DEF Wares, Operands, W!Control
  <2>5. fr \in Seq(Wares) /\ Len(fr) = 1 /\ fr[1] = f /\ fr # <<>>
    BY ONLY <2>2, <2>4
  <2>6. ~IsData(fr[1])
    BY <2>3, <2>5 DEF IsData
  <2>7. ToWrite(fr, t)
    BY <2>3, <2>5 DEF ToWrite
  <2>8. SamePlace(<<>>, s, fr, t)
    BY <2>2, <2>6 DEF AtWriter, SamePlace
  <2> QED BY <2>2, <2>5, <2>6, <2>7, <2>8 DEF Longer
<1> QED BY <1>6, <1>7, <1>8

(* Two ends make a session.                                                *)
LEMMA BothWays ==
  ASSUME NEW x \in W!End, NEW y \in W!End, x # y,
         SessionTypes', Bounded', Way(x, y)', Way(y, x)', InItsCall(x)', InItsCall(y)', HeadFirst'
  PROVE  SessionIInv'
<1>1. \A u \in W!End : u = x \/ u = y
  BY Peers
<1>2. \A u, v \in W!End : u # v => Way(u, v)'
  BY <1>1
<1>3. \A u \in W!End : InItsCall(u)'
  BY <1>1
<1> QED BY <1>2, <1>3 DEF SessionIInv

(* mtx.Lock() and the frames of the operation.                             *)
LEMMA SessionAcquire ==
  ASSUME SessionIInv, NEW p \in W!End, NEW q \in W!End, p # q, NEW t \in W!Thread,
         W!Acquire(p, t)
  PROVE  SessionIInv'
<1>1. PICK c : c = wCall[p][t]
  OBVIOUS
<1>2. /\ SessionTypes /\ Bounded /\ Way(p, q) /\ Way(q, p) /\ InItsCall(p) /\ InItsCall(q)
      /\ HeadFirst
  BY DEF SessionIInv
<1>3. c \in Sends
  BY <1>1, <1>2 DEF SessionTypes, BothCalls
<1>4. PICK td : td = IF c.kind = "data"
                       THEN [i \in 1 .. c.size |-> W!Part(Len(wSent[p]) + 1, i, c.size)]
                       ELSE <<W!Control(c.kind)>>
  BY Zenon
<1>5. PICK s : s = IF c.kind = "data" /\ c.size > 0 THEN Append(wSent[p], c.size) ELSE wSent[p]
  BY Zenon
<1>6. /\ c.kind # "none" /\ wLock[p] = "free" /\ (c.kind = "data" => wHasInit[p])
      /\ wLock' = [wLock EXCEPT ![p] = t]
      /\ wTodo' = [wTodo EXCEPT ![p] = td]
      /\ UNCHANGED <<wLink, wAlive, wAccepted, wHasInit, wCalls, wOpen, wStart, wMessage,
                     wReceived, wOut, wStrm, wEos, wCall, wTold, wBeforeClose>>
  BY <1>1, <1>4
     DEF W!Acquire, W!Frames, W!object, W!reading, W!net
<1>7. wSent' = [wSent EXCEPT ![p] = s]
  <2>1. wSent' = IF c.kind = "data" /\ c.size > 0
                   THEN [wSent EXCEPT ![p] = Append(wSent[p], c.size)] ELSE wSent
    BY <1>1 DEF W!Acquire
  <2> QED BY <1>2, <1>5, <2>1, Zenon DEF SessionTypes
<1>8. wClosed' \in [W!End -> BOOLEAN]
  BY <1>2, Zenon DEF W!Acquire, SessionTypes
<1>9. wSent[p] \in Seq(Positive) /\ wTodo[p] = <<>>
  BY <1>2, <1>6 DEF SessionTypes, Way, Whence
<1>10. /\ td \in Seq(Wares) /\ s \in Seq(Positive) /\ Len(s) \in {Len(wSent[p]), Len(wSent[p]) + 1}
       /\ Longer(wSent[p], s)
       /\ ToWrite(td, s)
       /\ SamePlace(<<>>, wSent[p], td, s)
       /\ td # <<>> /\ IsData(td[1]) => c.kind = "data"
  <2>1. PICK u : u = wSent[p]
    OBVIOUS
  <2>2. /\ u \in Seq(Positive) /\ c.kind # "none"
        /\ td = IF c.kind = "data" THEN [i \in 1 .. c.size |-> W!Part(Len(u) + 1, i, c.size)]
                                  ELSE <<W!Control(c.kind)>>
        /\ s = IF c.kind = "data" /\ c.size > 0 THEN Append(u, c.size) ELSE u
    BY <1>4, <1>5, <1>6, <1>9, <2>1
  <2>3. td \in Seq(Wares) /\ s \in Seq(Positive) /\ Len(s) \in {Len(u), Len(u) + 1}
    BY ONLY <1>3, <2>2, FramesToWrite, Zenon
  <2>4. Longer(u, s)
    BY ONLY <1>3, <2>2, FramesToWrite, Zenon
  <2>5. ToWrite(td, s)
    BY ONLY <1>3, <2>2, FramesToWrite, Zenon
  <2>6. SamePlace(<<>>, u, td, s)
    BY ONLY <1>3, <2>2, FramesToWrite, Zenon
  <2>7. td # <<>> /\ IsData(td[1]) => c.kind = "data"
    BY ONLY <1>3, <2>2, FramesToWrite
  <2> QED BY <2>1, <2>3, <2>4, <2>5, <2>6, <2>7
<1>11. SessionTypes'
  BY <1>2, <1>6, <1>7, <1>8, <1>10, Zenon DEF SessionTypes
<1>12. wTodo'[p] = td /\ wSent'[p] = s /\ wTodo'[q] = wTodo[q] /\ wSent'[q] = wSent[q]
       /\ wLock'[p] = t /\ wLock'[q] = wLock[q]
  BY <1>2, <1>6, <1>7 DEF SessionTypes
<1>13. Bounded'
  <2>1. wBeforeClose[p] \in -1 .. Len(s)
    <3>1. wBeforeClose[p] \in -1 .. Len(wSent[p]) /\ Len(wSent[p]) \in Nat
      BY <1>2, <1>9, LenProperties DEF Bounded
    <3> QED BY <1>10, <3>1
  <2>2. \A x \in W!End : x = p \/ wSent'[x] = wSent[x]
    BY <1>2, <1>7 DEF SessionTypes
  <2> QED BY <1>2, <1>6, <1>12, <2>1, <2>2 DEF Bounded
<1>14. Way(p, q)'
  <2>1. Flow(wLink, wOut[p], <<>>, wSent[p], wBeforeClose[p], wMessage[q], wReceived[q],
             wStart[q], wLink = "lost" \/ wAlive[q] # "up")
    BY <1>2, <1>9 DEF Way, Whence
  <2>2. wOut[p] \in Seq(Wares)
    BY <1>2 DEF SessionTypes
  <2>3. Flow(wLink, wOut[p], td, s, wBeforeClose[p], wMessage[q], wReceived[q],
             wStart[q], wLink = "lost" \/ wAlive[q] # "up")
    BY <1>10, <2>1, <2>2, FlowStarts, Zenon DEF SamePlace
  <2>4. t # "free"
    BY DEF W!Thread
  <2> QED BY <1>2, <1>6, <1>10, <1>12, <2>3, <2>4 DEF Way, Whence
<1>15. Way(q, p)'
  BY <1>2, <1>6, <1>12 DEF Way
<1>16. InItsCall(p)' /\ InItsCall(q)'
  BY <1>2, <1>6 DEF InItsCall
<1>17. HeadFirst'
  <2>1. CASE p = "server"
    BY <1>2, <1>6, <1>10, <1>12, <2>1 DEF HeadFirst, HeadHolds
  <2>2. CASE q = "server"
    BY <1>2, <1>6, <1>12, <2>2 DEF HeadFirst, HeadHolds
  <2> QED BY <2>1, <2>2, Peers
<1> QED BY <1>11, <1>13, <1>14, <1>15, <1>16, <1>17, BothWays

(* One frame takes a writer to where what is left begins.                  *)
OneOn(f, td, td2, s, b) ==
  \A d, i \in Nat : AtWriter(td, s, d, i) =>
    \E e, j \in Nat : Between(f, d, i, e, j, s, b) /\ AtWriter(td2, s, e, j)

(* Part makes the frames of a message.                                     *)
LEMMA PartIsData ==
  ASSUME NEW k, NEW i, NEW n
  PROVE  /\ IsData(W!Part(k, i, n)) /\ W!Part(k, i, n).part[1] = k /\ W!Part(k, i, n).part[2] = i
         /\ W!Part(k, i, n).op = IF i = 1 THEN "first" ELSE "more"
         /\ W!Part(k, i, n).fin = (i = n)
<1>1. PICK op : op = IF i = 1 THEN "first" ELSE "more"
  OBVIOUS
<1>2. PICK fin : fin = (i = n)
  OBVIOUS
<1>3. PICK t : t = <<k, i>>
  BY Zenon
<1>4. PICK f : f = [op |-> op, part |-> t, fin |-> fin]
  BY Zenon
<1>5. f = W!Part(k, i, n)
  BY <1>1, <1>2, <1>3, <1>4 DEF W!Part
<1>6. f.op = op /\ f.part = t /\ f.fin = fin
  BY <1>4
<1>7. op \in {"first", "more"} /\ t[1] = k /\ t[2] = i
  BY <1>1, <1>3
<1>8. IsData(f)
  BY <1>6, <1>7 DEF IsData
<1> QED BY <1>1, <1>2, <1>5, <1>6, <1>7, <1>8

(* What a thread has still to write, after its first frame.                *)
LEMMA HeadToWrite ==
  ASSUME NEW s \in Seq(Positive), NEW td, td # <<>>, ToWrite(td, s)
  PROVE  /\ Head(td) = td[1] /\ td[1] \in Wares /\ td[1].part[2] # -1
         /\ td[1].op \in {"first", "more", "ping", "pong", "close"}
         /\ Tail(td) \in Seq(Wares) /\ ToWrite(Tail(td), s)
         /\ Tail(td) # <<>> /\ IsData(Tail(td)[1]) => IsData(td[1])
         /\ \A b : (td[1].op = "close" => b \in 0 .. Len(s)) => OneOn(td[1], td, Tail(td), s, b)
<1>1. td \in Seq(Wares)
  BY DEF ToWrite
<1>2. PICK n : n = Len(td)
  OBVIOUS
<1>3. n \in Nat /\ n >= 1 /\ 1 \in 1 .. n /\ td[1] \in Wares
  <2>1. n \in Nat /\ n # 0
    BY <1>1, <1>2, LenProperties, EmptySeq
  <2>2. 1 \in 1 .. n
    BY <2>1
  <2> QED BY <1>1, <1>2, <2>1, <2>2, ElementOfSeq
<1>4. PICK r : r = Tail(td)
  BY Zenon
<1>5. /\ Head(td) = td[1] /\ r \in Seq(Wares) /\ Len(r) = n - 1
      /\ \A j \in 1 .. n - 1 : r[j] = td[j + 1]
  <2>1. /\ Head(td) = td[1] /\ r \in Seq(Wares) /\ Len(r) = n - 1
        /\ \A j \in 1 .. Len(r) : r[j] = td[j + 1]
    BY <1>1, <1>2, <1>4, HeadTailProperties
  <2> QED BY <2>1
<1>6. PICK f : f = td[1]
  OBVIOUS
<1>7. PICK L : L = Len(s)
  OBVIOUS
<1>8. L \in Nat /\ DOMAIN s = 1 .. L
  BY <1>7, LenProperties
<1>9. CASE n = 1 /\ f.op \in {"ping", "pong", "close"} /\ f.part = <<0, 0>>
  <2>1. r = <<>> /\ ~IsData(f) /\ f.part[2] = 0
    <3>1. Len(r) = 0
      BY <1>5, <1>9
    <3> QED BY <1>5, <1>9, <3>1, EmptySeq DEF IsData
  <2>2. ASSUME NEW b, f.op = "close" => b \in 0 .. L
        PROVE  OneOn(f, td, r, s, b)
    <3>1. ASSUME NEW d \in Nat, NEW i \in Nat, AtWriter(td, s, d, i)
          PROVE  \E e, j \in Nat : Between(f, d, i, e, j, s, b) /\ AtWriter(r, s, e, j)
      <4>1. d = L /\ i = 0
        BY <1>6, <1>7, <2>1, <3>1 DEF AtWriter
      <4>2. Between(f, d, i, d, 0, s, b)
        BY <2>1, <2>2, <4>1 DEF Between
      <4>3. AtWriter(r, s, d, 0)
        BY <1>7, <2>1, <4>1 DEF AtWriter
      <4> QED BY <4>2, <4>3
    <3> QED BY <3>1 DEF OneOn
  <2>3. ToWrite(r, s)
    BY <2>1 DEF ToWrite
  <2> QED BY <1>3, <1>4, <1>5, <1>6, <1>7, <1>9, <2>1, <2>2, <2>3
<1>10. CASE /\ L >= 1 /\ n <= s[L]
            /\ \A j \in 1 .. n : td[j] = W!Part(L, s[L] - n + j, s[L])
  <2>1. PICK z : z = s[L]
    OBVIOUS
  <2>2. L \in DOMAIN s /\ z \in Nat /\ n <= z
    <3>1. L \in 1 .. L
      BY <1>8, <1>10
    <3> QED BY <1>7, <1>8, <1>10, <2>1, <3>1, ElementOfSeq DEF Positive
  <2>3. PICK i0 : i0 = z - n
    OBVIOUS
  <2>4. i0 \in Nat /\ i0 + n = z /\ i0 + 1 >= 1
    BY <1>3, <2>2, <2>3
  <2>5. \A j \in 1 .. n : td[j] = W!Part(L, i0 + j, z)
    BY <1>10, <2>1, <2>3
  <2>6. /\ IsData(f) /\ f.part[1] = L /\ f.part[2] = i0 + 1
        /\ f.op = (IF i0 = 0 THEN "first" ELSE "more") /\ (f.fin <=> n = 1)
    <3>1. f = W!Part(L, i0 + 1, z)
      BY <1>3, <1>6, <2>5
    <3>2. (i0 + 1 = 1 <=> i0 = 0) /\ (i0 + 1 = z <=> n = 1)
      BY <1>3, <2>4
    <3>3. f.op = IF i0 + 1 = 1 THEN "first" ELSE "more"
      BY <3>1, PartIsData
    <3>4. f.fin = (i0 + 1 = z)
      BY <3>1, PartIsData
    <3>5. IsData(f)
      BY <3>1, PartIsData
    <3>6. f.part[1] = L
      BY <3>1, PartIsData
    <3>7. f.part[2] = i0 + 1
      BY <3>1, PartIsData
    <3> QED BY ONLY <3>2, <3>3, <3>4, <3>5, <3>6, <3>7, Zenon
  <2>7. f.part[2] # -1
    BY <2>4, <2>6
  <2>8. ToWrite(r, s)
    <3>1. CASE n = 1
      BY <1>5, <3>1, EmptySeq DEF ToWrite
    <3>2. CASE n # 1
      <4>1. ASSUME NEW j \in 1 .. Len(r)
            PROVE  r[j] = W!Part(Len(s), s[Len(s)] - Len(r) + j, s[Len(s)])
        <5>1. j \in 1 .. n - 1 /\ j + 1 \in 1 .. n
          BY <1>3, <1>5
        <5>2. r[j] = W!Part(L, i0 + (j + 1), z)
          BY <1>5, <2>5, <5>1
        <5>3. i0 + (j + 1) = z - (n - 1) + j
          BY <1>3, <2>2, <2>3, <5>1
        <5> QED BY <1>5, <1>7, <2>1, <5>2, <5>3
      <4>2. Len(s) >= 1 /\ Len(r) <= s[Len(s)]
        BY <1>3, <1>5, <1>7, <1>10, <2>1, <2>2
      <4> QED BY <1>5, <4>1, <4>2 DEF ToWrite
    <3> QED BY <3>1, <3>2
  <2>9. ASSUME NEW b
        PROVE  OneOn(f, td, r, s, b)
    <3>1. ASSUME NEW d \in Nat, NEW i \in Nat, AtWriter(td, s, d, i)
          PROVE  \E e, j \in Nat : Between(f, d, i, e, j, s, b) /\ AtWriter(r, s, e, j)
      <4>1. d + 1 = L /\ i = i0 /\ d = L - 1
        BY <1>2, <1>6, <1>7, <1>8, <2>1, <2>3, <2>6, <3>1 DEF AtWriter
      <4>2. /\ d + 1 \in DOMAIN s /\ i < s[d + 1] /\ f.part[1] = d + 1 /\ f.part[2] \in {i + 1, -1}
            /\ f.op = (IF i = 0 THEN "first" ELSE "more")
            /\ (f.fin <=> i + 1 = s[d + 1])
        BY <1>3, <2>1, <2>2, <2>4, <2>6, <4>1
      <4>3. CASE n = 1
        <5>1. r = <<>>
          BY <1>5, <4>3, EmptySeq
        <5>2. Between(f, d, i, L, 0, s, b)
          BY <2>6, <4>1, <4>2, <4>3 DEF Between
        <5>3. AtWriter(r, s, L, 0)
          BY <1>7, <5>1 DEF AtWriter
        <5> QED BY <1>8, <5>2, <5>3
      <4>4. CASE n # 1
        <5>1. r # <<>> /\ Len(r) = n - 1 /\ 1 \in 1 .. n - 1 /\ 1 + 1 \in 1 .. n
          BY <1>3, <1>5, <4>4, EmptySeq
        <5>2. IsData(r[1])
          BY <1>5, <2>5, <5>1, PartIsData
        <5>3. Between(f, d, i, d, i + 1, s, b)
          BY <2>6, <4>2, <4>4 DEF Between
        <5>4. AtWriter(r, s, d, i + 1)
          <6>1. i + 1 = z - (n - 1)
            BY <1>3, <2>2, <2>3, <4>1
          <6> QED BY <1>7, <2>1, <4>1, <5>1, <5>2, <6>1 DEF AtWriter
        <5> QED BY <5>3, <5>4
      <4> QED BY <4>3, <4>4
    <3> QED BY <3>1 DEF OneOn
  <2>10. f.op \in {"first", "more"}
    BY <2>6 DEF IsData
  <2> QED BY <1>3, <1>4, <1>5, <1>6, <2>6, <2>7, <2>8, <2>9, <2>10
<1> QED BY <1>2, <1>6, <1>7, <1>9, <1>10, Zenon DEF ToWrite

(* A frame goes out, or nowhere.                                           *)
LEMMA WayOfWrite ==
  ASSUME NEW lnk, NEW o \in Seq(Wares), NEW td, td # <<>>, NEW s \in Seq(Positive), NEW lk,
         NEW m, NEW g, NEW st, NEW br, lnk = "lost" => br,
         NEW b \in -1 .. Len(s), Whence(lnk, o, td, s, b, lk, m, g, st, br),
         NEW b2, b2 = IF td[1].op = "close" /\ b = -1 THEN Len(s) ELSE b
  PROVE  /\ br => Whence(lnk, o, Tail(td), s, b2, lk, m, g, st, br)
         /\ ~br => Whence(lnk, Append(o, td[1]), Tail(td), s, b2, lk, m, g, st, br)
<1>1. PICK f : f = td[1]
  OBVIOUS
<1>2. PICK td2 : td2 = Tail(td)
  BY Zenon
<1>3. /\ f \in Wares /\ f.part[2] # -1 /\ ToWrite(td2, s)
      /\ (f.op = "close" => b2 \in 0 .. Len(s)) => OneOn(f, td, td2, s, b2)
  <2>1. td[1] \in Wares /\ td[1].part[2] # -1
    BY HeadToWrite DEF Whence
  <2>2. ToWrite(Tail(td), s)
    BY HeadToWrite DEF Whence
  <2>3. (td[1].op = "close" => b2 \in 0 .. Len(s)) => OneOn(td[1], td, Tail(td), s, b2)
    BY HeadToWrite DEF Whence
  <2> QED BY <1>1, <1>2, <2>1, <2>2, <2>3
<1>4. Len(s) \in Nat
  BY LenProperties
<1>5. OneOn(f, td, td2, s, b2)
  BY <1>1, <1>3, <1>4
<1>6. Flow(lnk, o, td, s, b2, m, g, st, br)
  <2>1. Flow(lnk, o, td, s, b, m, g, st, br)
    BY DEF Whence
  <2>2. b = b2 \/ b = -1
    OBVIOUS
  <2> QED BY <2>1, <2>2, FlowCloses
<1>7. lk = "free" => td2 = <<>>
  BY DEF Whence
<1>8. CASE br
  <2>1. Flow(lnk, o, td2, s, b2, m, g, st, TRUE)
    BY <1>6, FlowBreaks, Zenon
  <2>2. Flow(lnk, o, td2, s, b2, m, g, st, br)
    BY <1>8, <2>1 DEF Flow, Marks
  <2>3. Whence(lnk, o, td2, s, b2, lk, m, g, st, br)
    BY <1>3, <1>7, <2>2 DEF Whence
  <2> QED BY <1>2, <1>8, <2>3, Zenon
<1>9. CASE ~br
  <2>1. lnk # "lost"
    BY <1>9
  <2>2. Flow(lnk, o, td, s, b2, m, g, st, FALSE)
    BY <1>6, <1>9 DEF Flow, Marks
  <2>3. Flow(lnk, Append(o, f), td2, s, b2, m, g, st, FALSE)
    BY <1>3, <1>5, <2>1, <2>2, FlowGrows, Zenon DEF OneOn
  <2>4. Flow(lnk, Append(o, f), td2, s, b2, m, g, st, br)
    BY <1>9, <2>3 DEF Flow, Marks
  <2>5. PICK o2 : o2 = Append(o, f)
    BY Zenon
  <2>6. \A k \in 1 .. Len(o2) : o2[k].part[2] = -1 => lnk = "lost" /\ k = Len(o2)
    <3>1. Len(o2) = Len(o) + 1 /\ o2[Len(o) + 1] = f /\ \A k \in 1 .. Len(o) : o2[k] = o[k]
      BY <1>3, <2>5, AppendProperties
    <3>2. Len(o) \in Nat
      BY LenProperties
    <3>3. \A k \in 1 .. Len(o) : ~(o[k].part[2] = -1)
      BY <2>1 DEF Whence
    <3>4. \A k \in 1 .. Len(o2) : k \in 1 .. Len(o) \/ k = Len(o) + 1
      BY <3>1, <3>2
    <3> QED BY <1>3, <3>1, <3>3, <3>4, Zenon
  <2>7. Whence(lnk, o2, td2, s, b2, lk, m, g, st, br)
    BY <1>3, <1>7, <2>4, <2>5, <2>6 DEF Whence
  <2> QED BY <1>1, <1>2, <1>9, <2>5, <2>7
<1> QED BY <1>8, <1>9

(* The head goes before the data that is written after it.                 *)
LEMMA HeadedAppend ==
  ASSUME NEW o \in Seq(Wares), NEW f \in Wares, HeadBefore(o), IsData(f) => HasHead(o)
  PROVE  HeadBefore(Append(o, f)) /\ (HasHead(o) \/ f.op = "head" => HasHead(Append(o, f)))
<1>1. PICK o2 : o2 = Append(o, f)
  BY Zenon
<1>2. Len(o2) = Len(o) + 1 /\ o2[Len(o) + 1] = f /\ \A k \in 1 .. Len(o) : o2[k] = o[k]
  BY <1>1, AppendProperties
<1>3. Len(o) \in Nat
  BY LenProperties
<1>4. ASSUME NEW j \in 1 .. Len(o2), IsData(o2[j])
      PROVE  \E i \in 1 .. j - 1 : o2[i].op = "head"
  <2>1. CASE j = Len(o) + 1
    <3>1. PICK i \in 1 .. Len(o) : o[i].op = "head"
      BY <1>2, <1>4, <2>1 DEF HasHead
    <3>2. i \in 1 .. j - 1 /\ o2[i].op = "head"
      BY <1>2, <1>3, <2>1, <3>1
    <3> QED BY <3>2
  <2>2. CASE j # Len(o) + 1
    <3>1. j \in 1 .. Len(o)
      BY <1>2, <1>3, <2>2
    <3>2. PICK i \in 1 .. j - 1 : o[i].op = "head"
      BY <1>2, <1>4, <3>1 DEF HeadBefore
    <3>3. i \in 1 .. Len(o)
      BY <1>3, <3>1
    <3> QED BY <1>2, <3>2, <3>3
  <2> QED BY <2>1, <2>2
<1>5. HeadBefore(o2)
  BY <1>4 DEF HeadBefore
<1>6. ASSUME HasHead(o) \/ f.op = "head"
      PROVE  HasHead(o2)
  <2>1. CASE f.op = "head"
    <3>1. Len(o) + 1 \in 1 .. Len(o2)
      BY <1>2, <1>3
    <3> QED BY <1>2, <2>1, <3>1 DEF HasHead
  <2>2. CASE HasHead(o)
    <3>1. PICK i \in 1 .. Len(o) : o[i].op = "head"
      BY <2>2 DEF HasHead
    <3>2. i \in 1 .. Len(o2) /\ o2[i] = o[i]
      BY <1>2, <1>3
    <3> QED BY <3>1, <3>2 DEF HasHead
  <2> QED BY <1>6, <2>1, <2>2
<1> QED BY <1>1, <1>5, <1>6

(* A frame is written.                                                     *)
LEMMA SessionWriteFrame ==
  ASSUME SessionIInv, NEW p \in W!End, NEW q \in W!End, p # q, NEW t \in W!Thread,
         W!WriteFrame(p, t)
  PROVE  SessionIInv'
<1>1. /\ SessionTypes /\ Bounded /\ Way(p, q) /\ Way(q, p) /\ InItsCall(p) /\ InItsCall(q)
      /\ HeadFirst
  BY DEF SessionIInv
<1>2. PICK td : td = wTodo[p]
  OBVIOUS
<1>3. PICK s : s = wSent[p]
  OBVIOUS
<1>4. PICK o : o = wOut[p]
  OBVIOUS
<1>5. PICK b : b = wBeforeClose[p]
  OBVIOUS
<1>6. PICK br \in BOOLEAN : br = (wLink = "lost" \/ wAlive[q] # "up")
  BY Zenon
<1>7. PICK b2 : b2 = IF td[1].op = "close" /\ b = -1 THEN Len(s) ELSE b
  BY Zenon
<1>8. PICK o2 : o2 = IF br THEN o ELSE Append(o, td[1])
  BY Zenon
<1>9. /\ td \in Seq(Wares) /\ td # <<>> /\ s \in Seq(Positive) /\ o \in Seq(Wares)
      /\ b \in -1 .. Len(s) /\ Len(s) \in Nat /\ ToWrite(td, s) /\ W!Peer(p) = q
  BY <1>1, <1>2, <1>3, <1>4, <1>5, Peers, LenProperties, Zenon
     DEF SessionTypes, Bounded, Way, Whence, W!WriteFrame
<1>10. Head(td) = td[1] /\ td[1] \in Wares
  BY <1>9, HeadToWrite
<1>11. Tail(td) \in Seq(Wares)
  BY <1>9, HeadToWrite
<1>12. Tail(td) # <<>> /\ IsData(Tail(td)[1]) => IsData(td[1])
  BY <1>9, HeadToWrite
<1>13. o2 \in Seq(Wares) /\ b2 \in -1 .. Len(s) /\ b2 \in Int
  BY <1>7, <1>8, <1>9, <1>10, AppendProperties
<1>14. /\ wTodo' = [wTodo EXCEPT ![p] = Tail(td)]
       /\ wOut' = [wOut EXCEPT ![p] = o2]
       /\ wBeforeClose' = [wBeforeClose EXCEPT ![p] = b2]
       /\ UNCHANGED <<wLink, wAlive, wAccepted, wHasInit, wCalls, wOpen, wStart, wMessage,
                      wReceived, wStrm, wClosed, wLock, wCall, wSent, wTold>>
  <2>1. wTodo' = [wTodo EXCEPT ![p] = Tail(td)]
    BY <1>2 DEF W!WriteFrame
  <2>2. wOut' = [wOut EXCEPT ![p] = o2]
    <3>1. wOut' = IF br THEN wOut ELSE [wOut EXCEPT ![p] = Append(o, td[1])]
      BY <1>2, <1>4, <1>6, <1>9, <1>10, Zenon DEF W!WriteFrame, W!Broken
    <3>2. wOut = [wOut EXCEPT ![p] = o]
      BY <1>1, <1>4 DEF SessionTypes
    <3> QED BY <1>8, <3>1, <3>2, Zenon
  <2>3. wBeforeClose' = [wBeforeClose EXCEPT ![p] = b2]
    <3>1. wBeforeClose' = IF td[1].op = "close" /\ b = -1
                            THEN [wBeforeClose EXCEPT ![p] = Len(s)] ELSE wBeforeClose
      BY <1>2, <1>3, <1>5, <1>10 DEF W!WriteFrame
    <3>2. wBeforeClose = [wBeforeClose EXCEPT ![p] = b]
      BY <1>1, <1>5 DEF SessionTypes
    <3> QED BY <1>7, <3>1, <3>2, Zenon
  <2> QED BY <2>1, <2>2, <2>3, Zenon DEF W!WriteFrame, W!object, W!reading, W!net
<1>15. wEos' \in [W!End -> BOOLEAN]
  BY <1>1, Zenon DEF W!WriteFrame, SessionTypes
<1>16. SessionTypes'
  BY <1>1, <1>11, <1>13, <1>14, <1>15, Zenon DEF SessionTypes
<1>17. /\ wTodo'[p] = Tail(td) /\ wTodo'[q] = wTodo[q] /\ wOut'[p] = o2 /\ wOut'[q] = wOut[q]
       /\ wBeforeClose'[p] = b2 /\ wBeforeClose'[q] = wBeforeClose[q]
  BY <1>1, <1>14 DEF SessionTypes
<1>18. Bounded'
  <2>1. \A x \in W!End : x = p \/ wBeforeClose'[x] = wBeforeClose[x]
    BY <1>1, <1>14 DEF SessionTypes
  <2> QED BY <1>1, <1>3, <1>13, <1>14, <1>17, <2>1 DEF Bounded
<1>19. Way(p, q)'
  <2>1. Whence(wLink, o, td, s, b, wLock[p], wMessage[q], wReceived[q], wStart[q], br)
    BY <1>1, <1>2, <1>3, <1>4, <1>5, <1>6 DEF Way
  <2>2. br => Whence(wLink, o, Tail(td), s, b2, wLock[p], wMessage[q], wReceived[q], wStart[q], br)
    BY <1>6, <1>7, <1>9, <2>1, WayOfWrite
  <2>3. ~br => Whence(wLink, Append(o, td[1]), Tail(td), s, b2, wLock[p], wMessage[q],
                      wReceived[q], wStart[q], br)
    BY <1>6, <1>7, <1>9, <2>1, WayOfWrite, Zenon
  <2>4. Whence(wLink, o2, Tail(td), s, b2, wLock[p], wMessage[q], wReceived[q], wStart[q], br)
    BY <1>6, <1>8, <2>2, <2>3
  <2> QED BY <1>3, <1>6, <1>14, <1>17, <2>4, Zenon DEF Way
<1>20. Way(q, p)'
  BY <1>1, <1>14, <1>17 DEF Way
<1>21. InItsCall(p)' /\ InItsCall(q)'
  BY <1>1, <1>14 DEF InItsCall
<1>22. HeadFirst'
  <2>1. CASE p = "server"
    <3>1. q = "client"
      BY <2>1, Peers
    <3>2. HeadHolds(o, td, wHasInit["server"], wStart["client"], wStart["server"], br)
      BY <1>1, <1>2, <1>4, <1>6, <2>1, <3>1 DEF HeadFirst
    <3>3. HeadHolds(o2, Tail(td), wHasInit["server"], wStart["client"], wStart["server"], br)
      <4>1. ASSUME wStart["client"] = "connect"
            PROVE  HeadBefore(o2) /\ (wHasInit["server"] /\ ~br => HasHead(o2))
        <5>1. HeadBefore(o) /\ (wHasInit["server"] /\ ~br => HasHead(o))
          BY <3>2, <4>1 DEF HeadHolds
        <5>2. CASE br
          BY <1>8, <5>1, <5>2
        <5>3. CASE ~br
          <6>1. IsData(td[1]) => HasHead(o)
            BY <1>9, <3>2, <5>1, <5>3 DEF HeadHolds
          <6>2. HeadBefore(Append(o, td[1])) /\ (HasHead(o) => HasHead(Append(o, td[1])))
            BY <1>9, <1>10, <5>1, <6>1, HeadedAppend
          <6> QED BY <1>8, <5>1, <5>3, <6>2
        <5> QED BY <1>6, <5>2, <5>3
      <4> QED BY <1>9, <1>12, <3>2, <4>1 DEF HeadHolds
    <3> QED BY <1>6, <1>14, <1>17, <2>1, <3>1, <3>3, Zenon DEF HeadFirst
  <2>2. CASE q = "server"
    BY <1>1, <1>14, <1>17, <2>2 DEF HeadFirst
  <2> QED BY <2>1, <2>2, Peers
<1> QED BY <1>16, <1>18, <1>19, <1>20, <1>21, <1>22, BothWays

(* A direction whose reader goes elsewhere.                                *)
LEMMA WayMoves ==
  ASSUME NEW lnk, NEW o, NEW td, NEW s, NEW b, NEW lk, NEW m, NEW g, NEW st, NEW br,
         Whence(lnk, o, td, s, b, lk, m, g, st, br), NEW st2,
         st2 = st \/ st = "call" \/ (st # "deliver" /\ st2 \notin {"call", "deliver"})
  PROVE  Whence(lnk, o, td, s, b, lk, m, g, st2, br)
<1>1. Flow(lnk, o, td, s, b, m, g, st2, br)
  BY FlowMoves DEF Whence
<1> QED BY <1>1 DEF Whence

(* A direction whose frames go nowhere.                                    *)
LEMMA WayBreaks ==
  ASSUME NEW lnk, NEW o, NEW td, NEW s, NEW b, NEW lk, NEW m, NEW g, NEW st, NEW br,
         Whence(lnk, o, td, s, b, lk, m, g, st, br)
  PROVE  /\ Whence(lnk, o, td, s, b, lk, m, g, st, TRUE)
         /\ Whence(lnk, o, <<>>, s, b, lk, m, g, st, TRUE)
<1>1. Flow(lnk, o, td, s, b, m, g, st, TRUE) /\ Flow(lnk, o, <<>>, s, b, m, g, st, TRUE)
  BY FlowBreaks, Zenon DEF Whence
<1>2. ToWrite(<<>>, s)
  BY DEF ToWrite
<1> QED BY <1>1, <1>2, Zenon DEF Whence

(* WriteBlock threw.                                                       *)
LEMMA SessionWriteThrows ==
  ASSUME SessionIInv, NEW p \in W!End, NEW q \in W!End, p # q, NEW t \in W!Thread,
         W!WriteThrows(p, t)
  PROVE  SessionIInv'
<1>1. /\ SessionTypes /\ Bounded /\ Way(p, q) /\ Way(q, p) /\ InItsCall(p) /\ InItsCall(q)
      /\ HeadFirst
  BY DEF SessionIInv
<1>2. PICK c : c = [wCall[p] EXCEPT ![t] = W!Idle]
  BY Zenon
<1>3. PICK st : st = IF t = "open" THEN wStart[p] ELSE "threw"
  OBVIOUS
<1>4. /\ wTodo' = [wTodo EXCEPT ![p] = <<>>]
      /\ wCall' = [wCall EXCEPT ![p] = c]
      /\ wCall[p][t].kind # "none"
      /\ UNCHANGED <<wLink, wAlive, wOut, wAccepted, wStrm, wHasInit, wClosed, wLock, wCalls,
                     wMessage, wSent, wReceived, wTold, wBeforeClose>>
      /\ wLink = "lost" \/ wAlive[q] # "up"
  <2>1. W!Peer(p) = q
    BY Peers
  <2>2. wCall[p][t].kind \in {"data", "ping", "pong"} /\ W!Broken(p)
    BY DEF W!WriteThrows
  <2>3. wLink = "lost" \/ wAlive[q] # "up"
    BY <2>1, <2>2 DEF W!Broken
  <2>4. wCall[p][t].kind # "none"
    BY <2>2
  <2>5. /\ wTodo' = [wTodo EXCEPT ![p] = <<>>]
        /\ wCall' = [wCall EXCEPT ![p] = c]
        /\ UNCHANGED <<wLink, wAlive, wOut, wAccepted, wStrm, wHasInit, wClosed, wLock, wCalls,
                       wMessage, wSent, wReceived, wTold, wBeforeClose>>
    BY <1>2 DEF W!WriteThrows, W!net
  <2> QED BY <2>3, <2>4, <2>5
<1>5. wEos' \in [W!End -> BOOLEAN]
  BY <1>1 DEF W!WriteThrows, SessionTypes
<1>6. wOpen' \in [W!End -> {"absent", "running", "done"}]
  BY <1>1, Zenon DEF W!WriteThrows, SessionTypes
<1>7. wStart' = [wStart EXCEPT ![p] = st]
  BY <1>1, <1>3, Zenon DEF W!WriteThrows, SessionTypes
<1>8. c \in BothCalls /\ st \in Stations
  BY <1>1, <1>2, <1>3, Zenon DEF SessionTypes, BothCalls, Sends, Stations
<1>9. SessionTypes'
  <2>1. <<>> \in Seq(Wares)
    OBVIOUS
  <2>2. wTodo' \in [W!End -> Seq(Wares)]
    BY <1>1, <1>4, <2>1 DEF SessionTypes
  <2>3. wCall' \in [W!End -> BothCalls] /\ wStart' \in [W!End -> Stations]
    BY <1>1, <1>4, <1>7, <1>8, Zenon DEF SessionTypes
  <2> QED BY <1>1, <1>4, <1>5, <1>6, <2>2, <2>3, Zenon DEF SessionTypes
<1>10. Bounded'
  BY <1>1, <1>4 DEF Bounded
<1>11. /\ wTodo'[p] = <<>> /\ wTodo'[q] = wTodo[q] /\ wStart'[p] = st /\ wStart'[q] = wStart[q]
       /\ wCall'[p] = c /\ wCall'[q] = wCall[q]
  BY <1>1, <1>4, <1>7 DEF SessionTypes
<1>12. /\ t = "start" => wStart[p] = "call" /\ c["start"] = W!Idle
       /\ t = "open" => st = wStart[p] /\ c["start"] = wCall[p]["start"]
       /\ t \in {"start", "open"}
  BY <1>1, <1>2, <1>3, <1>4 DEF InItsCall, SessionTypes, BothCalls, W!Thread
<1>13. Way(p, q)'
  <2>1. PICK br \in BOOLEAN : br = (wLink = "lost" \/ wAlive[q] # "up")
    BY Zenon
  <2>2. br = TRUE
    BY <1>4, <2>1, Zenon
  <2>3. Whence(wLink, wOut[p], wTodo[p], wSent[p], wBeforeClose[p], wLock[p],
               wMessage[q], wReceived[q], wStart[q], br)
    BY <1>1, <2>1 DEF Way
  <2>4. Whence(wLink, wOut[p], <<>>, wSent[p], wBeforeClose[p], wLock[p],
               wMessage[q], wReceived[q], wStart[q], br)
    BY <2>2, <2>3, WayBreaks, Zenon
  <2> QED BY <1>4, <1>11, <2>1, <2>4 DEF Way
<1>14. Way(q, p)'
  <2>1. Whence(wLink, wOut[q], wTodo[q], wSent[q], wBeforeClose[q], wLock[q],
               wMessage[p], wReceived[p], st, wLink = "lost" \/ wAlive[p] # "up")
    BY <1>1, <1>12, WayMoves DEF Way
  <2> QED BY <1>4, <1>11, <2>1 DEF Way
<1>15. InItsCall(p)' /\ InItsCall(q)'
  <2>1. W!Idle.kind = "none"
    BY DEF W!Idle
  <2> QED BY <1>1, <1>4, <1>11, <1>12, <2>1 DEF InItsCall
<1>16. HeadFirst'
  <2>1. st \in {"threw", wStart[p]}
    BY <1>3
  <2>2. CASE p = "server"
    <3>1. q = "client"
      BY <2>2, Peers
    <3> QED BY <1>1, <1>4, <1>11, <2>1, <2>2, <3>1 DEF HeadFirst, HeadHolds
  <2>3. CASE q = "server"
    <3>1. p = "client"
      BY <2>3, Peers
    <3> QED BY <1>1, <1>4, <1>11, <2>1, <2>3, <3>1 DEF HeadFirst, HeadHolds
  <2> QED BY <2>2, <2>3, Peers
<1> QED BY <1>9, <1>10, <1>13, <1>14, <1>15, <1>16, BothWays

(* mtx.Unlock()                                                            *)
LEMMA SessionRelease ==
  ASSUME SessionIInv, NEW p \in W!End, NEW q \in W!End, p # q, NEW t \in W!Thread,
         W!Release(p, t)
  PROVE  SessionIInv'
<1>1. /\ SessionTypes /\ Bounded /\ Way(p, q) /\ Way(q, p) /\ InItsCall(p) /\ InItsCall(q)
      /\ HeadFirst
  BY DEF SessionIInv
<1>2. PICK c : c = [wCall[p] EXCEPT ![t] = W!Idle]
  BY Zenon
<1>3. PICK st : st = IF t = "open" THEN wStart[p]
                     ELSE CASE wCall[p][t].kind = "close" -> "returned"
                            [] wCall[p][t].kind = "pong"  -> "deliver"
                            [] OTHER -> "loop"
  OBVIOUS
<1>4. /\ wLock' = [wLock EXCEPT ![p] = "free"]
      /\ wCall' = [wCall EXCEPT ![p] = c]
      /\ wCall[p][t].kind # "none" /\ wTodo[p] = <<>>
      /\ UNCHANGED <<wLink, wAlive, wOut, wAccepted, wEos, wHasInit, wClosed, wTodo, wCalls,
                     wOpen, wMessage, wSent, wReceived, wBeforeClose>>
  BY <1>2 DEF W!Release, W!object, W!net
<1>5. wStrm' \in [W!End -> BOOLEAN]
  BY <1>1, Zenon DEF W!Release, SessionTypes
<1>6. wTold' \in [W!End -> Seq(BOOLEAN)]
  <2>1. PICK u : u = IF wCall[p][t].kind = "close" /\ p = "server" THEN <<TRUE>> ELSE <<>>
    BY Zenon
  <2>2. PICK v : v = IF wCall[p][t].kind = "close" /\ t = "start" THEN <<TRUE>> ELSE <<>>
    BY Zenon
  <2>3. u \in Seq(BOOLEAN) /\ v \in Seq(BOOLEAN)
    <3>1. <<>> \in Seq(BOOLEAN) /\ \A z \in BOOLEAN : <<z>> \in Seq(BOOLEAN)
      OBVIOUS
    <3>2. <<TRUE>> \in Seq(BOOLEAN)
      BY <3>1
    <3> QED BY <2>1, <2>2, <3>1, <3>2, Zenon
  <2>4. wTold' = [wTold EXCEPT ![p] = wTold[p] \o u \o v]
    BY <2>1, <2>2 DEF W!Release
  <2>5. wTold[p] \in Seq(BOOLEAN)
    BY <1>1 DEF SessionTypes
  <2>6. wTold[p] \o u \in Seq(BOOLEAN)
    BY <2>3, <2>5, ConcatProperties
  <2>7. (wTold[p] \o u) \o v \in Seq(BOOLEAN)
    BY <2>3, <2>6, ConcatProperties
  <2> QED BY <1>1, <2>4, <2>7 DEF SessionTypes
<1>7. wStart' = [wStart EXCEPT ![p] = st]
  <2>1. CASE t = "open"
    BY <1>1, <1>3, <2>1 DEF W!Release, SessionTypes
  <2>2. CASE t # "open"
    BY <1>3, <2>2 DEF W!Release
  <2> QED BY <2>1, <2>2
<1>8. c \in BothCalls /\ st \in Stations /\ st \in {wStart[p], "returned", "deliver", "loop"}
  BY <1>1, <1>2, <1>3, Zenon DEF SessionTypes, BothCalls, Sends, Stations
<1>9. SessionTypes'
  BY <1>1, <1>4, <1>5, <1>6, <1>7, <1>8, Zenon DEF SessionTypes
<1>10. Bounded'
  BY <1>1, <1>4 DEF Bounded
<1>11. /\ wLock'[p] = "free" /\ wLock'[q] = wLock[q] /\ wStart'[p] = st /\ wStart'[q] = wStart[q]
       /\ wCall'[p] = c /\ wCall'[q] = wCall[q]
  BY <1>1, <1>4, <1>7 DEF SessionTypes
<1>12. /\ t = "start" => wStart[p] = "call" /\ c["start"] = W!Idle
       /\ t = "open" => st = wStart[p] /\ c["start"] = wCall[p]["start"]
       /\ t \in {"start", "open"}
  BY <1>1, <1>2, <1>3, <1>4 DEF InItsCall, SessionTypes, BothCalls, W!Thread
<1>13. Way(p, q)'
  BY <1>1, <1>4, <1>11 DEF Way, Whence
<1>14. Way(q, p)'
  <2>1. Whence(wLink, wOut[q], wTodo[q], wSent[q], wBeforeClose[q], wLock[q],
               wMessage[p], wReceived[p], st, wLink = "lost" \/ wAlive[p] # "up")
    BY <1>1, <1>12, WayMoves DEF Way
  <2> QED BY <1>4, <1>11, <2>1 DEF Way
<1>15. InItsCall(p)' /\ InItsCall(q)'
  <2>1. W!Idle.kind = "none"
    BY DEF W!Idle
  <2> QED BY <1>1, <1>4, <1>11, <1>12, <2>1 DEF InItsCall
<1>16. HeadFirst'
  <2>1. CASE p = "server"
    <3>1. q = "client"
      BY <2>1, Peers
    <3> QED BY <1>1, <1>4, <1>8, <1>11, <2>1, <3>1 DEF HeadFirst, HeadHolds
  <2>2. CASE q = "server"
    <3>1. p = "client"
      BY <2>2, Peers
    <3> QED BY <1>1, <1>4, <1>8, <1>11, <2>2, <3>1 DEF HeadFirst, HeadHolds
  <2> QED BY <2>1, <2>2, Peers
<1> QED BY <1>9, <1>10, <1>13, <1>14, <1>15, <1>16, BothWays

(* OnOpen calls an operation.                                              *)
LEMMA SessionOpenCalls ==
  ASSUME SessionIInv, NEW p \in W!End, NEW q \in W!End, p # q, NEW c \in W!Operations,
         W!OpenCalls(p, c)
  PROVE  SessionIInv'
<1>1. /\ SessionTypes /\ Bounded /\ Way(p, q) /\ Way(q, p) /\ InItsCall(p) /\ InItsCall(q)
      /\ HeadFirst
  BY DEF SessionIInv
<1>2. PICK cs : cs = [wCall[p] EXCEPT !["open"] = c]
  BY Zenon
<1>3. PICK n : n = IF c.kind = "close" THEN SessionCalls[p] ELSE wCalls[p] + 1
  OBVIOUS
<1>4. /\ wCall' = [wCall EXCEPT ![p] = cs]
      /\ wCalls' = [wCalls EXCEPT ![p] = n] /\ wCalls[p] < SessionCalls[p]
      /\ UNCHANGED <<wLink, wAlive, wStart, wMessage, wReceived, wOut, wAccepted, wStrm, wEos,
                     wHasInit, wClosed, wLock, wTodo, wOpen, wSent, wTold, wBeforeClose>>
  BY <1>2, <1>3, Zenon DEF W!OpenCalls, W!net, W!reading
<1>5. cs \in BothCalls /\ cs["start"] = wCall[p]["start"]
  BY <1>1, <1>2 DEF SessionTypes, BothCalls, Sends, W!Thread
<1>6. n \in Nat /\ n <= SessionCalls[p]
  <2>1. SessionCalls[p] \in Nat /\ wCalls[p] \in Nat
    BY <1>1, SessionAssumption DEF SessionTypes
  <2> QED BY <1>3, <1>4, <2>1
<1>7. SessionTypes'
  BY <1>1, <1>4, <1>5, <1>6, Zenon DEF SessionTypes
<1>8. Bounded'
  <2>1. \A x \in W!End : wCalls'[x] = IF x = p THEN n ELSE wCalls[x]
    BY <1>1, <1>4 DEF SessionTypes
  <2> QED BY <1>1, <1>4, <1>6, <2>1 DEF Bounded
<1>9. Way(p, q)' /\ Way(q, p)'
  BY <1>1, <1>4 DEF Way
<1>10. InItsCall(p)' /\ InItsCall(q)'
  <2>1. wCall'[p] = cs /\ wCall'[q] = wCall[q]
    BY <1>1, <1>4 DEF SessionTypes
  <2> QED BY <1>1, <1>4, <1>5, <2>1 DEF InItsCall
<1>11. HeadFirst'
  BY <1>1, <1>4 DEF HeadFirst
<1> QED BY <1>7, <1>8, <1>9, <1>10, <1>11, BothWays

(* A step of Start, once the connection is there.                          *)
LEMMA SessionReaderSteps ==
  ASSUME SessionIInv, NEW p \in W!End, NEW q \in W!End, p # q, SessionTypes',
         UNCHANGED <<wLink, wAlive, wTodo, wSent, wBeforeClose, wLock, wHasInit, wCalls>>,
         wOut'[p] = wOut[p], wMessage'[q] = wMessage[q], wReceived'[q] = wReceived[q],
         wStart'[q] = wStart[q], wCall'[q] = wCall[q],
         Way(q, p)', InItsCall(p)',
         wStart[p] # "connect", wStart'[p] \notin {"connect", "begin"},
         wStart'[p] = "handshake" => wStart[p] = "begin"
  PROVE  SessionIInv'
<1>1. Bounded /\ Way(p, q) /\ InItsCall(q) /\ HeadFirst
  BY DEF SessionIInv
<1>2. Bounded'
  BY <1>1 DEF Bounded
<1>3. Way(p, q)'
  BY <1>1 DEF Way
<1>4. InItsCall(q)'
  BY <1>1 DEF InItsCall
<1>5. HeadFirst'
  <2>1. CASE p = "server"
    <3>1. q = "client"
      BY <2>1, Peers
    <3> QED BY <1>1, <2>1, <3>1 DEF HeadFirst, HeadHolds
  <2>2. CASE q = "server"
    <3>1. p = "client"
      BY <2>2, Peers
    <3> QED BY <1>1, <2>2, <3>1 DEF HeadFirst, HeadHolds
  <2> QED BY <2>1, <2>2, Peers
<1> QED BY <1>2, <1>3, <1>4, <1>5, BothWays

(* Start goes on without reading a frame.                                  *)
LEMMA SessionGoes ==
  ASSUME SessionIInv, NEW p \in W!End, NEW q \in W!End, p # q, SessionTypes',
         UNCHANGED <<wLink, wAlive, wTodo, wSent, wBeforeClose, wLock, wHasInit, wCalls, wOut,
                     wMessage, wReceived, wCall>>,
         NEW st, st \in Stations, wStart' = [wStart EXCEPT ![p] = st],
         wStart[p] \notin {"connect", "call", "deliver"},
         st \notin {"connect", "begin", "call", "deliver"},
         st = "handshake" => wStart[p] = "begin"
  PROVE  SessionIInv'
<1>1. SessionTypes /\ Way(q, p) /\ InItsCall(p)
  BY DEF SessionIInv
<1>2. wStart'[p] = st /\ wStart'[q] = wStart[q]
  BY <1>1 DEF SessionTypes
<1>3. Whence(wLink, wOut[q], wTodo[q], wSent[q], wBeforeClose[q], wLock[q],
             wMessage[p], wReceived[p], st, wLink = "lost" \/ wAlive[p] # "up")
  BY <1>1, WayMoves DEF Way
<1>4. Way(q, p)'
  BY <1>2, <1>3 DEF Way
<1>5. InItsCall(p)'
  BY <1>1, <1>2 DEF InItsCall
<1> QED BY <1>2, <1>4, <1>5, SessionReaderSteps

(* Start begins.                                                           *)
LEMMA SessionBeginStart ==
  ASSUME SessionIInv, NEW p \in W!End, NEW q \in W!End, p # q, W!BeginStart(p)
  PROVE  SessionIInv'
<1>1. SessionTypes
  BY DEF SessionIInv
<1>2. PICK st : st = IF p = "client" THEN "loop" ELSE "handshake"
  OBVIOUS
<1>3. /\ wStart' = [wStart EXCEPT ![p] = st] /\ wStart[p] = "begin"
      /\ wClosed' = [wClosed EXCEPT ![p] = FALSE]
      /\ UNCHANGED <<wAccepted, wHasInit, wCalls, wOpen, wLink, wAlive, wLock, wTodo, wCall,
                     wSent, wBeforeClose, wOut, wStrm, wEos, wMessage, wReceived, wTold>>
  BY <1>2 DEF W!BeginStart, W!GoTo, W!object, W!net, W!writing
<1>4. st \in {"loop", "handshake"} /\ st \in Stations
  BY <1>2 DEF Stations
<1>5. SessionTypes'
  BY <1>1, <1>3, <1>4, Zenon DEF SessionTypes
<1> QED BY <1>3, <1>4, <1>5, SessionGoes, Zenon

(* The early returns of Start.                                             *)
LEMMA SessionRefuses ==
  ASSUME SessionIInv, NEW q \in W!End, q # "server", W!RefuseUpgrade
  PROVE  SessionIInv'
<1>1. SessionTypes
  BY DEF SessionIInv
<1>2. /\ wStart' = [wStart EXCEPT !["server"] = "returned"] /\ wStart["server"] = "handshake"
      /\ UNCHANGED <<wAccepted, wHasInit, wCalls, wOpen, wLink, wAlive, wLock, wTodo, wCall,
                     wSent, wBeforeClose, wOut, wStrm, wEos, wClosed, wMessage, wReceived, wTold>>
  BY DEF W!RefuseUpgrade, W!GoTo, W!object, W!net, W!writing
<1>3. "returned" \in Stations /\ "server" \in W!End
  BY DEF Stations, W!End
<1>4. SessionTypes'
  BY <1>1, <1>2, <1>3, Zenon DEF SessionTypes
<1>5. PICK st : st = "returned"
  OBVIOUS
<1> QED BY <1>2, <1>3, <1>4, <1>5, SessionGoes, Zenon

(* The condition of the loop of Start.                                     *)
LEMMA SessionCheckEnd ==
  ASSUME SessionIInv, NEW p \in W!End, NEW q \in W!End, p # q, W!CheckEnd(p)
  PROVE  SessionIInv'
<1>1. SessionTypes
  BY DEF SessionIInv
<1>2. PICK st : st \in {"read", "returned"} /\ wStart' = [wStart EXCEPT ![p] = st]
  BY Zenon DEF W!CheckEnd, W!GoTo
<1>3. /\ wStart[p] = "loop"
      /\ UNCHANGED <<wAccepted, wHasInit, wCalls, wOpen, wLink, wAlive, wLock, wTodo, wCall,
                     wSent, wBeforeClose, wOut, wStrm, wEos, wClosed, wMessage, wReceived>>
  BY DEF W!CheckEnd, W!object, W!net, W!writing
<1>4. wTold' \in [W!End -> Seq(BOOLEAN)]
  <2>1. wTold[p] \in Seq(BOOLEAN) /\ FALSE \in BOOLEAN
    BY <1>1 DEF SessionTypes
  <2>2. Append(wTold[p], FALSE) \in Seq(BOOLEAN)
    BY <2>1, AppendProperties
  <2>3. wTold' = wTold \/ wTold' = [wTold EXCEPT ![p] = Append(wTold[p], FALSE)]
    BY Zenon DEF W!CheckEnd
  <2> QED BY <1>1, <2>2, <2>3, Zenon DEF SessionTypes
<1>5. st \in Stations
  BY <1>2 DEF Stations
<1>6. SessionTypes'
  BY <1>1, <1>2, <1>3, <1>4, <1>5, Zenon DEF SessionTypes
<1> QED BY <1>2, <1>3, <1>5, <1>6, SessionGoes, Zenon

(* The stream ends between two frames.                                     *)
LEMMA SessionReadEnd ==
  ASSUME SessionIInv, NEW p \in W!End, NEW q \in W!End, p # q, W!ReadEnd(p)
  PROVE  SessionIInv'
<1>1. SessionTypes
  BY DEF SessionIInv
<1>2. PICK st : st = "returned"
  OBVIOUS
<1>3. /\ wStart' = [wStart EXCEPT ![p] = st] /\ wStart[p] = "read"
      /\ wEos' = [wEos EXCEPT ![p] = TRUE]
      /\ UNCHANGED <<wAccepted, wHasInit, wCalls, wOpen, wLink, wAlive, wLock, wTodo, wCall,
                     wSent, wBeforeClose, wOut, wStrm, wClosed, wMessage, wReceived, wTold>>
  BY <1>2 DEF W!ReadEnd, W!GoTo, W!object, W!net, W!writing
<1>4. st \in Stations
  BY <1>2 DEF Stations
<1>5. SessionTypes'
  BY <1>1, <1>3, <1>4, Zenon DEF SessionTypes
<1> QED BY <1>2, <1>3, <1>4, <1>5, SessionGoes, Zenon

(* A frame less on its way.                                                *)
LEMMA LastIsTorn ==
  ASSUME NEW o \in Seq(Wares), o # <<>>, NEW lnk,
         \A k \in 1 .. Len(o) : o[k].part[2] = -1 => lnk = "lost" /\ k = Len(o)
  PROVE  /\ Head(o) = o[1] /\ o[1] \in Wares /\ Tail(o) \in Seq(Wares)
         /\ o[1].part[2] = -1 => lnk = "lost" /\ Len(o) = 1
         /\ \A k \in 1 .. Len(Tail(o)) :
              Tail(o)[k].part[2] = -1 => lnk = "lost" /\ k = Len(Tail(o))
<1>1. PICK n : n = Len(o)
  OBVIOUS
<1>2. n \in Nat /\ n # 0 /\ 1 \in 1 .. n
  <2>1. n \in Nat /\ n # 0
    BY <1>1, LenProperties, EmptySeq
  <2> QED BY <2>1
<1>3. PICK r : r = Tail(o)
  BY Zenon
<1>4. /\ Head(o) = o[1] /\ r \in Seq(Wares) /\ Len(r) = n - 1
      /\ \A k \in 1 .. n - 1 : r[k] = o[k + 1]
  <2>1. /\ Head(o) = o[1] /\ r \in Seq(Wares) /\ Len(r) = n - 1
        /\ \A k \in 1 .. Len(r) : r[k] = o[k + 1]
    BY <1>1, <1>3, HeadTailProperties
  <2> QED BY <2>1
<1>5. \A k \in 1 .. n - 1 : k + 1 \in 1 .. n /\ (k + 1 = n <=> k = n - 1)
  BY <1>2
<1>6. o[1] \in Wares
  BY <1>1, <1>2, ElementOfSeq
<1>7. o[1].part[2] = -1 => lnk = "lost" /\ Len(o) = 1
  BY <1>1, <1>2
<1>8. \A k \in 1 .. Len(r) : r[k].part[2] = -1 => lnk = "lost" /\ k = Len(r)
  BY <1>1, <1>4, <1>5
<1> QED BY <1>3, <1>4, <1>6, <1>7, <1>8

(* A direction whose reader takes a frame that is not data.                *)
LEMMA WayReadsControl ==
  ASSUME NEW lnk, NEW o \in Seq(Wares), o # <<>>, NEW td, NEW s \in Seq(Positive), NEW b, NEW lk,
         NEW m, NEW g \in Seq(Seq(Parts)), NEW st, NEW br,
         Whence(lnk, o, td, s, b, lk, m, g, st, br), ~IsData(o[1]), st # "deliver", NEW st2
  PROVE  Whence(lnk, Tail(o), td, s, b, lk, m, g, st2, br)
<1>1. Flow(lnk, Tail(o), td, s, b, m, g, st2, br)
  BY FlowReadsControl DEF Whence
<1>2. \A k \in 1 .. Len(Tail(o)) : Tail(o)[k].part[2] = -1 => lnk = "lost" /\ k = Len(Tail(o))
  BY LastIsTorn DEF Whence
<1> QED BY <1>1, <1>2 DEF Whence

(* A direction whose reader takes a fragment.                              *)
LEMMA WayReadsData ==
  ASSUME NEW lnk, NEW o \in Seq(Wares), o # <<>>, NEW td, NEW s \in Seq(Positive), NEW b, NEW lk,
         NEW m, NEW g \in Seq(Seq(Parts)), NEW br,
         Whence(lnk, o, td, s, b, lk, m, g, "read", br), IsData(o[1]),
         NEW m2, m2 = IF o[1].op = "first" THEN <<o[1].part>>
                         ELSE IF m = <<>> THEN m ELSE Append(m, o[1].part),
         NEW st2, st2 = IF o[1].fin THEN "deliver" ELSE "loop"
  PROVE  Whence(lnk, Tail(o), td, s, b, lk, m2, g, st2, br)
<1>1. o[1].part[2] = -1 => lnk = "lost" /\ Len(o) = 1
  BY LastIsTorn, Zenon DEF Whence
<1>2. Flow(lnk, o, td, s, b, m, g, "read", br)
  BY DEF Whence
<1>3. Flow(lnk, Tail(o), td, s, b, m2, g, st2, br)
  BY <1>1, <1>2, FlowReadsData, Zenon
<1>4. \A k \in 1 .. Len(Tail(o)) : Tail(o)[k].part[2] = -1 => lnk = "lost" /\ k = Len(Tail(o))
  BY LastIsTorn, Zenon DEF Whence
<1> QED BY <1>3, <1>4 DEF Whence

(* What Start has before it when it reads a frame.                         *)
LEMMA Incomes ==
  ASSUME SessionIInv, NEW p \in W!End, NEW q \in W!End, p # q, NEW ops, W!Reads(p, ops)
  PROVE  /\ SessionTypes /\ wStart[p] = "read"
         /\ wOut[q] \in Seq(Wares) /\ wOut[q] # <<>>
         /\ W!Incoming(p) = wOut[q][1] /\ wOut[q][1] \in Wares /\ wOut[q][1].op \in ops
         /\ wOut' = [wOut EXCEPT ![q] = Tail(wOut[q])]
         /\ Tail(wOut[q]) \in Seq(Wares)
         /\ wCall[p]["start"].kind = "none"
<1>1. SessionTypes /\ Way(q, p) /\ InItsCall(p) /\ W!Peer(p) = q
  BY Peers DEF SessionIInv
<1>2. /\ wStart[p] = "read" /\ wOut[q] # <<>> /\ Head(wOut[q]).op \in ops
      /\ W!Incoming(p) = Head(wOut[q])
      /\ wOut' = [wOut EXCEPT ![q] = Tail(wOut[q])]
  BY <1>1 DEF W!Reads, W!Incoming
<1>3. wOut[q] \in Seq(Wares)
  BY <1>1 DEF SessionTypes
<1>4. Head(wOut[q]) = wOut[q][1] /\ wOut[q][1] \in Wares
  BY <1>1, <1>2, <1>3, LastIsTorn DEF Way, Whence
<1>5. Tail(wOut[q]) \in Seq(Wares)
  BY <1>1, <1>2, <1>3, LastIsTorn DEF Way, Whence
<1> QED BY <1>1, <1>2, <1>3, <1>4, <1>5 DEF InItsCall

(* A frame that is not data: only the place of Start, what it calls and    *)
(* what it tells change.                                                   *)
LEMMA SessionReadsControl ==
  ASSUME SessionIInv, NEW p \in W!End, NEW q \in W!End, p # q,
         W!Reads(p, {"ping", "pong", "close"}),
         NEW st \in Stations, wStart' = [wStart EXCEPT ![p] = st],
         st \notin {"connect", "begin", "handshake"},
         NEW c \in Sends, wCall' = [wCall EXCEPT ![p] = [wCall[p] EXCEPT !["start"] = c]],
         c.kind # "none" => st = "call",
         wEos' \in [W!End -> BOOLEAN], wTold' \in [W!End -> Seq(BOOLEAN)],
         UNCHANGED <<wLink, wAlive, wAccepted, wHasInit, wCalls, wOpen, wStrm, wClosed, wLock,
                     wTodo, wMessage, wSent, wReceived, wBeforeClose>>
  PROVE  SessionIInv'
<1>1. Way(q, p)
  BY DEF SessionIInv
<1>2. /\ SessionTypes /\ wStart[p] = "read" /\ wOut[q] \in Seq(Wares) /\ wOut[q] # <<>>
      /\ wOut[q][1].op \in {"ping", "pong", "close"}
      /\ wOut' = [wOut EXCEPT ![q] = Tail(wOut[q])] /\ Tail(wOut[q]) \in Seq(Wares)
  BY Incomes
<1>3. [wCall[p] EXCEPT !["start"] = c] \in BothCalls
  BY <1>2, Zenon DEF SessionTypes, BothCalls
<1>4. SessionTypes'
  BY <1>2, <1>3, Zenon DEF SessionTypes
<1>5. /\ wOut'[p] = wOut[p] /\ wOut'[q] = Tail(wOut[q]) /\ wStart'[p] = st /\ wStart'[q] = wStart[q]
      /\ wCall'[q] = wCall[q] /\ wCall'[p]["start"] = c
  BY <1>2 DEF SessionTypes, BothCalls, W!Thread
<1>6. ~IsData(wOut[q][1])
  BY <1>2 DEF IsData
<1>7. wSent[q] \in Seq(Positive) /\ wReceived[p] \in Seq(Seq(Parts))
  BY <1>2 DEF SessionTypes
<1>8. PICK at : at = "read"
  OBVIOUS
<1>9. Whence(wLink, wOut[q], wTodo[q], wSent[q], wBeforeClose[q], wLock[q],
             wMessage[p], wReceived[p], at, wLink = "lost" \/ wAlive[p] # "up")
  BY <1>1, <1>2, <1>8 DEF Way
<1>10. Whence(wLink, Tail(wOut[q]), wTodo[q], wSent[q], wBeforeClose[q], wLock[q],
              wMessage[p], wReceived[p], st, wLink = "lost" \/ wAlive[p] # "up")
  BY <1>2, <1>6, <1>7, <1>8, <1>9, WayReadsControl, Zenon
<1>11. Way(q, p)'
  BY <1>5, <1>10 DEF Way
<1>12. InItsCall(p)'
  BY <1>5 DEF InItsCall
<1> QED BY <1>2, <1>4, <1>5, <1>11, <1>12, SessionReaderSteps

(* A call that stays what it is.                                           *)
LEMMA SameCall ==
  ASSUME SessionTypes, NEW p \in W!End, NEW c, c = wCall[p]["start"]
  PROVE  wCall = [wCall EXCEPT ![p] = [wCall[p] EXCEPT !["start"] = c]] /\ c \in Sends
BY DEF SessionTypes, BothCalls, W!Thread

(* OnClose is called.                                                      *)
LEMMA TellsMore ==
  ASSUME SessionTypes, NEW p \in W!End, NEW z \in BOOLEAN
  PROVE  [wTold EXCEPT ![p] = Append(wTold[p], z)] \in [W!End -> Seq(BOOLEAN)]
<1>1. wTold[p] \in Seq(BOOLEAN)
  BY DEF SessionTypes
<1>2. Append(wTold[p], z) \in Seq(BOOLEAN)
  BY <1>1, AppendProperties
<1> QED BY <1>2 DEF SessionTypes

(* Reading one of more kinds of frames.                                    *)
LEMMA ReadsMore ==
  ASSUME NEW p, NEW a, NEW A, W!Reads(p, a), a \subseteq A
  PROVE  W!Reads(p, A)
BY DEF W!Reads

(* A ping comes in.                                                        *)
LEMMA SessionReadPing ==
  ASSUME SessionIInv, NEW p \in W!End, NEW q \in W!End, p # q, W!ReadPing(p)
  PROVE  SessionIInv'
<1>1. SessionTypes
  BY DEF SessionIInv
<1>2. PICK c : c = [kind |-> "pong", size |-> 0]
  BY Zenon
<1>3. PICK st : st = "call"
  OBVIOUS
<1>4. W!Reads(p, {"ping", "pong", "close"})
  <2>1. W!Reads(p, {"ping"})
    BY DEF W!ReadPing
  <2> QED BY <2>1, ReadsMore
<1>5. /\ wStart' = [wStart EXCEPT ![p] = st]
      /\ wCall' = [wCall EXCEPT ![p] = [wCall[p] EXCEPT !["start"] = c]]
      /\ UNCHANGED <<wLink, wAlive, wAccepted, wHasInit, wCalls, wOpen, wStrm, wClosed, wLock,
                     wTodo, wMessage, wSent, wReceived, wTold, wBeforeClose>>
  BY <1>2, <1>3, Zenon DEF W!ReadPing, W!GoTo, W!object, W!net
<1>6. wEos' \in [W!End -> BOOLEAN]
  <2>1. PICK z : z = (wEos[p] \/ W!IsTorn(W!Incoming(p)))
    OBVIOUS
  <2>2. wEos' = [wEos EXCEPT ![p] = z]
    BY <2>1 DEF W!ReadPing
  <2>3. z \in BOOLEAN
    BY <2>1
  <2> QED BY <1>1, <2>2, <2>3 DEF SessionTypes
<1>7. c \in Sends /\ st \in Stations
  BY <1>2, <1>3 DEF Sends, Stations
<1>8. wTold' \in [W!End -> Seq(BOOLEAN)]
  BY <1>1, <1>5 DEF SessionTypes
<1> QED BY <1>3, <1>4, <1>5, <1>6, <1>7, <1>8, SessionReadsControl, Zenon

(* A pong comes in.                                                        *)
LEMMA SessionReadPong ==
  ASSUME SessionIInv, NEW p \in W!End, NEW q \in W!End, p # q, W!ReadPong(p)
  PROVE  SessionIInv'
<1>1. SessionTypes
  BY DEF SessionIInv
<1>2. W!Reads(p, {"pong"})
  BY DEF W!ReadPong
<1>3. W!Reads(p, {"ping", "pong", "close"})
  BY <1>2, ReadsMore
<1>4. PICK c : c = wCall[p]["start"]
  OBVIOUS
<1>5. c \in Sends /\ c.kind = "none"
  BY <1>1, <1>2, <1>4, SameCall, Incomes
<1>6. PICK st : st \in {"garbled", "deliver"} /\ wStart' = [wStart EXCEPT ![p] = st]
  BY Zenon DEF W!ReadPong, W!GoTo
<1>7. UNCHANGED <<wLink, wAlive, wAccepted, wHasInit, wCalls, wOpen, wStrm, wClosed, wLock, wCall,
                  wTodo, wMessage, wSent, wReceived, wTold, wBeforeClose>>
  BY DEF W!ReadPong, W!object, W!net, W!writing
<1>8. wCall' = [wCall EXCEPT ![p] = [wCall[p] EXCEPT !["start"] = c]]
  BY <1>1, <1>4, <1>7, SameCall
<1>9. wEos' \in [W!End -> BOOLEAN]
  <2>1. PICK z : z = (wEos[p] \/ W!IsTorn(W!Incoming(p)))
    OBVIOUS
  <2>2. wEos' = [wEos EXCEPT ![p] = z]
    BY <2>1 DEF W!ReadPong
  <2>3. z \in BOOLEAN
    BY <2>1
  <2> QED BY <1>1, <2>2, <2>3 DEF SessionTypes
<1>10. st \in Stations
  BY <1>6 DEF Stations
<1>11. wTold' \in [W!End -> Seq(BOOLEAN)]
  BY <1>1, <1>7 DEF SessionTypes
<1> QED BY <1>3, <1>5, <1>6, <1>7, <1>8, <1>9, <1>10, <1>11, SessionReadsControl, Zenon

(* A close frame comes in.                                                 *)
LEMMA SessionReadClose ==
  ASSUME SessionIInv, NEW p \in W!End, NEW q \in W!End, p # q, W!ReadClose(p)
  PROVE  SessionIInv'
<1>1. SessionTypes
  BY DEF SessionIInv
<1>2. W!Reads(p, {"close"})
  BY DEF W!ReadClose
<1>3. W!Reads(p, {"ping", "pong", "close"})
  BY <1>2, ReadsMore
<1>4. UNCHANGED <<wLink, wAlive, wAccepted, wHasInit, wCalls, wOpen, wStrm, wEos, wClosed, wLock,
                  wTodo, wMessage, wSent, wReceived, wBeforeClose>>
  BY DEF W!ReadClose, W!object, W!net
<1>5. wEos' \in [W!End -> BOOLEAN]
  BY <1>1, <1>4 DEF SessionTypes
<1>6. CASE wClosed[p]
  <2>1. PICK st : st = "returned"
    OBVIOUS
  <2>2. /\ wStart' = [wStart EXCEPT ![p] = st] /\ wCall' = wCall
        /\ wTold' = [wTold EXCEPT ![p] = Append(wTold[p], TRUE)]
    BY <1>6, <2>1, Zenon DEF W!ReadClose, W!GoTo
  <2>3. PICK c : c = wCall[p]["start"]
    OBVIOUS
  <2>4. c \in Sends /\ c.kind = "none"
    BY <1>1, <1>2, <2>3, SameCall, Incomes
  <2>5. wCall' = [wCall EXCEPT ![p] = [wCall[p] EXCEPT !["start"] = c]]
    BY <1>1, <2>2, <2>3, SameCall
  <2>6. wTold' \in [W!End -> Seq(BOOLEAN)]
    BY <1>1, <2>2, TellsMore, Zenon
  <2>7. st \in Stations
    BY <2>1 DEF Stations
  <2> QED BY <1>3, <1>4, <1>5, <2>1, <2>2, <2>4, <2>5, <2>6, <2>7, SessionReadsControl, Zenon
<1>7. CASE ~wClosed[p]
  <2>1. PICK st : st = "call"
    OBVIOUS
  <2>2. PICK c : c = [kind |-> "close", size |-> 0]
    BY Zenon
  <2>3. /\ wStart' = [wStart EXCEPT ![p] = st] /\ wTold' = wTold
        /\ wCall' = [wCall EXCEPT ![p] = [wCall[p] EXCEPT !["start"] = c]]
    BY <1>7, <2>1, <2>2 DEF W!ReadClose, W!GoTo
  <2>4. c \in Sends /\ st \in Stations
    BY <2>1, <2>2 DEF Sends, W!Operations, Stations
  <2>5. wTold' \in [W!End -> Seq(BOOLEAN)]
    BY <1>1, <2>3 DEF SessionTypes
  <2> QED BY <1>3, <1>4, <1>5, <2>1, <2>3, <2>4, <2>5, SessionReadsControl, Zenon
<1> QED BY <1>6, <1>7

(* A fragment comes in.                                                    *)
LEMMA SessionReadData ==
  ASSUME SessionIInv, NEW p \in W!End, NEW q \in W!End, p # q, W!ReadData(p)
  PROVE  SessionIInv'
<1>1. Way(q, p) /\ InItsCall(p)
  BY DEF SessionIInv
<1>2. PICK o : o = wOut[q]
  OBVIOUS
<1>3. W!Reads(p, {"first", "more"})
  BY DEF W!ReadData
<1>4. /\ SessionTypes /\ wStart[p] = "read" /\ o \in Seq(Wares) /\ o # <<>>
      /\ W!Incoming(p) = o[1] /\ o[1] \in Wares /\ o[1].op \in {"first", "more"}
      /\ wOut' = [wOut EXCEPT ![q] = Tail(o)] /\ Tail(o) \in Seq(Wares)
      /\ wCall[p]["start"].kind = "none"
  BY <1>2, <1>3, Incomes
<1>5. PICK m : m = wMessage[p]
  OBVIOUS
<1>6. PICK m2 : m2 = IF o[1].op = "first" THEN <<o[1].part>>
                     ELSE IF m = <<>> THEN m ELSE Append(m, o[1].part)
  BY Zenon
<1>7. PICK st : st = IF o[1].fin THEN "deliver" ELSE "loop"
  OBVIOUS
<1>8. wMessage' = [wMessage EXCEPT ![p] = m2]
  <2>1. wMessage' = [wMessage EXCEPT ![p] =
                       CASE o[1].op = "first" -> <<o[1].part>>
                         [] o[1].op = "more" /\ m = <<>> -> m
                         [] o[1].op = "more" /\ m # <<>> -> Append(m, o[1].part)]
    BY <1>4, <1>5 DEF W!ReadData
  <2>2. CASE o[1].op = "first"
    <3>1. o[1].op # "more"
      BY <2>2
    <3> QED BY <1>6, <2>1, <2>2, <3>1
  <2>3. CASE o[1].op = "more"
    <3>1. o[1].op # "first"
      BY <2>3
    <3> QED BY <1>6, <2>1, <2>3, <3>1, Zenon
  <2> QED BY <1>4, <2>2, <2>3
<1>9. /\ wStart' = [wStart EXCEPT ![p] = st]
      /\ UNCHANGED <<wLink, wAlive, wAccepted, wHasInit, wCalls, wOpen, wStrm, wClosed, wLock,
                     wCall, wTodo, wSent, wReceived, wTold, wBeforeClose>>
  BY <1>4, <1>7 DEF W!ReadData, W!GoTo, W!object, W!net, W!writing
<1>10. wEos' \in [W!End -> BOOLEAN]
  <2>1. PICK z : z = (wEos[p] \/ W!IsTorn(W!Incoming(p)))
    OBVIOUS
  <2>2. wEos' = [wEos EXCEPT ![p] = z]
    BY <2>1 DEF W!ReadData
  <2>3. z \in BOOLEAN
    BY <2>1
  <2> QED BY <1>4, <2>2, <2>3 DEF SessionTypes
<1>11. st \in Stations /\ st \in {"deliver", "loop"}
  BY <1>7 DEF Stations
<1>12. m2 \in Seq(Parts) /\ m \in Seq(Parts)
  <2>1. PICK t : t = o[1].part
    OBVIOUS
  <2>2. t \in Parts
    BY <1>4, <2>1 DEF Wares, Parts
  <2>3. m \in Seq(Parts)
    BY <1>4, <1>5 DEF SessionTypes
  <2>4. <<t>> \in Seq(Parts) /\ Append(m, t) \in Seq(Parts)
    BY <2>2, <2>3, AppendProperties
  <2> QED BY <1>6, <2>1, <2>3, <2>4
<1>13. SessionTypes'
  BY <1>4, <1>8, <1>9, <1>10, <1>11, <1>12, Zenon DEF SessionTypes
<1>14. /\ wOut'[p] = wOut[p] /\ wOut'[q] = Tail(o) /\ wStart'[p] = st /\ wStart'[q] = wStart[q]
       /\ wMessage'[p] = m2 /\ wMessage'[q] = wMessage[q]
  BY <1>4, <1>8, <1>9 DEF SessionTypes
<1>15. IsData(o[1]) /\ wSent[q] \in Seq(Positive) /\ wReceived[p] \in Seq(Seq(Parts))
  BY <1>4 DEF SessionTypes, IsData
<1>16. Whence(wLink, o, wTodo[q], wSent[q], wBeforeClose[q], wLock[q],
              m, wReceived[p], "read", wLink = "lost" \/ wAlive[p] # "up")
  BY <1>1, <1>2, <1>4, <1>5 DEF Way
<1>17. Whence(wLink, Tail(o), wTodo[q], wSent[q], wBeforeClose[q], wLock[q],
              m2, wReceived[p], st, wLink = "lost" \/ wAlive[p] # "up")
  BY <1>4, <1>6, <1>7, <1>15, <1>16, WayReadsData, Zenon
<1>18. Way(q, p)'
  BY <1>9, <1>14, <1>17 DEF Way
<1>19. InItsCall(p)'
  BY <1>4, <1>9 DEF InItsCall
<1> QED BY <1>4, <1>9, <1>11, <1>13, <1>14, <1>18, <1>19, SessionReaderSteps

(* A message that is whole is given to OnReceive.                          *)
LEMMA SessionDeliver ==
  ASSUME SessionIInv, NEW p \in W!End, NEW q \in W!End, p # q, W!Deliver(p)
  PROVE  SessionIInv'
<1>1. SessionTypes /\ Way(q, p) /\ InItsCall(p)
  BY DEF SessionIInv
<1>2. PICK m : m = wMessage[p]
  OBVIOUS
<1>3. PICK g : g = wReceived[p]
  OBVIOUS
<1>4. PICK g2 : g2 = IF m = <<>> THEN g ELSE Append(g, m)
  BY Zenon
<1>5. PICK st : st = IF m # <<>> /\ p \in Echo THEN "call" ELSE "loop"
  OBVIOUS
<1>6. /\ wStart[p] = "deliver" /\ wStart' = [wStart EXCEPT ![p] = st]
      /\ wMessage' = [wMessage EXCEPT ![p] = <<>>]
      /\ UNCHANGED <<wLink, wAlive, wAccepted, wHasInit, wCalls, wOpen, wOut, wStrm, wEos, wClosed,
                     wLock, wTodo, wSent, wTold, wBeforeClose>>
  BY <1>2, <1>5 DEF W!Deliver, W!GoTo, W!object, W!net
<1>7. wReceived' = [wReceived EXCEPT ![p] = g2]
  <2>1. wReceived' = IF m = <<>> THEN wReceived ELSE [wReceived EXCEPT ![p] = Append(g, m)]
    BY <1>2, <1>3 DEF W!Deliver
  <2>2. wReceived = [wReceived EXCEPT ![p] = g]
    BY <1>1, <1>3 DEF SessionTypes
  <2> QED BY <1>4, <2>1, <2>2, Zenon
<1>8. PICK c : /\ c \in Sends /\ (c.kind # "none" => st = "call")
               /\ wCall' = [wCall EXCEPT ![p] = [wCall[p] EXCEPT !["start"] = c]]
  <2>1. CASE m # <<>> /\ p \in Echo
    <3>1. PICK c : c = [kind |-> "data", size |-> 1]
      BY Zenon
    <3>2. wCall' = [wCall EXCEPT ![p] = [wCall[p] EXCEPT !["start"] = c]]
      BY <1>2, <2>1, <3>1, Zenon DEF W!Deliver
    <3>3. c \in Sends /\ st = "call"
      BY <1>5, <2>1, <3>1 DEF Sends
    <3> QED BY <3>2, <3>3, Zenon
  <2>2. CASE ~(m # <<>> /\ p \in Echo)
    <3>1. PICK c : c = wCall[p]["start"]
      OBVIOUS
    <3>2. wCall' = wCall
      BY <1>2, <2>2 DEF W!Deliver
    <3>3. /\ c \in Sends
          /\ wCall = [wCall EXCEPT ![p] = [wCall[p] EXCEPT !["start"] = c]]
      BY <1>1, <3>1, SameCall
    <3>4. c.kind = "none"
      BY <1>1, <1>6, <3>1 DEF InItsCall
    <3> QED BY <3>2, <3>3, <3>4
  <2> QED BY <2>1, <2>2
<1>9. st \in Stations /\ st \in {"call", "loop"}
  BY <1>5 DEF Stations
<1>10. m \in Seq(Parts) /\ g \in Seq(Seq(Parts)) /\ g2 \in Seq(Seq(Parts)) /\ <<>> \in Seq(Parts)
  <2>1. m \in Seq(Parts) /\ g \in Seq(Seq(Parts))
    BY <1>1, <1>2, <1>3 DEF SessionTypes
  <2>2. Append(g, m) \in Seq(Seq(Parts))
    BY <2>1, AppendProperties
  <2> QED BY <1>4, <2>1, <2>2
<1>11. [wCall[p] EXCEPT !["start"] = c] \in BothCalls
  BY <1>1, <1>8, Zenon DEF SessionTypes, BothCalls
<1>12. SessionTypes'
  BY <1>1, <1>6, <1>7, <1>8, <1>9, <1>10, <1>11, Zenon DEF SessionTypes
<1>13. /\ wStart'[p] = st /\ wStart'[q] = wStart[q] /\ wMessage'[p] = <<>>
       /\ wMessage'[q] = wMessage[q] /\ wReceived'[p] = g2 /\ wReceived'[q] = wReceived[q]
       /\ wCall'[q] = wCall[q] /\ wCall'[p]["start"] = c
  BY <1>1, <1>6, <1>7, <1>8 DEF SessionTypes, BothCalls, W!Thread
<1>14. Way(q, p)'
  <2>1. Whence(wLink, wOut[q], wTodo[q], wSent[q], wBeforeClose[q], wLock[q],
               m, g, "deliver", wLink = "lost" \/ wAlive[p] # "up")
    BY <1>1, <1>2, <1>3, <1>6 DEF Way
  <2>2. Flow(wLink, wOut[q], wTodo[q], wSent[q], wBeforeClose[q],
             m, g, "deliver", wLink = "lost" \/ wAlive[p] # "up")
    BY <2>1 DEF Whence
  <2>3. Flow(wLink, wOut[q], wTodo[q], wSent[q], wBeforeClose[q],
             <<>>, g2, st, wLink = "lost" \/ wAlive[p] # "up")
    <3>1. st # "deliver"
      BY <1>9
    <3> QED BY <1>4, <1>10, <2>2, <3>1, FlowDelivers, Zenon
  <2>4. Whence(wLink, wOut[q], wTodo[q], wSent[q], wBeforeClose[q], wLock[q],
               <<>>, g2, st, wLink = "lost" \/ wAlive[p] # "up")
    BY <2>1, <2>3 DEF Whence
  <2> QED BY <1>6, <1>13, <2>4 DEF Way
<1>15. InItsCall(p)'
  BY <1>8, <1>13 DEF InItsCall
<1> QED BY <1>6, <1>9, <1>12, <1>13, <1>14, <1>15, SessionReaderSteps

(* The head of the 101 answer.                                             *)
LEMMA SessionWriteHeaders ==
  ASSUME SessionIInv, NEW p \in W!End, NEW q \in W!End, p # q, p = "server", W!WriteHeaders
  PROVE  SessionIInv'
<1>1. /\ SessionTypes /\ Bounded /\ Way(p, q) /\ Way(q, p) /\ InItsCall(p) /\ InItsCall(q)
      /\ HeadFirst /\ q = "client" /\ W!Peer(p) = q
  BY Peers DEF SessionIInv
<1>2. /\ wStart[p] = "handshake"
      /\ UNCHANGED <<wLink, wAlive, wLock, wTodo, wCall, wSent, wBeforeClose, wAccepted, wStrm,
                     wClosed, wCalls, wOpen, wMessage, wReceived, wTold>>
  BY DEF W!WriteHeaders, W!net, W!writing
<1>3. wEos' \in [W!End -> BOOLEAN]
  BY <1>1, Zenon DEF W!WriteHeaders, SessionTypes
<1>4. PICK br \in BOOLEAN : br = (wLink = "lost" \/ wAlive[q] # "up")
  BY Zenon
<1>5. PICK o : o = wOut[p]
  OBVIOUS
<1>6. PICK td : td = wTodo[p]
  OBVIOUS
<1>7. PICK f : f = W!Control("head")
  OBVIOUS
<1>8. f \in Wares /\ f.op = "head" /\ f.part[2] # -1 /\ ~IsData(f)
  BY <1>7 DEF W!Control, Wares, Operands, IsData
<1>9. o \in Seq(Wares)
  BY <1>1, <1>5 DEF SessionTypes
<1>10. HeadHolds(o, td, wHasInit[p], wStart[q], wStart[p], br)
  BY <1>1, <1>4, <1>5, <1>6 DEF HeadFirst
<1>11. ~(td # <<>> /\ IsData(td[1]))
  BY <1>2, <1>10 DEF HeadHolds
<1>12. PICK has, st, o2 :
         /\ has \in BOOLEAN /\ st \in {"loop", "threw"}
         /\ wOut' = [wOut EXCEPT ![p] = o2] /\ wHasInit' = [wHasInit EXCEPT ![p] = has]
         /\ wStart' = [wStart EXCEPT ![p] = st]
         /\ br => o2 = o
         /\ ~br => o2 = Append(o, f)
  <2>1. wOut = [wOut EXCEPT ![p] = o] /\ wHasInit = [wHasInit EXCEPT ![p] = wHasInit[p]]
    BY <1>1, <1>5 DEF SessionTypes
  <2>2. W!Broken("server") = br
    BY <1>1, <1>4 DEF W!Broken
  <2>3. CASE /\ wOut' = IF W!Broken("server") THEN wOut
                        ELSE [wOut EXCEPT !["server"] = Append(@, W!Control("head"))]
             /\ wHasInit' = [wHasInit EXCEPT !["server"] = TRUE]
             /\ W!GoTo("server", "loop")
    <3>1. wOut' = [wOut EXCEPT ![p] = IF br THEN o ELSE Append(o, f)]
      BY <1>5, <1>7, <2>1, <2>2, <2>3, Zenon
    <3>2. wHasInit' = [wHasInit EXCEPT ![p] = TRUE] /\ wStart' = [wStart EXCEPT ![p] = "loop"]
      BY <2>3 DEF W!GoTo
    <3> QED BY <3>1, <3>2, Zenon
  <2>4. CASE W!Broken("server") /\ W!GoTo("server", "threw") /\ UNCHANGED <<wOut, wHasInit>>
    <3>1. wStart' = [wStart EXCEPT ![p] = "threw"]
      BY <2>4 DEF W!GoTo
    <3>2. wHasInit[p] \in BOOLEAN
      BY <1>1 DEF SessionTypes
    <3> QED BY <2>1, <2>2, <2>4, <3>1, <3>2, Zenon
  <2> QED BY <2>3, <2>4, Zenon DEF W!WriteHeaders
<1>13. o2 \in Seq(Wares)
  BY <1>4, <1>8, <1>9, <1>12, AppendProperties
<1>14. st \in Stations
  BY <1>12 DEF Stations
<1>15. SessionTypes'
  BY <1>1, <1>2, <1>3, <1>12, <1>13, <1>14, Zenon DEF SessionTypes
<1>16. /\ wOut'[p] = o2 /\ wOut'[q] = wOut[q] /\ wStart'[p] = st /\ wStart'[q] = wStart[q]
       /\ wHasInit'[p] = has
  BY <1>1, <1>12 DEF SessionTypes
<1>17. Bounded'
  BY <1>1, <1>2 DEF Bounded
<1>18. Way(p, q)'
  <2>1. PICK s : s = wSent[p]
    OBVIOUS
  <2>2. PICK b : b = wBeforeClose[p]
    OBVIOUS
  <2>3. Whence(wLink, o, td, s, b, wLock[p], wMessage[q], wReceived[q], wStart[q], br)
    BY <1>1, <1>4, <1>5, <1>6, <2>1, <2>2 DEF Way
  <2>4. Whence(wLink, o2, td, s, b, wLock[p], wMessage[q], wReceived[q], wStart[q], br)
    <3>1. CASE br
      BY <1>12, <2>3, <3>1, Zenon
    <3>2. CASE ~br
      <4>1. OneOn(f, td, td, s, b)
        BY <1>8, <1>11 DEF AtWriter, Between, OneOn
      <4>2. wLink # "lost"
        BY <1>4, <3>2, Zenon
      <4>3. Flow(wLink, o, td, s, b, wMessage[q], wReceived[q], wStart[q], FALSE)
        BY <2>3, <3>2 DEF Whence, Flow, Marks
      <4>4. Flow(wLink, o2, td, s, b, wMessage[q], wReceived[q], wStart[q], FALSE)
        <5>1. Flow(wLink, Append(o, f), td, s, b, wMessage[q], wReceived[q], wStart[q], FALSE)
          BY <1>8, <1>9, <4>1, <4>2, <4>3, FlowGrows, Zenon DEF OneOn
        <5> QED BY <1>12, <3>2, <5>1, Zenon
      <4>5. Flow(wLink, o2, td, s, b, wMessage[q], wReceived[q], wStart[q], br)
        BY <3>2, <4>4 DEF Flow, Marks
      <4>6. \A k \in 1 .. Len(o2) : o2[k].part[2] = -1 => wLink = "lost" /\ k = Len(o2)
        <5>1. Len(o2) = Len(o) + 1 /\ o2[Len(o) + 1] = f /\ \A k \in 1 .. Len(o) : o2[k] = o[k]
          BY <1>8, <1>9, <1>12, <3>2, AppendProperties
        <5>2. Len(o) \in Nat
          BY <1>9, LenProperties
        <5>3. \A k \in 1 .. Len(o) : ~(o[k].part[2] = -1)
          BY <2>3, <4>2 DEF Whence
        <5>4. \A k \in 1 .. Len(o2) : k \in 1 .. Len(o) \/ k = Len(o) + 1
          BY <5>1, <5>2
        <5> QED BY <1>8, <5>1, <5>3, <5>4
      <4> QED BY <2>3, <4>5, <4>6 DEF Whence
    <3> QED BY <1>4, <3>1, <3>2
  <2> QED BY <1>2, <1>4, <1>6, <1>16, <2>1, <2>2, <2>4 DEF Way
<1>19. Way(q, p)'
  <2>1. Whence(wLink, wOut[q], wTodo[q], wSent[q], wBeforeClose[q], wLock[q],
               wMessage[p], wReceived[p], st, wLink = "lost" \/ wAlive[p] # "up")
    BY <1>1, <1>2, <1>12, WayMoves DEF Way
  <2> QED BY <1>2, <1>16, <2>1 DEF Way
<1>20. InItsCall(p)' /\ InItsCall(q)'
  BY <1>1, <1>2, <1>16 DEF InItsCall
<1>21. HeadFirst'
  <2>1. HeadHolds(o2, td, has, wStart[q], st, br)
    <3>1. ASSUME wStart[q] = "connect"
          PROVE  HeadBefore(o2) /\ (has /\ ~br => HasHead(o2))
      <4>1. HeadBefore(o)
        BY <1>10, <3>1 DEF HeadHolds
      <4>2. CASE br
        BY <1>12, <4>1, <4>2
      <4>3. CASE ~br
        <5>1. HeadBefore(Append(o, f)) /\ HasHead(Append(o, f))
          BY <1>8, <1>9, <4>1, HeadedAppend
        <5> QED BY <1>12, <4>3, <5>1, Zenon
      <4> QED BY <1>4, <4>2, <4>3
    <3> QED BY <1>11, <1>12, <3>1 DEF HeadHolds
  <2> QED BY <1>1, <1>2, <1>4, <1>6, <1>16, <2>1 DEF HeadFirst
<1> QED BY <1>15, <1>17, <1>18, <1>19, <1>20, <1>21, BothWays

(* A frame less before the head.                                           *)
LEMMA HeadedTail ==
  ASSUME NEW o \in Seq(Wares), o # <<>>, o[1].op # "head", HeadBefore(o)
  PROVE  HeadBefore(Tail(o)) /\ (HasHead(o) => HasHead(Tail(o)))
<1>1. PICK n : n = Len(o)
  OBVIOUS
<1>2. n \in Nat /\ n # 0
  BY <1>1, LenProperties, EmptySeq
<1>3. PICK r : r = Tail(o)
  BY Zenon
<1>4. Len(r) = n - 1 /\ \A k \in 1 .. n - 1 : r[k] = o[k + 1]
  <2>1. Len(r) = n - 1 /\ \A k \in 1 .. Len(r) : r[k] = o[k + 1]
    BY <1>1, <1>3, HeadTailProperties
  <2> QED BY <2>1
<1>5. ASSUME NEW i \in 1 .. n, o[i].op = "head"
      PROVE  i - 1 \in 1 .. n - 1 /\ r[i - 1].op = "head"
  <2>1. i # 1
    BY <1>5
  <2>2. i - 1 \in 1 .. n - 1 /\ (i - 1) + 1 = i
    BY <1>2, <2>1
  <2> QED BY <1>4, <1>5, <2>2
<1>6. HeadBefore(r)
  <2>1. ASSUME NEW j \in 1 .. Len(r), IsData(r[j])
        PROVE  \E i \in 1 .. j - 1 : r[i].op = "head"
    <3>1. j \in 1 .. n - 1 /\ j + 1 \in 1 .. n /\ (j + 1) - 1 = j
      BY <1>2, <1>4
    <3>2. PICK i \in 1 .. j : o[i].op = "head"
      BY <1>1, <1>4, <2>1, <3>1 DEF HeadBefore
    <3>3. i \in 1 .. n /\ i - 1 <= j - 1
      BY <1>2, <3>1
    <3>4. i - 1 \in 1 .. n - 1 /\ r[i - 1].op = "head"
      BY <1>5, <3>2, <3>3
    <3>5. i - 1 \in 1 .. j - 1
      BY <3>1, <3>3, <3>4
    <3> QED BY <3>4, <3>5
  <2> QED BY <2>1 DEF HeadBefore
<1>7. HasHead(o) => HasHead(r)
  BY <1>1, <1>4, <1>5 DEF HasHead
<1> QED BY <1>3, <1>6, <1>7

(* The client has the answer, or will not get it.                          *)
LEMMA SessionConnected ==
  ASSUME SessionIInv, NEW p \in W!End, NEW q \in W!End, p # q, p = "client", W!Connected
  PROVE  SessionIInv'
<1>1. /\ SessionTypes /\ Bounded /\ Way(p, q) /\ Way(q, p) /\ InItsCall(p) /\ InItsCall(q)
      /\ HeadFirst /\ q = "server"
  BY Peers DEF SessionIInv
<1>2. /\ wStart[p] = "connect"
      /\ UNCHANGED <<wLink, wAlive, wLock, wTodo, wCall, wSent, wBeforeClose, wAccepted, wStrm,
                     wEos, wHasInit, wClosed, wCalls, wMessage, wReceived, wTold>>
  BY DEF W!Connected, W!net, W!writing
<1>3. wOpen' \in [W!End -> {"absent", "running", "done"}]
  BY <1>1, Zenon DEF W!Connected, SessionTypes
<1>4. PICK br \in BOOLEAN : br = (wLink = "lost" \/ wAlive[p] # "up")
  BY Zenon
<1>5. PICK o : o = wOut[q]
  OBVIOUS
<1>6. o \in Seq(Wares)
  BY <1>1, <1>5 DEF SessionTypes
<1>7. PICK br2 \in BOOLEAN : br2 = (wLink = "lost" \/ wAlive["client"] # "up")
  BY Zenon
<1>8. /\ HeadBefore(o) /\ (wHasInit[q] /\ ~br2 => HasHead(o))
      /\ (wTodo[q] # <<>> /\ IsData(wTodo[q][1]) => wHasInit[q])
      /\ (wStart[q] \in {"begin", "handshake"} => ~wHasInit[q])
  BY <1>1, <1>2, <1>5, <1>7, Zenon DEF HeadFirst, HeadHolds
<1>9. PICK o2, st :
        /\ wOut' = [wOut EXCEPT ![q] = o2] /\ wStart' = [wStart EXCEPT ![p] = st]
        /\ st \in {"connect", "begin", "failed"}
        /\ o2 = o \/ (o # <<>> /\ o2 = Tail(o))
        /\ st = "connect" => o # <<>> /\ o2 = Tail(o) /\ o[1].op # "head"
        /\ o2 = o => st = "failed"
  <2>1. wOut = [wOut EXCEPT ![q] = o] /\ wStart = [wStart EXCEPT ![p] = "connect"]
    BY <1>1, <1>2, <1>5 DEF SessionTypes
  <2>2. CASE o # <<>> /\ wOut' = [wOut EXCEPT ![q] = Tail(o)] /\ o[1].op = "head"
             /\ (W!GoTo("client", "begin") \/ W!GoTo("client", "failed"))
    <3>1. PICK st \in {"begin", "failed"} : wStart' = [wStart EXCEPT ![p] = st]
      BY <2>2 DEF W!GoTo
    <3>2. Tail(o) # o
      <4>1. Len(Tail(o)) = Len(o) - 1 /\ Len(o) \in Nat
        BY <1>6, <2>2, HeadTailProperties, LenProperties
      <4> QED BY <4>1
    <3> QED BY <2>2, <3>1, <3>2, Zenon
  <2>3. CASE o # <<>> /\ wOut' = [wOut EXCEPT ![q] = Tail(o)] /\ o[1].op # "head"
             /\ wStart' \in {wStart, [wStart EXCEPT !["client"] = "failed"]}
    <3>1. PICK st \in {"connect", "failed"} : wStart' = [wStart EXCEPT ![p] = st]
      BY <2>1, <2>3
    <3>2. Tail(o) # o
      <4>1. Len(Tail(o)) = Len(o) - 1 /\ Len(o) \in Nat
        BY <1>6, <2>3, HeadTailProperties, LenProperties
      <4> QED BY <4>1
    <3> QED BY <2>3, <3>1, <3>2, Zenon
  <2>4. CASE wOut' = wOut /\ W!GoTo("client", "failed")
    <3>1. wStart' = [wStart EXCEPT ![p] = "failed"]
      BY <2>4 DEF W!GoTo
    <3> QED BY <2>1, <2>4, <3>1, Zenon
  <2>5. o # <<>> => Head(o) = o[1]
    BY <1>6, HeadTailProperties
  <2> QED BY <1>1, <1>5, <2>2, <2>3, <2>4, <2>5, Zenon DEF W!Connected
<1>10. o2 \in Seq(Wares) /\ st \in Stations
  BY <1>6, <1>9, HeadTailProperties, Zenon DEF Stations
<1>11. SessionTypes'
  BY <1>1, <1>2, <1>3, <1>9, <1>10, Zenon DEF SessionTypes
<1>12. /\ wOut'[q] = o2 /\ wOut'[p] = wOut[p] /\ wStart'[p] = st /\ wStart'[q] = wStart[q]
  BY <1>1, <1>9 DEF SessionTypes
<1>13. Bounded'
  BY <1>1, <1>2 DEF Bounded
<1>14. Way(p, q)'
  BY <1>1, <1>2, <1>12 DEF Way
<1>15. Way(q, p)'
  <2>1. PICK at : at = "connect"
    OBVIOUS
  <2>2. Whence(wLink, o, wTodo[q], wSent[q], wBeforeClose[q], wLock[q],
               wMessage[p], wReceived[p], at, br)
    BY <1>1, <1>2, <1>4, <1>5, <2>1 DEF Way
  <2>3. Whence(wLink, o2, wTodo[q], wSent[q], wBeforeClose[q], wLock[q],
               wMessage[p], wReceived[p], st, br)
    <3>1. CASE o2 = o
      BY <1>9, <2>1, <2>2, <3>1, WayMoves
    <3>2. CASE o # <<>> /\ o2 = Tail(o)
      <4>1. ~IsData(o[1])
        <5>1. 1 \in 1 .. Len(o) /\ 1 .. 1 - 1 = {}
          BY <1>6, <3>2, LenProperties, EmptySeq
        <5> QED BY <1>8, <5>1 DEF HeadBefore
      <4>2. wSent[q] \in Seq(Positive) /\ wReceived[p] \in Seq(Seq(Parts))
        BY <1>1 DEF SessionTypes
      <4> QED BY <1>6, <2>1, <2>2, <3>2, <4>1, <4>2, WayReadsControl
    <3> QED BY <1>9, <3>1, <3>2
  <2> QED BY <1>2, <1>4, <1>12, <2>3 DEF Way
<1>16. InItsCall(p)' /\ InItsCall(q)'
  BY <1>1, <1>2, <1>12 DEF InItsCall
<1>17. HeadFirst'
  <2>1. ASSUME st = "connect"
        PROVE  HeadBefore(o2) /\ (wHasInit[q] /\ ~br2 => HasHead(o2))
    BY <1>6, <1>8, <1>9, <2>1, HeadedTail, Zenon
  <2>2. HeadHolds(o2, wTodo[q], wHasInit[q], st, wStart[q], br2)
    BY <1>8, <2>1 DEF HeadHolds
  <2> QED BY <1>1, <1>2, <1>7, <1>12, <2>2 DEF HeadFirst
<1> QED BY <1>11, <1>13, <1>14, <1>15, <1>16, <1>17, BothWays

(* An end is gone: what is sent to it goes nowhere.                        *)
LEMMA SessionEndGoes ==
  ASSUME SessionIInv, NEW p \in W!End, NEW q \in W!End, p # q,
         NEW a \in {"ended", "crashed"}, wAlive' = [wAlive EXCEPT ![p] = a],
         UNCHANGED <<wLink, wOut, wAccepted, wStrm, wEos, wHasInit, wClosed, wLock, wTodo, wCall,
                     wCalls, wOpen, wStart, wMessage, wSent, wReceived, wTold, wBeforeClose>>
  PROVE  SessionIInv'
<1>1. /\ SessionTypes /\ Bounded /\ Way(p, q) /\ Way(q, p) /\ InItsCall(p) /\ InItsCall(q)
      /\ HeadFirst
  BY DEF SessionIInv
<1>2. SessionTypes'
  BY <1>1, Zenon DEF SessionTypes
<1>3. wAlive'[p] = a /\ wAlive'[q] = wAlive[q] /\ a # "up"
  BY <1>1 DEF SessionTypes
<1>4. Bounded'
  BY <1>1 DEF Bounded
<1>5. Way(p, q)'
  BY <1>1, <1>3 DEF Way
<1>6. Way(q, p)'
  <2>1. PICK br \in BOOLEAN : br = (wLink' = "lost" \/ wAlive'[p] # "up")
    BY Zenon
  <2>2. br = TRUE
    BY <1>3, <2>1, Zenon
  <2>3. Whence(wLink, wOut[q], wTodo[q], wSent[q], wBeforeClose[q], wLock[q],
               wMessage[p], wReceived[p], wStart[p], TRUE)
    BY <1>1, WayBreaks, Zenon DEF Way
  <2>4. Whence(wLink, wOut[q], wTodo[q], wSent[q], wBeforeClose[q], wLock[q],
               wMessage[p], wReceived[p], wStart[p], br)
    BY <2>2, <2>3, Zenon
  <2> QED BY <2>1, <2>4 DEF Way
<1>7. InItsCall(p)' /\ InItsCall(q)'
  BY <1>1 DEF InItsCall
<1>8. HeadFirst'
  <2>1. CASE p = "server"
    <3>1. q = "client"
      BY <2>1, Peers
    <3> QED BY <1>1, <1>3, <2>1, <3>1 DEF HeadFirst
  <2>2. CASE q = "server"
    <3>1. p = "client"
      BY <2>2, Peers
    <3> QED BY <1>1, <1>3, <2>2, <3>1 DEF HeadFirst, HeadHolds
  <2> QED BY <2>1, <2>2, Peers
<1> QED BY <1>2, <1>4, <1>5, <1>6, <1>7, <1>8, BothWays

(* The process of the server dies.                                         *)
LEMMA SessionUseOfNull ==
  ASSUME SessionIInv, NEW p \in W!End, NEW q \in W!End, p # q, W!UseOfNull(p)
  PROVE  SessionIInv'
<1>1. PICK a : a = "crashed"
  OBVIOUS
<1>2. /\ wAlive' = [wAlive EXCEPT ![p] = a]
      /\ UNCHANGED <<wLink, wOut, wAccepted, wStrm, wEos, wHasInit, wClosed, wLock, wTodo, wCall,
                     wCalls, wOpen, wStart, wMessage, wSent, wReceived, wTold, wBeforeClose>>
  BY <1>1 DEF W!UseOfNull, W!object, W!reading, W!writing
<1> QED BY <1>1, <1>2, SessionEndGoes, Zenon

(* The session is over for an end.                                         *)
LEMMA SessionLeave ==
  ASSUME SessionIInv, NEW p \in W!End, NEW q \in W!End, p # q, W!Leave(p)
  PROVE  SessionIInv'
<1>1. PICK a : a = "ended"
  OBVIOUS
<1>2. /\ wAlive' = [wAlive EXCEPT ![p] = a]
      /\ UNCHANGED <<wLink, wOut, wAccepted, wStrm, wEos, wHasInit, wClosed, wLock, wTodo, wCall,
                     wCalls, wOpen, wStart, wMessage, wSent, wReceived, wTold, wBeforeClose>>
  BY <1>1 DEF W!Leave, W!object, W!reading, W!writing
<1> QED BY <1>1, <1>2, SessionEndGoes, Zenon

(* What is still on its way after the connection was lost.                 *)
LEMMA WhatArrives ==
  ASSUME NEW o \in Seq(Wares), NEW o2 \in W!Arrived(o),
         \A k \in 1 .. Len(o) : o[k].part[2] # -1
  PROVE  /\ Remains(o, o2)
         /\ \A k \in 1 .. Len(o2) : o2[k].part[2] = -1 => k = Len(o2)
         /\ \A k \in 1 .. Len(o2) : o2[k].op = o[k].op
<1>1. Len(o) \in Nat
  BY LenProperties
<1>2. \A k \in 1 .. Len(o) : o[k] \in Wares
  BY ElementOfSeq
<1>3. ASSUME NEW k \in 0 .. Len(o)
      PROVE  /\ SubSeq(o, 1, k) \in Seq(Wares) /\ Len(SubSeq(o, 1, k)) = k
             /\ \A j \in 1 .. k : SubSeq(o, 1, k)[j] = o[j]
  <2>1. \A j \in 1 .. k : o[j] \in Wares
    BY <1>1, <1>2
  <2>2. k \in Int /\ 1 \in Int /\ k - 1 + 1 = k /\ (IF 1 <= k THEN k - 1 + 1 ELSE 0) = k
        /\ \A j \in 1 .. k : 1 + j - 1 = j
    BY <1>1
  <2>3. SubSeq(o, 1, k) \in Seq(Wares)
    BY <2>1, <2>2, SubSeqProperties
  <2>4. Len(SubSeq(o, 1, k)) = IF 1 <= k THEN k - 1 + 1 ELSE 0
    BY <2>1, <2>2, SubSeqProperties
  <2>5. \A j \in 1 .. k - 1 + 1 : SubSeq(o, 1, k)[j] = o[1 + j - 1]
    BY <2>1, <2>2, SubSeqProperties
  <2> QED BY <2>2, <2>3, <2>4, <2>5
<1>4. CASE \E k \in 0 .. Len(o) : o2 = SubSeq(o, 1, k)
  <2>1. PICK k \in 0 .. Len(o) : o2 = SubSeq(o, 1, k)
    BY <1>4
  <2>2. o2 \in Seq(Wares) /\ Len(o2) = k /\ k <= Len(o) /\ \A j \in 1 .. k : o2[j] = o[j]
    BY <1>1, <1>3, <2>1
  <2>3. \A j \in 1 .. k : j \in 1 .. Len(o)
    BY <1>1
  <2> QED BY <2>2, <2>3 DEF Remains
<1>5. CASE \E k \in DOMAIN o : o2 = Append(SubSeq(o, 1, k - 1), W!Torn(o[k]))
  <2>1. PICK k \in DOMAIN o : o2 = Append(SubSeq(o, 1, k - 1), W!Torn(o[k]))
    BY <1>5, Zenon
  <2>2. k \in 1 .. Len(o) /\ k - 1 \in 0 .. Len(o) /\ o[k] \in Wares
    BY <1>1, <1>2, LenProperties
  <2>3. PICK r : r = SubSeq(o, 1, k - 1)
    BY Zenon
  <2>4. PICK f : f = W!Torn(o[k])
    OBVIOUS
  <2>5. r \in Seq(Wares) /\ Len(r) = k - 1 /\ \A j \in 1 .. k - 1 : r[j] = o[j]
    BY <1>3, <2>2, <2>3
  <2>6. f \in Wares /\ f.op = o[k].op
    BY <2>2, <2>4, TornWare
  <2>7. /\ o2 \in Seq(Wares) /\ Len(o2) = k /\ o2[k] = f /\ \A j \in 1 .. k - 1 : o2[j] = r[j]
    <3>1. /\ o2 \in Seq(Wares) /\ Len(o2) = k - 1 + 1 /\ o2[k - 1 + 1] = f
          /\ \A j \in 1 .. k - 1 : o2[j] = r[j]
      BY <2>1, <2>3, <2>4, <2>5, <2>6, AppendProperties
    <3>2. k - 1 + 1 = k
      BY <2>2
    <3> QED BY <3>1, <3>2
  <2>8. \A j \in 1 .. k : (j \in 1 .. k - 1 \/ j = k) /\ j \in 1 .. Len(o)
    BY <1>1, <2>2
  <2>9. Len(o2) <= Len(o)
    BY <1>1, <2>2, <2>7
  <2> QED BY <2>4, <2>5, <2>6, <2>7, <2>8, <2>9, Zenon DEF Remains
<1> QED BY <1>4, <1>5, Zenon DEF W!Arrived

(* A direction of a connection that is lost.                               *)
LEMMA WayLoses ==
  ASSUME NEW o \in Seq(Wares), NEW td, NEW s, NEW b, NEW lk, NEW m, NEW g, NEW st, NEW br,
         NEW lnk, lnk = "up", Whence(lnk, o, td, s, b, lk, m, g, st, br), NEW o2 \in W!Arrived(o)
  PROVE  /\ Whence("lost", o2, td, s, b, lk, m, g, st, TRUE)
         /\ o2 \in Seq(Wares)
         /\ HeadBefore(o) => HeadBefore(o2)
<1>1. \A k \in 1 .. Len(o) : o[k].part[2] # -1
  BY DEF Whence
<1>2. Remains(o, o2)
  BY <1>1, WhatArrives
<1>3. \A k \in 1 .. Len(o2) : o2[k].part[2] = -1 => k = Len(o2)
  BY <1>1, WhatArrives
<1>4. \A k \in 1 .. Len(o2) : o2[k].op = o[k].op
  BY <1>1, WhatArrives
<1>5. Flow("up", o, td, s, b, m, g, st, br)
  BY DEF Whence
<1>6. Flow("lost", o2, td, s, b, m, g, st, TRUE)
  BY <1>2, <1>5, FlowLoses, Zenon
<1>7. Whence("lost", o2, td, s, b, lk, m, g, st, TRUE)
  BY <1>3, <1>6, Zenon DEF Whence
<1>8. ASSUME HeadBefore(o)
      PROVE  HeadBefore(o2)
  <2>1. Len(o2) \in Nat /\ Len(o) \in Nat /\ Len(o2) <= Len(o)
    BY <1>2, LenProperties DEF Remains
  <2>2. ASSUME NEW j \in 1 .. Len(o2), IsData(o2[j])
        PROVE  \E i \in 1 .. j - 1 : o2[i].op = "head"
    <3>1. j \in 1 .. Len(o) /\ IsData(o[j])
      BY <1>4, <2>1, <2>2 DEF IsData
    <3>2. PICK i \in 1 .. j - 1 : o[i].op = "head"
      BY <1>8, <3>1 DEF HeadBefore
    <3>3. i \in 1 .. Len(o2)
      BY <2>1
    <3> QED BY <1>4, <3>2, <3>3
  <2> QED BY <2>2 DEF HeadBefore
<1> QED BY <1>2, <1>7, <1>8, Zenon DEF Remains

(* The connection is lost.                                                 *)
LEMMA SessionLose ==
  ASSUME SessionIInv, W!Lose
  PROVE  SessionIInv'
<1>1. PICK p, q : p = "server" /\ q = "client"
  OBVIOUS
<1>2. p \in W!End /\ q \in W!End /\ p # q /\ W!End = {p, q}
  BY <1>1, Peers
<1>3. /\ SessionTypes /\ Bounded /\ Way(p, q) /\ Way(q, p) /\ InItsCall(p) /\ InItsCall(q)
      /\ HeadFirst
  BY <1>2 DEF SessionIInv
<1>4. PICK s \in W!Arrived(wOut[p]), c \in W!Arrived(wOut[q]) :
        wOut' = [x \in W!End |-> IF x = p THEN s ELSE c]
  BY <1>1 DEF W!Lose
<1>5. /\ wLink = "up" /\ wLink' = "lost"
      /\ UNCHANGED <<wAlive, wAccepted, wStrm, wEos, wHasInit, wClosed, wLock, wTodo, wCall,
                     wCalls, wOpen, wStart, wMessage, wSent, wReceived, wTold, wBeforeClose>>
  BY DEF W!Lose, W!object, W!reading, W!writing
<1>6. wOut'[p] = s /\ wOut'[q] = c
  BY <1>2, <1>4
<1>7. wOut[p] \in Seq(Wares) /\ wOut[q] \in Seq(Wares)
  BY <1>2, <1>3 DEF SessionTypes
<1>8. /\ Whence("lost", s, wTodo[p], wSent[p], wBeforeClose[p], wLock[p],
                wMessage[q], wReceived[q], wStart[q], TRUE)
      /\ s \in Seq(Wares) /\ (HeadBefore(wOut[p]) => HeadBefore(s))
  BY <1>3, <1>5, <1>7, WayLoses, Zenon DEF Way
<1>9. /\ Whence("lost", c, wTodo[q], wSent[q], wBeforeClose[q], wLock[q],
                wMessage[p], wReceived[p], wStart[p], TRUE)
      /\ c \in Seq(Wares)
  BY <1>3, <1>5, <1>7, WayLoses, Zenon DEF Way
<1>10. SessionTypes'
  BY <1>3, <1>4, <1>5, <1>8, <1>9, Zenon DEF SessionTypes
<1>11. Bounded'
  BY <1>3, <1>5 DEF Bounded
<1>12. /\ (wLink' = "lost" \/ wAlive'[q] # "up") = TRUE
       /\ (wLink' = "lost" \/ wAlive'[p] # "up") = TRUE
  BY <1>5
<1>13. Way(p, q)'
  BY <1>5, <1>6, <1>8, <1>12, Zenon DEF Way
<1>14. Way(q, p)'
  BY <1>5, <1>6, <1>9, <1>12, Zenon DEF Way
<1>15. InItsCall(p)' /\ InItsCall(q)'
  BY <1>3, <1>5 DEF InItsCall
<1>16. HeadFirst'
  BY <1>1, <1>3, <1>5, <1>6, <1>8 DEF HeadFirst, HeadHolds
<1> QED BY <1>2, <1>10, <1>11, <1>13, <1>14, <1>15, <1>16, BothWays

(* Nothing is on its way and nobody has written.                           *)
LEMMA SessionInit ==
  ASSUME W!Init
  PROVE  SessionIInv
<1>1. Len(<<>>) = 0 /\ 1 .. 0 = {} /\ DOMAIN <<>> = {} /\ \A S : <<>> \in Seq(S)
  OBVIOUS
<1>2. SessionTypes
  <2>1. W!Idle \in Sends
    BY DEF Sends
  <2>2. wCall \in [W!End -> BothCalls]
    BY <2>1 DEF W!Init, BothCalls
  <2>3. /\ wOut \in [W!End -> Seq(Wares)] /\ wTodo \in [W!End -> Seq(Wares)]
        /\ wMessage \in [W!End -> Seq(Parts)] /\ wReceived \in [W!End -> Seq(Seq(Parts))]
        /\ wSent \in [W!End -> Seq(Positive)] /\ wTold \in [W!End -> Seq(BOOLEAN)]
    BY <1>1 DEF W!Init
  <2> QED BY <2>2, <2>3 DEF SessionTypes, W!Init, Stations, W!End
<1>3. Bounded
  <2>1. \A x \in W!End : SessionCalls[x] \in Nat
    BY SessionAssumption
  <2> QED BY <1>1, <2>1 DEF Bounded, W!Init
<1>4. ASSUME NEW x \in W!End, NEW y \in W!End
      PROVE  Way(x, y)
  <2>1. PICK D : D = <<0>>
    BY Zenon
  <2>2. D \in Seq(Nat) /\ Len(D) = 1 /\ D[1] = 0
    BY <2>1
  <2>3. Beginning(<<>>, 1, 0)
    <3>1. <<>> = [j \in 1 .. 0 |-> <<1, j>>]
      BY <1>1
    <3> QED BY <3>1 DEF Beginning
  <2>4. PICK st : st = wStart[y]
    OBVIOUS
  <2>5. PICK br : br = (wLink = "lost" \/ wAlive[y] # "up")
    OBVIOUS
  <2>6. AtReader(<<>>, <<>>, st, 0, 0, <<>>)
    BY <1>1, <2>3 DEF AtReader, AllWhole
  <2>7. AtWriter(<<>>, <<>>, 0, 0)
    BY <1>1 DEF AtWriter
  <2>8. Marked(<<>>, D, D, <<>>, -1)
    BY <1>1, <2>2 DEF Marked
  <2>9. Marks(<<>>, <<>>, <<>>, -1, <<>>, <<>>, st, br, D, D)
    BY <1>1, <2>2, <2>6, <2>7, <2>8 DEF Marks
  <2>10. Whence(wLink, <<>>, <<>>, <<>>, -1, wLock[x], <<>>, <<>>, st, br)
    BY <1>1, <2>9 DEF Whence, Flow, ToWrite
  <2>11. /\ wOut[x] = <<>> /\ wTodo[x] = <<>> /\ wSent[x] = <<>> /\ wBeforeClose[x] = -1
         /\ wMessage[y] = <<>> /\ wReceived[y] = <<>>
    BY DEF W!Init
  <2> QED BY <2>4, <2>5, <2>10, <2>11 DEF Way
<1>5. \A x \in W!End : InItsCall(x)
  BY DEF InItsCall, W!Init, W!Idle, W!Thread
<1>6. HeadFirst
  <2>1. HeadBefore(<<>>)
    BY <1>1 DEF HeadBefore
  <2>2. /\ wOut["server"] = <<>> /\ wTodo["server"] = <<>> /\ ~wHasInit["server"]
    BY Zenon DEF W!Init, W!End
  <2> QED BY <2>1, <2>2 DEF HeadFirst, HeadHolds
<1> QED BY <1>2, <1>3, <1>4, <1>5, <1>6 DEF SessionIInv

(* Every step of a session.                                                *)
LEMMA SessionStep ==
  ASSUME SessionIInv, W!Next
  PROVE  SessionIInv'
<1>1. CASE W!Lose
  BY <1>1, SessionLose
<1>2. ASSUME NEW p \in W!End, \/ W!Start(p) \/ W!OnOpen(p) \/ W!Leave(p)
                              \/ \E c \in W!Operations : W!OpenCalls(p, c)
      PROVE  SessionIInv'
  <2>1. PICK q \in W!End : p # q
    BY Peers
  <2>2. ASSUME NEW t \in W!Thread, W!Sending(p, t)
        PROVE  SessionIInv'
    <3>1. CASE W!Acquire(p, t)
      BY <2>1, <3>1, SessionAcquire
    <3>2. CASE W!WriteFrame(p, t)
      BY <2>1, <3>2, SessionWriteFrame
    <3>3. CASE W!WriteThrows(p, t)
      BY <2>1, <3>3, SessionWriteThrows
    <3>4. CASE W!Release(p, t)
      BY <2>1, <3>4, SessionRelease
    <3> QED BY <2>2, <3>1, <3>2, <3>3, <3>4 DEF W!Sending
  <2>3. "start" \in W!Thread /\ "open" \in W!Thread
    BY DEF W!Thread
  <2>4. CASE W!Handshake(p)
    <3>1. CASE p = "server" /\ W!RefuseUpgrade
      BY <2>1, <3>1, SessionRefuses
    <3>2. CASE p = "server" /\ W!WriteHeaders
      BY <2>1, <3>2, SessionWriteHeaders
    <3>3. CASE p = "client" /\ W!Connected
      BY <2>1, <3>3, SessionConnected
    <3> QED BY <2>4, <3>1, <3>2, <3>3 DEF W!Handshake
  <2>5. CASE W!Reading(p)
    <3>1. CASE W!BeginStart(p)
      BY <2>1, <3>1, SessionBeginStart
    <3>2. CASE W!CheckEnd(p)
      BY <2>1, <3>2, SessionCheckEnd
    <3>3. CASE W!ReadEnd(p)
      BY <2>1, <3>3, SessionReadEnd
    <3>4. CASE W!ReadData(p)
      BY <2>1, <3>4, SessionReadData
    <3>5. CASE W!ReadPing(p)
      BY <2>1, <3>5, SessionReadPing
    <3>6. CASE W!ReadPong(p)
      BY <2>1, <3>6, SessionReadPong
    <3>7. CASE W!ReadClose(p)
      BY <2>1, <3>7, SessionReadClose
    <3>8. CASE W!Deliver(p)
      BY <2>1, <3>8, SessionDeliver
    <3> QED BY <2>5, <3>1, <3>2, <3>3, <3>4, <3>5, <3>6, <3>7, <3>8 DEF W!Reading
  <2>6. CASE W!UseOfNull(p)
    BY <2>1, <2>6, SessionUseOfNull
  <2>7. CASE W!Leave(p)
    BY <2>1, <2>7, SessionLeave
  <2>8. CASE \E c \in W!Operations : W!OpenCalls(p, c)
    BY <2>1, <2>8, SessionOpenCalls
  <2> QED BY <1>2, <2>2, <2>3, <2>4, <2>5, <2>6, <2>7, <2>8 DEF W!Start, W!OnOpen
<1> QED BY <1>1, <1>2 DEF W!Next

(* The other parts leave it alone.                                         *)
LEMMA SessionUnchanged ==
  ASSUME SessionIInv, UNCHANGED sessionVars
  PROVE  SessionIInv'
BY Zenon DEF SessionIInv, sessionVars, SessionTypes, Bounded, Way, InItsCall, HeadFirst

(* The types follow.                                                       *)
LEMMA SessionTypeOK ==
  ASSUME SessionIInv
  PROVE  W!TypeOK
<1>1. SessionTypes /\ Bounded
  BY DEF SessionIInv
<1>2. \A x \in W!End : wSent[x] \in Seq(Nat)
  <2>1. ASSUME NEW x \in W!End
        PROVE  wSent[x] \in Seq(Nat)
    <3>1. PICK s \in Seq(Positive) : s = wSent[x]
      BY <1>1 DEF SessionTypes
    <3>2. s \in [1 .. Len(s) -> Nat] /\ Len(s) \in Nat
      BY LenProperties DEF Positive
    <3>3. s \in Seq(Nat)
      BY <3>2
    <3> QED BY <3>1, <3>3
  <2> QED BY <2>1
<1>3. \A x \in W!End : \A t \in W!Thread :
        wCall[x][t] \in W!Operations \cup {W!Idle, [kind |-> "pong", size |-> 0],
                                           [kind |-> "data", size |-> 1]}
  <2>1. \A x \in W!End : \A t \in W!Thread : wCall[x][t] \in Sends
    BY <1>1 DEF SessionTypes, BothCalls
  <2> QED BY <2>1 DEF Sends
<1>4. \A x \in W!End : wCalls[x] \in 0 .. SessionCalls[x] /\ wTold[x] \in Seq(BOOLEAN)
  <2>1. \A x \in W!End : SessionCalls[x] \in Nat
    BY SessionAssumption
  <2> QED BY <1>1, <2>1 DEF SessionTypes, Bounded
<1>5. wStart \in [W!End -> {"connect", "begin", "handshake", "loop", "read",
                            "call", "deliver", "garbled"} \cup W!Finished]
  <2>1. Stations = {"connect", "begin", "handshake", "loop", "read",
                  "call", "deliver", "garbled"} \cup W!Finished
    BY DEF Stations, W!Finished
  <2> QED BY <1>1, <2>1 DEF SessionTypes
<1> QED BY <1>1, <1>2, <1>3, <1>4, <1>5 DEF SessionTypes, Bounded, W!TypeOK

(* What was given to OnReceive.                                            *)
Given(lnk, s, g) ==
  \A k \in DOMAIN g :
    /\ k \in DOMAIN s
    /\ g[k] = WholeOf(s, k) \/ (lnk = "lost" /\ k = Len(g) /\ TornOf(g[k], k, s))

(* What OnReceive got is no longer than what was sent.                     *)
LEMMA WhatWasGiven ==
  ASSUME NEW lnk, NEW o, NEW td, NEW s \in Seq(Positive), NEW b, NEW m,
         NEW g \in Seq(Seq(Parts)), NEW st, NEW br, Flow(lnk, o, td, s, b, m, g, st, br)
  PROVE  Len(g) <= Len(s) /\ Given(lnk, s, g)
<1>1. \A k \in DOMAIN g :
        /\ k \in DOMAIN s
        /\ g[k] = WholeOf(s, k) \/ (lnk = "lost" /\ k = Len(g) /\ TornOf(g[k], k, s))
  BY DEF Flow, CutOff, AllWhole, Marks, AtReader
<1>2. Len(g) <= Len(s)
  <2>1. Len(g) \in Nat /\ Len(s) \in Nat /\ DOMAIN g = 1 .. Len(g) /\ DOMAIN s = 1 .. Len(s)
    BY LenProperties
  <2>2. CASE Len(g) = 0
    BY <2>1, <2>2
  <2>3. CASE Len(g) # 0
    <3>1. Len(g) \in DOMAIN g
      BY <2>1, <2>3
    <3>2. Len(g) \in 1 .. Len(s)
      BY <1>1, <2>1, <3>1, Zenon
    <3> QED BY <2>1, <3>2
  <2> QED BY <2>2, <2>3
<1> QED BY <1>1, <1>2 DEF Given

(* What OnReceive got, and what it had before the close frame.             *)
LEMMA SessionMessages ==
  ASSUME SessionIInv
  PROVE  W!MessagesWhole /\ W!NothingLostBeforeClose
<1>1. SessionTypes /\ \A x, y \in W!End : x # y => Way(x, y)
  BY DEF SessionIInv
<1>2. ASSUME NEW p \in W!End
      PROVE  /\ Len(wReceived[W!Peer(p)]) <= Len(wSent[p])
             /\ \A k \in DOMAIN wReceived[W!Peer(p)] :
                  \/ wReceived[W!Peer(p)][k] = W!Whole(p, k)
                  \/ /\ wLink = "lost" /\ k = Len(wReceived[W!Peer(p)])
                     /\ \E i \in DOMAIN W!Whole(p, k) :
                          wReceived[W!Peer(p)][k] = [W!Whole(p, k) EXCEPT ![i][2] = -1]
  <2>1. PICK q \in W!End : p # q /\ q = W!Peer(p)
    BY Peers
  <2>2. PICK g : g = wReceived[q]
    OBVIOUS
  <2>3. PICK s : s = wSent[p]
    OBVIOUS
  <2>4. s \in Seq(Positive) /\ g \in Seq(Seq(Parts))
    BY <1>1, <2>2, <2>3 DEF SessionTypes
  <2>5. Flow(wLink, wOut[p], wTodo[p], s, wBeforeClose[p], wMessage[q], g, wStart[q],
             wLink = "lost" \/ wAlive[q] # "up")
    BY <1>1, <2>1, <2>2, <2>3 DEF Way, Whence
  <2>6. Len(g) <= Len(s) /\ Given(wLink, s, g)
    BY <2>4, <2>5, WhatWasGiven
  <2>7. \A k : W!Whole(p, k) = WholeOf(s, k)
    BY <2>3 DEF W!Whole, WholeOf
  <2> QED BY <2>1, <2>2, <2>3, <2>6, <2>7 DEF Given, TornOf
<1>3. W!MessagesWhole
  BY <1>2 DEF W!MessagesWhole
<1>4. ASSUME NEW p \in W!End, wStart[p] = "read", wOut[W!Peer(p)] # <<>>,
             W!Incoming(p).op = "close"
      PROVE  Len(wReceived[p]) >= wBeforeClose[W!Peer(p)] /\ wMessage[p] = <<>>
  <2>1. PICK q \in W!End : q # p /\ q = W!Peer(p)
    BY Peers
  <2>2. PICK o : o = wOut[q]
    OBVIOUS
  <2>3. /\ o \in Seq(Wares) /\ o # <<>> /\ wSent[q] \in Seq(Positive)
        /\ wReceived[p] \in Seq(Seq(Parts))
    BY <1>1, <1>4, <2>1, <2>2 DEF SessionTypes
  <2>4. PICK st : st = wStart[p]
    OBVIOUS
  <2>5. Flow(wLink, o, wTodo[q], wSent[q], wBeforeClose[q], wMessage[p], wReceived[p], st,
             wLink = "lost" \/ wAlive[p] # "up")
    BY <1>1, <2>1, <2>2, <2>4 DEF Way, Whence
  <2>6. o[1].op = "close"
    <3>1. Head(o) = o[1]
      BY <2>3, HeadTailProperties
    <3> QED BY <1>4, <2>1, <2>2, <3>1 DEF W!Incoming
  <2>7. ~IsData(o[1]) /\ st # "deliver"
    BY <1>4, <2>4, <2>6 DEF IsData
  <2>8. wMessage[p] = <<>>
    BY <2>3, <2>5, <2>7, FlowReadsControl, Zenon
  <2>9. wBeforeClose[q] \in 0 .. Len(wReceived[p])
    BY <2>3, <2>5, <2>6, <2>7, FlowReadsControl, Zenon
  <2>10. Len(wReceived[p]) >= wBeforeClose[q]
    <3>1. Len(wReceived[p]) \in Nat
      BY <2>3, LenProperties
    <3> QED BY <2>9, <3>1
  <2> QED BY <2>1, <2>8, <2>10
<1>5. W!NothingLostBeforeClose
  BY <1>4 DEF W!NothingLostBeforeClose
<1> QED BY <1>3, <1>5

(* A WebSocket session gives OnReceive the messages of the peer whole and  *)
(* in order, and all of them before the close frame, for any number of     *)
(* fragments and calls.                                                    *)
THEOREM SessionCorrect == PartsSpec => []SessionInv
<1>1. PartsInit => SessionIInv
  BY SessionInit DEF PartsInit
<1>2. SessionIInv /\ [PartsNext]_allVars => SessionIInv'
  <2>1. ASSUME SessionIInv, SessionPart
        PROVE  SessionIInv'
    BY <2>1, SessionStep DEF SessionPart
  <2>2. ASSUME ContextPart \/ ServersPart \/ Finished \/ Stopped \/ UNCHANGED allVars
        PROVE  UNCHANGED sessionVars
    BY <2>2 DEF ContextPart, ServersPart, Finished, Stopped, allVars
  <2> QED BY <2>1, <2>2, SessionUnchanged DEF PartsNext
<1>3. SessionIInv => SessionInv
  BY SessionTypeOK, SessionMessages DEF SessionInv, W!Inv
<1> QED BY <1>1, <1>2, <1>3, PTL DEF PartsSpec
=============================================================================
