-------------------------- MODULE HttpStreamProofs --------------------------
(***************************************************************************)
(* The safety of HttpStream, for every framing, every size of a write and  *)
(* of a read, and every way in which the connection cuts the bytes.        *)
(*                                                                         *)
(* The argument marks every place between two tokens on the connection     *)
(* with the number of bytes of the body before it.  The marks start at     *)
(* what the reader has taken and end at what the writer has sent, so a     *)
(* size line that promises more than was sent, or a final chunk that is    *)
(* not at the end, cannot be there.                                        *)
(***************************************************************************)
EXTENDS HttpStream, SequenceTheorems, TLAPS

Tokens == {"byte", "size", "crlf"} \X Nat

IsByte(k) == wire[k][1] = "byte"

Types ==
  /\ mode \in Modes
  /\ wire \in Seq(Tokens)
  /\ closed \in BOOLEAN /\ cut \in BOOLEAN
  /\ sent \in Nat
  /\ writer \in {"open", "closed", "destroyed"}
  /\ finals \in Nat
  /\ reader \in {"ready", "body", "raw", "size", "first", "chunk", "crlf",
                 "trailer", "eof", "error"}
  /\ want \in Nat /\ read \in Nat /\ offset \in Nat /\ position \in Nat
  /\ got \in Seq(Tokens)
  /\ taken \in BOOLEAN
  /\ error \in {"none", "Incomplete", "InChunk",
                "AfterSize", "NoFinalChunk"}

(* m[k] bytes of the body precede the place after the k-th token. *)
Marks(m) ==
  /\ m \in [0 .. Len(wire) -> Nat]
  /\ m[0] = position
  /\ m[Len(wire)] <= sent
  /\ ~cut => m[Len(wire)] = sent
  /\ \A j, k \in 0 .. Len(wire) : j <= k => m[j] <= m[k]
  /\ \A k \in 1 .. Len(wire) :
       IF IsByte(k) THEN wire[k][2] = m[k] ELSE m[k] = m[k - 1]
  /\ \A j, k \in 0 .. Len(wire) :
       j <= k /\ (\A i \in j + 1 .. k : IsByte(i)) => m[k] = m[j] + (k - j)

(* A size line promises no more than was sent. *)
Promised(m) ==
  \A k \in 1 .. Len(wire) :
    wire[k][1] = "size" =>
      /\ m[k] + wire[k][2] <= sent
      /\ wire[k][2] = 0 => m[k] = sent

(* An empty line follows a chunk or the line of the final chunk. *)
Lines(m) ==
  \A k \in 1 .. Len(wire) :
    wire[k][1] = "crlf" =>
      \/ m[k] > 0
      \/ k > 1 /\ wire[k - 1] = SizeLine(0)
      \/ k = 1 /\ reader = "trailer"

Marked == \E m : Marks(m) /\ Promised(m) /\ Lines(m)

(* The line of the final chunk is followed by one empty line at most. *)
FinalLast ==
  \A k \in 1 .. Len(wire) :
    wire[k] = SizeLine(0) => finals = 1 /\ k >= Len(wire) - 1

(* Unless the connection was lost, the final chunk is still to be read. *)
FinalThere ==
  Chunked /\ finals = 1 /\ ~cut =>
    \/ \E k \in 1 .. Len(wire) : wire[k] = SizeLine(0)
    \/ reader \in {"trailer", "eof"}

Trailer ==
  reader = "trailer" => finals = 1 /\ position = sent /\ Len(wire) <= 1

OnlyBytes == ~Chunked => \A k \in 1 .. Len(wire) : IsByte(k)

Received ==
  /\ Len(got) = position
  /\ \A k \in 1 .. position : got[k] = Byte(k)

Writing ==
  /\ cut => closed
  /\ closed /\ ~cut => writer = "destroyed"
  /\ finals <= 1
  /\ finals = 1 => writer # "open"
  /\ Chunked /\ writer # "open" /\ ~cut => finals = 1
  /\ mode.length >= 0 => sent <= mode.length

Reading ==
  /\ reader \in {"size", "first", "chunk", "crlf", "trailer"} => Chunked
  /\ reader = "raw" => ~Framed
  /\ reader \in {"body", "raw", "size", "first", "chunk"} => want >= 1
  /\ reader = "body" => position + want <= mode.length
  /\ reader = "size" => offset >= read
  /\ reader = "first" => offset = 0
  /\ reader \in {"first", "chunk"} => offset + want <= read
  /\ offset < read => Chunked /\ position + (read - offset) <= sent
  /\ error # "none" => reader = "error"

IInv == /\ Types /\ Marked /\ FinalLast /\ FinalThere /\ Trailer /\ OnlyBytes
        /\ Received /\ Writing /\ Reading /\ CleanEndIsComplete

-----------------------------------------------------------------------------
(* The tokens. *)

LEMMA TokenFacts ==
  /\ \A n \in Nat : /\ Byte(n) \in Tokens
                    /\ Byte(n)[1] = "byte" /\ Byte(n)[2] = n
                    /\ SizeLine(n) \in Tokens
                    /\ SizeLine(n)[1] = "size" /\ SizeLine(n)[2] = n
  /\ EmptyLine \in Tokens /\ EmptyLine[1] = "crlf"
  /\ \A t \in Tokens :
       /\ t[1] \in {"byte", "size", "crlf"} /\ t[2] \in Nat
       /\ t[1] = "byte" => t = Byte(t[2])
       /\ t[1] = "size" => t = SizeLine(t[2])
  BY DEF Tokens, Byte, SizeLine, EmptyLine

LEMMA BytesAreTokens ==
  ASSUME NEW a \in Nat, NEW n \in Nat
  PROVE  /\ Bytes(a, n) \in Seq(Tokens)
         /\ Len(Bytes(a, n)) = n
         /\ \A k \in 1 .. n : Bytes(a, n)[k] = Byte(a + k)
<1>1. \A k \in 1 .. n : Byte(a + k) \in Tokens
  BY TokenFacts
<1> QED
  BY <1>1 DEF Bytes

(* Every mode is a record with an integer length. *)
LEMMA ModeFacts ==
  ASSUME mode \in Modes
  PROVE  /\ mode.length \in Int
         /\ mode.http1_1 \in BOOLEAN
         /\ Chunked => mode.length < 0
         /\ Chunked => Framed
         /\ Framed => Chunked \/ mode.length >= 0
  BY ModesAssumption DEF Chunked, Framed

LEMMA LeastFacts ==
  ASSUME NEW a \in Nat \ {0}, NEW b \in Nat \ {0}
  PROVE  /\ Least(a, b) \in Nat \ {0}
         /\ Least(a, b) <= a /\ Least(a, b) <= b
  BY DEF Least

LEMMA InitIInv == Init => IInv
<1> SUFFICES ASSUME Init
             PROVE  IInv
  OBVIOUS
<1> USE DEF Init
<1>1. Types
  BY EmptySeq DEF Types
<1>2. Marks([k \in 0 .. 0 |-> 0])
  BY DEF Marks
<1>3. Promised([k \in 0 .. 0 |-> 0]) /\ Lines([k \in 0 .. 0 |-> 0])
  BY DEF Promised, Lines
<1>4. Marked
  BY <1>2, <1>3 DEF Marked
<1>5. FinalLast /\ FinalThere /\ Trailer /\ OnlyBytes
  BY DEF FinalLast, FinalThere, Trailer, OnlyBytes
<1>6. Received /\ Writing /\ Reading
  BY ModeFacts DEF Received, Writing, Reading
<1>7. CleanEndIsComplete
  BY DEF CleanEndIsComplete, EofIsComplete, IncompleteMeansClosed
<1> QED
  BY <1>1, <1>4, <1>5, <1>6, <1>7 DEF IInv

-----------------------------------------------------------------------------
(* What each change of the connection does to the marks.                   *)

(* What follows from the marks for the reader. *)
LEMMA PositionBound ==
  ASSUME Types, Marked
  PROVE  /\ position <= sent
         /\ wire = <<>> /\ ~cut => position = sent
<1>1. PICK m : Marks(m)
  BY DEF Marked
<1>2. Len(wire) \in Nat /\ (wire = <<>> => Len(wire) = 0)
  BY DEF Types
<1> QED
  BY <1>1, <1>2 DEF Marks, Types

LEMMA MarkedSame ==
  ASSUME Marked, UNCHANGED <<wire, position, sent, cut>>,
         reader = "trailer" => reader' = "trailer" \/ Len(wire) = 0
  PROVE  Marked'
<1>1. PICK m : Marks(m) /\ Promised(m) /\ Lines(m)
  BY DEF Marked
<1>2. Marks(m)' /\ Promised(m)'
  BY <1>1 DEF Marks, Promised, IsByte
<1>3. Lines(m)'
  BY <1>1 DEF Lines
<1> QED
  BY <1>2, <1>3 DEF Marked

(* A line at the head of the connection was taken. *)
LEMMA MarkedHead ==
  ASSUME Types, Marked, wire # <<>>, ~IsByte(1), wire' = Tail(wire),
         UNCHANGED <<position, sent, cut>>,
         wire[1] = SizeLine(0) => reader' = "trailer",
         reader = "trailer" => Len(wire) = 1
  PROVE  Marked'
<1>1. PICK m : Marks(m) /\ Promised(m) /\ Lines(m)
  BY DEF Marked
<1>2. PICK L \in Nat \ {0} :
        /\ L = Len(wire)
        /\ Len(wire') = L - 1
        /\ \A k \in 1 .. L - 1 : wire'[k] = wire[k + 1]
  BY DEF Types
<1> DEFINE g == [k \in 0 .. L - 1 |-> m[k + 1]]
<1>3. m[1] = position
  BY <1>1, <1>2 DEF Marks
<1>4. Marks(g)'
  <2>1. /\ g \in [0 .. L - 1 -> Nat]
        /\ g[0] = position
        /\ g[L - 1] = m[L]
        /\ \A k \in 0 .. L - 1 : g[k] = m[k + 1]
    BY <1>1, <1>2, <1>3 DEF Marks
  <2>2. \A j, k \in 0 .. L - 1 : j <= k => g[j] <= g[k]
    BY <1>1, <1>2, <2>1 DEF Marks
  <2>3. \A k \in 1 .. L - 1 :
          IF IsByte(k)' THEN wire'[k][2] = g[k] ELSE g[k] = g[k - 1]
    BY <1>1, <1>2, <2>1 DEF Marks, IsByte
  <2>4. ASSUME NEW j \in 0 .. L - 1, NEW k \in 0 .. L - 1, j <= k,
               \A i \in j + 1 .. k : IsByte(i)'
        PROVE  g[k] = g[j] + (k - j)
    <3>1. \A i \in (j + 1) + 1 .. k + 1 : IsByte(i)
      <4>1. ASSUME NEW i \in (j + 1) + 1 .. k + 1
            PROVE  IsByte(i)
        <5>1. i - 1 \in j + 1 .. k /\ i - 1 \in 1 .. L - 1
          BY <1>2
        <5>2. IsByte(i - 1)'
          BY <2>4, <5>1
        <5> QED
          BY <1>2, <5>1, <5>2 DEF IsByte
      <4> QED
        BY <4>1
    <3> QED
      BY <1>1, <1>2, <2>1, <2>4, <3>1 DEF Marks
  <2> HIDE DEF g
  <2> QED
    BY <1>1, <1>2, <2>1, <2>2, <2>3, <2>4 DEF Marks
<1>5. Promised(g)'
  BY <1>1, <1>2 DEF Promised
<1>6. Lines(g)'
  <2>1. ASSUME NEW k \in 1 .. L - 1, wire'[k][1] = "crlf"
        PROVE  \/ g[k] > 0
               \/ k > 1 /\ wire'[k - 1] = SizeLine(0)
               \/ k = 1 /\ reader' = "trailer"
    <3>1. \/ m[k + 1] > 0
          \/ wire[k] = SizeLine(0)
      BY <1>1, <1>2, <2>1 DEF Lines
    <3> QED
      BY <1>2, <3>1
  <2> HIDE DEF g
  <2> QED
    BY <1>2, <2>1 DEF Lines
<1> QED
  BY <1>4, <1>5, <1>6 DEF Marked

(* n bytes of the body were taken: they are the next n that were sent. *)
LEMMA MarkedBytes ==
  ASSUME Types, Marked, NEW n \in Nat, n <= Len(wire),
         \A k \in 1 .. n : wire[k][1] = "byte",
         reader # "trailer"
  PROVE  /\ \A k \in 1 .. n : wire[k] = Byte(position + k)
         /\ position + n <= sent
         /\ /\ wire' = SubSeq(wire, n + 1, Len(wire))
            /\ position' = position + n
            /\ UNCHANGED <<sent, cut>>
            => Marked'
<1>1. PICK m : Marks(m) /\ Promised(m) /\ Lines(m)
  BY DEF Marked
<1>2. PICK L \in Nat :
        /\ L = Len(wire)
        /\ position \in Nat
        /\ \A k \in 1 .. L : wire[k] \in Tokens
  BY DEF Types
<1>m. m \in [0 .. L -> Nat] /\ n \in 0 .. L
  BY <1>1, <1>2 DEF Marks
<1>3. ASSUME NEW k \in 0 .. n
      PROVE  m[k] = position + k
  <2>1. \A i \in 0 + 1 .. k : IsByte(i)
    BY DEF IsByte
  <2>2. 0 \in 0 .. L /\ k \in 0 .. L /\ 0 <= k
    BY <1>m
  <2>3. m[k] = m[0] + (k - 0) /\ m[0] = position
    BY <1>1, <1>2, <2>1, <2>2 DEF Marks
  <2> QED
    BY <1>2, <2>2, <2>3
<1>4. ASSUME NEW k \in 1 .. n
      PROVE  wire[k] = Byte(position + k)
  <2>1. k \in 1 .. L /\ k \in 0 .. n /\ wire[k][1] = "byte"
    BY <1>m
  <2>2. wire[k] \in Tokens /\ wire[k][2] = m[k]
    BY <1>1, <1>2, <2>1 DEF Marks, IsByte
  <2>3. m[k] = position + k
    BY <1>3, <2>1
  <2> QED
    BY <2>1, <2>2, <2>3, TokenFacts
<1>5. position + n <= sent
  <2>1. m[n] <= m[L] /\ m[n] \in Nat /\ m[L] \in Nat /\ sent \in Nat
    BY <1>1, <1>2 DEF Marks, Types
  <2> QED
    BY <1>1, <1>2, <1>3, <2>1 DEF Marks
<1>6. ASSUME wire' = SubSeq(wire, n + 1, Len(wire)),
             position' = position + n,
             UNCHANGED <<sent, cut>>
      PROVE  Marked'
  <2> DEFINE g == [k \in 0 .. L - n |-> m[k + n]]
  <2>1. /\ Len(wire') = L - n
        /\ \A k \in 1 .. L - n : wire'[k] = wire[k + n]
    BY <1>2, <1>6 DEF Types
  <2>2. /\ g \in [0 .. L - n -> Nat]
        /\ g[0] = position'
        /\ g[L - n] = m[L]
        /\ \A k \in 0 .. L - n : g[k] = m[k + n]
    BY <1>1, <1>2, <1>3, <1>6 DEF Marks
  <2> HIDE DEF g
  <2>3. Marks(g)'
    <3>1. ASSUME NEW j \in 0 .. L - n, NEW k \in 0 .. L - n, j <= k
          PROVE  g[j] <= g[k]
      <4>1. j + n \in 0 .. L /\ k + n \in 0 .. L /\ j + n <= k + n
        BY <1>m, <3>1
      <4>2. m[j + n] <= m[k + n]
        BY <1>1, <1>2, <4>1 DEF Marks
      <4> QED
        BY <2>2, <4>2
    <3>2. ASSUME NEW k \in 1 .. L - n
          PROVE  IF IsByte(k)' THEN wire'[k][2] = g[k] ELSE g[k] = g[k - 1]
      <4>1. k + n \in 1 .. L /\ (k - 1) + n = (k + n) - 1 /\ k - 1 \in 0 .. L - n
        BY <1>m
      <4>2. IF wire[k + n][1] = "byte" THEN wire[k + n][2] = m[k + n]
                                       ELSE m[k + n] = m[(k + n) - 1]
        BY <1>1, <1>2, <4>1 DEF Marks, IsByte
      <4>3. k \in 0 .. L - n /\ k - 1 \in 0 .. L - n
        BY <4>1
      <4>4. wire'[k] = wire[k + n]
        BY <2>1
      <4>5. g[k] = m[k + n] /\ g[k - 1] = m[(k + n) - 1]
        BY <2>2, <4>1, <4>3
      <4> QED
        BY <4>2, <4>4, <4>5 DEF IsByte
    <3>3. ASSUME NEW j \in 0 .. L - n, NEW k \in 0 .. L - n, j <= k,
                 \A i \in j + 1 .. k : IsByte(i)'
          PROVE  g[k] = g[j] + (k - j)
      <4>1. ASSUME NEW i \in (j + n) + 1 .. k + n
            PROVE  IsByte(i)
        <5>1. i - n \in j + 1 .. k /\ i - n \in 1 .. L - n
          BY <1>2
        <5>2. IsByte(i - n)'
          BY <3>3, <5>1
        <5> QED
          BY <2>1, <5>1, <5>2 DEF IsByte
      <4>0. j + n \in 0 .. L /\ k + n \in 0 .. L /\ j + n <= k + n
        BY <1>m, <3>3
      <4>2. m[k + n] = m[j + n] + ((k + n) - (j + n))
        BY <1>1, <1>2, <4>0, <4>1 DEF Marks
      <4> QED
        BY <1>2, <2>2, <4>2
    <3> QED
      BY <1>1, <1>6, <2>1, <2>2, <3>1, <3>2, <3>3 DEF Marks
  <2>4. Promised(g)'
    <3>1. ASSUME NEW k \in 1 .. L - n, wire'[k][1] = "size"
          PROVE  /\ g[k] + wire'[k][2] <= sent
                 /\ wire'[k][2] = 0 => g[k] = sent
      <4>1. k + n \in 1 .. L /\ k \in 0 .. L - n
        BY <1>m
      <4>2. wire'[k] = wire[k + n]
        BY <2>1
      <4>3. g[k] = m[k + n]
        BY <2>2, <4>1
      <4> QED
        BY <1>1, <1>2, <3>1, <4>1, <4>2, <4>3 DEF Promised
    <3> QED
      BY <1>6, <2>1, <3>1 DEF Promised
  <2>5. Lines(g)'
    <3>1. ASSUME NEW k \in 1 .. L - n, wire'[k][1] = "crlf"
          PROVE  \/ g[k] > 0
                 \/ k > 1 /\ wire'[k - 1] = SizeLine(0)
      <4>1. \/ m[k + n] > 0
            \/ k + n > 1 /\ wire[(k + n) - 1] = SizeLine(0)
        BY <1>1, <1>2, <2>1, <3>1 DEF Lines
      <4>2. CASE k = 1 /\ n > 0
        <5>1. wire[n][1] = "byte"
          BY <4>2
        <5> QED
          BY <1>2, <2>2, <4>1, <4>2, <5>1, TokenFacts
      <4>3. CASE k > 1
        <5>1. /\ k - 1 \in 1 .. L - n /\ k \in 0 .. L - n
              /\ (k - 1) + n = (k + n) - 1
          BY <1>m, <4>3
        <5>2. wire'[k - 1] = wire[(k + n) - 1] /\ g[k] = m[k + n]
          BY <2>1, <2>2, <5>1
        <5> QED
          BY <4>1, <4>3, <5>2
      <4>4. CASE k = 1 /\ n = 0
        <5>1. k \in 0 .. L - n /\ ~(k + n > 1)
          BY <1>m, <4>4
        <5> QED
          BY <2>2, <4>1, <5>1
      <4> QED
        BY <4>2, <4>3, <4>4
    <3> QED
      BY <2>1, <3>1 DEF Lines
  <2> QED
    BY <2>3, <2>4, <2>5 DEF Marked
<1> QED
  BY <1>4, <1>5, <1>6

(* The end of what was written is lost. *)
LEMMA MarkedCut ==
  ASSUME Types, Marked, NEW n \in 0 .. Len(wire),
         wire' = SubSeq(wire, 1, n), cut' = TRUE,
         UNCHANGED <<position, sent, reader>>
  PROVE  Marked'
<1>1. PICK m : Marks(m) /\ Promised(m) /\ Lines(m)
  BY DEF Marked
<1>2. PICK L \in Nat :
        /\ L = Len(wire)
        /\ Len(wire') = n
        /\ \A k \in 1 .. n : wire'[k] = wire[k]
  BY DEF Types
<1> DEFINE g == [k \in 0 .. n |-> m[k]]
<1>m. m \in [0 .. L -> Nat] /\ n \in 0 .. L
  BY <1>1, <1>2 DEF Marks
<1>3. /\ g \in [0 .. n -> Nat]
      /\ \A k \in 0 .. n : g[k] = m[k]
  BY <1>m
<1> HIDE DEF g
<1>4. g[n] <= sent
  <2>1. m[n] <= m[L] /\ m[L] <= sent /\ m[n] \in Nat /\ m[L] \in Nat
    BY <1>1, <1>2 DEF Marks
  <2> QED
    BY <1>2, <1>3, <2>1 DEF Types
<1>5. Marks(g)'
  <2>1. \A j, k \in 0 .. n : j <= k => g[j] <= g[k]
    BY <1>1, <1>2, <1>3 DEF Marks
  <2>2. \A k \in 1 .. n :
          IF IsByte(k)' THEN wire'[k][2] = g[k] ELSE g[k] = g[k - 1]
    BY <1>1, <1>2, <1>3 DEF Marks, IsByte
  <2>3. ASSUME NEW j \in 0 .. n, NEW k \in 0 .. n, j <= k,
               \A i \in j + 1 .. k : IsByte(i)'
        PROVE  g[k] = g[j] + (k - j)
    <3>1. \A i \in j + 1 .. k : IsByte(i)
      BY <1>2, <2>3 DEF IsByte
    <3> QED
      BY <1>1, <1>2, <1>3, <2>3, <3>1 DEF Marks
  <2> QED
    BY <1>1, <1>2, <1>3, <1>4, <2>1, <2>2, <2>3 DEF Marks
<1>6. Promised(g)'
  <2>1. ASSUME NEW k \in 1 .. n, wire'[k][1] = "size"
        PROVE  /\ g[k] + wire'[k][2] <= sent
               /\ wire'[k][2] = 0 => g[k] = sent
    <3>1. k \in 1 .. L /\ wire'[k] = wire[k] /\ g[k] = m[k]
      BY <1>m, <1>2, <1>3
    <3> QED
      BY <1>1, <1>2, <2>1, <3>1 DEF Promised
  <2> QED
    BY <1>2, <2>1 DEF Promised
<1>7. Lines(g)'
  <2>1. ASSUME NEW k \in 1 .. n, wire'[k][1] = "crlf"
        PROVE  \/ g[k] > 0
               \/ k > 1 /\ wire'[k - 1] = SizeLine(0)
               \/ k = 1 /\ reader = "trailer"
    <3>1. /\ k \in 1 .. L /\ wire'[k] = wire[k] /\ g[k] = m[k]
          /\ k > 1 => k - 1 \in 1 .. n
      BY <1>m, <1>2, <1>3
    <3> QED
      BY <1>1, <1>2, <2>1, <3>1 DEF Lines
  <2> QED
    BY <1>2, <2>1 DEF Lines
<1> QED
  BY <1>5, <1>6, <1>7 DEF Marked

(* A prefix, element by element. *)
LEMMA PrefixAt ==
  ASSUME NEW u \in Seq(Tokens), NEW n \in 0 .. Len(u)
  PROVE  /\ SubSeq(u, 1, n) \in Seq(Tokens)
         /\ Len(SubSeq(u, 1, n)) = n
         /\ \A k \in 1 .. n : SubSeq(u, 1, n)[k] = u[k]
  OBVIOUS

(* Bytes of the body are written as they are. *)
PutBytes(n) ==
  /\ ~cut
  /\ \A k \in 1 .. Len(wire) : wire[k][1] = "byte"
  /\ wire' = wire \o Bytes(sent, n)
  /\ sent' = sent + n
  /\ UNCHANGED <<position, cut, reader>>

(* Concatenation, element by element. *)
LEMMA ConcatAt ==
  ASSUME NEW u \in Seq(Tokens), NEW v \in Seq(Tokens),
         NEW a, a = Len(u), NEW b, b = Len(v)
  PROVE  /\ u \o v \in Seq(Tokens)
         /\ Len(u \o v) = a + b
         /\ \A k \in 1 .. a : (u \o v)[k] = u[k]
         /\ \A k \in a + 1 .. a + b : (u \o v)[k] = v[k - a]
  OBVIOUS

LEMMA MarkedRaw ==
  ASSUME Types, Marked, NEW n \in Nat, PutBytes(n)
  PROVE  /\ Marked'
         /\ Len(wire') = Len(wire) + n
         /\ \A k \in 1 .. Len(wire') : wire'[k][1] = "byte"
<1>1. PICK m : Marks(m) /\ Promised(m) /\ Lines(m)
  BY DEF Marked
<1>l. PICK L \in Nat : L = Len(wire)
  BY DEF Types
<1>s. PICK s \in Nat : s = sent
  BY DEF Types
<1>2. L = Len(wire) /\ s = sent
  BY <1>l, <1>s
<1>3. /\ wire' \in Seq(Tokens)
      /\ Len(wire') = L + n
      /\ \A k \in 1 .. L : wire'[k] = wire[k]
      /\ \A k \in L + 1 .. L + n : wire'[k] = Byte(s + (k - L))
  <2>1. /\ Bytes(sent, n) \in Seq(Tokens)
        /\ Len(Bytes(sent, n)) = n
        /\ \A k \in 1 .. n : Bytes(sent, n)[k] = Byte(sent + k)
    BY <1>2, BytesAreTokens
  <2>2. wire \in Seq(Tokens) /\ wire' = wire \o Bytes(sent, n)
    BY DEF Types, PutBytes
  <2>3. /\ wire' \in Seq(Tokens)
        /\ Len(wire') = L + n
        /\ \A k \in 1 .. L : wire'[k] = wire[k]
        /\ \A k \in L + 1 .. L + n : wire'[k] = Bytes(sent, n)[k - L]
    <3>1. PICK b \in Seq(Tokens) : b = Bytes(sent, n)
      BY <2>1
    <3>2. PICK w \in Seq(Tokens) : w = wire
      BY <2>2
    <3>3. n = Len(b) /\ L = Len(w)
      BY <1>2, <2>1, <3>1, <3>2
    <3>4. /\ w \o b \in Seq(Tokens)
          /\ Len(w \o b) = L + n
          /\ \A k \in 1 .. L : (w \o b)[k] = w[k]
          /\ \A k \in L + 1 .. L + n : (w \o b)[k] = b[k - L]
      BY <3>3, ConcatAt
    <3> QED
      BY <2>2, <3>1, <3>2, <3>4
  <2>4. ASSUME NEW k \in L + 1 .. L + n
        PROVE  wire'[k] = Byte(s + (k - L))
    <3>1. k - L \in 1 .. n
      OBVIOUS
    <3> QED
      BY <1>2, <2>1, <2>3, <3>1
  <2> QED
    BY <2>3, <2>4
<1>4. /\ \A k \in L + 1 .. L + n :
           wire'[k][1] = "byte" /\ wire'[k][2] = s + (k - L)
      /\ \A k \in 1 .. L + n : wire'[k][1] = "byte"
  <2>1. ASSUME NEW k \in L + 1 .. L + n
        PROVE  wire'[k][1] = "byte" /\ wire'[k][2] = s + (k - L)
    <3>1. s + (k - L) \in Nat /\ wire'[k] = Byte(s + (k - L))
      BY <1>3
    <3> QED
      BY <3>1, TokenFacts
  <2>2. ASSUME NEW k \in 1 .. L
        PROVE  wire'[k][1] = "byte"
    BY <1>2, <1>3 DEF PutBytes
  <2> QED
    BY <2>1, <2>2
<1> DEFINE g == [k \in 0 .. L + n |-> IF k <= L THEN m[k] ELSE s + (k - L)]
<1>5. /\ m \in [0 .. L -> Nat] /\ m[L] = s /\ m[0] = position
      /\ \A j, k \in 0 .. L : j <= k => m[j] <= m[k]
      /\ \A k \in 1 .. L : wire[k][2] = m[k]
  BY <1>1, <1>2 DEF Marks, IsByte, PutBytes
<1>6. /\ g \in [0 .. L + n -> Nat]
      /\ \A k \in 0 .. L : g[k] = m[k]
      /\ \A k \in L .. L + n : g[k] = s + (k - L)
  BY <1>5
<1> HIDE DEF g
<1>7. Marks(g)'
  <2>1. ASSUME NEW j \in 0 .. L + n, NEW k \in 0 .. L + n, j <= k
        PROVE  g[j] <= g[k]
    <3>1. CASE k <= L
      BY <1>5, <1>6, <2>1, <3>1
    <3>2. CASE j >= L
      BY <1>5, <1>6, <2>1, <3>2
    <3>3. CASE j < L /\ L < k
      <4>1. g[j] = m[j] /\ m[j] <= m[L] /\ m[j] \in Nat
        BY <1>5, <1>6, <3>3
      <4> QED
        BY <1>5, <1>6, <3>3, <4>1
    <3> QED
      BY <3>1, <3>2, <3>3
  <2>2. ASSUME NEW k \in 1 .. L + n
        PROVE  IF IsByte(k)' THEN wire'[k][2] = g[k] ELSE g[k] = g[k - 1]
    <3>1. wire'[k][1] = "byte"
      BY <1>4
    <3>2. CASE k <= L
      <4>1. k \in 1 .. L /\ k \in 0 .. L
        BY <3>2
      <4>2. wire'[k][2] = m[k] /\ g[k] = m[k]
        BY <1>3, <1>5, <1>6, <4>1
      <4> QED
        BY <3>1, <4>2 DEF IsByte
    <3>3. CASE k > L
      <4>1. k \in L + 1 .. L + n /\ k \in L .. L + n
        BY <3>3
      <4>2. wire'[k][2] = s + (k - L) /\ g[k] = s + (k - L)
        BY <1>4, <1>6, <4>1
      <4> QED
        BY <3>1, <4>2 DEF IsByte
    <3> QED
      BY <3>2, <3>3
  <2>3. ASSUME NEW j \in 0 .. L + n, NEW k \in 0 .. L + n, j <= k
        PROVE  g[k] = g[j] + (k - j)
    <3>1. ASSUME NEW i \in 0 .. L
          PROVE  m[i] = position + i
      <4>1. \A l \in 0 + 1 .. i : IsByte(l)
        BY <1>2 DEF IsByte, PutBytes
      <4>2. 0 \in 0 .. L /\ i \in 0 .. L /\ 0 <= i
        OBVIOUS
      <4>3. m[i] = m[0] + (i - 0)
        BY <1>1, <1>2, <4>1, <4>2 DEF Marks
      <4> QED
        BY <1>5, <4>3
    <3>2. position \in Nat /\ s = position + L
      BY <1>5, <3>1 DEF Types
    <3>3. \A i \in 0 .. L + n : g[i] = position + i
      BY <1>6, <3>1, <3>2
    <3> QED
      BY <2>3, <3>2, <3>3
  <2>4. g[0] = position' /\ g[L + n] = sent' /\ sent' \in Nat
    <3>1. position' = position /\ sent' = s + n
      BY <1>2 DEF PutBytes
    <3>2. g[0] = m[0] /\ g[L + n] = s + ((L + n) - L)
      BY <1>6
    <3> QED
      BY <1>5, <3>1, <3>2
  <2>5. g[L + n] <= sent'
    BY <2>4
  <2> QED
    BY <1>3, <1>6, <2>1, <2>2, <2>3, <2>4, <2>5 DEF Marks
<1>8. Promised(g)' /\ Lines(g)'
  BY <1>3, <1>4 DEF Promised, Lines
<1> QED
  BY <1>2, <1>3, <1>4, <1>7, <1>8 DEF Marked

(* A chunk is written: its size line, its bytes, an empty line.  The final *)
(* chunk is the one of no bytes, and there is none before.                 *)
PutChunk(n) ==
  /\ ~cut
  /\ \A k \in 1 .. Len(wire) : wire[k] # SizeLine(0)
  /\ wire' = wire \o <<SizeLine(n)>> \o Bytes(sent, n) \o <<EmptyLine>>
  /\ sent' = sent + n
  /\ UNCHANGED <<position, cut, reader>>

LEMMA MarkedChunk ==
  ASSUME Types, Marked, NEW n \in Nat, PutChunk(n)
  PROVE  /\ Marked'
         /\ wire' \in Seq(Tokens)
         /\ Len(wire') = Len(wire) + n + 2
         /\ \A k \in 1 .. Len(wire') :
              wire'[k] = SizeLine(0) <=> n = 0 /\ k = Len(wire) + 1
<1>1. PICK m : Marks(m) /\ Promised(m) /\ Lines(m)
  BY DEF Marked
<1>l. PICK L \in Nat : L = Len(wire)
  BY DEF Types
<1>s. PICK s \in Nat : s = sent
  BY DEF Types
<1>2. L = Len(wire) /\ s = sent
  BY <1>l, <1>s
<1>3. /\ wire' \in Seq(Tokens)
      /\ Len(wire') = L + n + 2
      /\ \A k \in 1 .. L : wire'[k] = wire[k]
      /\ wire'[L + 1] = SizeLine(n)
      /\ \A k \in L + 2 .. L + n + 1 : wire'[k] = Byte(s + (k - L - 1))
      /\ wire'[L + n + 2] = EmptyLine
  <2>1. /\ Bytes(sent, n) \in Seq(Tokens)
        /\ Len(Bytes(sent, n)) = n
        /\ \A k \in 1 .. n : Bytes(sent, n)[k] = Byte(sent + k)
    BY <1>2, BytesAreTokens
  <2>2. <<SizeLine(n)>> \in Seq(Tokens) /\ <<EmptyLine>> \in Seq(Tokens)
    BY TokenFacts
  <2>0. Len(<<SizeLine(n)>>) = 1 /\ Len(<<EmptyLine>>) = 1
    OBVIOUS
  <2>3. PICK u \in Seq(Tokens) :
          /\ u = wire \o <<SizeLine(n)>>
          /\ Len(u) = L + 1
          /\ \A k \in 1 .. L : u[k] = wire[k]
          /\ u[L + 1] = SizeLine(n)
    <3> DEFINE u == wire \o <<SizeLine(n)>>
    <3>1. /\ u \in Seq(Tokens) /\ Len(u) = L + 1
          /\ \A k \in 1 .. L : u[k] = wire[k]
          /\ \A k \in L + 1 .. L + 1 : u[k] = <<SizeLine(n)>>[k - L]
      BY <1>2, <2>0, <2>2, ConcatAt DEF Types
    <3>2. u[L + 1] = SizeLine(n)
      BY <3>1
    <3> HIDE DEF u
    <3> QED
      BY <3>1, <3>2 DEF u
  <2>4. PICK v \in Seq(Tokens) :
          /\ v = u \o Bytes(sent, n)
          /\ Len(v) = L + 1 + n
          /\ \A k \in 1 .. L + 1 : v[k] = u[k]
          /\ \A k \in L + 2 .. L + 1 + n : v[k] = Byte(s + (k - L - 1))
    <3> DEFINE v == u \o Bytes(sent, n)
    <3>1. /\ v \in Seq(Tokens) /\ Len(v) = L + 1 + n
          /\ \A k \in 1 .. L + 1 : v[k] = u[k]
          /\ \A k \in L + 2 .. L + 1 + n : v[k] = Bytes(sent, n)[k - (L + 1)]
      <4>1. PICK b \in Seq(Tokens) : b = Bytes(sent, n)
        BY <2>1
      <4>0. PICK a \in Nat : a = L + 1
        OBVIOUS
      <4>2. n = Len(b) /\ a = Len(u)
        BY <2>1, <2>3, <4>0, <4>1
      <4>3. /\ u \o b \in Seq(Tokens) /\ Len(u \o b) = a + n
            /\ \A k \in 1 .. a : (u \o b)[k] = u[k]
            /\ \A k \in a + 1 .. a + n : (u \o b)[k] = b[k - a]
        BY <4>2, ConcatAt
      <4>4. v = u \o b
        BY <4>1
      <4>5. a + 1 = L + 2 /\ a + n = L + 1 + n /\ a = L + 1
        BY <4>0
      <4> HIDE DEF v
      <4> QED
        BY <4>1, <4>3, <4>4, <4>5
    <3>2. ASSUME NEW k \in L + 2 .. L + 1 + n
          PROVE  v[k] = Byte(s + (k - L - 1))
      <4>1. k - (L + 1) \in 1 .. n /\ k - (L + 1) = k - L - 1
        OBVIOUS
      <4> QED
        BY <1>2, <2>1, <3>1, <4>1
    <3> HIDE DEF v
    <3> QED
      BY <3>1, <3>2 DEF v
  <2>5. /\ v \o <<EmptyLine>> \in Seq(Tokens)
        /\ Len(v \o <<EmptyLine>>) = L + n + 2
        /\ \A k \in 1 .. L + 1 + n : (v \o <<EmptyLine>>)[k] = v[k]
        /\ (v \o <<EmptyLine>>)[L + n + 2] = EmptyLine
    <3> DEFINE w == v \o <<EmptyLine>>
    <3>1. /\ w \in Seq(Tokens) /\ Len(w) = L + 1 + n + 1
          /\ \A k \in 1 .. L + 1 + n : w[k] = v[k]
          /\ \A k \in L + 1 + n + 1 .. L + 1 + n + 1 :
               w[k] = <<EmptyLine>>[k - (L + 1 + n)]
      <4>1. Len(v) = L + 1 + n /\ L + 1 + n \in Nat
        BY <2>4
      <4> QED
        BY <2>0, <2>2, <4>1, ConcatAt
    <3>2. w[L + n + 2] = EmptyLine
      BY <3>1
    <3> HIDE DEF w
    <3>3. w \in Seq(Tokens) /\ Len(w) = L + n + 2
      BY <3>1
    <3> QED
      BY <3>1, <3>2, <3>3 DEF w
  <2>6. wire' = v \o <<EmptyLine>>
    BY <2>3, <2>4 DEF PutChunk
  <2>7. /\ wire' \in Seq(Tokens) /\ Len(wire') = L + n + 2
        /\ wire'[L + n + 2] = EmptyLine
        /\ \A k \in 1 .. L + 1 + n : wire'[k] = v[k]
    BY <2>5, <2>6
  <2>8. \A k \in 1 .. L : wire'[k] = wire[k]
    BY <2>3, <2>4, <2>7
  <2>9. wire'[L + 1] = SizeLine(n)
    BY <2>3, <2>4, <2>7
  <2>10. ASSUME NEW k \in L + 2 .. L + n + 1
         PROVE  wire'[k] = Byte(s + (k - L - 1))
    <3>1. k \in L + 2 .. L + 1 + n /\ k \in 1 .. L + 1 + n
      OBVIOUS
    <3> QED
      BY <2>4, <2>7, <3>1
  <2> QED
    BY <2>7, <2>8, <2>9, <2>10
<1>4. /\ wire'[L + 1][1] = "size" /\ wire'[L + 1][2] = n
      /\ wire'[L + n + 2][1] = "crlf"
      /\ \A k \in L + 2 .. L + n + 1 :
           wire'[k][1] = "byte" /\ wire'[k][2] = s + (k - L - 1)
  <2>1. ASSUME NEW k \in L + 2 .. L + n + 1
        PROVE  wire'[k][1] = "byte" /\ wire'[k][2] = s + (k - L - 1)
    <3>1. s + (k - L - 1) \in Nat /\ wire'[k] = Byte(s + (k - L - 1))
      BY <1>3
    <3> QED
      BY <3>1, TokenFacts
  <2> QED
    BY <1>3, <2>1, TokenFacts
<1> DEFINE g == [k \in 0 .. L + n + 2 |->
                   IF k <= L THEN m[k]
                   ELSE IF k = L + n + 2 THEN s + n ELSE s + (k - L - 1)]
<1>5. /\ m \in [0 .. L -> Nat] /\ m[L] = s /\ m[0] = position
      /\ \A j, k \in 0 .. L : j <= k => m[j] <= m[k]
      /\ \A k \in 0 .. L : m[k] <= s
  <2>1. /\ m \in [0 .. L -> Nat] /\ m[L] = s /\ m[0] = position
        /\ \A j, k \in 0 .. L : j <= k => m[j] <= m[k]
    BY <1>1, <1>2 DEF Marks, PutChunk
  <2>2. ASSUME NEW k \in 0 .. L
        PROVE  m[k] <= s
    <3>1. L \in 0 .. L /\ k <= L
      OBVIOUS
    <3> QED
      BY <2>1, <3>1
  <2> QED
    BY <2>1, <2>2
<1>6. /\ g \in [0 .. L + n + 2 -> Nat]
      /\ \A k \in 0 .. L : g[k] = m[k]
      /\ \A k \in L + 1 .. L + n + 1 : g[k] = s + (k - L - 1)
      /\ g[L + n + 2] = s + n
  BY <1>5
<1> HIDE DEF g
<1>7. Marks(g)'
  <2>1. ASSUME NEW j \in 0 .. L + n + 2, NEW k \in 0 .. L + n + 2, j <= k
        PROVE  g[j] <= g[k]
    <3>1. CASE k <= L
      BY <1>5, <1>6, <2>1, <3>1
    <3>2. CASE k > L
      <4>1. \/ g[k] = s + n /\ k = L + n + 2
            \/ g[k] = s + (k - L - 1) /\ k \in L + 1 .. L + n + 1
        <5>1. k = L + n + 2 \/ k \in L + 1 .. L + n + 1
          BY <3>2
        <5> QED
          BY <1>6, <5>1
      <4>2. CASE j <= L
        <5>1. g[j] = m[j] /\ m[j] <= s /\ m[j] \in Nat
          BY <1>5, <1>6, <4>2
        <5> QED
          BY <3>2, <4>1, <5>1
      <4>3. CASE j > L
        BY <1>6, <2>1, <4>1, <4>3
      <4> QED
        BY <4>2, <4>3
    <3> QED
      BY <3>1, <3>2
  <2>2. ASSUME NEW k \in 1 .. L + n + 2
        PROVE  IF IsByte(k)' THEN wire'[k][2] = g[k] ELSE g[k] = g[k - 1]
    <3>1. CASE k <= L
      <4>1. k \in 1 .. L /\ k - 1 \in 0 .. L /\ k \in 0 .. L
        BY <3>1
      <4>2. IF wire[k][1] = "byte" THEN wire[k][2] = m[k] ELSE m[k] = m[k - 1]
        BY <1>1, <1>2, <4>1 DEF Marks, IsByte
      <4> QED
        BY <1>3, <1>6, <4>1, <4>2 DEF IsByte
    <3>2. CASE k = L + 1
      <4>1. L + 1 \in L + 1 .. L + n + 1 /\ L \in 0 .. L /\ (L + 1) - 1 = L
        OBVIOUS
      <4>2. g[L + 1] = s + ((L + 1) - L - 1) /\ g[L] = s
        BY <1>5, <1>6, <4>1
      <4>3. wire'[L + 1][1] # "byte"
        BY <1>4
      <4>4. g[L + 1] = g[(L + 1) - 1]
        BY <4>1, <4>2
      <4> QED
        BY <3>2, <4>3, <4>4 DEF IsByte
    <3>3. CASE k \in L + 2 .. L + n + 1
      <4>1. k \in L + 1 .. L + n + 1
        BY <3>3
      <4> QED
        BY <1>4, <1>6, <3>3, <4>1 DEF IsByte
    <3>4. CASE k = L + n + 2
      <4>1. L + n + 1 \in L + 1 .. L + n + 1
        OBVIOUS
      <4>2. g[L + n + 1] = s + n
        BY <1>6, <4>1
      <4> QED
        BY <1>4, <1>6, <3>4, <4>2 DEF IsByte
    <3> QED
      BY <3>1, <3>2, <3>3, <3>4
  <2>3. ASSUME NEW j \in 0 .. L + n + 2, NEW k \in 0 .. L + n + 2, j <= k,
               \A i \in j + 1 .. k : IsByte(i)'
        PROVE  g[k] = g[j] + (k - j)
    <3>1. CASE k <= L
      <4>1. \A i \in j + 1 .. k : IsByte(i)
        BY <1>3, <2>3, <3>1 DEF IsByte
      <4>2. j \in 0 .. L /\ k \in 0 .. L
        BY <2>3, <3>1
      <4>3. m[k] = m[j] + (k - j)
        BY <1>1, <1>2, <2>3, <4>1, <4>2 DEF Marks
      <4> QED
        BY <1>6, <4>2, <4>3
    <3>2. CASE j <= L /\ k > L
      <4>1. L + 1 \in j + 1 .. k
        BY <3>2
      <4>2. IsByte(L + 1)'
        BY <2>3, <4>1
      <4> QED
        BY <1>4, <4>2 DEF IsByte
    <3>3. CASE j > L /\ k = L + n + 2 /\ j < k
      <4>1. k \in j + 1 .. k
        BY <3>3
      <4>2. IsByte(k)'
        BY <2>3, <4>1
      <4> QED
        BY <1>4, <3>3, <4>2 DEF IsByte
    <3>4. CASE j > L /\ k <= L + n + 1
      BY <1>6, <2>3, <3>4
    <3>5. CASE j = k
      BY <1>6, <3>5
    <3> QED
      BY <2>3, <3>1, <3>2, <3>3, <3>4, <3>5
  <2>4. g[0] = position' /\ g[L + n + 2] = sent' /\ sent' \in Nat
    BY <1>2, <1>5, <1>6 DEF PutChunk
  <2> QED
    BY <1>3, <1>6, <2>1, <2>2, <2>3, <2>4 DEF Marks
<1>8. Promised(g)'
  <2>1. ASSUME NEW k \in 1 .. L + n + 2, wire'[k][1] = "size"
        PROVE  /\ g[k] + wire'[k][2] <= s + n
               /\ wire'[k][2] = 0 => g[k] = s + n
    <3>1. CASE k <= L
      <4>1. k \in 1 .. L /\ wire'[k] = wire[k] /\ g[k] = m[k]
        BY <1>3, <1>6, <3>1
      <4>2. wire[k] \in Tokens /\ wire[k][2] \in Nat /\ wire[k] # SizeLine(0)
        BY <1>2, <4>1, TokenFacts DEF Types, PutChunk
      <4>3. wire[k][2] # 0
        BY <2>1, <4>1, <4>2, TokenFacts
      <4>4. m[k] + wire[k][2] <= s
        BY <1>1, <1>2, <2>1, <4>1 DEF Promised
      <4> QED
        BY <1>5, <4>1, <4>2, <4>3, <4>4
    <3>2. CASE k = L + 1
      <4>1. L + 1 \in L + 1 .. L + n + 1
        OBVIOUS
      <4>2. g[L + 1] = s + ((L + 1) - L - 1)
        BY <1>6, <4>1
      <4> QED
        BY <1>4, <3>2, <4>2
    <3>3. CASE k > L + 1
      BY <1>4, <2>1, <3>3
    <3> QED
      BY <3>1, <3>2, <3>3
  <2>2. sent' = s + n
    BY <1>2 DEF PutChunk
  <2> QED
    BY <1>3, <2>1, <2>2 DEF Promised
<1>9. Lines(g)'
  <2>1. ASSUME NEW k \in 1 .. L + n + 2, wire'[k][1] = "crlf"
        PROVE  \/ g[k] > 0
               \/ k > 1 /\ wire'[k - 1] = SizeLine(0)
               \/ k = 1 /\ reader = "trailer"
    <3>1. CASE k <= L
      <4>1. /\ k \in 1 .. L /\ wire'[k] = wire[k] /\ g[k] = m[k]
            /\ k > 1 => wire'[k - 1] = wire[k - 1]
        BY <1>3, <1>6, <3>1
      <4> QED
        BY <1>1, <1>2, <2>1, <4>1 DEF Lines
    <3>2. CASE k > L
      <4>1. k = L + n + 2
        BY <1>4, <2>1, <3>2
      <4>2. CASE n > 0
        BY <1>6, <4>1, <4>2
      <4>3. CASE n = 0
        BY <1>3, <4>1, <4>3
      <4> QED
        BY <4>2, <4>3
    <3> QED
      BY <3>1, <3>2
  <2>2. reader' = reader
    BY DEF PutChunk
  <2> QED
    BY <1>3, <2>1, <2>2 DEF Lines
<1>10. \A k \in 1 .. L + n + 2 :
         wire'[k] = SizeLine(0) <=> n = 0 /\ k = L + 1
  <2>1. \A k \in 1 .. L : wire'[k] # SizeLine(0)
    BY <1>2, <1>3 DEF PutChunk
  <2>2. \A k \in L + 2 .. L + n + 2 : wire'[k] # SizeLine(0)
    <3>1. SizeLine(0)[1] = "size"
      BY TokenFacts
    <3> QED
      BY <1>4, <3>1
  <2>3. SizeLine(n) = SizeLine(0) <=> n = 0
    BY TokenFacts
  <2> QED
    BY <1>3, <2>1, <2>2, <2>3
<1> QED
  BY <1>2, <1>3, <1>7, <1>8, <1>9, <1>10 DEF Marked

-----------------------------------------------------------------------------
(* The writing end and the connection.                                     *)

LEMMA NoFinalYet ==
  ASSUME IInv, writer = "open"
  PROVE  /\ finals = 0
         /\ \A k \in 1 .. Len(wire) : wire[k] # SizeLine(0)
         /\ reader # "trailer"
<1>1. finals \in Nat /\ finals <= 1 /\ finals # 1
  BY DEF IInv, Types, Writing
<1> QED
  BY <1>1 DEF IInv, FinalLast, Trailer

(* All that is on the connection is bytes: they are among what was sent.   *)
LEMMA BytesBound ==
  ASSUME Types, Marked, \A k \in 1 .. Len(wire) : IsByte(k)
  PROVE  position + Len(wire) <= sent
<1>1. PICK m : Marks(m)
  BY DEF Marked
<1>2. PICK L \in Nat : L = Len(wire)
  BY DEF Types
<1>3. 0 \in 0 .. L /\ L \in 0 .. L /\ 0 <= L /\ \A i \in 0 + 1 .. L : IsByte(i)
  BY <1>2
<1>4. m[L] = m[0] + (L - 0)
  BY <1>1, <1>2, <1>3 DEF Marks
<1> QED
  BY <1>1, <1>2, <1>4 DEF Marks, Types

LEMMA WriteChunkStep ==
  ASSUME IInv, NEW len \in WriteSizes, Write(len), WriteChunk(len)
  PROVE  IInv'
<1>1. /\ len \in Nat \ {0}
      /\ writer = "open" /\ closed = FALSE /\ cut = FALSE
      /\ UNCHANGED <<mode, closed, cut, writer, finals, readerVars, taken>>
  BY SizesAssumption DEF Write, IInv, Writing, Types
<1>2. /\ finals = 0
      /\ \A k \in 1 .. Len(wire) : wire[k] # SizeLine(0)
      /\ reader # "trailer"
  BY <1>1, NoFinalYet
<1>3. PutChunk(len)
  BY <1>1, <1>2 DEF PutChunk, WriteChunk, readerVars
<1>4. /\ Marked'
      /\ wire' \in Seq(Tokens)
      /\ \A k \in 1 .. Len(wire') : wire'[k] # SizeLine(0)
  BY <1>1, <1>3, MarkedChunk DEF IInv
<1>5. /\ Chunked /\ Chunked' = Chunked /\ Framed' = Framed
      /\ mode.length < 0
      /\ sent' = sent + len
  BY <1>1, ModeFacts DEF WriteChunk, Chunked, Framed, IInv, Types
<1>6. Types'
  BY <1>1, <1>4, <1>5 DEF IInv, Types, readerVars
<1>7. FinalLast' /\ FinalThere' /\ Trailer' /\ OnlyBytes'
  BY <1>1, <1>2, <1>4, <1>5
     DEF FinalLast, FinalThere, Trailer, OnlyBytes, readerVars
<1>8. Received'
  BY <1>1 DEF IInv, Received, readerVars
<1>9. Writing'
  <2>1. mode.length \in Int /\ mode'.length = mode.length
    BY <1>1, ModeFacts DEF IInv, Types
  <2> QED
    BY <1>1, <1>2, <1>5, <2>1 DEF Writing
<1>10. Reading'
  BY <1>1, <1>5 DEF IInv, Reading, Types, readerVars
<1>11. CleanEndIsComplete'
  <2>1. reader = "eof" => ~Framed
    <3>1. EofIsComplete
      BY DEF IInv, CleanEndIsComplete
    <3>2. mode.length \in Int /\ finals # 1
      BY <1>2, ModeFacts DEF IInv, Types
    <3> QED
      BY <1>1, <1>5, <3>1, <3>2 DEF EofIsComplete
  <2>2. error \notin {"Incomplete", "InChunk", "AfterSize"}
    BY <1>1 DEF IInv, CleanEndIsComplete, IncompleteMeansClosed
  <2> QED
    BY <1>1, <1>5, <2>1, <2>2
       DEF CleanEndIsComplete, EofIsComplete, IncompleteMeansClosed, readerVars
<1> QED
  BY <1>4, <1>6, <1>7, <1>8, <1>9, <1>10, <1>11 DEF IInv

LEMMA WriteBytesStep ==
  ASSUME IInv, NEW len \in WriteSizes, Write(len),
         WriteLength(len) \/ WriteRaw(len)
  PROVE  IInv'
<1>1. /\ len \in Nat \ {0}
      /\ writer = "open" /\ closed = FALSE /\ cut = FALSE
      /\ UNCHANGED <<mode, closed, cut, writer, finals, readerVars, taken>>
  BY SizesAssumption DEF Write, IInv, Writing, Types
<1>2. /\ finals = 0
      /\ reader # "trailer"
  BY <1>1, NoFinalYet
<1>3. /\ ~Chunked /\ Chunked' = Chunked /\ Framed' = Framed
      /\ mode.length \in Int /\ sent \in Nat /\ position \in Nat
      /\ Framed => mode.length >= 0
  BY <1>1, ModeFacts DEF WriteLength, WriteRaw, Chunked, Framed, IInv, Types
<1>4. \A k \in 1 .. Len(wire) : IsByte(k)
  BY <1>3 DEF IInv, OnlyBytes
<1>5. PICK n \in Nat :
        /\ wire' = wire \o Bytes(sent, n)
        /\ sent' = sent + n
        /\ Framed => sent < mode.length /\ sent + n <= mode.length
        /\ mode.length >= 0 => Framed
  <2>1. CASE WriteLength(len)
    <3>1. mode.length - sent \in Nat \ {0}
      BY <1>3, <2>1 DEF WriteLength
    <3>2. /\ Least(mode.length - sent, len) \in Nat
          /\ Least(mode.length - sent, len) <= mode.length - sent
      BY <1>1, <3>1, LeastFacts
    <3>3. PICK n \in 1 .. Least(mode.length - sent, len) :
            wire' = wire \o Bytes(sent, n) /\ sent' = sent + n
      BY <2>1 DEF WriteLength, Accepted
    <3>4. n \in Nat /\ sent < mode.length /\ sent + n <= mode.length
      BY <1>3, <3>1, <3>2, <3>3
    <3>5. mode.length >= 0 => Framed
      BY DEF Framed
    <3> QED
      BY <3>3, <3>4, <3>5
  <2>2. CASE WriteRaw(len)
    <3>1. PICK n \in 1 .. len :
            wire' = wire \o Bytes(sent, n) /\ sent' = sent + n
      BY <2>2 DEF WriteRaw, Accepted
    <3>2. ~Framed /\ mode.length < 0 /\ n \in Nat
      BY <1>1, <1>3, <2>2 DEF WriteRaw, Framed
    <3> QED
      BY <1>3, <3>1, <3>2
  <2> QED
    BY <2>1, <2>2
<1>6. PutBytes(n)
  BY <1>1, <1>4, <1>5 DEF PutBytes, IsByte, readerVars
<1>7. /\ Marked'
      /\ \A k \in 1 .. Len(wire') : IsByte(k)'
  BY <1>6, MarkedRaw DEF IInv, IsByte
<1>8. wire' \in Seq(Tokens)
  <2>1. PICK b \in Seq(Tokens) : b = Bytes(sent, n)
    BY <1>3, BytesAreTokens
  <2>2. wire \in Seq(Tokens) /\ wire' = wire \o b
    BY <1>5, <2>1 DEF IInv, Types
  <2> QED
    BY <2>2, ConcatAt
<1>9. Types'
  BY <1>1, <1>3, <1>5, <1>8 DEF IInv, Types, readerVars
<1>10. \A k \in 1 .. Len(wire') : wire'[k] # SizeLine(0)
  BY <1>7, TokenFacts DEF IsByte
<1>11. FinalLast' /\ FinalThere' /\ Trailer' /\ OnlyBytes'
  BY <1>1, <1>2, <1>3, <1>7, <1>10
     DEF FinalLast, FinalThere, Trailer, OnlyBytes, readerVars
<1>12. Received'
  BY <1>1 DEF IInv, Received, readerVars
<1>13. Writing'
  BY <1>1, <1>2, <1>3, <1>5 DEF IInv, Writing, Types
<1>14. Reading'
  BY <1>1, <1>3, <1>5 DEF IInv, Reading, Types, readerVars
<1>15. CleanEndIsComplete'
  <2>1. reader = "eof" => ~Framed
    <3>1. ASSUME reader = "eof", Framed
          PROVE  FALSE
      <4>1. position = mode.length
        BY <1>1, <1>3, <3>1 DEF IInv, CleanEndIsComplete, EofIsComplete
      <4>2. position <= sent
        BY PositionBound DEF IInv
      <4> QED
        BY <1>3, <1>5, <3>1, <4>1, <4>2
    <3> QED
      BY <3>1
  <2>2. error \notin {"Incomplete", "InChunk", "AfterSize"}
    BY <1>1 DEF IInv, CleanEndIsComplete, IncompleteMeansClosed
  <2> QED
    BY <1>1, <1>3, <2>1, <2>2
       DEF CleanEndIsComplete, EofIsComplete, IncompleteMeansClosed, readerVars
<1> QED
  BY <1>7, <1>9, <1>11, <1>12, <1>13, <1>14, <1>15 DEF IInv

(* Close and the destructor. *)
EndWriting ==
  /\ writer # "destroyed"
  /\ WriteFinal
  /\ writer' \in {"closed", "destroyed"}
  /\ UNCHANGED <<mode, closed, cut, sent, readerVars, taken>>

LEMMA EndWritingStep ==
  ASSUME IInv, EndWriting
  PROVE  IInv'
<1>1. /\ writer # "destroyed"
      /\ writer' \in {"closed", "destroyed"}
      /\ UNCHANGED <<mode, closed, cut, sent, readerVars, taken>>
      /\ Chunked' = Chunked /\ Framed' = Framed
  BY DEF EndWriting, Chunked, Framed
<1>2. Received' /\ Reading'
  BY <1>1 DEF IInv, Received, Reading, readerVars
<1>3. CASE Chunked /\ writer = "open" /\ ~closed
  <2>1. /\ wire' = wire \o <<SizeLine(0), EmptyLine>>
        /\ finals' = finals + 1
    BY <1>3 DEF EndWriting, WriteFinal
  <2>2. /\ finals = 0
        /\ \A k \in 1 .. Len(wire) : wire[k] # SizeLine(0)
        /\ reader # "trailer"
    BY <1>3, NoFinalYet
  <2>3. wire' = wire \o <<SizeLine(0)>> \o Bytes(sent, 0) \o <<EmptyLine>>
    <3>1. Bytes(sent, 0) = <<>>
      BY DEF Bytes
    <3>2. PICK a \in Tokens, b \in Tokens : a = SizeLine(0) /\ b = EmptyLine
      BY TokenFacts
    <3>3. PICK w \in Seq(Tokens) : w = wire
      BY DEF IInv, Types
    <3>4. w \o <<a, b>> = ((w \o <<a>>) \o <<>>) \o <<b>>
      BY <3>2, <3>3
    <3> QED
      BY <2>1, <3>1, <3>2, <3>3, <3>4
  <2>4. cut = FALSE /\ closed = FALSE
    BY <1>3 DEF IInv, Writing, Types
  <2>5. PutChunk(0)
    BY <1>1, <2>2, <2>3, <2>4 DEF PutChunk, readerVars, IInv, Types
  <2>6. /\ Marked'
        /\ wire' \in Seq(Tokens)
        /\ Len(wire') = Len(wire) + 2
        /\ \A k \in 1 .. Len(wire') :
             wire'[k] = SizeLine(0) <=> k = Len(wire) + 1
    BY <2>5, MarkedChunk DEF IInv, Types
  <2>7. Len(wire) \in Nat
    BY DEF IInv, Types
  <2>8. Types'
    BY <1>1, <2>1, <2>2, <2>6 DEF IInv, Types, readerVars
  <2>9. FinalLast'
    BY <2>1, <2>2, <2>6, <2>7 DEF FinalLast
  <2>10. FinalThere'
    <3>1. Len(wire) + 1 \in 1 .. Len(wire')
      BY <2>6, <2>7
    <3> QED
      BY <2>6, <3>1 DEF FinalThere
  <2>11. Trailer' /\ OnlyBytes'
    BY <1>1, <1>3, <2>2 DEF Trailer, OnlyBytes, readerVars
  <2>12. Writing'
    BY <1>1, <1>3, <2>1, <2>2, <2>4 DEF IInv, Writing
  <2>13. CleanEndIsComplete'
    <3>1. reader = "eof" => ~Framed
      BY <1>3, <2>2, <2>4, ModeFacts
         DEF IInv, CleanEndIsComplete, EofIsComplete, Types
    <3>2. error \notin {"Incomplete", "InChunk", "AfterSize"}
      BY <2>4 DEF IInv, CleanEndIsComplete, IncompleteMeansClosed
    <3> QED
      BY <1>1, <3>1, <3>2
         DEF CleanEndIsComplete, EofIsComplete, IncompleteMeansClosed, readerVars
  <2> QED
    BY <1>2, <2>6, <2>8, <2>9, <2>10, <2>11, <2>12, <2>13 DEF IInv
<1>4. CASE ~(Chunked /\ writer = "open" /\ ~closed)
  <2>1. UNCHANGED <<wire, finals>>
    BY <1>4 DEF EndWriting, WriteFinal
  <2>2. Marked'
    BY <1>1, <2>1, MarkedSame DEF IInv, readerVars
  <2>3. Types'
    BY <1>1, <2>1 DEF IInv, Types, readerVars
  <2>4. FinalLast' /\ FinalThere' /\ Trailer' /\ OnlyBytes'
    BY <1>1, <2>1
       DEF IInv, FinalLast, FinalThere, Trailer, OnlyBytes, IsByte, readerVars
  <2>5. Writing'
    <3>1. Chunked /\ ~cut => finals = 1
      <4>1. ~cut => ~closed
        BY <1>1 DEF IInv, Writing
      <4>2. writer # "open" /\ Chunked /\ ~cut => finals = 1
        BY DEF IInv, Writing
      <4> QED
        BY <1>4, <4>1, <4>2
    <3>2. closed /\ ~cut => FALSE
      BY <1>1 DEF IInv, Writing
    <3> QED
      BY <1>1, <2>1, <3>1, <3>2 DEF IInv, Writing
  <2>6. CleanEndIsComplete'
    BY <1>1, <2>1
       DEF IInv, CleanEndIsComplete, EofIsComplete, IncompleteMeansClosed, readerVars
  <2> QED
    BY <1>2, <2>2, <2>3, <2>4, <2>5, <2>6 DEF IInv
<1> QED
  BY <1>3, <1>4

LEMMA CloseConnectionStep ==
  ASSUME IInv, CloseConnection
  PROVE  IInv'
<1>1. /\ writer = "destroyed" /\ ~closed /\ closed' = TRUE
      /\ UNCHANGED <<mode, wire, cut, writerVars, readerVars, taken>>
      /\ Chunked' = Chunked /\ Framed' = Framed
  BY DEF CloseConnection, Chunked, Framed
<1> USE DEF writerVars, readerVars
<1>2. Marked'
  BY <1>1, MarkedSame DEF IInv
<1>3. Types' /\ Received' /\ Reading'
  BY <1>1 DEF IInv, Types, Received, Reading
<1>4. FinalLast' /\ FinalThere' /\ Trailer' /\ OnlyBytes'
  BY <1>1 DEF IInv, FinalLast, FinalThere, Trailer, OnlyBytes, IsByte
<1>5. Writing'
  BY <1>1 DEF IInv, Writing
<1>6. CleanEndIsComplete'
  BY <1>1 DEF IInv, CleanEndIsComplete, EofIsComplete, IncompleteMeansClosed
<1> QED
  BY <1>2, <1>3, <1>4, <1>5, <1>6 DEF IInv

LEMMA LoseConnectionStep ==
  ASSUME IInv, LoseConnection
  PROVE  IInv'
<1>1. /\ ~closed /\ closed' = TRUE /\ cut' = TRUE
      /\ UNCHANGED <<mode, writerVars, readerVars, taken>>
      /\ Chunked' = Chunked /\ Framed' = Framed
  BY DEF LoseConnection, Chunked, Framed
<1>2. PICK n \in 0 .. Len(wire) : wire' = SubSeq(wire, 1, n)
  BY DEF LoseConnection
<1> USE DEF writerVars, readerVars
<1>3. Marked'
  BY <1>1, <1>2, MarkedCut DEF IInv
<1>4. /\ Len(wire) \in Nat /\ n \in Nat /\ n <= Len(wire)
      /\ wire' \in Seq(Tokens)
      /\ Len(wire') = n
      /\ \A k \in 1 .. n : wire'[k] = wire[k]
  BY <1>2 DEF IInv, Types
<1>5. Types' /\ Received' /\ Reading'
  BY <1>1, <1>4 DEF IInv, Types, Received, Reading
<1>6. FinalLast'
  <2>1. ASSUME NEW k \in 1 .. n, wire'[k] = SizeLine(0)
        PROVE  finals = 1 /\ k >= n - 1
    <3>1. k \in 1 .. Len(wire) /\ wire[k] = SizeLine(0)
      BY <1>4, <2>1
    <3>2. finals = 1 /\ k >= Len(wire) - 1
      BY <3>1 DEF IInv, FinalLast
    <3> QED
      BY <1>4, <3>2
  <2> QED
    BY <1>1, <1>4, <2>1 DEF FinalLast
<1>7. FinalThere' /\ Trailer'
  BY <1>1, <1>4 DEF IInv, FinalThere, Trailer
<1>8. OnlyBytes'
  BY <1>1, <1>4 DEF IInv, OnlyBytes, IsByte
<1>9. Writing'
  BY <1>1 DEF IInv, Writing
<1>10. CleanEndIsComplete'
  <2>1. wire = <<>> => wire' = <<>>
    BY <1>4
  <2>2. EofIsComplete'
    BY <1>1, <2>1 DEF IInv, CleanEndIsComplete, EofIsComplete
  <2>3. error \notin {"Incomplete", "InChunk", "AfterSize"}
    BY <1>1 DEF IInv, CleanEndIsComplete, IncompleteMeansClosed
  <2> QED
    BY <1>1, <2>2, <2>3 DEF CleanEndIsComplete, IncompleteMeansClosed
<1> QED
  BY <1>3, <1>5, <1>6, <1>7, <1>8, <1>9, <1>10 DEF IInv

-----------------------------------------------------------------------------
(* The reading end.                                                        *)

(* A line at the head of the connection says what the marks allow it to.   *)
LEMMA HeadLine ==
  ASSUME Types, Marked, wire # <<>>, ~IsByte(1)
  PROVE  /\ wire[1][1] = "size" =>
              /\ position + wire[1][2] <= sent
              /\ wire[1][2] = 0 => position = sent
         /\ wire[1][1] = "crlf" /\ reader # "trailer" => position > 0
<1>1. PICK m : Marks(m) /\ Promised(m) /\ Lines(m)
  BY DEF Marked
<1>2. PICK L \in Nat \ {0} : L = Len(wire)
  BY DEF Types
<1>3. 1 \in 1 .. L /\ 1 - 1 = 0 /\ ~(1 > 1)
  OBVIOUS
<1>4. m[1] = m[0] /\ m[0] = position
  BY <1>1, <1>2, <1>3 DEF Marks
<1>5. wire[1][1] = "size" =>
        m[1] + wire[1][2] <= sent /\ (wire[1][2] = 0 => m[1] = sent)
  BY <1>1, <1>2, <1>3 DEF Promised
<1>6. wire[1][1] = "crlf" /\ reader # "trailer" => m[1] > 0
  BY <1>1, <1>2, <1>3 DEF Lines
<1> QED
  BY <1>4, <1>5, <1>6

LEMMA TailFacts ==
  ASSUME Types, wire # <<>>
  PROVE  /\ Len(wire) \in Nat \ {0}
         /\ wire[1] \in Tokens /\ Head(wire) = wire[1]
         /\ Tail(wire) \in Seq(Tokens)
         /\ Len(Tail(wire)) = Len(wire) - 1
         /\ \A k \in 1 .. Len(wire) - 1 : Tail(wire)[k] = wire[k + 1]
  BY DEF Types

(* What a step of the reader that takes the line at the head leaves alone. *)
TakeLine ==
  /\ wire # <<>>
  /\ wire' = Tail(wire)
  /\ reader \notin {"eof", "error"}
  /\ UNCHANGED <<mode, closed, cut, writerVars, position, got, taken>>

LEMMA TakeLineStep ==
  ASSUME IInv, TakeLine, ~IsByte(1),
         wire[1] = SizeLine(0) => reader' = "trailer",
         reader = "trailer" => reader' = "eof"
  PROVE  /\ wire' \in Seq(Tokens)
         /\ Marked' /\ FinalLast' /\ FinalThere' /\ OnlyBytes' /\ Received'
         /\ Writing'
<1>1. /\ wire # <<>> /\ wire' = Tail(wire)
      /\ UNCHANGED <<mode, closed, cut, sent, writer, finals, position, got>>
      /\ Chunked' = Chunked /\ Framed' = Framed
  BY DEF TakeLine, writerVars, Chunked, Framed
<1>2. PICK L \in Nat \ {0} :
        /\ L = Len(wire)
        /\ wire' \in Seq(Tokens)
        /\ Len(wire') = L - 1
        /\ \A k \in 1 .. L - 1 : wire'[k] = wire[k + 1]
  BY <1>1, TailFacts DEF IInv
<1>3. reader = "trailer" => Len(wire) = 1
  <2>1. reader = "trailer" => Len(wire) <= 1
    BY DEF IInv, Trailer
  <2> QED
    BY <1>2, <2>1
<1>4. Marked'
  BY <1>1, <1>3, MarkedHead DEF IInv
<1>5. FinalLast'
  <2>1. ASSUME NEW k \in 1 .. L - 1, wire'[k] = SizeLine(0)
        PROVE  finals = 1 /\ k >= (L - 1) - 1
    <3>1. k + 1 \in 1 .. L /\ wire[k + 1] = SizeLine(0)
      BY <1>2, <2>1
    <3>2. finals = 1 /\ k + 1 >= L - 1
      BY <1>2, <3>1 DEF IInv, FinalLast
    <3> QED
      BY <3>2
  <2> QED
    BY <1>1, <1>2, <2>1 DEF FinalLast
<1>6. FinalThere'
  <2>1. ASSUME Chunked, finals = 1, ~cut, reader' \notin {"trailer", "eof"}
        PROVE  \E k \in 1 .. L - 1 : wire'[k] = SizeLine(0)
    <3>1. reader # "trailer" /\ reader # "eof" /\ wire[1] # SizeLine(0)
      BY <2>1 DEF TakeLine
    <3>2. PICK k \in 1 .. L : wire[k] = SizeLine(0)
      BY <1>2, <2>1, <3>1 DEF IInv, FinalThere
    <3>3. k - 1 \in 1 .. L - 1 /\ (k - 1) + 1 = k
      BY <3>1, <3>2
    <3>4. wire'[k - 1] = SizeLine(0)
      BY <1>2, <3>2, <3>3
    <3> QED
      BY <3>3, <3>4
  <2> QED
    BY <1>1, <1>2, <2>1 DEF FinalThere
<1>7. OnlyBytes'
  <2>1. 1 \in 1 .. L
    OBVIOUS
  <2>2. Chunked
    BY <1>2, <2>1 DEF IInv, OnlyBytes
  <2> QED
    BY <1>1, <2>2 DEF OnlyBytes
<1>8. Received' /\ Writing'
  BY <1>1 DEF IInv, Received, Writing
<1> QED
  BY <1>2, <1>4, <1>5, <1>6, <1>7, <1>8

(* What a step of the reader that takes bytes of the body leaves alone. *)
TakeBytes(n) ==
  /\ Deliver(n)
  /\ reader \in {"body", "raw", "first", "chunk"}
  /\ reader' \in {"ready", "crlf"}
  /\ UNCHANGED <<mode, closed, cut, writerVars, error>>

LEMMA TakeBytesStep ==
  ASSUME IInv, NEW n \in Nat \ {0}, TakeBytes(n)
  PROVE  /\ wire' \in Seq(Tokens) /\ got' \in Seq(Tokens)
         /\ position' = position + n /\ position' \in Nat
         /\ position' <= sent
         /\ Marked' /\ FinalLast' /\ FinalThere' /\ Trailer' /\ OnlyBytes'
         /\ Received' /\ Writing' /\ CleanEndIsComplete'
<1>1. /\ n <= Len(wire)
      /\ \A k \in 1 .. n : wire[k][1] = "byte"
      /\ wire' = SubSeq(wire, n + 1, Len(wire))
      /\ got' = got \o SubSeq(wire, 1, n)
      /\ position' = position + n
      /\ reader \notin {"trailer", "eof", "error"}
      /\ reader' \notin {"trailer", "eof", "error"}
      /\ UNCHANGED <<mode, closed, cut, sent, writer, finals, error>>
      /\ Chunked' = Chunked /\ Framed' = Framed
  BY DEF TakeBytes, Deliver, writerVars, Chunked, Framed
<1>2. /\ \A k \in 1 .. n : wire[k] = Byte(position + k)
      /\ position + n <= sent
      /\ Marked'
  BY <1>1, MarkedBytes DEF IInv
<1>3. PICK L \in Nat, p \in Nat : L = Len(wire) /\ p = position /\ n <= L
  BY <1>1 DEF IInv, Types
<1>l. L \in Nat /\ p \in Nat
  BY <1>3
<1>4. /\ wire' \in Seq(Tokens)
      /\ Len(wire') = L - n
      /\ \A k \in 1 .. L - n : wire'[k] = wire[k + n]
  BY <1>1, <1>3, <1>l DEF IInv, Types
<1>5. /\ got' \in Seq(Tokens)
      /\ Received'
  <2>w. PICK w \in Seq(Tokens) : w = wire
    BY DEF IInv, Types
  <2>n. n \in 0 .. Len(w)
    BY <1>3, <2>w
  <2>1. PICK t \in Seq(Tokens) :
          t = SubSeq(w, 1, n) /\ Len(t) = n /\ \A k \in 1 .. n : t[k] = w[k]
    BY <2>n, PrefixAt
  <2>2. /\ t = SubSeq(wire, 1, n) /\ n = Len(t)
        /\ \A k \in 1 .. n : t[k] = wire[k]
    BY <2>1, <2>w
  <2>3. PICK g \in Seq(Tokens) :
          g = got /\ Len(g) = p /\ \A k \in 1 .. p : g[k] = Byte(k)
    <3>1. /\ got \in Seq(Tokens) /\ Len(got) = p
          /\ \A k \in 1 .. p : got[k] = Byte(k)
      BY <1>3 DEF IInv, Types, Received
    <3> QED
      BY <3>1
  <2>4. /\ g \o t \in Seq(Tokens)
        /\ Len(g \o t) = p + n
        /\ \A k \in 1 .. p : (g \o t)[k] = g[k]
        /\ \A k \in p + 1 .. p + n : (g \o t)[k] = t[k - p]
    <3>1. p = Len(g) /\ n = Len(t)
      BY <2>2, <2>3
    <3> QED
      BY <3>1, ConcatAt
  <2>5. ASSUME NEW k \in 1 .. p + n
        PROVE  got'[k] = Byte(k)
    <3>1. CASE k <= p
      BY <1>1, <1>l, <2>2, <2>3, <2>4, <3>1
    <3>2. CASE k > p
      <4>1. k \in p + 1 .. p + n /\ k - p \in 1 .. n /\ p + (k - p) = k
        BY <1>l, <3>2
      <4>2. t[k - p] = Byte(p + (k - p))
        BY <1>2, <1>3, <2>2, <4>1
      <4> QED
        BY <1>1, <2>2, <2>3, <2>4, <4>1, <4>2
    <3> QED
      BY <1>l, <3>1, <3>2
  <2>6. got' = g \o t /\ position' = p + n
    BY <1>1, <1>3, <2>2, <2>3
  <2> QED
    BY <2>4, <2>5, <2>6 DEF Received
<1>6. FinalLast'
  <2>1. ASSUME NEW k \in 1 .. L - n, wire'[k] = SizeLine(0)
        PROVE  finals = 1 /\ k >= (L - n) - 1
    <3>1. k + n \in 1 .. L /\ wire[k + n] = SizeLine(0)
      BY <1>l, <1>4, <2>1
    <3>2. finals = 1 /\ k + n >= L - 1
      BY <1>3, <3>1 DEF IInv, FinalLast
    <3> QED
      BY <1>l, <3>2
  <2> QED
    BY <1>1, <1>4, <2>1 DEF FinalLast
<1>7. FinalThere'
  <2>1. ASSUME Chunked, finals = 1, ~cut
        PROVE  \E k \in 1 .. L - n : wire'[k] = SizeLine(0)
    <3>1. PICK k \in 1 .. L : wire[k] = SizeLine(0)
      BY <1>1, <1>3, <2>1 DEF IInv, FinalThere
    <3>2. ~(k \in 1 .. n)
      <4>1. wire[k][1] = "size"
        BY <3>1, TokenFacts
      <4> QED
        BY <1>1, <4>1
    <3>3. k - n \in 1 .. L - n /\ (k - n) + n = k
      BY <1>l, <3>2
    <3>4. wire'[k - n] = SizeLine(0)
      BY <1>4, <3>1, <3>3
    <3> QED
      BY <3>3, <3>4
  <2> QED
    BY <1>1, <1>4, <2>1 DEF FinalThere
<1>8. Trailer'
  BY <1>1 DEF Trailer
<1>9. OnlyBytes'
  <2>1. ASSUME ~Chunked, NEW k \in 1 .. L - n
        PROVE  wire'[k][1] = "byte"
    <3>1. k + n \in 1 .. L /\ wire'[k] = wire[k + n]
      BY <1>l, <1>4
    <3> QED
      BY <1>3, <2>1, <3>1 DEF IInv, OnlyBytes, IsByte
  <2> QED
    BY <1>1, <1>4, <2>1 DEF OnlyBytes, IsByte
<1>10. Writing'
  BY <1>1 DEF IInv, Writing
<1>11. CleanEndIsComplete'
  <2>1. error = "none"
    BY <1>1 DEF IInv, Reading
  <2> QED
    BY <1>1, <2>1 DEF CleanEndIsComplete, EofIsComplete, IncompleteMeansClosed
<1>12. position' = position + n /\ position' \in Nat /\ position' <= sent
  BY <1>1, <1>2, <1>3, <1>l
<1> QED
  BY <1>2, <1>4, <1>5, <1>6, <1>7, <1>8, <1>9, <1>10, <1>11, <1>12

LEMMA ReadCallStep ==
  ASSUME IInv, NEW len \in ReadSizes, ReadCall(len)
  PROVE  IInv'
<1>1. /\ reader = "ready"
      /\ len \in Nat \ {0}
      /\ UNCHANGED <<mode, wire, closed, cut, writerVars, read, offset,
                     position, got, error, taken>>
      /\ Chunked' = Chunked /\ Framed' = Framed
  BY SizesAssumption DEF ReadCall, Chunked, Framed
<1> USE DEF writerVars
<1>2. /\ mode.length \in Int /\ sent \in Nat /\ position \in Nat
      /\ read \in Nat /\ offset \in Nat /\ want \in Nat
      /\ Chunked => mode.length < 0
  BY ModeFacts DEF IInv, Types
<1>3. Marked'
  BY <1>1, MarkedSame DEF IInv
<1>4. /\ Received' /\ FinalLast' /\ FinalThere' /\ OnlyBytes'
  BY <1>1 DEF IInv, Received, FinalLast, FinalThere, OnlyBytes, IsByte
<1>5. Writing'
  BY <1>1 DEF IInv, Writing
<1>e. error = "none"
  BY <1>1 DEF IInv, Reading
<1>6. CASE /\ mode.length >= 0 /\ position >= mode.length
           /\ reader' = "eof"
           /\ UNCHANGED want
  <2>1. ~Chunked /\ sent <= mode.length
    BY <1>2, <1>6 DEF IInv, Writing
  <2>2. position + Len(wire) <= sent /\ Len(wire) \in Nat
    BY <2>1, BytesBound DEF IInv, OnlyBytes, Types
  <2>3. position = mode.length /\ Len(wire) = 0
    BY <1>2, <1>6, <2>1, <2>2
  <2>4. wire = <<>>
    BY <2>3 DEF IInv, Types
  <2>5. Types' /\ Trailer' /\ Reading'
    BY <1>1, <1>6 DEF IInv, Types, Trailer, Reading
  <2>6. CleanEndIsComplete'
    BY <1>1, <1>6, <1>e, <2>3, <2>4
       DEF CleanEndIsComplete, EofIsComplete, IncompleteMeansClosed
  <2> QED
    BY <1>3, <1>4, <1>5, <2>5, <2>6 DEF IInv
<1>7. ASSUME /\ reader' \in {"body", "chunk", "size", "raw"}
             /\ want' \in Nat /\ want' >= 1
             /\ reader' = "body" => position + want' <= mode.length
             /\ reader' = "chunk" => Chunked /\ offset + want' <= read
             /\ reader' = "size" => Chunked /\ offset >= read
             /\ reader' = "raw" => ~Framed
      PROVE  IInv'
  <2>1. Types' /\ Trailer'
    BY <1>1, <1>7 DEF IInv, Types, Trailer
  <2>2. Reading'
    BY <1>1, <1>2, <1>7, <1>e DEF IInv, Reading
  <2>3. CleanEndIsComplete'
    BY <1>1, <1>7, <1>e
       DEF CleanEndIsComplete, EofIsComplete, IncompleteMeansClosed
  <2> QED
    BY <1>3, <1>4, <1>5, <2>1, <2>2, <2>3 DEF IInv
<1>8. CASE /\ mode.length > position
           /\ reader' = "body"
           /\ want' = Least(mode.length - position, len)
  <2>1. mode.length - position \in Nat \ {0}
    BY <1>2, <1>8
  <2>2. /\ want' \in Nat \ {0}
        /\ want' <= mode.length - position
    BY <1>1, <1>8, <2>1, LeastFacts
  <2>3. want' \in Nat /\ want' >= 1 /\ position + want' <= mode.length
    BY <1>2, <2>1, <2>2
  <2> QED
    BY <1>7, <1>8, <2>3
<1>9. CASE /\ Chunked /\ offset < read
           /\ reader' = "chunk"
           /\ want' = Least(read - offset, len)
  <2>1. PICK rest \in Nat \ {0} : rest = read - offset /\ offset + rest = read
    BY <1>2, <1>9
  <2>2. want' \in Nat \ {0} /\ want' <= rest
    BY <1>1, <1>9, <2>1, LeastFacts
  <2>3. PICK w \in Nat \ {0} : w = want' /\ w <= rest
    BY <2>2
  <2>4. offset \in Nat
    BY <1>2
  <2>5. want' \in Nat /\ want' >= 1 /\ offset + want' <= read
    BY <2>1, <2>3, <2>4
  <2> QED
    BY <1>7, <1>9, <2>5
<1>10. CASE /\ Chunked /\ offset >= read
            /\ reader' = "size"
            /\ want' = len
  BY <1>1, <1>7, <1>10
<1>11. CASE /\ ~Framed
            /\ reader' = "raw"
            /\ want' = len
  BY <1>1, <1>7, <1>11
<1> QED
  BY <1>6, <1>8, <1>9, <1>10, <1>11 DEF ReadCall

LEMMA ReadBodyStep ==
  ASSUME IInv, ReadBody
  PROVE  IInv'
<1>1. /\ reader \in {"body", "raw"} /\ reader' = "ready"
      /\ UNCHANGED <<mode, closed, cut, writerVars, want, read, offset, error,
                     taken>>
      /\ Chunked' = Chunked /\ Framed' = Framed
  BY DEF ReadBody, Chunked, Framed
<1>2. PICK n \in 1 .. want : Deliver(n)
  BY DEF ReadBody
<1>3. n \in Nat \ {0} /\ TakeBytes(n)
  BY <1>1, <1>2 DEF TakeBytes, IInv, Types
<1>4. /\ wire' \in Seq(Tokens) /\ got' \in Seq(Tokens) /\ position' \in Nat
      /\ Marked' /\ FinalLast' /\ FinalThere' /\ Trailer' /\ OnlyBytes'
      /\ Received' /\ Writing' /\ CleanEndIsComplete'
  BY <1>3, TakeBytesStep
<1>5. Types'
  BY <1>1, <1>4 DEF IInv, Types, writerVars
<1>6. ~Chunked
  <2>1. CASE reader = "raw"
    BY <2>1 DEF IInv, Reading, Chunked, Framed
  <2>2. CASE reader = "body"
    <3>1. position + want <= mode.length /\ want >= 1
      BY <2>2 DEF IInv, Reading
    <3>2. position \in Nat /\ want \in Nat /\ mode.length \in Int
      BY ModeFacts DEF IInv, Types
    <3> QED
      BY <3>1, <3>2 DEF Chunked
  <2> QED
    BY <1>1, <2>1, <2>2
<1>7. Reading'
  BY <1>1, <1>6 DEF IInv, Reading
<1> QED
  BY <1>4, <1>5, <1>7 DEF IInv

LEMMA ReadChunkStep ==
  ASSUME IInv, ReadChunk \/ ReadFirst
  PROVE  IInv'
<1>1. /\ reader \in {"first", "chunk"} /\ reader' \in {"ready", "crlf"}
      /\ UNCHANGED <<mode, closed, cut, writerVars, want, read, error>>
      /\ taken' \in BOOLEAN
      /\ Chunked' = Chunked /\ Framed' = Framed
  BY DEF ReadChunk, ReadFirst, Chunked, Framed, IInv, Types
<1>2. PICK n \in 1 .. want : Deliver(n) /\ offset' = offset + n
  BY DEF ReadChunk, ReadFirst
<1>3. n \in Nat \ {0} /\ TakeBytes(n)
  BY <1>1, <1>2 DEF TakeBytes, IInv, Types
<1>4. /\ wire' \in Seq(Tokens) /\ got' \in Seq(Tokens) /\ position' \in Nat
      /\ position' = position + n /\ position' <= sent
      /\ Marked' /\ FinalLast' /\ FinalThere' /\ Trailer' /\ OnlyBytes'
      /\ Received' /\ Writing' /\ CleanEndIsComplete'
  BY <1>3, TakeBytesStep
<1>5. /\ Chunked /\ offset + want <= read /\ want >= 1
      /\ offset < read => position + (read - offset) <= sent
      /\ error = "none"
  BY <1>1 DEF IInv, Reading
<1>6. /\ offset \in Nat /\ read \in Nat /\ want \in Nat /\ position \in Nat
      /\ sent \in Nat /\ n <= want
  BY <1>2 DEF IInv, Types
<1>7. Types'
  BY <1>1, <1>2, <1>3, <1>4, <1>6 DEF IInv, Types, writerVars
<1>8. offset' < read => position' + (read - offset') <= sent
  BY <1>2, <1>3, <1>4, <1>5, <1>6
<1>9. Reading'
  BY <1>1, <1>5, <1>8 DEF Reading, writerVars
<1> QED
  BY <1>4, <1>7, <1>9 DEF IInv

LEMMA ReadNothingStep ==
  ASSUME IInv, ReadNothing
  PROVE  IInv'
<1>1. /\ wire = <<>> /\ closed
      /\ UNCHANGED <<mode, wire, closed, cut, writerVars, want, read, offset,
                     position, got, taken>>
      /\ Chunked' = Chunked /\ Framed' = Framed
  BY DEF ReadNothing, AtEnd, Chunked, Framed
<1>2. \/ reader = "body" /\ reader' = "error" /\ error' = "Incomplete"
      \/ reader = "chunk" /\ reader' = "error" /\ error' = "InChunk"
      \/ reader = "first" /\ reader' = "error" /\ error' = "AfterSize"
      \/ reader = "raw" /\ reader' = "eof" /\ UNCHANGED error
  BY DEF ReadNothing, Fail
<1> USE DEF writerVars
<1>3. Marked'
  BY <1>1, <1>2, MarkedSame DEF IInv
<1>4. Types' /\ Received' /\ Writing'
  BY <1>1, <1>2 DEF IInv, Types, Received, Writing
<1>5. FinalLast' /\ FinalThere' /\ Trailer' /\ OnlyBytes'
  BY <1>1, <1>2 DEF IInv, FinalLast, FinalThere, Trailer, OnlyBytes, IsByte
<1>6. Reading'
  BY <1>1, <1>2 DEF IInv, Reading
<1>7. /\ mode.length \in Int /\ sent \in Nat /\ position \in Nat
      /\ want \in Nat /\ read \in Nat /\ offset \in Nat
      /\ Chunked => mode.length < 0
  BY ModeFacts DEF IInv, Types
<1>8. Len(got) = position
  BY DEF IInv, Received
<1>9. CASE reader = "body"
  <2>1. position + want <= mode.length /\ want >= 1
    BY <1>9 DEF IInv, Reading
  <2>2. mode.length > 0 /\ position < sent + (mode.length - sent)
    BY <1>7, <2>1
  <2>3. EofIsComplete'
    BY <1>2, <1>9 DEF EofIsComplete
  <2>4. IncompleteMeansClosed'
    BY <1>1, <1>8, <2>2 DEF IncompleteMeansClosed
  <2> QED
    BY <1>3, <1>4, <1>5, <1>6, <2>3, <2>4 DEF IInv, CleanEndIsComplete
<1>10. CASE reader \in {"chunk", "first"}
  <2>1. Chunked /\ offset + want <= read /\ want >= 1
    BY <1>10 DEF IInv, Reading
  <2>2. offset < read
    BY <1>7, <2>1
  <2>3. position + (read - offset) <= sent
    BY <2>2 DEF IInv, Reading
  <2>4. position < sent + 0 /\ mode.length < 0
    BY <1>7, <2>1, <2>2, <2>3
  <2>5. EofIsComplete'
    BY <1>2, <1>10 DEF EofIsComplete
  <2>6. IncompleteMeansClosed'
    BY <1>1, <1>7, <1>8, <2>4 DEF IncompleteMeansClosed
  <2> QED
    BY <1>3, <1>4, <1>5, <1>6, <2>5, <2>6 DEF IInv, CleanEndIsComplete
<1>11. CASE reader = "raw"
  <2>1. ~Framed /\ error = "none"
    BY <1>11 DEF IInv, Reading
  <2>2. CleanEndIsComplete'
    BY <1>1, <1>2, <1>11, <2>1
       DEF CleanEndIsComplete, EofIsComplete, IncompleteMeansClosed
  <2> QED
    BY <1>3, <1>4, <1>5, <1>6, <2>2 DEF IInv
<1> QED
  BY <1>2, <1>9, <1>10, <1>11

LEMMA ReadSizeLineStep ==
  ASSUME IInv, ReadSizeLine
  PROVE  IInv'
<1>1. /\ reader = "size" /\ wire # <<>> /\ wire' = Tail(wire)
      /\ UNCHANGED <<mode, closed, cut, writerVars, position, got, error, taken>>
      /\ Chunked' = Chunked /\ Framed' = Framed
  BY DEF ReadSizeLine, Chunked, Framed
<1>2. /\ Len(wire) \in Nat \ {0}
      /\ wire[1] \in Tokens /\ Head(wire) = wire[1]
      /\ Len(Tail(wire)) = Len(wire) - 1
  BY <1>1, TailFacts DEF IInv
<1>3. /\ wire[1][1] = "size" /\ read' = wire[1][2] /\ read' \in Nat
      /\ wire[1] = SizeLine(read')
  BY <1>2, TokenFacts DEF ReadSizeLine
<1>4. /\ read' = 0 => reader' = "trailer" /\ UNCHANGED <<offset, want>>
      /\ read' # 0 => /\ reader' = "first"
                      /\ offset' = 0
                      /\ want' = Least(read', want)
  BY DEF ReadSizeLine
<1>5. TakeLine /\ ~IsByte(1)
  BY <1>1, <1>3 DEF TakeLine, IsByte
<1>6. wire[1] = SizeLine(0) => reader' = "trailer"
  BY <1>3, <1>4, TokenFacts
<1>7. /\ wire' \in Seq(Tokens)
      /\ Marked' /\ FinalLast' /\ FinalThere' /\ OnlyBytes' /\ Received'
      /\ Writing'
  BY <1>1, <1>5, <1>6, TakeLineStep
<1>8. /\ position + read' <= sent
      /\ read' = 0 => position = sent
  BY <1>1, <1>3, <1>5, HeadLine DEF IInv
<1>9. /\ Chunked /\ want >= 1 /\ offset >= read /\ error = "none"
      /\ want \in Nat /\ offset \in Nat /\ position \in Nat /\ sent \in Nat
  BY <1>1 DEF IInv, Reading, Types
<1>10. Trailer'
  <2>1. ASSUME read' = 0
        PROVE  finals = 1 /\ Len(wire) <= 2
    <3>1. 1 \in 1 .. Len(wire) /\ wire[1] = SizeLine(0)
      BY <1>2, <1>3, <2>1
    <3>2. finals = 1 /\ 1 >= Len(wire) - 1
      BY <3>1 DEF IInv, FinalLast
    <3> QED
      BY <1>2, <3>2
  <2> QED
    BY <1>1, <1>2, <1>4, <1>8, <2>1 DEF Trailer, writerVars
<1>11. CASE read' = 0
  <2>1. Types'
    BY <1>1, <1>3, <1>4, <1>7, <1>11 DEF IInv, Types, writerVars
  <2>2. Reading'
    BY <1>1, <1>4, <1>9, <1>11 DEF Reading
  <2>3. CleanEndIsComplete'
    BY <1>1, <1>4, <1>9, <1>11
       DEF CleanEndIsComplete, EofIsComplete, IncompleteMeansClosed
  <2> QED
    BY <1>7, <1>10, <2>1, <2>2, <2>3 DEF IInv
<1>12. CASE read' # 0
  <2>1. want' \in Nat \ {0} /\ want' <= read'
    <3>1. PICK r \in Nat \ {0}, w \in Nat \ {0} : r = read' /\ w = want
      BY <1>3, <1>9, <1>12
    <3>2. Least(r, w) \in Nat \ {0} /\ Least(r, w) <= r
      BY <3>1, LeastFacts
    <3> QED
      BY <1>4, <1>12, <3>1, <3>2
  <2>2. Types'
    BY <1>1, <1>3, <1>4, <1>7, <1>12, <2>1 DEF IInv, Types, writerVars
  <2>3. Reading'
    BY <1>1, <1>3, <1>4, <1>8, <1>9, <1>12, <2>1 DEF Reading, writerVars
  <2>4. CleanEndIsComplete'
    BY <1>1, <1>4, <1>9, <1>12
       DEF CleanEndIsComplete, EofIsComplete, IncompleteMeansClosed
  <2> QED
    BY <1>7, <1>10, <2>2, <2>3, <2>4 DEF IInv
<1> QED
  BY <1>11, <1>12

LEMMA ReadEmptySizeStep ==
  ASSUME IInv, ReadEmptySize
  PROVE  IInv'
<1>1. /\ reader = "size"
      /\ UNCHANGED <<mode, closed, cut, writerVars, want, read, offset, position,
                     got, taken>>
      /\ Chunked' = Chunked /\ Framed' = Framed
      /\ IF position > 0 THEN reader' = "error" /\ error' = "NoFinalChunk"
                         ELSE reader' = "eof" /\ UNCHANGED error
  BY DEF ReadEmptySize, Fail, Chunked, Framed
<1>2. /\ Chunked /\ error = "none"
      /\ mode.length \in Int /\ mode.length < 0
      /\ position \in Nat
  BY <1>1, ModeFacts DEF IInv, Reading, Types
<1>3. Reading'
  BY <1>1, <1>2 DEF IInv, Reading, writerVars
<1>4. CASE AtEnd
  <2>1. UNCHANGED wire /\ wire = <<>> /\ closed
    BY <1>4 DEF ReadEmptySize, AtEnd
  <2>2. Marked'
    BY <1>1, <2>1, MarkedSame DEF IInv, writerVars
  <2>3. Types' /\ Received' /\ Writing'
    BY <1>1, <2>1 DEF IInv, Types, Received, Writing, writerVars
  <2>4. FinalLast' /\ FinalThere' /\ Trailer' /\ OnlyBytes'
    BY <1>1, <2>1
       DEF IInv, FinalLast, FinalThere, Trailer, OnlyBytes, IsByte, writerVars
  <2>5. cut
    <3>1. ASSUME ~cut
          PROVE  FALSE
      <4>1. finals = 1
        BY <1>2, <2>1, <3>1 DEF IInv, Writing
      <4>2. \E k \in 1 .. Len(wire) : wire[k] = SizeLine(0)
        BY <1>1, <1>2, <3>1, <4>1 DEF IInv, FinalThere
      <4>3. Len(wire) = 0
        BY <2>1
      <4> QED
        BY <4>2, <4>3
    <3> QED
      BY <3>1
  <2>6. EofIsComplete'
    BY <1>1, <1>2, <2>5 DEF EofIsComplete
  <2>7. IncompleteMeansClosed'
    BY <1>1, <1>2 DEF IncompleteMeansClosed
  <2> QED
    BY <1>3, <2>2, <2>3, <2>4, <2>6, <2>7 DEF IInv, CleanEndIsComplete
<1>5. CASE ~AtEnd
  <2>1. wire # <<>> /\ Head(wire) = EmptyLine /\ wire' = Tail(wire)
    BY <1>5 DEF ReadEmptySize
  <2>2. wire[1][1] = "crlf"
    BY <2>1, TailFacts, TokenFacts DEF IInv
  <2>3. position > 0
    BY <1>1, <2>1, <2>2, HeadLine DEF IInv, IsByte
  <2>4. reader' = "error" /\ error' = "NoFinalChunk"
    BY <1>1, <2>3
  <2>5. TakeLine /\ ~IsByte(1) /\ wire[1] # SizeLine(0)
    BY <1>1, <2>1, <2>2, TokenFacts DEF TakeLine, IsByte
  <2>6. /\ wire' \in Seq(Tokens)
        /\ Marked' /\ FinalLast' /\ FinalThere' /\ OnlyBytes' /\ Received'
        /\ Writing'
    BY <1>1, <2>5, TakeLineStep
  <2>7. Types' /\ Trailer'
    BY <1>1, <2>4, <2>6 DEF IInv, Types, Trailer, writerVars
  <2>8. CleanEndIsComplete'
    BY <2>4 DEF CleanEndIsComplete, EofIsComplete, IncompleteMeansClosed
  <2> QED
    BY <1>3, <2>6, <2>7, <2>8 DEF IInv
<1> QED
  BY <1>4, <1>5

LEMMA SkipLineStep ==
  ASSUME IInv, SkipLine
  PROVE  IInv'
<1>1. /\ reader \in {"crlf", "trailer"}
      /\ reader' = IF reader = "crlf" THEN "ready" ELSE "eof"
      /\ UNCHANGED <<mode, closed, cut, writerVars, want, read, offset, position,
                     got, error, taken>>
      /\ Chunked' = Chunked /\ Framed' = Framed
  BY DEF SkipLine, Chunked, Framed
<1>2. /\ Chunked /\ error = "none"
      /\ mode.length \in Int /\ mode.length < 0
      /\ reader = "trailer" => finals = 1 /\ position = sent /\ Len(wire) <= 1
  BY <1>1, ModeFacts DEF IInv, Reading, Types, Trailer
<1>3. Reading'
  BY <1>1, <1>2 DEF IInv, Reading, writerVars
<1>4. CASE AtEnd
  <2>1. UNCHANGED wire /\ wire = <<>>
    BY <1>4 DEF SkipLine, AtEnd
  <2>2. Marked'
    BY <1>1, <2>1, MarkedSame DEF IInv, writerVars
  <2>3. Types' /\ Received' /\ Writing'
    BY <1>1, <2>1 DEF IInv, Types, Received, Writing, writerVars
  <2>4. FinalLast' /\ FinalThere' /\ Trailer' /\ OnlyBytes'
    BY <1>1, <2>1
       DEF IInv, FinalLast, FinalThere, Trailer, OnlyBytes, IsByte, writerVars
  <2>5. CleanEndIsComplete'
    BY <1>1, <1>2, <2>1
       DEF CleanEndIsComplete, EofIsComplete, IncompleteMeansClosed, writerVars
  <2> QED
    BY <1>3, <2>2, <2>3, <2>4, <2>5 DEF IInv
<1>5. CASE ~AtEnd
  <2>1. wire # <<>> /\ Head(wire) = EmptyLine /\ wire' = Tail(wire)
    BY <1>5 DEF SkipLine
  <2>2. /\ wire[1][1] = "crlf"
        /\ Len(wire) \in Nat \ {0}
        /\ Len(wire') = Len(wire) - 1
    BY <2>1, TailFacts, TokenFacts DEF IInv
  <2>3. TakeLine /\ ~IsByte(1) /\ wire[1] # SizeLine(0)
    BY <1>1, <2>1, <2>2, TokenFacts DEF TakeLine, IsByte
  <2>4. /\ wire' \in Seq(Tokens)
        /\ Marked' /\ FinalLast' /\ FinalThere' /\ OnlyBytes' /\ Received'
        /\ Writing'
    BY <1>1, <2>3, TakeLineStep
  <2>5. Types' /\ Trailer'
    BY <1>1, <2>4 DEF IInv, Types, Trailer, writerVars
  <2>6. reader = "trailer" => wire' = <<>>
    <3>1. reader = "trailer" => Len(wire') = 0
      BY <1>2, <2>2
    <3> QED
      BY <2>4, <3>1
  <2>7. CleanEndIsComplete'
    BY <1>1, <1>2, <2>6
       DEF CleanEndIsComplete, EofIsComplete, IncompleteMeansClosed, writerVars
  <2> QED
    BY <1>3, <2>4, <2>5, <2>7 DEF IInv
<1> QED
  BY <1>4, <1>5

LEMMA StutterStep ==
  ASSUME IInv, UNCHANGED vars
  PROVE  IInv'
<1> USE DEF vars, writerVars, readerVars
<1>1. Chunked' = Chunked /\ Framed' = Framed
  BY DEF Chunked, Framed
<1>2. Marked'
  BY MarkedSame DEF IInv
<1>3. Types' /\ Received' /\ Writing' /\ Reading'
  BY <1>1 DEF IInv, Types, Received, Writing, Reading
<1>4. FinalLast' /\ FinalThere' /\ Trailer' /\ OnlyBytes'
  BY <1>1 DEF IInv, FinalLast, FinalThere, Trailer, OnlyBytes, IsByte
<1>5. CleanEndIsComplete'
  BY <1>1 DEF IInv, CleanEndIsComplete, EofIsComplete, IncompleteMeansClosed
<1> QED
  BY <1>2, <1>3, <1>4, <1>5 DEF IInv

LEMMA NextIInv == IInv /\ [Next]_vars => IInv'
<1> SUFFICES ASSUME IInv, [Next]_vars
             PROVE  IInv'
  OBVIOUS
<1>1. ASSUME NEW len \in WriteSizes, Write(len)
      PROVE  IInv'
  BY <1>1, WriteChunkStep, WriteBytesStep DEF Write
<1>2. CASE Close \/ Destroy
  <2>1. EndWriting
    BY <1>2 DEF Close, Destroy, EndWriting
  <2> QED
    BY <2>1, EndWritingStep
<1>3. CASE CloseConnection \/ LoseConnection
  BY <1>3, CloseConnectionStep, LoseConnectionStep
<1>4. CASE Read
  BY <1>4, ReadCallStep, ReadBodyStep, ReadChunkStep, ReadNothingStep,
     ReadSizeLineStep, ReadEmptySizeStep, SkipLineStep DEF Read
<1>5. CASE UNCHANGED vars
  BY <1>5, StutterStep
<1> QED
  BY <1>1, <1>2, <1>3, <1>4, <1>5 DEF Next

LEMMA IInvImpliesInv == IInv => Inv /\ CleanEndIsComplete
<1> SUFFICES ASSUME IInv
             PROVE  Inv
  BY DEF IInv
<1>1. TypeOK
  BY DEF IInv, Types, TypeOK
<1>2. InOrder
  <2>1. PICK p \in Nat, g \in Seq(Tokens) :
          /\ p = position /\ g = got
          /\ p = Len(g)
          /\ \A k \in 1 .. p : g[k] = Byte(k)
    BY DEF IInv, Types, Received
  <2>p. p \in Nat /\ g \in Seq(Tokens)
    BY <2>1
  <2>2. PICK b \in Seq(Tokens) :
          /\ b = Bytes(0, p)
          /\ p = Len(b)
          /\ \A k \in 1 .. p : b[k] = Byte(0 + k)
    BY <2>p, BytesAreTokens
  <2>3. \A k \in 1 .. p : g[k] = b[k]
    BY <2>1, <2>2, <2>p
  <2>4. g = b
    BY <2>1, <2>2, <2>3, <2>p, SeqEqual
  <2>5. position <= sent
    BY PositionBound DEF IInv
  <2> QED
    BY <2>1, <2>2, <2>4, <2>5 DEF InOrder
<1>3. OneFinalChunk
  BY DEF IInv, Writing, OneFinalChunk
<1> QED
  BY <1>1, <1>2, <1>3 DEF Inv

(* Whatever the framing and the sizes of the writes and of the reads, and  *)
(* wherever the connection is cut, the application reads the bytes that    *)
(* were written, in order, and the final chunk is written once at most.    *)
THEOREM InvCorrect == Spec => []Inv
<1>1. Init => IInv
  BY InitIInv
<1>2. IInv /\ [Next]_vars => IInv'
  BY NextIInv
<1>3. IInv => Inv
  BY IInvImpliesInv
<1> QED
  BY <1>1, <1>2, <1>3, PTL DEF Spec

(* A clean end of a framed body means that all of it was read, and an      *)
(* exception for an incomplete one that the connection closed before its   *)
(* end.                                                                    *)
THEOREM CleanEndCorrect == Spec => []CleanEndIsComplete
<1>1. Init => IInv
  BY InitIInv
<1>2. IInv /\ [Next]_vars => IInv'
  BY NextIInv
<1>3. IInv => CleanEndIsComplete
  BY IInvImpliesInv
<1> QED
  BY <1>1, <1>2, <1>3, PTL DEF Spec
=============================================================================
