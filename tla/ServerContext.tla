---------------------------- MODULE ServerContext ----------------------------
(***************************************************************************)
(* One request on one connection: HttpServer::Process and the response     *)
(* side of ServerContext (HttpServer.cpp), with an arbitrary handler, that *)
(* calls the operations in any order, returns true or false, or throws.    *)
(*                                                                         *)
(* A ServerContext is a record, and each operation a function from the     *)
(* record before the call to the record after it, because the operations   *)
(* call each other.  The connection is a sequence of tokens: the head of   *)
(* the response, pieces of the body (from which byte on, how many), with   *)
(* chunk framing or without, the final chunk.                              *)
(***************************************************************************)
EXTENDS Integers, SequencesExt

CONSTANTS
  Requests,     \* the requests to consider
  Lengths,      \* Content-Length values the handler sets
  TextSizes,    \* sizes of the texts the handler sends
  Sources,      \* the streams the handler sends: [seek, len, fails]
  Kinds,        \* kinds of interceptors the handler registers
  PageSize,     \* size of an error page
  MaxCalls      \* bound: calls the handler makes

Absent == -1    \* a side of a range that is not given

ASSUME SizesAssumption ==
  /\ Lengths \subseteq Nat \cup {-2}
  /\ TextSizes \subseteq Nat
  /\ PageSize \in Nat \ {0}
  /\ MaxCalls \in Nat
ASSUME SourcesAssumption ==
  Sources \subseteq [seek : BOOLEAN, len : Nat \cup {-1}, fails : BOOLEAN]
ASSUME RequestsAssumption ==
  Requests \subseteq
    [line : {"none", "short", "ok"}, header : {"ok", "no colon"},
     method : STRING, version : STRING, values : Nat,
     form : {"none", "filled", "empty"},
     range : [kind : {"none", "no equals", "refused", "no number", "bytes"},
              first : Nat \cup {Absent}, last : Nat \cup {Absent}]]
ASSUME KindsAssumption ==
  Kinds \subseteq {"pass", "stop", "forbid", "answer", "throw"}

Unset == -1     \* no Content-Length among the response headers
Junk == -2      \* one that is not a number
VARIABLES
  request,      \* what the client sent
  phase,        \* reading, handling, ending, done
  ctx,          \* the ServerContext
  stream,       \* what the handler got from OpenResponseStream
  calls,        \* how many calls the handler made
  returned      \* how the handler ended: none, true, false, threw, or
                \* unhandled: false, with nothing sent

vars == <<request, phase, ctx, stream, calls, returned>>

NoStream == [open |-> FALSE, length |-> Unset, position |-> 0]

(* Content-Range: from which byte to which, of how many.                   *)
NoSpan == [begin |-> Absent, end |-> Absent, len |-> Absent]

NewContext ==
  [sent |-> FALSE, status |-> 200, length |-> Unset, chunked |-> FALSE,
   span |-> NoSpan, queue |-> <<>>, ran |-> <<>>, wire |-> <<>>, threw |-> FALSE]

Init ==
  /\ request \in Requests
  /\ phase = "reading"
  /\ ctx = NewContext
  /\ stream = NoStream
  /\ calls = 0
  /\ returned = "none"

-----------------------------------------------------------------------------
(* The operations that write.                                              *)

Http11 == request.version = "HTTP/1.1"
Put(c, token) == [c EXCEPT !.wire = Append(@, token)]
Plain(c, from, n) == IF n > 0 THEN Put(c, <<"plain", from, n>>) ELSE c
Throw(c) == [c EXCEPT !.threw = TRUE]

WriteHead(c) ==
  [c EXCEPT !.sent = TRUE,
            !.wire = Append(@, <<"head", c.status, c.length, c.chunked, c.span>>)]

(* Faulty: an interceptor that stops the loop does not end it.             *)
StopForgotten(i) ==
  [i EXCEPT !.c = IF i.c.sent THEN i.c ELSE WriteHead(i.c)]

(* Faulty: sent is not looked at after the loop.                           *)
HeadAfterEachLoop(i) ==
  [c |-> IF i.loops > 1 THEN Put(WriteHead(i.c), <<"plain", 0, PageSize>>)
                        ELSE WriteHead(i.c),
   loops |-> i.loops - 1]

(* The loop over headerhandlers in WriteHeaders.  An interceptor that      *)
(* answers calls SendText, whose WriteHeaders has a loop of its own over   *)
(* the rest of the queue; loops counts those that have not ended.  When    *)
(* the innermost one ends, its WriteHeaders writes the head if there is    *)
(* none, SendText its text, and the loop around it goes on.                *)
EndLoop(i) ==
  LET c == IF i.c.sent THEN i.c ELSE WriteHead(i.c)
  IN [c |-> IF i.loops > 1 THEN Put(c, <<"plain", 0, PageSize>>) ELSE c,
      loops |-> i.loops - 1]

Take(c, k, rest) ==
  [c EXCEPT !.queue = rest,
            !.ran = Append(@, [id |-> c.queue[k].id, kind |-> c.queue[k].kind,
                               early |-> ~c.sent])]

(* Faulty: the newest interceptor first.                                   *)
PopNewest(c) == Take(c, Len(c.queue), Front(c.queue))

Pop(c) == Take(c, 1, Tail(c.queue))

CallNext(i) ==
  LET c == Pop(i.c)
      kind == Last(c.ran).kind
  IN CASE kind = "stop" -> EndLoop([i EXCEPT !.c = c])
       [] kind = "throw" -> [i EXCEPT !.c = Throw(c)]
       [] kind = "forbid" -> [i EXCEPT !.c = [c EXCEPT !.status = 403]]
       [] kind = "answer" /\ ~c.sent ->
            [c |-> [c EXCEPT !.length = PageSize], loops |-> i.loops + 1]
       [] OTHER -> [i EXCEPT !.c = c]

(* Each step calls an interceptor or ends a loop, and there is a loop for  *)
(* WriteHeaders itself and at most one more for each interceptor.          *)
CallInterceptors(c) ==
  LET steps == 2 * Len(c.queue) + 1
      after[k \in 0 .. steps] ==
        IF k = 0 THEN [c |-> c, loops |-> 1]
        ELSE LET i == after[k - 1]
             IN IF i.c.threw \/ i.loops = 0 THEN i
                ELSE IF i.c.queue = <<>> THEN EndLoop(i) ELSE CallNext(i)
  IN after[steps].c

WriteHeaders(c) == IF c.sent THEN c ELSE CallInterceptors(c)

(* Faulty: the Transfer-Encoding header whatever the Content-Length.       *)
OpenResponseChunked(c) == WriteHeaders([c EXCEPT !.chunked = Http11])

(* The part of OpenResponseStream that follows the test of sent.  A value  *)
(* of Content-Length that is no number counts as none.  On HEAD the stream *)
(* is closed at once, which ends a chunked body.                           *)
OpenResponse(c) ==
  LET opened == WriteHeaders([c EXCEPT !.chunked = @ \/ (Http11 /\ c.length < 0)])
  IN IF ~opened.threw /\ request.method = "HEAD" /\ Http11 /\ c.length < 0
       THEN Put(opened, <<"final", 0, 0>>)
       ELSE opened

(* SendText and SendBytes.                                                 *)
SendText(c, n) ==
  IF c.sent THEN c
  ELSE LET opened == OpenResponse([c EXCEPT !.length = n])
       IN IF opened.threw THEN opened ELSE Plain(opened, 0, n)

SendErrorPage(c) == SendText(c, PageSize)

SendStatus(c, status) ==      \* SendNotFound, SendBadRequest
  IF c.sent THEN c ELSE SendErrorPage([c EXCEPT !.status = status])

(* Its own try block: what it throws ends here.                            *)
SendException(c) ==
  [SendErrorPage([c EXCEPT !.threw = FALSE, !.status = 500]) EXCEPT !.threw = FALSE]

(* WriteHeaders after a status alone: 400 and 416 of SendStream.           *)
Refuse(c, status) == WriteHeaders([c EXCEPT !.status = status])

(* Bytes of a source that ends, or fails when half of them were read.      *)
CopyPlain(c, from, n, fails) ==
  IF fails THEN Throw(Plain(c, from, n \div 2)) ELSE Plain(c, from, n)

Begin(r) == IF r.first = Absent THEN 0 ELSE r.first
End(r, len) == IF r.last = Absent THEN len - 1 ELSE r.last

(* Faulty: the last byte is left out.                                      *)
SendRangeShort(c, r, s) ==
  LET begin == Begin(r)
      end == End(r, s.len)
      opened == WriteHeaders([c EXCEPT !.status = 206, !.length = end - begin,
                                       !.span = [begin |-> begin, end |-> end, len |-> s.len]])
  IN IF begin >= end THEN Refuse(c, 416)
     ELSE IF opened.threw \/ request.method = "HEAD" THEN opened
     ELSE CopyPlain(opened, begin, end - begin, s.fails)

(* SendStream with a Range header that was understood.  -N is read as 0-N. *)
SendRange(c, r, s) ==
  LET begin == Begin(r)
      end == End(r, s.len)
      opened == WriteHeaders([c EXCEPT !.status = 206,
                                       !.length = end - begin + 1,
                                       !.span = [begin |-> begin, end |-> end, len |-> s.len]])
  IN IF end > s.len - 1 \/ begin >= end
       THEN Refuse([c EXCEPT !.span = [NoSpan EXCEPT !.len = s.len]], 416)
     ELSE IF opened.threw \/ request.method = "HEAD" THEN opened
     ELSE CopyPlain(opened, begin, end - begin + 1, s.fails)

SendSeekable(c, s) ==
  CASE request.range.kind = "no equals" -> SendErrorPage([c EXCEPT !.status = 400])
    [] request.range.kind = "refused" -> Refuse(c, 400)
    [] request.range.kind = "no number" -> Throw(c)
    [] request.range.kind = "none" ->
         IF s.len < 0 THEN c
         ELSE LET opened == WriteHeaders([c EXCEPT !.length = s.len])
              IN IF opened.threw \/ request.method = "HEAD" THEN opened
                 ELSE CopyPlain(opened, 0, s.len, s.fails)
    [] OTHER -> SendRange(c, request.range, s)

(* Through an HttpStream: no more than Content-Length, which the writer    *)
(* learns as an exception; the final chunk is written by the destructor,   *)
(* also when an exception passes.                                          *)
SendUnseekable(c, s) ==
  LET opened == OpenResponse(c)
      n == IF s.fails THEN s.len \div 2 ELSE s.len
      over == c.length >= 0 /\ n > c.length
      chunk == IF n > 0 THEN Put(opened, <<"chunk", 0, n>>) ELSE opened
      copied == IF c.length >= 0
                  THEN Plain(opened, 0, IF over THEN c.length ELSE n)
                  ELSE IF Http11 THEN Put(chunk, <<"final", 0, 0>>)
                  ELSE Plain(opened, 0, n)
  IN IF opened.threw \/ request.method = "HEAD" THEN opened
     ELSE IF s.fails \/ over THEN Throw(copied) ELSE copied

SendStream(c, s) ==
  IF c.sent THEN c
  ELSE IF s.len = 0 THEN Throw(c)             \* "End of stream"
  ELSE IF s.seek THEN SendSeekable(c, s)
  ELSE SendUnseekable(c, s)

-----------------------------------------------------------------------------
(* Process up to the call of the handler.                                  *)

(* requestHeaders.kvp.count(item): kvp maps a name to the list of its      *)
(* values.                                                                 *)
Count(values) == IF values > 0 THEN 1 ELSE 0

Malformed == request.line = "short" \/ request.header = "no colon"

ReadRequest ==
  /\ phase = "reading"
  /\ LET refused == [ctx EXCEPT !.status = 400] IN
       \/ /\ request.line = "none"
          /\ phase' = "done"
          /\ UNCHANGED ctx
       \/ /\ request.line # "none"
          /\ Malformed
          /\ ctx' = SendText(refused, PageSize)
          /\ phase' = "done"
       \/ /\ request.line = "ok"
          /\ ~Malformed
          /\ request.method = "TRACE"
          /\ ctx' = SendText(ctx, PageSize)
          /\ phase' = "done"
       \/ /\ request.line = "ok"
          /\ ~Malformed
          /\ request.method # "TRACE"
          /\ IF Count(request.values) > 1 \/ request.form = "empty"
               THEN ctx' = SendErrorPage(refused) /\ phase' = "done"
               ELSE phase' = "handling" /\ UNCHANGED ctx
  /\ UNCHANGED <<request, stream, calls, returned>>

-----------------------------------------------------------------------------
(* The handler.                                                            *)
Handling == phase = "handling" /\ ~ctx.threw /\ returned = "none"

Call(c) ==
  /\ Handling
  /\ calls < MaxCalls
  /\ calls' = calls + 1
  /\ ctx' = c
  /\ UNCHANGED <<request, phase, returned>>

WithStatusCode == Call([ctx EXCEPT !.status = 403]) /\ UNCHANGED stream

WithContentLength(n) == Call([ctx EXCEPT !.length = n]) /\ UNCHANGED stream

WithHeaderIntercepter(kind) ==
  /\ Call([ctx EXCEPT !.queue = Append(@, [id |-> calls, kind |-> kind])])
  /\ UNCHANGED stream

CallWriteHeaders == Call(WriteHeaders(ctx)) /\ UNCHANGED stream

CallSend ==
  /\ \/ \E n \in TextSizes : Call(SendText(ctx, n))
     \/ Call(SendErrorPage(ctx))
     \/ \E status \in {400, 404} : Call(SendStatus(ctx, status))
     \/ \E s \in Sources : Call(SendStream(ctx, s))
  /\ UNCHANGED stream

(* A second call returns nullptr and changes nothing.                      *)
CallOpenResponseStream ==
  /\ ~ctx.sent
  /\ Call(OpenResponse(ctx))
  /\ stream' = [open |-> ~ctx'.threw /\ ~(request.method = "HEAD" /\ ctx.length < 0 /\ Http11),
                length |-> ctx.length, position |-> 0]

(* The handler writes to that stream, as far as Content-Length allows.     *)
WriteStream(n) ==
  /\ stream.open
  /\ LET fits == IF stream.length < 0 \/ n <= stream.length - stream.position
                   THEN n ELSE stream.length - stream.position
     IN /\ IF stream.length < 0 /\ Http11
             THEN Call(IF n > 0 THEN Put(ctx, <<"chunk", stream.position, n>>) ELSE ctx)
             ELSE Call(Plain(ctx, stream.position, fits))
        /\ stream' = [stream EXCEPT !.position = @ + fits]

(* The handler's streams are destroyed when it ends.                       *)
DropStream(c) ==
  IF stream.open /\ stream.length < 0 /\ Http11 THEN Put(c, <<"final", 0, 0>>) ELSE c

Outcome(handled) ==
  IF handled THEN "true" ELSE IF ctx.sent THEN "false" ELSE "unhandled"

(* Faulty: an unhandled request is left without an answer.                 *)
ReturnSilently(handled) ==
  /\ Handling
  /\ returned' = Outcome(handled)
  /\ phase' = "ending"
  /\ ctx' = DropStream(ctx)
  /\ stream' = NoStream
  /\ UNCHANGED <<request, calls>>

HandlerReturns(handled) ==
  /\ Handling
  /\ returned' = Outcome(handled)
  /\ phase' = "ending"
  /\ LET c == DropStream(ctx)
     IN ctx' = IF handled THEN c
               ELSE IF c.status = 200 THEN SendStatus(c, 404) ELSE SendErrorPage(c)
  /\ stream' = NoStream
  /\ UNCHANGED <<request, calls>>

HandlerThrows ==
  /\ Handling
  /\ ctx' = Throw(ctx)
  /\ UNCHANGED <<request, phase, stream, calls, returned>>

(* The catch blocks of Process, after unwinding.                           *)
Catch ==
  /\ ctx.threw
  /\ ctx' = SendException(DropStream(ctx))
  /\ stream' = NoStream
  /\ returned' = "threw"
  /\ phase' = "done"
  /\ UNCHANGED <<request, calls>>

ProcessReturns ==
  /\ phase = "ending"
  /\ ~ctx.threw
  /\ phase' = "done"
  /\ UNCHANGED <<request, ctx, stream, calls, returned>>

Done == phase = "done" /\ UNCHANGED vars

Next ==
  \/ ReadRequest
  \/ WithStatusCode
  \/ \E n \in Lengths : WithContentLength(n)
  \/ \E kind \in Kinds : WithHeaderIntercepter(kind)
  \/ CallWriteHeaders \/ CallSend \/ CallOpenResponseStream
  \/ \E n \in TextSizes : WriteStream(n)
  \/ \E handled \in BOOLEAN : HandlerReturns(handled)
  \/ HandlerThrows
  \/ Catch \/ ProcessReturns \/ Done

Spec == Init /\ [][Next]_vars

-----------------------------------------------------------------------------
Head1 == ctx.wire[1]
Body == Tail(ctx.wire)
Started == ctx.wire # <<>>
Ran(kind) == \E k \in Range(ctx.ran) : k.kind = kind
Bytes(pieces) ==
  LET first[k \in 0 .. Len(pieces)] ==
        IF k = 0 THEN 0 ELSE first[k - 1] + pieces[k][3]
  IN first[Len(pieces)]

(* The types of the variables.                                             *)
TypeOK ==
  /\ request \in Requests
  /\ phase \in {"reading", "handling", "ending", "done"}
  /\ ctx.sent \in BOOLEAN /\ ctx.chunked \in BOOLEAN /\ ctx.threw \in BOOLEAN
  /\ ctx.status \in {200, 206, 400, 403, 404, 416, 500}
  /\ ctx.length \in Nat \cup {Unset, Junk}
  /\ stream.open \in BOOLEAN
  /\ stream.length \in Nat \cup {Unset, Junk}
  /\ stream.position \in Nat
  /\ calls \in 0 .. MaxCalls
  /\ returned \in {"none", "true", "false", "unhandled", "threw"}

(* There is one head, it is the first thing written, and it is written     *)
(* exactly when sent says so, whatever was called how often.               *)
OneHeadFirst ==
  /\ ctx.sent <=> Started
  /\ Started => Head1[1] = "head"
  /\ \A k \in DOMAIN ctx.wire : ctx.wire[k][1] = "head" => k = 1

(* The body is framed as the head says: with chunks and at most one final  *)
(* chunk, at the end, which is there when Process is over; or with no more *)
(* bytes than Content-Length; or until the connection closes.  Two things  *)
(* in a handler defeat it and are left out: an interceptor that sends a    *)
(* response of its own, whose caller then writes its body too, and one     *)
(* that throws after OpenResponseStream set Transfer-Encoding, which the   *)
(* error page does not take back.                                          *)
BodyFitsHead ==
  Started /\ ~Ran("answer") /\ ~Ran("throw") =>
    IF Head1[4]
      THEN /\ Head1[3] < 0
           /\ \A k \in DOMAIN Body :
                IF k = Len(Body) THEN Body[k][1] \in {"chunk", "final"}
                                 ELSE Body[k][1] = "chunk"
           /\ phase = "done" => Body # <<>> /\ Last(Body)[1] = "final"
      ELSE /\ \A k \in DOMAIN Body : Body[k][1] = "plain"
           /\ Head1[3] >= 0 => Bytes(Body) <= Head1[3]

(* The variables have their types, there is one head, and the body fits it.*)
Inv == TypeOK /\ OneHeadFirst /\ BodyFitsHead

(* Interceptors run in the order they were registered, each at most once,  *)
(* and before the head is written: one runs after it only when an earlier  *)
(* one answered, so that a loop was left open, and one in between stopped  *)
(* the loop inside.                                                        *)
InterceptorsInOrder ==
  /\ \A j, k \in DOMAIN ctx.ran : j < k => ctx.ran[j].id < ctx.ran[k].id
  /\ \A j \in DOMAIN ctx.ran, k \in DOMAIN ctx.queue : ctx.ran[j].id < ctx.queue[k].id
  /\ \A j \in DOMAIN ctx.ran :
       \/ ctx.ran[j].early
       \/ \E k \in DOMAIN ctx.ran : k < j /\ ctx.ran[k].kind = "stop"
            /\ \E a \in DOMAIN ctx.ran : a < k /\ ctx.ran[a].kind = "answer"

(* A request that began is answered, unless the handler claims to have     *)
(* done it, or an interceptor throws at the error page too; and what       *)
(* nobody handled is not answered with 200.                                *)
Answered ==
  phase = "done" /\ request.line # "none" /\ returned # "true" =>
    \/ Started /\ (returned = "unhandled" => Head1[2] # 200)
    \/ Ran("throw")

(* The bytes of a source of len that a Range header asks for: from first   *)
(* to last, or all from first on.                                          *)
AskedFor(range, len) ==
  range.first .. (IF range.last = Absent THEN len - 1 ELSE range.last)

(* 206 announces and sends a part of the source, and the part that the     *)
(* request asked for, when it gave a first byte.  A suffix range, -N, asks *)
(* for the last N bytes, and the code serves the bytes 0 to N: it is left  *)
(* out of the last conjunct.                                               *)
PartialIsExact ==
  Started /\ Head1[2] = 206 /\ ~Ran("answer") /\ returned # "threw" /\ ~ctx.threw =>
    LET span == Head1[5]
    IN /\ \E s \in Sources : s.len = span.len
       /\ 0 <= span.begin /\ span.end < span.len
       /\ Head1[3] = span.end - span.begin + 1 /\ Head1[3] > 1
       /\ request.method # "HEAD" => Body = <<<<"plain", span.begin, Head1[3]>>>>
       /\ request.range.first # Absent =>
            span.begin .. span.end = AskedFor(request.range, span.len)

(* "There are multiple instances of the header" (HttpServer.cpp:1147): a   *)
(* request that has two values of one of these headers is refused.         *)
DuplicatesRefused == phase = "handling" => request.values < 2
=============================================================================
