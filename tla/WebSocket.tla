------------------------------- MODULE WebSocket -------------------------------
(***************************************************************************)
(* One WebSocket session between the server class WSServer                 *)
(* (HttpServer.cpp) and the client class WSClient (HttpClient.cpp).  At    *)
(* each end two threads run: "start" is Start, which reads frames and      *)
(* calls OnReceive and OnClose, and "open" is the application's OnOpen,    *)
(* which sends messages, pings and closes.  They share a mutex and, on the *)
(* server, a stream that close sets to null.                               *)
(*                                                                         *)
(* A direction of the connection is the sequence of frames on their way.   *)
(* The head of the 101 answer counts as a frame.  Flow control is left     *)
(* out: a write to a peer that is there never waits.                       *)
(***************************************************************************)
EXTENDS Integers, SequencesExt

CONSTANTS
  Fragments,   \* the numbers of fragments (of 4096 bytes) a message can have
  MaxCalls,    \* bound: how many operations the OnOpen of each end calls
  Echo         \* the ends whose OnReceive answers with a short message

ASSUME FragmentsAssumption == Fragments \subseteq Nat

End == {"server", "client"}
Thread == {"start", "open"}
Peer(p) == CHOOSE q \in End : q # p

ASSUME EchoAssumption == Echo \subseteq End /\ Echo # End
ASSUME CallsAssumption == MaxCalls \in [End -> Nat]

VARIABLES
  link,        \* "up" or "lost"
  out,         \* the frames each end wrote that its peer has not read
  alive,       \* "up", "ended" (the stream is closed), "crashed" (the process)
  accepted,    \* is the request a WebSocket request the server takes?
  strm,        \* is strm not null?
  eos,         \* strm->EndOfStream()
  hasInit, closed,
  lock,        \* mtx: who holds it
  todo,        \* the frames its holder still has to write
  call,        \* the sending operation each thread is in
  calls,       \* how many operations OnOpen has called
  open,        \* OnOpen: "absent", "running", "done" (it threw)
  start,       \* where Start stands
  message,     \* the parts of the message Start puts together
  sent,        \* the sizes of the messages, in the order of the mutex
  received,    \* the messages given to OnReceive
  told,        \* the arguments of the calls of OnClose
  beforeClose  \* how many messages were sent before the first close frame

vars == <<link, out, alive, accepted, strm, eos, hasInit, closed, lock, todo,
          call, calls, open, start, message, sent, received, told, beforeClose>>

object == <<accepted, hasInit, calls, open>>
reading == <<start, message, received>>
writing == <<lock, todo, call, sent, beforeClose>>
net == <<link, alive>>

Idle == [kind |-> "none", size |-> 0]
Control(op) == [op |-> op, part |-> <<0, 0>>, fin |-> TRUE]
Part(k, i, n) == [op |-> IF i = 1 THEN "first" ELSE "more",
                  part |-> <<k, i>>, fin |-> i = n]
Torn(f) == [f EXCEPT !.part[2] = -1]        \* some of its payload is missing
IsTorn(f) == f.part[2] = -1

(* The server's application thread starts before Start; the client has     *)
(* sent its request and waits for the answer.                              *)
Init ==
  /\ link = "up"
  /\ out = [p \in End |-> <<>>]
  /\ alive = [p \in End |-> "up"]
  /\ accepted \in BOOLEAN
  /\ strm = [p \in End |-> TRUE]
  /\ eos = [p \in End |-> FALSE]
  /\ hasInit = [p \in End |-> p = "client"]
  /\ closed = [p \in End |-> FALSE]
  /\ lock = [p \in End |-> "free"]
  /\ todo = [p \in End |-> <<>>]
  /\ call = [p \in End |-> [t \in Thread |-> Idle]]
  /\ calls = [p \in End |-> 0]
  /\ open = [p \in End |-> IF p = "server" THEN "running" ELSE "absent"]
  /\ start = [p \in End |-> IF p = "server" THEN "begin" ELSE "connect"]
  /\ message = [p \in End |-> <<>>]
  /\ sent = [p \in End |-> <<>>]
  /\ received = [p \in End |-> <<>>]
  /\ told = [p \in End |-> <<>>]
  /\ beforeClose = [p \in End |-> -1]

Finished == {"returned", "threw", "failed"}
Broken(p) == link = "lost" \/ alive[Peer(p)] # "up"     \* writes of p go nowhere

-----------------------------------------------------------------------------
(* The sending operations.                                                 *)
Frames(p, c) ==
  IF c.kind = "data" THEN [i \in 1 .. c.size |-> Part(Len(sent[p]) + 1, i, c.size)]
                     ELSE <<Control(c.kind)>>

(* Faulty: the mutex is not taken. *)
AcquireAnyway(p, t) ==
  LET c == call[p][t] IN
  /\ alive[p] = "up"
  /\ c.kind # "none" /\ lock[p] # t
  /\ c.kind = "data" => hasInit[p]
  /\ lock' = [lock EXCEPT ![p] = t]
  /\ todo' = [todo EXCEPT ![p] = Frames(p, c)]
  /\ sent' = IF c.kind = "data" /\ c.size > 0
               THEN [sent EXCEPT ![p] = Append(@, c.size)] ELSE sent
  /\ closed' = IF c.kind = "close" THEN [closed EXCEPT ![p] = TRUE] ELSE closed
  /\ UNCHANGED <<object, reading, net, out, strm, eos, call, told, beforeClose>>

(* mtx.Lock(); send_msg spins until hasInit first.                         *)
Acquire(p, t) ==
  LET c == call[p][t] IN
  /\ alive[p] = "up"
  /\ c.kind # "none" /\ lock[p] = "free"
  /\ c.kind = "data" => hasInit[p]
  /\ lock' = [lock EXCEPT ![p] = t]
  /\ todo' = [todo EXCEPT ![p] = Frames(p, c)]
  /\ sent' = IF c.kind = "data" /\ c.size > 0
               THEN [sent EXCEPT ![p] = Append(@, c.size)] ELSE sent
  /\ closed' = IF c.kind = "close" THEN [closed EXCEPT ![p] = TRUE] ELSE closed
  /\ UNCHANGED <<object, reading, net, out, strm, eos, call, told, beforeClose>>

(* One frame is written; to a peer that is gone it may seem to be.         *)
WriteFrame(p, t) ==
  /\ alive[p] = "up"
  /\ lock[p] = t /\ call[p][t].kind # "none" /\ todo[p] # <<>> /\ strm[p]
  /\ todo' = [todo EXCEPT ![p] = Tail(@)]
  /\ out' = IF Broken(p) THEN out ELSE [out EXCEPT ![p] = Append(@, Head(todo[p]))]
  /\ beforeClose' = IF Head(todo[p]).op = "close" /\ beforeClose[p] = -1
                      THEN [beforeClose EXCEPT ![p] = Len(sent[p])] ELSE beforeClose
  /\ \/ UNCHANGED eos
     \/ /\ Broken(p) /\ Head(todo[p]).op = "close"      \* WriteByte failed
        /\ eos' = [eos EXCEPT ![p] = TRUE]
  /\ UNCHANGED <<object, reading, net, strm, closed, lock, call, sent, told>>

(* WriteBlock throws and nobody unlocks mtx.  OnOpen ends with the         *)
(* exception, Start lets it through.  close uses WriteByte, which does not *)
(* throw.                                                                  *)
WriteThrows(p, t) ==
  /\ alive[p] = "up"
  /\ lock[p] = t /\ call[p][t].kind \in {"data", "ping", "pong"}
  /\ todo[p] # <<>> /\ strm[p] /\ Broken(p)
  /\ todo' = [todo EXCEPT ![p] = <<>>]
  /\ call' = [call EXCEPT ![p][t] = Idle]
  /\ eos' = [eos EXCEPT ![p] = TRUE]
  /\ IF t = "open" THEN /\ open' = [open EXCEPT ![p] = "done"]
                        /\ UNCHANGED start
                   ELSE /\ start' = [start EXCEPT ![p] = "threw"]
                        /\ UNCHANGED open
  /\ UNCHANGED <<net, out, accepted, strm, hasInit, closed, lock, calls,
                 message, sent, received, told, beforeClose>>

(* mtx.Unlock().  The server's close drops the stream before and tells the *)
(* application after; Start tells it as well when close was its answer.    *)
Release(p, t) ==
  LET kind == call[p][t].kind
      closing == kind = "close" IN
  /\ alive[p] = "up"
  /\ lock[p] = t /\ kind # "none" /\ todo[p] = <<>>
  /\ lock' = [lock EXCEPT ![p] = "free"]
  /\ call' = [call EXCEPT ![p][t] = Idle]
  /\ strm' = IF closing /\ p = "server" THEN [strm EXCEPT ![p] = FALSE] ELSE strm
  /\ told' = [told EXCEPT ![p] = @ \o (IF closing /\ p = "server" THEN <<TRUE>> ELSE <<>>)
                                   \o (IF closing /\ t = "start" THEN <<TRUE>> ELSE <<>>)]
  /\ start' = IF t = "open" THEN start
              ELSE [start EXCEPT ![p] =
                      CASE kind = "close" -> "returned"
                        [] kind = "pong"  -> "deliver"
                        [] OTHER          -> "loop"]
  /\ UNCHANGED <<object, net, out, eos, closed, todo, message, sent, received,
                 beforeClose>>

-----------------------------------------------------------------------------
(* OnOpen: any operations in any order; close is the last one it calls.    *)
OpenCalls(p, c) ==
  /\ alive[p] = "up" /\ open[p] = "running"
  /\ call[p].open = Idle /\ calls[p] < MaxCalls[p]
  /\ call' = [call EXCEPT ![p].open = c]
  /\ calls' = [calls EXCEPT ![p] = IF c.kind = "close" THEN MaxCalls[p] ELSE @ + 1]
  /\ UNCHANGED <<net, reading, out, accepted, strm, eos, hasInit, closed, lock,
                 todo, open, sent, told, beforeClose>>

Operations ==
  {[kind |-> "data", size |-> n] : n \in Fragments}
    \cup {[kind |-> k, size |-> 0] : k \in {"ping", "close"}}

-----------------------------------------------------------------------------
(* Start.                                                                  *)
GoTo(p, place) == start' = [start EXCEPT ![p] = place]

(* closed = false: a close the application was quick with is forgotten.    *)
BeginStart(p) ==
  /\ alive[p] = "up" /\ start[p] = "begin"
  /\ closed' = [closed EXCEPT ![p] = FALSE]
  /\ GoTo(p, IF p = "client" THEN "loop" ELSE "handshake")
  /\ UNCHANGED <<object, net, writing, out, strm, eos, message, received, told>>

(* The early returns, with hasInit false for ever.                         *)
RefuseUpgrade ==
  /\ alive["server"] = "up" /\ start["server"] = "handshake" /\ ~accepted
  /\ GoTo("server", "returned")
  /\ UNCHANGED <<object, net, writing, out, strm, eos, closed, message,
                 received, told>>

WriteHeaders ==
  /\ alive["server"] = "up" /\ start["server"] = "handshake" /\ accepted
  /\ \/ /\ out' = IF Broken("server") THEN out
                  ELSE [out EXCEPT !["server"] = Append(@, Control("head"))]
        /\ hasInit' = [hasInit EXCEPT !["server"] = TRUE]
        /\ GoTo("server", "loop")
        /\ UNCHANGED eos
     \/ /\ Broken("server")
        /\ eos' = [eos EXCEPT !["server"] = TRUE]
        /\ GoTo("server", "threw")
        /\ UNCHANGED <<out, hasInit>>
  /\ UNCHANGED <<net, writing, accepted, strm, closed, calls, open, message,
                 received, told>>

InputOver(p) == out[Peer(p)] = <<>> /\ Broken(p)

(* The client reads the answer and starts OnOpen and Start.  A frame that  *)
(* got ahead of the head or into it spoils the answer, or is taken for a   *)
(* piece of a header.                                                      *)
Connected ==
  /\ alive["client"] = "up" /\ start["client"] = "connect"
  /\ \/ /\ out["server"] # <<>>
        /\ out' = [out EXCEPT !["server"] = Tail(@)]
        /\ IF Head(out["server"]).op = "head"
             THEN \/ /\ GoTo("client", "begin")
                     /\ open' = [open EXCEPT !["client"] = "running"]
                  \/ /\ GoTo("client", "failed")      \* cb declines
                     /\ UNCHANGED open
             ELSE /\ start' \in {start, [start EXCEPT !["client"] = "failed"]}
                  /\ UNCHANGED open
     \/ /\ InputOver("client")
        /\ GoTo("client", "failed")
        /\ UNCHANGED <<out, open>>
  /\ UNCHANGED <<net, writing, accepted, strm, eos, hasInit, closed, calls,
                 message, received, told>>

(* while (!strm->EndOfStream()); what the server has buffered comes first. *)
CheckEnd(p) ==
  /\ alive[p] = "up" /\ start[p] = "loop" /\ strm[p]
  /\ \/ /\ ~eos[p] \/ (p = "server" /\ out[Peer(p)] # <<>>)
        /\ GoTo(p, "read")
        /\ UNCHANGED told
     \/ /\ eos[p]
        /\ GoTo(p, "returned")
        /\ told' = [told EXCEPT ![p] = Append(@, FALSE)]
  /\ UNCHANGED <<object, net, writing, out, strm, eos, closed, message, received>>

Incoming(p) == Head(out[Peer(p)])
Reads(p, ops) ==
  /\ alive[p] = "up" /\ start[p] = "read"
  /\ out[Peer(p)] # <<>> /\ Incoming(p).op \in ops
  /\ out' = [out EXCEPT ![Peer(p)] = Tail(@)]

(* ReadBlock(frame_start, 2) != 2: Start returns and tells nobody.         *)
ReadEnd(p) ==
  /\ alive[p] = "up" /\ start[p] = "read" /\ InputOver(p)
  /\ eos' = [eos EXCEPT ![p] = TRUE]
  /\ GoTo(p, "returned")
  /\ UNCHANGED <<object, net, writing, out, strm, closed, message, received, told>>

(* Faulty: fin is not asked, each fragment counts as a message.            *)
ReadFragment(p) ==
  LET f == Incoming(p) IN
  /\ Reads(p, {"first", "more"}) /\ strm[p]
  /\ message' = [message EXCEPT ![p] = <<f.part>>]
  /\ eos' = [eos EXCEPT ![p] = @ \/ IsTorn(f)]
  /\ GoTo(p, "deliver")
  /\ UNCHANGED <<object, net, writing, strm, closed, received, told>>

(* What read_packet returns is not looked at: the bytes that came before   *)
(* the connection was lost count as the whole fragment.                    *)
ReadData(p) ==
  LET f == Incoming(p) IN
  /\ Reads(p, {"first", "more"}) /\ strm[p]
  /\ message' = [message EXCEPT ![p] = CASE f.op = "first" -> <<f.part>>
                                         [] f.op = "more" /\ @ = <<>> -> @
                                         [] f.op = "more" /\ @ # <<>> -> Append(@, f.part)]
  /\ eos' = [eos EXCEPT ![p] = @ \/ IsTorn(f)]
  /\ GoTo(p, IF f.fin THEN "deliver" ELSE "loop")
  /\ UNCHANGED <<object, net, writing, strm, closed, received, told>>

ReadPing(p) ==
  /\ Reads(p, {"ping"}) /\ strm[p]
  /\ call' = [call EXCEPT ![p].start = [kind |-> "pong", size |-> 0]]
  /\ eos' = [eos EXCEPT ![p] = @ \/ IsTorn(Incoming(p))]
  /\ GoTo(p, "call")
  /\ UNCHANGED <<object, net, strm, closed, lock, todo, message, sent,
                 received, told, beforeClose>>

(* The client's pong says that it is masked and carries no mask: the       *)
(* server takes the payload for the mask and what follows for the payload. *)
ReadPong(p) ==
  /\ Reads(p, {"pong"}) /\ strm[p]
  /\ eos' = [eos EXCEPT ![p] = @ \/ IsTorn(Incoming(p))]
  /\ GoTo(p, IF p = "server" /\ ~eos'[p] THEN "garbled" ELSE "deliver")
  /\ UNCHANGED <<object, net, writing, strm, closed, message, received, told>>

(* Faulty: the close frame is answered by the end that sent one.           *)
ReadCloseInverted(p) ==
  /\ Reads(p, {"close"})
  /\ IF ~closed[p] THEN /\ told' = [told EXCEPT ![p] = Append(@, TRUE)]
                        /\ GoTo(p, "returned")
                        /\ UNCHANGED call
                   ELSE /\ call' = [call EXCEPT ![p].start = [kind |-> "close", size |-> 0]]
                        /\ GoTo(p, "call")
                        /\ UNCHANGED told
  /\ UNCHANGED <<object, net, strm, eos, closed, lock, todo, message, sent,
                 received, beforeClose>>

ReadClose(p) ==
  /\ Reads(p, {"close"})
  /\ IF closed[p] THEN /\ told' = [told EXCEPT ![p] = Append(@, TRUE)]
                       /\ GoTo(p, "returned")
                       /\ UNCHANGED call
                  ELSE /\ call' = [call EXCEPT ![p].start = [kind |-> "close", size |-> 0]]
                       /\ GoTo(p, "call")
                       /\ UNCHANGED told
  /\ UNCHANGED <<object, net, strm, eos, closed, lock, todo, message, sent,
                 received, beforeClose>>

(* if (fin && hasMessage): OnReceive, which may send a message itself.     *)
Deliver(p) ==
  LET echo == message[p] # <<>> /\ p \in Echo IN
  /\ alive[p] = "up" /\ start[p] = "deliver"
  /\ message' = [message EXCEPT ![p] = <<>>]
  /\ received' = IF message[p] = <<>> THEN received
                 ELSE [received EXCEPT ![p] = Append(@, message[p])]
  /\ call' = IF echo THEN [call EXCEPT ![p].start = [kind |-> "data", size |-> 1]]
                     ELSE call
  /\ GoTo(p, IF echo THEN "call" ELSE "loop")
  /\ UNCHANGED <<object, net, out, strm, eos, closed, lock, todo, sent, told,
                 beforeClose>>

-----------------------------------------------------------------------------
(* strm is null where it is used: the process of the server dies.          *)
UseOfNull(p) ==
  /\ alive[p] = "up" /\ ~strm[p]
  /\ \/ start[p] = "loop"
     \/ start[p] = "read" /\ out[Peer(p)] # <<>> /\ Incoming(p).op # "close"
     \/ \E t \in Thread : lock[p] = t /\ call[p][t].kind # "none" /\ todo[p] # <<>>
  /\ alive' = [alive EXCEPT ![p] = "crashed"]
  /\ UNCHANGED <<link, object, reading, writing, out, strm, eos, closed, told>>

(* OnOpen returns when it likes, and thrd.Join() with it; or Start threw   *)
(* and took the session along.  The stream is closed.                      *)
Leave(p) ==
  /\ alive[p] = "up" /\ start[p] \in Finished
  /\ call[p].open = Idle \/ start[p] = "threw"
  /\ alive' = [alive EXCEPT ![p] = "ended"]
  /\ UNCHANGED <<link, object, reading, writing, out, strm, eos, closed, told>>

(* The connection is lost, with any of the bytes on their way.             *)
Arrived(frames) ==
  LET First(k) == SubSeq(frames, 1, k) IN
  {First(k) : k \in 0 .. Len(frames)}
    \cup {Append(First(k - 1), Torn(frames[k])) :
            k \in {j \in DOMAIN frames : frames[j].op \notin {"head", "close"}}}

Lose ==
  /\ link = "up"
  /\ link' = "lost"
  /\ \E s \in Arrived(out["server"]), c \in Arrived(out["client"]) :
       out' = [p \in End |-> IF p = "server" THEN s ELSE c]
  /\ UNCHANGED <<object, reading, writing, alive, strm, eos, closed, told>>

-----------------------------------------------------------------------------
Sending(p, t) ==
  Acquire(p, t) \/ WriteFrame(p, t) \/ WriteThrows(p, t) \/ Release(p, t)
Reading(p) ==
  \/ BeginStart(p) \/ CheckEnd(p) \/ ReadEnd(p) \/ ReadData(p) \/ ReadPing(p)
  \/ ReadPong(p) \/ ReadClose(p) \/ Deliver(p)
Handshake(p) ==
  \/ p = "server" /\ (RefuseUpgrade \/ WriteHeaders)
  \/ p = "client" /\ Connected

(* The two threads of an end.                                              *)
Start(p) == Handshake(p) \/ Reading(p) \/ Sending(p, "start") \/ UseOfNull(p)
OnOpen(p) == Sending(p, "open")

Next ==
  \/ Lose
  \/ \E p \in End :
       \/ Start(p) \/ OnOpen(p) \/ Leave(p)
       \/ \E c \in Operations : OpenCalls(p, c)

(* Every thread goes on while it can; what OnOpen calls, and when it       *)
(* returns, is its own affair.                                             *)
Spec == /\ Init /\ [][Next]_vars
        /\ \A p \in End : WF_vars(Start(p)) /\ WF_vars(OnOpen(p))

-----------------------------------------------------------------------------
(* The types of the variables.                                             *)
TypeOK ==
  /\ link \in {"up", "lost"}
  /\ alive \in [End -> {"up", "ended", "crashed"}]
  /\ accepted \in BOOLEAN
  /\ \A v \in {strm, eos, hasInit, closed} : v \in [End -> BOOLEAN]
  /\ lock \in [End -> Thread \cup {"free"}]
  /\ \A p \in End : \A t \in Thread :
       call[p][t] \in Operations \cup {Idle, [kind |-> "pong", size |-> 0],
                                       [kind |-> "data", size |-> 1]}
  /\ \A p \in End : calls[p] \in 0 .. MaxCalls[p]
  /\ open \in [End -> {"absent", "running", "done"}]
  /\ start \in [End -> {"connect", "begin", "handshake", "loop", "read",
                        "call", "deliver", "garbled"} \cup Finished]
  /\ \A p \in End : /\ sent[p] \in Seq(Nat)
                    /\ told[p] \in Seq(BOOLEAN)
                    /\ beforeClose[p] \in -1 .. Len(sent[p])

Whole(p, k) == [i \in 1 .. sent[p][k] |-> <<k, i>>]

(* OnReceive gets the peer's messages whole, once each and in the order    *)
(* they were sent, though fragments, echoes, pings and the close frame     *)
(* come from two threads.  Only the last message before a lost connection  *)
(* may be damaged, because read_packet's answer is ignored.                *)
MessagesWhole ==
  \A p \in End :
    LET got == received[Peer(p)] IN
    /\ Len(got) <= Len(sent[p])
    /\ \A k \in DOMAIN got :
         \/ got[k] = Whole(p, k)
         \/ /\ link = "lost" /\ k = Len(got)
            /\ \E i \in DOMAIN Whole(p, k) : got[k] = [Whole(p, k) EXCEPT ![i][2] = -1]

(* When Start comes to the peer's close frame OnReceive has had every      *)
(* message the peer began to send before it: the mutex keeps the frame     *)
(* behind messages another thread is still writing.                        *)
NothingLostBeforeClose ==
  \A p \in End :
    start[p] = "read" /\ out[Peer(p)] # <<>> /\ Incoming(p).op = "close" =>
      Len(received[p]) >= beforeClose[Peer(p)] /\ message[p] = <<>>

(* The variables have their types, messages arrive whole, and before the   *)
(* close frame.                                                            *)
Inv == TypeOK /\ MessagesWhole /\ NothingLostBeforeClose

(* When the client closes a session that the server has not closed, both   *)
(* calls of Start come to an end, whatever else is on its way and even if  *)
(* the server closes at the same time, unless the connection is lost, the  *)
(* server was garbled by a pong, or its process died.                      *)
SessionEnds ==
  (closed["client"] /\ ~closed["server"]) ~>
    \/ \A p \in End : start[p] \in Finished \/ alive[p] # "up"
    \/ link = "lost"
    \/ start["server"] = "garbled"

(* When Start returns from a session that was open the application has     *)
(* been told, of a lost connection too: the example wsecho.cpp prints      *)
(* "Closed unclean" for OnClose(false).                                    *)
LossIsTold ==
  \A p \in End : start[p] = "returned" /\ hasInit[p] => told[p] # <<>>
=============================================================================
