--------------------------- MODULE ServerSentEvents ---------------------------
(***************************************************************************)
(* ServerSentEvents (HttpServer.cpp): events sent to all registered        *)
(* streams by any thread, and SendServerSentEvents, which registers the    *)
(* response of a request and holds its thread until the stream is over.    *)
(*                                                                         *)
(* Nobody reads from the connection: its end shows only in a write that    *)
(* failed (NetworkStream.cpp:802), and not at all while the BufferedStream *)
(* above it holds bytes the client sent after its request                  *)
(* (BufferedStream.cpp:33-37).  Events are written with the mutex locked:  *)
(* a client that does not read holds up every other.                       *)
(***************************************************************************)
EXTENDS Naturals, SequencesExt

CONSTANTS
  Clients,      \* clients that ask for the events
  Senders,      \* threads that send them
  Nobody,       \* no owner of the mutex
  MaxEvents     \* bound: events

VARIABLES
  at,           \* where the handler of each client is
  up,           \* clients that are still there
  stalled,      \* clients that do not read, so that send blocks
  ahead,        \* clients that sent bytes behind their request
  ended,        \* endOfStream of each connection
  strms,        \* strms: the registered clients
  mtx,          \* who holds mtx
  rest,         \* the clients a sender has still to write to
  events,       \* history: events that were begun
  since,        \* history: events begun before the client registered
  got           \* history: the events each client received

vars == <<at, up, stalled, ahead, ended, strms, mtx, rest, events, since, got>>

Idle == <<Nobody>>              \* the rest of a sender that is in no call

Init ==
  /\ at = [c \in Clients |-> "request"]
  /\ up = Clients
  /\ stalled = {}
  /\ ahead \in SUBSET Clients
  /\ ended = {}
  /\ strms = <<>>
  /\ mtx = Nobody
  /\ rest = [s \in Senders |-> Idle]
  /\ events = 0
  /\ since = [c \in Clients |-> 0]
  /\ got = [c \in Clients |-> <<>>]

-----------------------------------------------------------------------------
(* Faulty forms of some definitions below.  No specification here uses     *)
(* them: each one breaks a property, which shows that it can fail.         *)
UnregisterFirst(c) ==           \* erases the first stream of the list
  /\ at[c] = "leave"
  /\ mtx = Nobody
  /\ strms' = Tail(strms)
  /\ at' = [at EXCEPT ![c] = "left"]
  /\ UNCHANGED <<up, stalled, ahead, ended, mtx, rest, events, since, got>>

SendStops(s) ==                 \* an exception ends SendEventRaw
  /\ mtx = s
  /\ rest[s] # <<>>
  /\ LET c == Head(rest[s])
     IN \/ /\ c \in up \ stalled
           /\ got' = [got EXCEPT ![c] = Append(@, events)]
           /\ rest' = [rest EXCEPT ![s] = Tail(@)]
           /\ UNCHANGED <<ended, mtx>>
        \/ /\ c \notin up
           /\ ended' = ended \cup {c}
           /\ rest' = [rest EXCEPT ![s] = Idle]
           /\ UNCHANGED <<got, mtx>>
  /\ UNCHANGED <<at, up, stalled, ahead, strms, events, since>>

-----------------------------------------------------------------------------
(* SendServerSentEvents.  A request with method HEAD, or whose answer was  *)
(* sent already, is left at once.                                          *)
SendServerSentEvents(c) ==
  /\ at[c] = "request"
  /\ at' = [at EXCEPT ![c] = "register"]
  /\ UNCHANGED <<up, stalled, ahead, ended, strms, mtx, rest, events, since, got>>

NothingToSend(c) ==
  /\ at[c] = "request"
  /\ at' = [at EXCEPT ![c] = "left"]
  /\ UNCHANGED <<up, stalled, ahead, ended, strms, mtx, rest, events, since, got>>

Register(c) ==
  /\ at[c] = "register"
  /\ mtx = Nobody
  /\ strms' = Append(strms, c)
  /\ since' = [since EXCEPT ![c] = events]
  /\ at' = [at EXCEPT ![c] = "poll"]
  /\ UNCHANGED <<up, stalled, ahead, ended, mtx, rest, events, got>>

EndOfStream(c) == c \in ended /\ c \notin ahead

(* The loop over EndOfStream and TF_Sleep.                                 *)
Poll(c) ==
  /\ at[c] = "poll"
  /\ EndOfStream(c)
  /\ at' = [at EXCEPT ![c] = "leave"]
  /\ UNCHANGED <<up, stalled, ahead, ended, strms, mtx, rest, events, since, got>>

Unregister(c) ==
  /\ at[c] = "leave"
  /\ mtx = Nobody
  /\ strms' = RemoveFirst(strms, c)
  /\ at' = [at EXCEPT ![c] = "left"]
  /\ UNCHANGED <<up, stalled, ahead, ended, mtx, rest, events, since, got>>

-----------------------------------------------------------------------------
(* SendEventRaw, up to the first write.                                    *)
SendEventRaw(s) ==
  /\ rest[s] = Idle
  /\ mtx = Nobody
  /\ events < MaxEvents
  /\ mtx' = s
  /\ events' = events + 1
  /\ rest' = [rest EXCEPT ![s] = strms]
  /\ UNCHANGED <<at, up, stalled, ahead, ended, strms, since, got>>

(* One stream after another.  To a client that has gone a write is lost or *)
(* fails, and the exception is swallowed.                                  *)
WriteEvent(s) ==
  /\ mtx = s
  /\ rest[s] # <<>>
  /\ LET c == Head(rest[s])
     IN \/ /\ c \in up \ stalled
           /\ got' = [got EXCEPT ![c] = Append(@, events)]
           /\ ended' = ended
        \/ /\ c \notin up
           /\ got' = got
           /\ ended' \in {ended, ended \cup {c}}
  /\ rest' = [rest EXCEPT ![s] = Tail(@)]
  /\ UNCHANGED <<at, up, stalled, ahead, strms, mtx, events, since>>

SendReturns(s) ==
  /\ mtx = s
  /\ rest[s] = <<>>
  /\ rest' = [rest EXCEPT ![s] = Idle]
  /\ mtx' = Nobody
  /\ UNCHANGED <<at, up, stalled, ahead, ended, strms, events, since, got>>

-----------------------------------------------------------------------------
(* The clients.                                                            *)
Go(c) ==
  /\ c \in up
  /\ up' = up \ {c}
  /\ stalled' = stalled \ {c}
  /\ UNCHANGED <<at, ahead, ended, strms, mtx, rest, events, since, got>>

Stall(c) ==
  /\ c \in up
  /\ stalled' = IF c \in stalled THEN stalled \ {c} ELSE stalled \cup {c}
  /\ UNCHANGED <<at, up, ahead, ended, strms, mtx, rest, events, since, got>>

Handler(c) == Register(c) \/ Poll(c) \/ Unregister(c)
Sender(s) == WriteEvent(s) \/ SendReturns(s)

Next ==
  \/ \E c \in Clients :
       SendServerSentEvents(c) \/ NothingToSend(c) \/ Handler(c) \/ Go(c) \/ Stall(c)
  \/ \E s \in Senders : SendEventRaw(s) \/ Sender(s)

(* Handlers and senders that can go on do so; nobody need send, and a      *)
(* client need not read.                                                   *)
Fairness ==
  /\ \A c \in Clients : WF_vars(Handler(c))
  /\ \A s \in Senders : WF_vars(Sender(s))

Spec == Init /\ [][Next]_vars /\ Fairness

-----------------------------------------------------------------------------
TypeOK ==
  /\ at \in [Clients -> {"request", "register", "poll", "leave", "left"}]
  /\ up \subseteq Clients /\ stalled \subseteq up
  /\ ahead \subseteq Clients /\ ended \subseteq Clients \ up
  /\ strms \in Seq(Clients)
  /\ mtx \in Senders \cup {Nobody}
  /\ rest \in [Senders -> Seq(Clients \cup {Nobody})]
  /\ events \in 0 .. MaxEvents
  /\ since \in [Clients -> 0 .. events]
  /\ got \in [Clients -> Seq(1 .. MaxEvents)]

(* The streams of the list are those whose handler is between its two      *)
(* critical sections, each once (HttpServer.cpp:390-404).                  *)
Registered ==
  /\ ToSet(strms) = {c \in Clients : at[c] \in {"poll", "leave"}}
  /\ IsInjective(strms)

(* The events a client waits for in the call that is running.              *)
Due(c) == IF mtx # Nobody /\ c \in ToSet(rest[mtx]) THEN 1 ELSE 0

(* Whoever is there gets every event from its registration on, once and in *)
(* the order all clients get them; who has gone got a beginning of them    *)
(* (HttpServer.cpp:61-73).                                                 *)
NoEventMissed ==
  \A c \in Clients :
    /\ \A k \in DOMAIN got[c] : got[c][k] = since[c] + k
    /\ at[c] = "poll" /\ c \in up => since[c] + Len(got[c]) + Due(c) = events

Inv == TypeOK /\ Registered /\ NoEventMissed

(* A handler leaves after a write to its client failed, and a sender comes *)
(* back, unless some client stopped reading; the handler of a client that  *)
(* sent bytes behind its request stays for ever (HttpServer.cpp:393).      *)
NobodyHeldUp ==
  /\ \A c \in Clients :
       (c \in ended /\ at[c] # "left") ~> (at[c] = "left" \/ c \in ahead \/ stalled # {})
  /\ \A s \in Senders : (mtx = s) ~> (mtx # s \/ stalled # {})
=============================================================================
