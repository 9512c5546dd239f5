------------------------------ MODULE HttpServer ------------------------------
(***************************************************************************)
(* Tesses::Framework::Http::HttpServer (HttpServer.cpp): the thread that   *)
(* accepts connections, the detached thread per connection, and the        *)
(* destructor, which wakes the accepting thread by connecting to its own   *)
(* port.  The listening socket is a TcpServer (NetworkStream.cpp).         *)
(*                                                                         *)
(* Of the operating system the module takes what the code relies on:       *)
(* accept blocks until a connection waits, close neither wakes it nor      *)
(* takes the socket from under it, and accept on a closed descriptor       *)
(* fails at once.                                                          *)
(***************************************************************************)
EXTENDS Integers, Sequences, Functions

CONSTANTS
  Clients,     \* the connections other programs make
  Self,        \* the connection of TF_ConnectToSelf
  None,        \* a null stream
  MaxFailures  \* bound: failures of accept on a good socket

ASSUME ClientsAssumption == Self \notin Clients /\ None \notin Clients /\ Self # None
ASSUME FailuresAssumption == MaxFailures \in Nat

VARIABLES
  isRunning,   \* TF_IsRunning()
  reachable,   \* does 127.0.0.1:GetPort() lead to the listening socket?
  valid,       \* TcpServer::valid: the descriptor is open
  listening,   \* does the socket still take connections?
  backlog,     \* the connections that wait to be accepted
  acceptor,    \* where the accepting thread stands
  sock,        \* its local sock
  owner,       \* the object: built, accepting, closed, connected, gone
  client,      \* what became of each connection
  failures     \* how often accept failed on a good socket

vars == <<isRunning, reachable, valid, listening, backlog, acceptor, sock,
          owner, client, failures>>

(* A bind that failed leaves an invalid TcpServer, which is used as it is. *)
Init ==
  /\ isRunning = TRUE
  /\ reachable \in BOOLEAN
  /\ valid \in BOOLEAN
  /\ listening = valid
  /\ backlog = <<>>
  /\ acceptor = "absent"
  /\ sock = None
  /\ owner = "built"
  /\ client = [c \in Clients |-> "idle"]
  /\ failures = 0

(* The connections in queue are reset.                                     *)
Reset(queue) ==
  [c \in Clients |-> IF c \in Range(queue) THEN "refused" ELSE client[c]]

(* accept is over: a socket that was closed meanwhile is gone for good.    *)
LeaveAccept(queue) ==
  IF valid THEN /\ backlog' = queue
                /\ UNCHANGED <<listening, client>>
           ELSE /\ backlog' = <<>>
                /\ listening' = FALSE
                /\ client' = Reset(queue)

-----------------------------------------------------------------------------
(* Faulty forms of some definitions below.  No specification here uses     *)
(* them: each one breaks a property, which shows that it can fail.         *)
ServeInline ==                \* Process called on the accepting thread
  /\ acceptor = "got"
  /\ isRunning
  /\ \/ /\ sock \in Clients
        /\ client[sock] = "waiting"
        /\ client' = [client EXCEPT ![sock] = "processing"]
        /\ UNCHANGED <<acceptor, sock>>
     \/ /\ sock \in Clients => client[sock] \in {"served", "refused"}
        /\ acceptor' = "check"
        /\ sock' = None
        /\ UNCHANGED client
  /\ UNCHANGED <<isRunning, reachable, valid, listening, backlog, owner,
                 failures>>

ServeAndKeep ==               \* the loop hands the same stream out again
  /\ acceptor = "got"
  /\ isRunning
  /\ sock # None
  /\ client' = IF sock = Self THEN client
                              ELSE [client EXCEPT ![sock] = "processing"]
  /\ UNCHANGED <<acceptor, sock, isRunning, reachable, valid, listening,
                 backlog, owner, failures>>

ConnectNowhere ==             \* TF_ConnectToSelf left out
  /\ owner = "closed"
  /\ owner' = "connected"
  /\ UNCHANGED <<isRunning, reachable, valid, listening, backlog, acceptor,
                 sock, client, failures>>

JoinNot ==                    \* the thread is deleted without a Join
  /\ owner = "connected"
  /\ owner' = "gone"
  /\ UNCHANGED <<isRunning, reachable, valid, listening, backlog, acceptor,
                 sock, client, failures>>

BreakAlways ==                \* TF_IsRunning is not asked after accept
  /\ acceptor = "got"
  /\ acceptor' = "done"
  /\ sock' = None
  /\ client' = IF sock \in Clients THEN [client EXCEPT ![sock] = "refused"]
                                   ELSE client
  /\ UNCHANGED <<isRunning, reachable, valid, listening, backlog, owner,
                 failures>>

-----------------------------------------------------------------------------
(* Outside: other programs connect, the process is told to stop, and       *)
(* perhaps to go on (TF_SetIsRunning(true)).                               *)
Connect(c) ==
  /\ client[c] = "idle"
  /\ IF listening THEN /\ backlog' = Append(backlog, c)
                       /\ client' = [client EXCEPT ![c] = "waiting"]
                  ELSE /\ client' = [client EXCEPT ![c] = "refused"]
                       /\ UNCHANGED backlog
  /\ UNCHANGED <<isRunning, reachable, valid, listening, acceptor, sock,
                 owner, failures>>

Stop ==
  /\ isRunning
  /\ isRunning' = FALSE
  /\ UNCHANGED <<reachable, valid, listening, backlog, acceptor, sock, owner,
                 client, failures>>

GoOn ==
  /\ ~isRunning
  /\ isRunning' = TRUE
  /\ UNCHANGED <<reachable, valid, listening, backlog, acceptor, sock, owner,
                 client, failures>>

-----------------------------------------------------------------------------
(* The thread of StartAccepting.                                           *)
StartAccepting ==
  /\ owner = "built"
  /\ owner' = "accepting"
  /\ acceptor' = "check"
  /\ UNCHANGED <<isRunning, reachable, valid, listening, backlog, sock,
                 client, failures>>

CheckRunning ==
  /\ acceptor = "check"
  /\ acceptor' = IF isRunning THEN "call" ELSE "done"
  /\ UNCHANGED <<isRunning, reachable, valid, listening, backlog, sock, owner,
                 client, failures>>

(* GetStream: accept blocks on a good descriptor, fails on a bad one.      *)
CallAccept ==
  /\ acceptor = "call"
  /\ acceptor' = IF valid THEN "accept" ELSE "got"
  /\ sock' = None
  /\ UNCHANGED <<isRunning, reachable, valid, listening, backlog, owner,
                 client, failures>>

AcceptReturns ==
  /\ acceptor = "accept"
  /\ backlog # <<>>
  /\ sock' = Head(backlog)
  /\ LeaveAccept(Tail(backlog))
  /\ acceptor' = "got"
  /\ UNCHANGED <<isRunning, reachable, valid, owner, failures>>

AcceptFails ==
  /\ acceptor = "accept"
  /\ failures < MaxFailures
  /\ failures' = failures + 1
  /\ sock' = None
  /\ LeaveAccept(backlog)
  /\ acceptor' = "got"
  /\ UNCHANGED <<isRunning, reachable, valid, owner>>

(* The second question: a stream accepted after the stop is dropped.       *)
BreakIfStopped ==
  /\ acceptor = "got"
  /\ ~isRunning
  /\ acceptor' = "done"
  /\ sock' = None
  /\ client' = IF sock \in Clients THEN [client EXCEPT ![sock] = "refused"]
                                   ELSE client
  /\ UNCHANGED <<isRunning, reachable, valid, listening, backlog, owner,
                 failures>>

ContinueIfNull ==
  /\ acceptor = "got"
  /\ isRunning
  /\ sock = None
  /\ acceptor' = "check"
  /\ UNCHANGED <<isRunning, reachable, valid, listening, backlog, sock, owner,
                 client, failures>>

(* A detached thread takes the stream.                                     *)
Serve ==
  /\ acceptor = "got"
  /\ isRunning
  /\ sock # None
  /\ client' = IF sock = Self THEN client
                              ELSE [client EXCEPT ![sock] = "processing"]
  /\ acceptor' = "check"
  /\ sock' = None
  /\ UNCHANGED <<isRunning, reachable, valid, listening, backlog, owner,
                 failures>>

(* Process returned on a detached thread, whenever its client lets it; the *)
(* object may be gone by then.                                             *)
Processed(c) ==
  /\ client[c] = "processing"
  /\ client' = [client EXCEPT ![c] = "served"]
  /\ UNCHANGED <<isRunning, reachable, valid, listening, backlog, acceptor,
                 sock, owner, failures>>

-----------------------------------------------------------------------------
(* The destructor.                                                         *)
Close ==
  /\ owner \in {"built", "accepting"}
  /\ owner' = "closed"
  /\ valid' = FALSE
  /\ IF acceptor = "accept" THEN UNCHANGED <<listening, backlog, client>>
                            ELSE /\ listening' = FALSE
                                 /\ backlog' = <<>>
                                 /\ client' = Reset(backlog)
  /\ UNCHANGED <<isRunning, reachable, acceptor, sock, failures>>

ConnectToSelf ==
  /\ owner = "closed"
  /\ owner' = "connected"
  /\ backlog' = IF listening /\ reachable THEN Append(backlog, Self)
                                          ELSE backlog
  /\ UNCHANGED <<isRunning, reachable, valid, listening, acceptor, sock,
                 client, failures>>

Join ==
  /\ owner = "connected"
  /\ acceptor \in {"absent", "done"}
  /\ owner' = "gone"
  /\ UNCHANGED <<isRunning, reachable, valid, listening, backlog, acceptor,
                 sock, client, failures>>

Acceptor == \/ CheckRunning \/ CallAccept \/ AcceptReturns \/ BreakIfStopped
            \/ ContinueIfNull \/ Serve
Destructor == ConnectToSelf \/ Join

Next == \/ StartAccepting \/ Stop \/ GoOn \/ Close
        \/ Acceptor \/ AcceptFails
        \/ Destructor
        \/ \E c \in Clients : Connect(c) \/ Processed(c)

(* The accepting thread and a destructor that began go on.  No client has  *)
(* to connect, and no request has to come to an end.                       *)
Spec == Init /\ [][Next]_vars /\ WF_vars(Acceptor) /\ WF_vars(Destructor)

-----------------------------------------------------------------------------
(* The types of the variables.                                             *)
TypeOK ==
  /\ isRunning \in BOOLEAN /\ reachable \in BOOLEAN
  /\ valid \in BOOLEAN /\ listening \in BOOLEAN
  /\ backlog \in Seq(Clients \cup {Self})
  /\ acceptor \in {"absent", "check", "call", "accept", "got", "done"}
  /\ sock \in Clients \cup {Self, None}
  /\ owner \in {"built", "accepting", "closed", "connected", "gone"}
  /\ client \in [Clients -> {"idle", "waiting", "processing", "served", "refused"}]
  /\ failures \in 0 .. MaxFailures

(* A connection that was made and neither served nor refused waits in      *)
(* exactly one place: in the backlog, or in the accepting thread's hand.   *)
(* No stream is handed out twice or leaked.                                *)
Accounted ==
  /\ \A c \in Clients :
       client[c] = "waiting" <=> (c \in Range(backlog)) # (sock = c)
  /\ Self \in Range(backlog) => owner \in {"connected", "gone"}
  /\ IsInjective(backlog)

(* When the destructor returned nothing accepts any more: the Thread       *)
(* object is deleted, and no connection is left waiting.                   *)
GoneIsQuiet ==
  owner = "gone" =>
    /\ acceptor \in {"absent", "done"}
    /\ ~listening
    /\ \A c \in Clients : client[c] # "waiting"

(* The variables have their types, every connection is accounted for, and  *)
(* nothing is left when the object is gone.                                *)
Inv == TypeOK /\ Accounted /\ GoneIsQuiet

(* The server refuses nobody while the process runs and the object exists. *)
RefusedOnlyAtEnd ==
  [][\A c \in Clients :
       client[c] = "waiting" /\ client'[c] = "refused" =>
         ~isRunning \/ ~valid']_vars

(* A connection that waits is taken up, however long others take to be     *)
(* processed and however often accept fails, as long as the server was     *)
(* started and the process is not told to stop.  (The accepting thread     *)
(* that saw the stop is gone, also when the process is told to go on.)     *)
NobodyWaitsForEver ==
  \A c \in Clients :
    (client[c] = "waiting" /\ acceptor # "absent") ~>
      (client[c] # "waiting" \/ ~isRunning \/ acceptor = "done")

(* Once the process was told to stop the destructor returns, unless the    *)
(* process is told to go on before the accepting thread noticed.  The one  *)
(* other way for it to hang is an accept that its own connection cannot    *)
(* wake: a Unix socket, or a TcpServer bound to another address.           *)
DestructorEnds ==
  (owner \in {"closed", "connected"} /\ ~isRunning) ~>
    \/ owner = "gone" \/ isRunning
    \/ ~reachable /\ acceptor = "accept" /\ backlog = <<>>
=============================================================================
