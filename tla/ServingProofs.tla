---------------------------- MODULE ServingProofs ----------------------------
(***************************************************************************)
(* Proofs about the parts of MCServing: the accepting server, for any      *)
(* clients and any number of failures of accept; the server-sent events,   *)
(* for any subscribers, senders and number of events; and the client, for  *)
(* any number of redirects.                                                *)
(***************************************************************************)
EXTENDS MCServing, QueueLemmas

-----------------------------------------------------------------------------
(* HttpServer.  Inv is not inductive: that no stream is lost or handed out *)
(* twice rests on the backlog and the accepting thread's hand never        *)
(* sharing a connection, and that nothing is left when the object is gone  *)
(* rests on when the closed socket stops listening.  IInv adds both.       *)
Connections == Clients \cup {Self}

Waiting ==
  \A c \in Clients : client[c] = "waiting" <=> (c \in Range(backlog) \/ sock = c)

OnePlace == Distinct(backlog) /\ sock \notin Range(backlog)

SelfLate == (Self \in Range(backlog) \/ sock = Self) => owner \in {"connected", "gone"}

InHand == sock # None => acceptor = "got"

Closing ==
  /\ owner = "built" => acceptor = "absent"
  /\ owner \in {"closed", "connected", "gone"} => ~valid
  /\ listening /\ ~valid => acceptor = "accept"
  /\ ~listening => backlog = <<>>
  /\ owner = "gone" => acceptor \in {"absent", "done"}

IInv == TypeOK /\ Waiting /\ OnePlace /\ SelfLate /\ InHand /\ Closing

-----------------------------------------------------------------------------
(* The strengthened invariant implies what the run checks.                 *)
LEMMA InvariantImpliesInv == IInv => Inv
<1> SUFFICES ASSUME IInv PROVE Inv
  OBVIOUS
<1> USE ClientsAssumption
<1>1. TypeOK
  BY DEF IInv
<1>2. Accounted
  <2>1. \A c \in Clients :
          client[c] = "waiting" <=> (c \in Range(backlog)) # (sock = c)
    BY DEF IInv, Waiting, OnePlace
  <2>2. Self \in Range(backlog) => owner \in {"connected", "gone"}
    BY DEF IInv, SelfLate
  <2>3. IsInjective(backlog)
    BY DEF IInv, OnePlace, Distinct, IsInjective
  <2> QED BY <2>1, <2>2, <2>3 DEF Accounted
<1>3. GoneIsQuiet
  <2> SUFFICES ASSUME owner = "gone"
               PROVE  /\ acceptor \in {"absent", "done"} /\ ~listening
                      /\ \A c \in Clients : client[c] # "waiting"
    BY DEF GoneIsQuiet
  <2>1. acceptor \in {"absent", "done"} /\ ~valid
    BY DEF IInv, Closing
  <2>2. ~listening /\ backlog = <<>>
    BY <2>1 DEF IInv, TypeOK, Closing
  <2>3. sock = None
    BY <2>1 DEF IInv, InHand
  <2>4. \A c \in Clients : client[c] # "waiting"
    BY <2>2, <2>3, EmptyQueue DEF IInv, Waiting
  <2> QED BY <2>1, <2>2, <2>4
<1> QED BY <1>1, <1>2, <1>3 DEF Inv

(* It holds when the object is built.                                      *)
LEMMA InitInvariant == Init => IInv
<1> SUFFICES ASSUME Init PROVE IInv
  OBVIOUS
<1> USE ClientsAssumption, FailuresAssumption
<1>1. backlog = <<>> /\ backlog \in Seq(Connections) /\ sock = None
  BY DEF Init
<1>2. TypeOK
  BY <1>1 DEF Init, TypeOK, Connections
<1>3. Waiting /\ OnePlace /\ SelfLate
  BY <1>1, EmptyQueue DEF Init, Waiting, OnePlace, SelfLate
<1>4. InHand /\ Closing
  BY <1>1 DEF Init, InHand, Closing
<1> QED BY <1>2, <1>3, <1>4 DEF IInv

-----------------------------------------------------------------------------
(* Connections and processing keep it.                                     *)
LEMMA ClientKeepsInvariant ==
  ASSUME IInv, NEW c \in Clients, Connect(c) \/ Processed(c)
  PROVE  IInv'
<1> USE ClientsAssumption DEF IInv
<1>1. backlog \in Seq(Connections) /\ c \in Connections
  BY DEF TypeOK, Connections
<1>2. CASE Connect(c) /\ listening
  <2>1. backlog' = Append(backlog, c) /\ client' = [client EXCEPT ![c] = "waiting"]
        /\ UNCHANGED <<isRunning, reachable, valid, listening, acceptor, sock, owner, failures>>
        /\ client[c] = "idle"
    BY <1>2 DEF Connect
  <2>2. backlog' \in Seq(Connections) /\ Range(backlog') = Range(backlog) \cup {c}
    BY <1>1, <2>1, RangeAppend, AppendProperties
  <2>3. c \notin Range(backlog) /\ sock # c
    BY <2>1 DEF Waiting
  <2>4. Distinct(backlog')
    BY <1>1, <2>1, <2>3, DistinctAppend DEF OnePlace
  <2>5. TypeOK'
    BY <2>1, <2>2 DEF TypeOK, Connections
  <2>6. Waiting'
    BY <2>1, <2>2, <2>3 DEF Waiting, TypeOK
  <2>7. OnePlace' /\ SelfLate'
    BY <2>1, <2>2, <2>3, <2>4 DEF OnePlace, SelfLate
  <2>8. InHand' /\ Closing'
    BY <1>2, <2>1 DEF InHand, Closing
  <2> QED BY <2>5, <2>6, <2>7, <2>8
<1>3. CASE Connect(c) /\ ~listening
  <2>1. client' = [client EXCEPT ![c] = "refused"] /\ client[c] = "idle"
        /\ UNCHANGED <<isRunning, reachable, valid, listening, backlog, acceptor, sock, owner, failures>>
    BY <1>3 DEF Connect
  <2>2. TypeOK' /\ InHand' /\ Closing' /\ OnePlace' /\ SelfLate'
    BY <2>1 DEF TypeOK, InHand, Closing, OnePlace, SelfLate
  <2>3. Waiting'
    BY <2>1 DEF Waiting, TypeOK
  <2> QED BY <2>2, <2>3
<1>4. CASE Processed(c)
  <2>1. client' = [client EXCEPT ![c] = "served"] /\ client[c] = "processing"
        /\ UNCHANGED <<isRunning, reachable, valid, listening, backlog, acceptor, sock, owner, failures>>
    BY <1>4 DEF Processed
  <2>2. TypeOK' /\ InHand' /\ Closing' /\ OnePlace' /\ SelfLate'
    BY <2>1 DEF TypeOK, InHand, Closing, OnePlace, SelfLate
  <2>3. Waiting'
    BY <2>1 DEF Waiting, TypeOK
  <2> QED BY <2>2, <2>3
<1> QED BY <1>2, <1>3, <1>4 DEF TypeOK

(* The end of accept, with one connection taken out of the backlog or      *)
(* none, keeps the backlog, the hand and the clients consistent.           *)
LEMMA AcceptKeepsInvariant ==
  ASSUME IInv, AcceptReturns \/ AcceptFails
  PROVE  IInv'
<1> USE ClientsAssumption DEF IInv
<1> DEFINE rest == IF AcceptReturns THEN Tail(backlog) ELSE backlog
<1>1. backlog \in Seq(Connections) /\ Distinct(backlog)
  BY DEF TypeOK, Connections, OnePlace
<1>2. acceptor = "accept" /\ acceptor' = "got" /\ sock = None
      /\ UNCHANGED <<isRunning, reachable, valid, owner>>
  BY DEF AcceptReturns, AcceptFails, InHand
<1>3. failures' \in 0 .. MaxFailures
  BY FailuresAssumption DEF AcceptReturns, AcceptFails, TypeOK
<1>4. /\ rest \in Seq(Connections) /\ Distinct(rest)
      /\ sock' \in Connections \cup {None} /\ sock' \notin Range(rest)
      /\ \A c \in Connections : c \in Range(backlog) <=> (c \in Range(rest) \/ sock' = c)
  <2>1. CASE AcceptReturns
    <3>1. backlog # <<>> /\ sock' = Head(backlog) /\ rest = Tail(backlog)
      BY <2>1 DEF AcceptReturns
    <3>2. /\ Tail(backlog) \in Seq(Connections) /\ Head(backlog) \in Connections
          /\ Distinct(Tail(backlog)) /\ Head(backlog) \notin Range(Tail(backlog))
          /\ Range(backlog) = {Head(backlog)} \cup Range(Tail(backlog))
      BY <1>1, <3>1, DistinctTail
    <3> HIDE DEF rest
    <3> QED BY <3>1, <3>2
  <2>2. CASE ~AcceptReturns
    <3>1. AcceptFails /\ rest = backlog /\ sock' = None
      BY <2>2 DEF AcceptFails
    <3>2. None \notin Range(backlog)
      BY <1>1 DEF Range, Connections
    <3> HIDE DEF rest
    <3> QED BY <1>1, <3>1, <3>2 DEF Connections
  <2> QED BY <2>1, <2>2
<1>5. LeaveAccept(rest)
  BY DEF AcceptReturns, AcceptFails
<1> HIDE DEF rest
<1>6. CASE valid
  <2>1. backlog' = rest /\ listening' = listening /\ client' = client
    BY <1>5, <1>6 DEF LeaveAccept
  <2>2. TypeOK'
    BY <1>2, <1>3, <1>4, <2>1 DEF TypeOK, Connections
  <2>3. Waiting'
    BY <1>2, <1>4, <2>1 DEF Waiting, Connections
  <2>4. OnePlace' /\ SelfLate' /\ InHand'
    BY <1>2, <1>4, <2>1 DEF OnePlace, SelfLate, InHand, Connections
  <2>5. Closing'
    <3>1. ~listening => rest = <<>>
      <4> SUFFICES ASSUME ~listening, rest # <<>> PROVE FALSE
        OBVIOUS
      <4>1. backlog = <<>>
        BY DEF Closing
      <4>2. Range(backlog) = {}
        BY <4>1, EmptyQueue
      <4>3. Head(rest) \in Range(rest) /\ Head(rest) \in Connections
        BY <1>4, DistinctTail
      <4> QED BY <1>4, <4>2, <4>3
    <3> QED BY <1>2, <1>6, <2>1, <3>1 DEF Closing, TypeOK
  <2> QED BY <2>2, <2>3, <2>4, <2>5
<1>7. CASE ~valid
  <2>1. backlog' = <<>> /\ listening' = FALSE /\ client' = Reset(rest)
    BY <1>5, <1>7 DEF LeaveAccept
  <2>2. <<>> \in Seq(Connections)
    OBVIOUS
  <2>3. Range(backlog') = {} /\ Distinct(backlog')
    BY <2>1, EmptyQueue
  <2>4. client' \in [Clients -> {"idle", "waiting", "processing", "served", "refused"}]
    BY <2>1 DEF Reset, TypeOK
  <2>5. TypeOK'
    BY <1>2, <1>3, <1>4, <2>1, <2>2, <2>4 DEF TypeOK, Connections
  <2>6. Waiting'
    <3> SUFFICES ASSUME NEW c \in Clients
                 PROVE  client'[c] = "waiting" <=> sock' = c
      BY <2>3 DEF Waiting
    <3>1. client'[c] = IF c \in Range(rest) THEN "refused" ELSE client[c]
      BY <2>1 DEF Reset
    <3>2. client[c] = "waiting" <=> (c \in Range(rest) \/ sock' = c)
      BY <1>2, <1>4 DEF Waiting, Connections
    <3> QED BY <1>4, <3>1, <3>2
  <2>7. OnePlace' /\ SelfLate' /\ InHand'
    BY <1>2, <1>4, <2>3 DEF OnePlace, SelfLate, InHand, Connections
  <2>8. Closing'
    BY <1>2, <1>7, <2>1 DEF Closing
  <2> QED BY <2>5, <2>6, <2>7, <2>8
<1> QED BY <1>6, <1>7

(* The other steps of the accepting thread keep it.                        *)
LEMMA AcceptorKeepsInvariant ==
  ASSUME IInv,
         CheckRunning \/ CallAccept \/ BreakIfStopped \/ ContinueIfNull \/ Serve
  PROVE  IInv'
<1> USE ClientsAssumption DEF IInv
<1>1. None \notin Range(backlog)
  BY DEF TypeOK, Range
<1>2. UNCHANGED <<isRunning, reachable, valid, listening, backlog, owner, failures>>
  BY DEF CheckRunning, CallAccept, BreakIfStopped, ContinueIfNull, Serve
<1>3. CASE CheckRunning \/ ContinueIfNull
  <2>1. UNCHANGED <<sock, client>> /\ sock = None /\ acceptor \in {"check", "got"}
        /\ acceptor' \in {"call", "done", "check"}
    BY <1>3 DEF CheckRunning, ContinueIfNull, InHand
  <2>2. TypeOK' /\ Waiting' /\ OnePlace' /\ SelfLate'
    BY <1>2, <2>1 DEF TypeOK, Waiting, OnePlace, SelfLate
  <2>3. InHand' /\ Closing'
    BY <1>2, <2>1 DEF InHand, Closing, TypeOK
  <2> QED BY <2>2, <2>3
<1>4. CASE CallAccept
  <2>1. UNCHANGED client /\ sock' = None /\ sock = None /\ acceptor = "call"
        /\ acceptor' = IF valid THEN "accept" ELSE "got"
    BY <1>4 DEF CallAccept, InHand
  <2>2. TypeOK' /\ Waiting' /\ OnePlace' /\ SelfLate'
    BY <1>2, <2>1 DEF TypeOK, Waiting, OnePlace, SelfLate
  <2>3. InHand' /\ Closing'
    BY <1>2, <2>1 DEF InHand, Closing, TypeOK
  <2> QED BY <2>2, <2>3
<1>5. CASE BreakIfStopped \/ Serve
  <2>1. acceptor = "got" /\ acceptor' \in {"done", "check"} /\ sock' = None
    BY <1>5 DEF BreakIfStopped, Serve
  <2>2. PICK end \in {"refused", "processing"} :
          client' = IF sock \in Clients THEN [client EXCEPT ![sock] = end] ELSE client
    BY <1>5 DEF BreakIfStopped, Serve, TypeOK
  <2>3. TypeOK'
    BY <1>2, <2>1, <2>2 DEF TypeOK
  <2>4. Waiting'
    <3> SUFFICES ASSUME NEW c \in Clients
                 PROVE  client'[c] = "waiting" <=> c \in Range(backlog)
      BY <1>2, <2>1 DEF Waiting
    <3>1. CASE c = sock
      BY <2>2, <3>1 DEF OnePlace, TypeOK
    <3>2. CASE c # sock
      BY <2>2, <3>2 DEF Waiting, TypeOK
    <3> QED BY <3>1, <3>2
  <2>5. OnePlace' /\ SelfLate' /\ InHand'
    BY <1>1, <1>2, <2>1 DEF OnePlace, SelfLate, InHand
  <2>6. Closing'
    BY <1>2, <2>1 DEF Closing, TypeOK
  <2> QED BY <2>3, <2>4, <2>5, <2>6
<1> QED BY <1>3, <1>4, <1>5

(* The owner's steps keep it: the start, the stop and the destructor.      *)
LEMMA OwnerKeepsInvariant ==
  ASSUME IInv, StartAccepting \/ Stop \/ GoOn \/ Close \/ ConnectToSelf \/ Join
  PROVE  IInv'
<1> USE ClientsAssumption DEF IInv
<1>1. backlog \in Seq(Connections)
  BY DEF TypeOK, Connections
<1>2. CASE StartAccepting \/ Stop \/ GoOn
  <2>1. UNCHANGED <<reachable, valid, listening, backlog, sock, client, failures>>
    BY <1>2 DEF StartAccepting, Stop, GoOn
  <2>2. TypeOK'
    BY <1>2, <2>1 DEF StartAccepting, Stop, GoOn, TypeOK
  <2>3. Waiting' /\ OnePlace' /\ SelfLate'
    BY <1>2, <2>1 DEF StartAccepting, Stop, GoOn, Waiting, OnePlace, SelfLate
  <2>4. InHand' /\ Closing'
    BY <1>2, <2>1 DEF StartAccepting, Stop, GoOn, InHand, Closing
  <2> QED BY <2>2, <2>3, <2>4
<1>3. CASE Close /\ acceptor = "accept"
  <2>1. UNCHANGED <<isRunning, reachable, acceptor, sock, failures, listening, backlog, client>>
        /\ valid' = FALSE /\ owner' = "closed" /\ owner \in {"built", "accepting"}
    BY <1>3 DEF Close
  <2>2. TypeOK' /\ Waiting' /\ OnePlace' /\ SelfLate'
    BY <2>1 DEF TypeOK, Waiting, OnePlace, SelfLate
  <2>3. InHand' /\ Closing'
    BY <1>3, <2>1 DEF InHand, Closing
  <2> QED BY <2>2, <2>3
<1>4. CASE Close /\ acceptor # "accept"
  <2>1. /\ UNCHANGED <<isRunning, reachable, acceptor, sock, failures>>
        /\ valid' = FALSE /\ owner' = "closed" /\ owner \in {"built", "accepting"}
        /\ listening' = FALSE /\ backlog' = <<>> /\ client' = Reset(backlog)
    BY <1>4 DEF Close
  <2>2. Range(backlog') = {} /\ Distinct(backlog') /\ <<>> \in Seq(Connections)
    BY <2>1, EmptyQueue
  <2>3. client' \in [Clients -> {"idle", "waiting", "processing", "served", "refused"}]
    BY <2>1 DEF Reset, TypeOK
  <2>4. TypeOK'
    BY <2>1, <2>2, <2>3 DEF TypeOK, Connections
  <2>5. Waiting'
    <3> SUFFICES ASSUME NEW c \in Clients
                 PROVE  client'[c] = "waiting" <=> sock = c
      BY <2>1, <2>2 DEF Waiting
    <3>1. client'[c] = IF c \in Range(backlog) THEN "refused" ELSE client[c]
      BY <2>1 DEF Reset
    <3> QED BY <3>1 DEF Waiting, OnePlace
  <2>6. OnePlace' /\ SelfLate' /\ InHand' /\ Closing'
    BY <2>1, <2>2 DEF OnePlace, SelfLate, InHand, Closing
  <2> QED BY <2>4, <2>5, <2>6
<1>5. CASE ConnectToSelf /\ listening /\ reachable
  <2>1. /\ backlog' = Append(backlog, Self) /\ owner = "closed" /\ owner' = "connected"
        /\ UNCHANGED <<isRunning, reachable, valid, listening, acceptor, sock, client, failures>>
    BY <1>5 DEF ConnectToSelf
  <2>2. Self \in Connections /\ Self \notin Range(backlog) /\ sock # Self
    BY <2>1 DEF SelfLate, Connections
  <2>3. backlog' \in Seq(Connections) /\ Range(backlog') = Range(backlog) \cup {Self}
    BY <1>1, <2>1, <2>2, RangeAppend, AppendProperties
  <2>4. Distinct(backlog')
    BY <1>1, <2>1, <2>2, DistinctAppend DEF OnePlace
  <2>5. TypeOK'
    BY <2>1, <2>3 DEF TypeOK, Connections
  <2>6. Waiting'
    BY <2>1, <2>3 DEF Waiting
  <2>7. OnePlace' /\ SelfLate' /\ InHand' /\ Closing'
    BY <1>5, <2>1, <2>2, <2>3, <2>4 DEF OnePlace, SelfLate, InHand, Closing
  <2> QED BY <2>5, <2>6, <2>7
<1>6. CASE (ConnectToSelf /\ ~(listening /\ reachable)) \/ Join
  <2>1. /\ owner \in {"closed", "connected"} /\ owner' \in {"connected", "gone"}
        /\ owner' = "gone" => acceptor \in {"absent", "done"}
        /\ UNCHANGED <<isRunning, reachable, valid, listening, backlog, acceptor, sock, client, failures>>
    BY <1>6 DEF ConnectToSelf, Join
  <2>2. TypeOK' /\ Waiting' /\ OnePlace' /\ SelfLate'
    BY <2>1 DEF TypeOK, Waiting, OnePlace, SelfLate
  <2>3. InHand' /\ Closing'
    BY <2>1 DEF InHand, Closing
  <2> QED BY <2>2, <2>3
<1> QED BY <1>2, <1>3, <1>4, <1>5, <1>6 DEF TypeOK

(* Every step keeps it.                                                    *)
LEMMA NextKeepsInvariant == IInv /\ [Next]_vars => IInv'
<1> SUFFICES ASSUME IInv, [Next]_vars PROVE IInv'
  OBVIOUS
<1>1. CASE Next
  BY <1>1, ClientKeepsInvariant, AcceptKeepsInvariant, AcceptorKeepsInvariant,
     OwnerKeepsInvariant DEF Next, Acceptor, Destructor
<1>2. CASE UNCHANGED vars
  BY <1>2 DEF vars, IInv, TypeOK, Waiting, OnePlace, SelfLate, InHand, Closing
<1> QED BY <1>1, <1>2

RefusedByEnd ==
  \A c \in Clients :
    client[c] = "waiting" /\ client'[c] = "refused" => ~isRunning \/ ~valid'

(* A step refuses a waiting client only so.                                *)
LEMMA StepRefusesAtEnd == IInv /\ [Next]_vars => [RefusedByEnd]_vars
<1> SUFFICES ASSUME IInv, Next, NEW c \in Clients,
                    client[c] = "waiting", client'[c] = "refused"
             PROVE  ~isRunning \/ ~valid'
  BY DEF RefusedByEnd
<1> USE DEF IInv, TypeOK
<1>1. CASE \E d \in Clients : Connect(d) \/ Processed(d)
  BY <1>1 DEF Connect, Processed
<1>2. CASE AcceptReturns \/ AcceptFails
  <2>1. valid' = valid /\ (valid => client' = client)
    BY <1>2 DEF AcceptReturns, AcceptFails, LeaveAccept
  <2> QED BY <2>1
<1>3. CASE Serve
  BY <1>3 DEF Serve
<1>4. CASE BreakIfStopped \/ Close
  BY <1>4 DEF BreakIfStopped, Close
<1>5. CASE StartAccepting \/ Stop \/ GoOn \/ CheckRunning \/ CallAccept \/ ContinueIfNull
           \/ ConnectToSelf \/ Join
  BY <1>5 DEF StartAccepting, Stop, GoOn, CheckRunning, CallAccept, ContinueIfNull,
     ConnectToSelf, Join
<1> QED BY <1>1, <1>2, <1>3, <1>4, <1>5 DEF Next, Acceptor, Destructor

(* The server refuses nobody while the process runs and the object exists  *)
(* (HttpServer.cpp:675).                                                   *)
THEOREM RefusedOnlyAtEndCorrect == Spec => RefusedOnlyAtEnd
<1>1. Spec => []IInv /\ [][Next]_vars
  BY InitInvariant, NextKeepsInvariant, PTL DEF Spec
<1>2. RefusedOnlyAtEnd <=> [][RefusedByEnd]_vars
  BY DEF RefusedOnlyAtEnd, RefusedByEnd
<1> QED BY <1>1, <1>2, StepRefusesAtEnd, PTL

(* For any clients: every connection that was made is in the backlog, in   *)
(* the accepting thread's hand, served or refused, in one place only; and  *)
(* when the destructor returned nothing accepts and nobody is left waiting *)
(* (HttpServer.cpp:659-726, NetworkStream.cpp:534-549).                    *)
THEOREM InvCorrect == Spec => []Inv
<1>1. IInv => Inv
  BY InvariantImpliesInv
<1>2. Spec => []IInv
  BY InitInvariant, NextKeepsInvariant, PTL DEF Spec
<1> QED BY <1>1, <1>2, PTL

-----------------------------------------------------------------------------
(* ServerSentEvents.  That nobody misses an event rests on what the sender *)
(* that holds the mutex has still to do, and on the list of streams being  *)
(* left alone meanwhile.                                                   *)
(* The events.  While a sender writes, the list does not change, and what  *)
(* it has still to write to is a part of the list without repetitions.     *)
Writing ==
  /\ \A s \in Senders : s # sMtx => sRest[s] = S!Idle
  /\ sMtx # None => /\ sRest[sMtx] \in Seq(Subscribers)
                    /\ Distinct(sRest[sMtx])
                    /\ Range(sRest[sMtx]) \subseteq Range(sStrms)

Fresh ==
  \A c \in Subscribers :
    /\ sAt[c] \in {"request", "register"} => sGot[c] = <<>>
    /\ sAt[c] = "leave" => c \notin sUp

Listed ==
  /\ Range(sStrms) = {c \in Subscribers : sAt[c] \in {"poll", "leave"}}
  /\ Distinct(sStrms)

(* The clients the running call has still to write to, and NoEventMissed   *)
(* in terms of them.                                                       *)
Owed == IF sMtx = None THEN {} ELSE Range(sRest[sMtx])

NoneMissed ==
  \A c \in Subscribers :
    /\ \A k \in DOMAIN sGot[c] : sGot[c][k] = sSince[c] + k
    /\ sAt[c] = "poll" /\ c \in sUp =>
         sSince[c] + Len(sGot[c]) + (IF c \in Owed THEN 1 ELSE 0) = sEvents

EventsIInv == S!TypeOK /\ Listed /\ NoneMissed /\ Writing /\ Fresh

(* One removal from a sequence of different elements.                      *)
LEMMA RemoveOne ==
  ASSUME NEW T, NEW s \in Seq(T), NEW e \in Range(s), Distinct(s)
  PROVE  /\ S!RemoveFirst(s, e) \in Seq(T)
         /\ Range(S!RemoveFirst(s, e)) = Range(s) \ {e}
         /\ Distinct(S!RemoveFirst(s, e))
<1> DEFINE n == Len(s)
<1>1. n \in Nat /\ DOMAIN s = 1 .. n
  BY LenProperties
<1>2. PICK k \in 1 .. n : s[k] = e
  BY <1>1 DEF Range
<1>3. {i \in 1 .. n : s[i] = e} = {k}
  BY <1>1, <1>2 DEF Distinct
<1>4. S!Min({k}) = k
  BY <1>1 DEF S!Min
<1>5. S!SelectInSeq(s, LAMBDA v : v = e) = k
  BY <1>3, <1>4 DEF S!SelectInSeq
<1>6. S!RemoveFirst(s, e) = CutOut(s, k)
  BY <1>2, <1>5 DEF S!RemoveFirst, S!RemoveAt, CutOut
<1> QED BY <1>2, <1>6, CutOutElements, CutOutDistinct

(* Nothing was sent before the first client registered.                    *)
LEMMA EventsInit == PartsInit => EventsIInv
<1> SUFFICES ASSUME PartsInit PROVE EventsIInv
  OBVIOUS
<1> USE EventsAssumption DEF PartsInit, S!Init
<1>1. sStrms = <<>> /\ Range(sStrms) = {} /\ Distinct(sStrms)
  BY EmptyQueue
<1>2. S!TypeOK
  <2>1. \A c \in Subscribers : sGot[c] = <<>> /\ <<>> \in Seq(1 .. MaxEvents)
    OBVIOUS
  <2>6. sRest \in [Senders -> Seq(Subscribers \cup {None})]
    BY DEF S!Idle
  <2>2. sGot \in [Subscribers -> Seq(1 .. MaxEvents)]
    BY <2>1
  <2>3. sStrms \in Seq(Subscribers)
    BY <1>1
  <2>4. sSince \in [Subscribers -> 0 .. sEvents] /\ sEvents \in 0 .. MaxEvents
    OBVIOUS
  <2>5. sAt \in [Subscribers -> {"request", "register", "poll", "leave", "left"}]
    OBVIOUS
  <2> QED BY <2>2, <2>3, <2>4, <2>5, <2>6 DEF S!TypeOK
<1>3. Listed /\ Writing /\ Fresh
  BY <1>1 DEF Listed, Writing, Fresh
<1>4. NoneMissed
  <2>1. \A c \in Subscribers : sGot[c] = <<>> /\ DOMAIN <<>> = {} /\ sAt[c] = "request"
    OBVIOUS
  <2> QED BY <2>1 DEF NoneMissed
<1> QED BY <1>2, <1>3, <1>4 DEF EventsIInv

(* It implies what the run checks.                                         *)
LEMMA EventsImplied == EventsIInv => EventsInv
<1> SUFFICES ASSUME EventsIInv PROVE EventsInv
  OBVIOUS
<1>1. S!ToSet(sStrms) = Range(sStrms)
  BY DEF S!ToSet, Range
<1>2. IsInjective(sStrms)
  BY DEF EventsIInv, Listed, Distinct, IsInjective
<1>3. \A c \in Subscribers : S!Due(c) = IF c \in Owed THEN 1 ELSE 0
  BY DEF S!Due, S!ToSet, Range, Owed
<1>4. S!NoEventMissed
  BY <1>3 DEF EventsIInv, NoneMissed, S!NoEventMissed
<1> QED BY <1>1, <1>2, <1>4 DEF EventsIInv, Listed, EventsInv, S!Inv, S!Registered, S!IsInjective, IsInjective

(* The handler of a client keeps it.                                       *)
LEMMA EventsHandler ==
  ASSUME EventsIInv, NEW c \in Subscribers,
         S!SendServerSentEvents(c) \/ S!NothingToSend(c) \/ S!Handler(c)
  PROVE  EventsIInv'
<1> USE EventsAssumption DEF EventsIInv
<1>1. CASE S!SendServerSentEvents(c) \/ S!NothingToSend(c) \/ S!Poll(c)
  <2>1. PICK to \in {"register", "left", "leave"} :
        /\ sAt' = [sAt EXCEPT ![c] = to]
        /\ (sAt[c] = "poll" /\ to = "leave" /\ c \notin sUp) \/ (sAt[c] = "request" /\ to # "leave")
        /\ UNCHANGED <<sUp, sStalled, sAhead, sEnded, sStrms, sMtx, sRest, sEvents, sSince, sGot>>
    BY <1>1 DEF S!SendServerSentEvents, S!NothingToSend, S!Poll, S!EndOfStream, S!TypeOK
  <2>2. S!TypeOK' /\ Listed'
    BY <2>1 DEF S!TypeOK, Listed
  <2>3. NoneMissed'
    BY <2>1 DEF NoneMissed, Owed, S!TypeOK
  <2>4. Writing' /\ Fresh'
    BY <2>1 DEF Writing, Fresh, S!TypeOK
  <2> QED BY <2>2, <2>3, <2>4
<1>2. CASE S!Register(c)
  <2>1. /\ sAt[c] = "register" /\ sMtx = None
        /\ sStrms' = Append(sStrms, c)
        /\ sSince' = [sSince EXCEPT ![c] = sEvents]
        /\ sAt' = [sAt EXCEPT ![c] = "poll"]
        /\ UNCHANGED <<sUp, sStalled, sAhead, sEnded, sMtx, sRest, sEvents, sGot>>
    BY <1>2 DEF S!Register
  <2>2. sStrms \in Seq(Subscribers) /\ c \notin Range(sStrms)
    BY <2>1 DEF S!TypeOK, Listed
  <2>3. /\ sStrms' \in Seq(Subscribers) /\ Range(sStrms') = Range(sStrms) \cup {c}
        /\ Distinct(sStrms')
    BY <2>1, <2>2, RangeAppend, AppendProperties, DistinctAppend DEF Listed
  <2>4. S!TypeOK'
    <3>1. sEvents \in 0 .. sEvents
      BY DEF S!TypeOK
    <3> QED BY <2>1, <2>3, <3>1 DEF S!TypeOK
  <2>5. Listed'
    BY <2>1, <2>3 DEF Listed, S!TypeOK
  <2>6. NoneMissed'
    <3>1. sGot[c] = <<>> /\ DOMAIN <<>> = {} /\ Len(<<>>) = 0 /\ sEvents \in Nat
      BY <2>1 DEF Fresh, S!TypeOK
    <3>2. Owed = {} /\ Owed' = {}
      BY <2>1 DEF Owed
    <3>3. sSince' [c] = sEvents /\ \A d \in Subscribers \ {c} : sSince'[d] = sSince[d] /\ sAt'[d] = sAt[d]
      BY <2>1 DEF S!TypeOK
    <3>4. \A k \in DOMAIN sGot[c] : sGot[c][k] = sEvents + k
      BY <3>1
    <3>5. sEvents + Len(sGot[c]) + 0 = sEvents
      BY <3>1
    <3> QED BY <2>1, <3>2, <3>3, <3>4, <3>5 DEF NoneMissed
  <2>7. Writing' /\ Fresh'
    BY <2>1 DEF Writing, Fresh, S!TypeOK
  <2> QED BY <2>4, <2>5, <2>6, <2>7
<1>3. CASE S!Unregister(c)
  <2>1. /\ sAt[c] = "leave" /\ sMtx = None
        /\ sStrms' = S!RemoveFirst(sStrms, c)
        /\ sAt' = [sAt EXCEPT ![c] = "left"]
        /\ UNCHANGED <<sUp, sStalled, sAhead, sEnded, sMtx, sRest, sEvents, sSince, sGot>>
    BY <1>3 DEF S!Unregister
  <2>2. sStrms \in Seq(Subscribers) /\ c \in Range(sStrms) /\ Distinct(sStrms)
    BY <2>1 DEF S!TypeOK, Listed
  <2>3. /\ sStrms' \in Seq(Subscribers) /\ Range(sStrms') = Range(sStrms) \ {c}
        /\ Distinct(sStrms')
    BY <2>1, <2>2, RemoveOne
  <2>4. S!TypeOK' /\ Listed'
    BY <2>1, <2>3 DEF S!TypeOK, Listed
  <2>5. NoneMissed'
    BY <2>1 DEF NoneMissed, Owed, S!TypeOK
  <2>6. Writing' /\ Fresh'
    BY <2>1 DEF Writing, Fresh, S!TypeOK
  <2> QED BY <2>4, <2>5, <2>6
<1> QED BY <1>1, <1>2, <1>3 DEF S!Handler

(* A client that goes or stalls keeps it.                                  *)
LEMMA EventsClient ==
  ASSUME EventsIInv, NEW c \in Subscribers, S!Go(c) \/ S!Stall(c)
  PROVE  EventsIInv'
<1> USE DEF EventsIInv
<1>1. /\ sUp' \subseteq sUp /\ sStalled' \subseteq sUp'
      /\ UNCHANGED <<sAt, sAhead, sEnded, sStrms, sMtx, sRest, sEvents, sSince, sGot>>
  BY DEF S!Go, S!Stall, S!TypeOK
<1>2. S!TypeOK' /\ Listed'
  BY <1>1 DEF S!TypeOK, Listed
<1>3. NoneMissed'
  BY <1>1 DEF NoneMissed, Owed
<1>4. Writing' /\ Fresh'
  BY <1>1 DEF Writing, Fresh
<1> QED BY <1>2, <1>3, <1>4

(* A sender keeps it.                                                      *)
LEMMA EventsSender ==
  ASSUME EventsIInv, NEW s \in Senders, S!SendEventRaw(s) \/ S!Sender(s)
  PROVE  EventsIInv'
<1> USE EventsAssumption DEF EventsIInv
<1>1. CASE S!SendEventRaw(s)
  <2>1. /\ sMtx = None /\ sMtx' = s /\ s # None /\ sEvents < MaxEvents
        /\ sEvents' = sEvents + 1 /\ sRest' = [sRest EXCEPT ![s] = sStrms]
        /\ UNCHANGED <<sAt, sUp, sStalled, sAhead, sEnded, sStrms, sSince, sGot>>
    BY <1>1 DEF S!SendEventRaw
  <2>2. sRest'[s] = sStrms
    BY <2>1 DEF S!TypeOK
  <2>3. S!TypeOK'
    <3>1. sEvents' \in 0 .. MaxEvents /\ 0 .. sEvents \subseteq 0 .. sEvents'
      BY <2>1 DEF S!TypeOK
    <3>2. sSince' \in [Subscribers -> 0 .. sEvents']
      BY <2>1, <3>1 DEF S!TypeOK
    <3>3. sStrms \in Seq(Subscribers \cup {None})
      BY SeqMonotonic DEF S!TypeOK
    <3>4. sRest' \in [Senders -> Seq(Subscribers \cup {None})]
      BY <2>1, <3>3 DEF S!TypeOK
    <3> QED BY <2>1, <3>1, <3>2, <3>4 DEF S!TypeOK
  <2>4. Listed' /\ Fresh'
    BY <2>1 DEF Listed, Fresh
  <2>5. Writing'
    BY <2>1, <2>2 DEF Writing, S!TypeOK, Listed
  <2>6. NoneMissed'
    <3> SUFFICES ASSUME NEW c \in Subscribers, sAt[c] = "poll", c \in sUp
                 PROVE  sSince[c] + Len(sGot[c]) + (IF c \in Owed' THEN 1 ELSE 0) = sEvents'
      BY <2>1 DEF NoneMissed
    <3>1. sSince[c] + Len(sGot[c]) + 0 = sEvents
      BY <2>1 DEF NoneMissed, Owed
    <3>2. c \in Range(sStrms)
      BY DEF Listed
    <3>3. c \in Owed'
      BY <2>1, <2>2, <3>2 DEF Owed
    <3>4. sSince[c] \in Nat /\ Len(sGot[c]) \in Nat /\ sEvents \in Nat
      <4>1. sGot[c] \in Seq(1 .. MaxEvents) /\ sSince[c] \in 0 .. sEvents /\ sEvents \in Nat
        BY DEF S!TypeOK
      <4> QED BY <4>1, LenProperties
    <3> QED BY <2>1, <3>1, <3>3, <3>4
  <2> QED BY <2>3, <2>4, <2>5, <2>6
<1>2. CASE S!SendReturns(s)
  <2>1. /\ sMtx = s /\ sMtx' = None /\ sRest[s] = <<>>
        /\ sRest' = [sRest EXCEPT ![s] = S!Idle]
        /\ UNCHANGED <<sAt, sUp, sStalled, sAhead, sEnded, sStrms, sEvents, sSince, sGot>>
    BY <1>2 DEF S!SendReturns
  <2>2. S!TypeOK' /\ Listed' /\ Fresh'
    BY <2>1 DEF S!TypeOK, S!Idle, Listed, Fresh
  <2>3. Writing'
    BY <2>1 DEF Writing, S!TypeOK
  <2>4. NoneMissed'
    <3>1. Owed = {} /\ Owed' = {}
      BY <2>1, EmptyQueue DEF Owed
    <3> QED BY <2>1, <3>1 DEF NoneMissed
  <2> QED BY <2>2, <2>3, <2>4
<1>3. CASE S!WriteEvent(s)
  <2> DEFINE c == Head(sRest[s])
             rest == Tail(sRest[s])
  <2>1. /\ sMtx = s /\ s # None /\ sRest[s] # <<>>
        /\ sRest' = [sRest EXCEPT ![s] = rest]
        /\ \/ /\ c \in sUp \ sStalled
              /\ sGot' = [sGot EXCEPT ![c] = Append(sGot[c], sEvents)]
              /\ sEnded' = sEnded
           \/ /\ c \notin sUp
              /\ sGot' = sGot
              /\ sEnded' \in {sEnded, sEnded \cup {c}}
        /\ UNCHANGED <<sAt, sUp, sStalled, sAhead, sStrms, sMtx, sEvents, sSince>>
    BY <1>3 DEF S!WriteEvent
  <2>2. /\ sRest[s] \in Seq(Subscribers) /\ Distinct(sRest[s])
        /\ Range(sRest[s]) \subseteq Range(sStrms)
    BY <2>1 DEF Writing
  <2>3. /\ rest \in Seq(Subscribers) /\ c \in Subscribers /\ Distinct(rest)
        /\ c \notin Range(rest) /\ Range(sRest[s]) = {c} \cup Range(rest)
    BY <2>1, <2>2, DistinctTail
  <2> HIDE DEF c, rest
  <2>4. sAt[c] \in {"poll", "leave"} /\ (c \in sUp => sAt[c] = "poll")
    BY <2>2, <2>3 DEF Listed, Fresh
  <2>5. DOMAIN sRest = DOMAIN sRest' /\ sRest'[s] = rest /\ \A t \in Senders \ {s} : sRest'[t] = sRest[t]
    BY <2>1 DEF S!TypeOK
  <2>12. sRest' \in [Senders -> Seq(Subscribers \cup {None})]
    BY <2>1, <2>3, SeqMonotonic DEF S!TypeOK
  <2>6. Owed' = Owed \ {c} /\ c \in Owed
    BY <2>1, <2>3, <2>5 DEF Owed
  <2>7. Listed' /\ Fresh'
    BY <2>1, <2>4 DEF Listed, Fresh, S!TypeOK
  <2>8. Writing'
    BY <2>1, <2>2, <2>3, <2>5 DEF Writing
  <2>9. sEvents \in Nat /\ sGot[c] \in Seq(1 .. MaxEvents) /\ sSince[c] \in 0 .. sEvents
        /\ Len(sGot[c]) \in Nat /\ sSince[c] \in Nat
    <3>1. sEvents \in Nat /\ sGot[c] \in Seq(1 .. MaxEvents) /\ sSince[c] \in 0 .. sEvents
      BY <2>3 DEF S!TypeOK
    <3>2. Len(sGot[c]) \in Nat
      BY <3>1, LenProperties
    <3> QED BY <3>1, <3>2
  <2>10. CASE c \in sUp
    <3>1. sGot' = [sGot EXCEPT ![c] = Append(sGot[c], sEvents)] /\ sEnded' = sEnded
      BY <2>1, <2>10
    <3> DEFINE n == Len(sGot[c])
               z == sSince[c]
               g == Append(sGot[c], sEvents)
    <3>2. n \in Nat /\ z \in Nat /\ z + n + 1 = sEvents
      <4>1. z + n + 1 = sEvents
        BY <2>3, <2>4, <2>6, <2>10 DEF NoneMissed
      <4> QED BY <2>9, <4>1
    <3>3. sEvents \in 1 .. MaxEvents
      <4>1. sEvents \in 0 .. MaxEvents
        BY DEF S!TypeOK
      <4> HIDE DEF n, z
      <4> QED BY <3>2, <4>1
    <3>4. /\ g \in Seq(1 .. MaxEvents) /\ Len(g) = n + 1
          /\ \A k \in DOMAIN g : g[k] = z + k
      <4>1. /\ g \in Seq(1 .. MaxEvents) /\ Len(g) = n + 1
            /\ \A k \in 1 .. n : g[k] = sGot[c][k]
            /\ g[n + 1] = sEvents
        BY <2>9, <3>3, AppendProperties
      <4>2. DOMAIN g = 1 .. n + 1 /\ DOMAIN sGot[c] = 1 .. n
        BY <2>9, <4>1, LenProperties
      <4>3. \A k \in 1 .. n : sGot[c][k] = z + k
        BY <2>3, <4>2 DEF NoneMissed
      <4> HIDE DEF g, n, z
      <4>4. z + (n + 1) = sEvents
        BY <3>2
      <4>5. \A k \in 1 .. n + 1 : k \in 1 .. n \/ k = n + 1
        BY <3>2
      <4> QED BY <4>1, <4>2, <4>3, <4>4, <4>5
    <3> HIDE DEF g
    <3>5. sGot' = [sGot EXCEPT ![c] = g]
      BY <3>1 DEF g
    <3>6. sGot' \in [Subscribers -> Seq(1 .. MaxEvents)] /\ sGot'[c] = g
          /\ \A d \in Subscribers \ {c} : sGot'[d] = sGot[d]
      BY <2>3, <3>4, <3>5 DEF S!TypeOK
    <3>7. S!TypeOK'
      BY <2>1, <2>12, <3>1, <3>6 DEF S!TypeOK
    <3>8. NoneMissed'
      <4>1. z + Len(g) + 0 = sEvents
        <5> HIDE DEF n, z
        <5> QED BY <3>2, <3>4
      <4>2. /\ \A k \in DOMAIN sGot'[c] : sGot'[c][k] = sSince[c] + k
            /\ sSince[c] + Len(sGot'[c]) + (IF c \in Owed' THEN 1 ELSE 0) = sEvents
        BY <2>6, <3>4, <3>6, <4>1
      <4>3. ASSUME NEW d \in Subscribers \ {c}
            PROVE  /\ \A k \in DOMAIN sGot'[d] : sGot'[d][k] = sSince[d] + k
                   /\ sAt[d] = "poll" /\ d \in sUp =>
                        sSince[d] + Len(sGot'[d]) + (IF d \in Owed' THEN 1 ELSE 0) = sEvents
        BY <2>6, <3>6 DEF NoneMissed
      <4> QED BY <2>1, <4>2, <4>3 DEF NoneMissed
    <3> QED BY <2>7, <2>8, <3>7, <3>8
  <2>11. CASE c \notin sUp
    <3>1. sGot' = sGot /\ sEnded' \in {sEnded, sEnded \cup {c}}
      BY <2>1, <2>11
    <3>2. S!TypeOK'
      BY <2>1, <2>3, <2>11, <2>12, <3>1 DEF S!TypeOK
    <3>3. NoneMissed'
      BY <2>1, <2>6, <2>11, <3>1 DEF NoneMissed
    <3> QED BY <2>7, <2>8, <3>2, <3>3
  <2> QED BY <2>10, <2>11
<1> QED BY <1>1, <1>2, <1>3 DEF S!Sender

(* Every step keeps it; one of another part changes none of it.            *)
LEMMA EventsNext == EventsIInv /\ [PartsNext]_allVars => EventsIInv'
<1> SUFFICES ASSUME EventsIInv, [PartsNext]_allVars PROVE EventsIInv'
  OBVIOUS
<1>1. S!Next \/ UNCHANGED eventVars
  BY DEF PartsNext, allVars, ServerPart, EventsPart, ClientPart
<1>2. CASE S!Next
  BY <1>2, EventsHandler, EventsClient, EventsSender DEF S!Next
<1>3. CASE UNCHANGED eventVars
  BY <1>3 DEF eventVars, EventsIInv, S!TypeOK, Listed, NoneMissed, Owed, Writing, Fresh
<1> QED BY <1>1, <1>2, <1>3

(* For any clients that register, leave, stall and go, and any senders: who *)
(* is there gets every event once and in order, and a handler takes no     *)
(* stream off the list but its own (HttpServer.cpp:61-73, :390-405).       *)
THEOREM EventsCorrect == PartsSpec => []EventsInv
<1>1. PartsInit /\ [][PartsNext]_allVars => []EventsIInv
  BY EventsInit, EventsNext, PTL
<1> QED BY <1>1, EventsImplied, PTL DEF PartsSpec

-----------------------------------------------------------------------------
(* HttpClient.  That a response is of one hop rests on what has been read  *)
(* at each point of the loop.                                              *)
(* What holds of a response on the way: which hop its status and headers   *)
(* are of at each point, and how the client can have come to the end.      *)
OnTheWay ==
  /\ cAt \in {"body", "wait", "headers"} => cHop >= 1
  /\ cAtEnd => cHop >= 1
  /\ cAt = "body" /\ cAtEnd => cHop > 1
  /\ cAt \in {"url", "body", "wait"} =>
       /\ cHeadersOf = {} /\ cStrmOf = 0
       /\ cStatus = "redirect" \/ cStatusOf = 0
  /\ cAt = "headers" => cStrmOf = 0
  /\ cAt \in {"body", "wait"} => cAnnounced = C!Announcement

AtTheEnd ==
  /\ cAt = "headers" => cHeadersOf = {cHop} /\ (cStatusOf = cHop \/ cAnswer.line = "short")
  /\ cStrmOf # 0 => cStrmOf = cHop /\ cHeadersOf = {cHop}
                    /\ (cStatusOf = cHop \/ cAnswer.line = "short")
  /\ cAt = "response" /\ cStrmOf = 0 =>
       cStatus = "redirect" \/ cStatusOf = 0 \/ cAnswer.headers = "malformed"

ClientIInv == C!Inv /\ OnTheWay /\ AtTheEnd

(* It holds before the first request.                                      *)
LEMMA ClientInit == PartsInit => ClientIInv
<1> SUFFICES ASSUME PartsInit PROVE ClientIInv
  OBVIOUS
<1> USE HopsAssumption DEF PartsInit, C!Init
<1>1. C!TypeOK
  <2>1. cHop = 0 /\ 0 \in 0 .. MaxHops /\ cStatusOf = 0 /\ 0 \in 0 .. 0 /\ cStrmOf = 0
    OBVIOUS
  <2>2. cBody \in {"none", "text", "file", "pipe", "unknown"}
    OBVIOUS
  <2> QED BY <2>1, <2>2 DEF C!TypeOK
<1>2. C!OfOneHop /\ C!SuccessIsWhole /\ C!BodyAsAnnounced
  BY DEF C!OfOneHop, C!SuccessIsWhole, C!BodyAsAnnounced
<1>3. OnTheWay /\ AtTheEnd
  BY DEF OnTheWay, AtTheEnd
<1> QED BY <1>1, <1>2, <1>3 DEF ClientIInv, C!Inv

(* Sending a request keeps it.                                             *)
LEMMA ClientSends ==
  ASSUME ClientIInv, C!NoConnection \/ C!SendHead \/ C!SendBody \/ C!Throw \/ C!Answer
  PROVE  ClientIInv'
<1> USE HopsAssumption DEF ClientIInv, C!Inv, C!request, C!response
<1>1. CASE C!NoConnection \/ C!Throw
  <2>1. /\ cAt \in {"url", "body", "wait"} /\ cAt' \in {"response", "threw"}
        /\ cAt' = "response" => cAt = "url"
        /\ UNCHANGED <<cBody, cAtEnd, cHop, cAnnounced, cWritten, cAnswer, cStatus,
                       cStatusOf, cHeadersOf, cStrmOf, cDelivered>>
    BY <1>1 DEF C!NoConnection, C!Throw
  <2>2. C!TypeOK'
    BY <2>1 DEF C!TypeOK, C!Ended
  <2>3. C!OfOneHop' /\ C!SuccessIsWhole' /\ C!BodyAsAnnounced'
    BY <2>1 DEF C!OfOneHop, C!SuccessIsWhole, C!BodyAsAnnounced
  <2>4. OnTheWay' /\ AtTheEnd'
    BY <2>1 DEF OnTheWay, AtTheEnd
  <2> QED BY <2>2, <2>3, <2>4
<1>2. CASE C!SendHead
  <2>1. /\ cAt = "url" /\ cHop < MaxHops /\ cHop' = cHop + 1 /\ cAt' = "body"
        /\ cAnnounced' = C!Announcement /\ cWritten' = FALSE /\ cAnswer' = C!Nothing
        /\ UNCHANGED <<cBody, cAtEnd, cStatus, cStatusOf, cHeadersOf, cStrmOf, cDelivered>>
    BY <1>2 DEF C!SendHead
  <2>2. C!Announcement \in {"nothing", "length", "zero", "chunked"} /\ C!Announcement' = C!Announcement
    BY <2>1 DEF C!Announcement, C!TypeOK
  <2>3. cHop' \in 0 .. MaxHops /\ cHop' >= 1 /\ 0 .. cHop \subseteq 0 .. cHop'
        /\ 1 .. cHop \subseteq 1 .. cHop' /\ (cHop >= 1 => cHop' > 1)
    BY <2>1 DEF C!TypeOK
  <2>4. C!TypeOK'
    BY <2>1, <2>2, <2>3 DEF C!TypeOK
  <2>5. C!OfOneHop' /\ C!SuccessIsWhole' /\ C!BodyAsAnnounced'
    BY <2>1 DEF C!OfOneHop, C!SuccessIsWhole, C!BodyAsAnnounced, OnTheWay
  <2>6. OnTheWay' /\ AtTheEnd'
    BY <2>1, <2>2, <2>3 DEF OnTheWay, AtTheEnd
  <2> QED BY <2>4, <2>5, <2>6
<1>3. CASE C!SendBody
  <2>1. /\ cAt = "body" /\ cWritten' = (cBody # "none" /\ ~C!Exhausted)
        /\ cAtEnd' = TRUE /\ cAt' = "wait"
        /\ UNCHANGED <<cBody, cAnnounced, cHop, cAnswer, cStatus, cStatusOf, cHeadersOf,
                       cStrmOf, cDelivered>>
    BY <1>3 DEF C!SendBody
  <2>2. C!TypeOK'
    BY <2>1 DEF C!TypeOK
  <2>3. C!OfOneHop' /\ C!SuccessIsWhole'
    BY <2>1 DEF C!OfOneHop, C!SuccessIsWhole
  <2>4. C!BodyAsAnnounced'
    BY <2>1 DEF C!BodyAsAnnounced, OnTheWay, C!Announcement, C!Exhausted, C!TypeOK
  <2>5. OnTheWay' /\ AtTheEnd'
    BY <2>1 DEF OnTheWay, AtTheEnd, C!Announcement
  <2> QED BY <2>2, <2>3, <2>4, <2>5
<1>4. CASE C!Answer
  <2>1. /\ cAt \in {"body", "wait"} /\ cAnswer' \in C!Answers
        /\ UNCHANGED <<cBody, cAtEnd, cHop, cAt, cAnnounced, cWritten, cStatus,
                       cStatusOf, cHeadersOf, cStrmOf, cDelivered>>
    BY <1>4 DEF C!Answer
  <2>2. C!TypeOK'
    BY <2>1 DEF C!TypeOK
  <2>3. C!OfOneHop' /\ C!SuccessIsWhole' /\ C!BodyAsAnnounced'
    BY <2>1 DEF C!OfOneHop, C!SuccessIsWhole, C!BodyAsAnnounced, OnTheWay
  <2>4. OnTheWay' /\ AtTheEnd'
    BY <2>1 DEF OnTheWay, AtTheEnd, C!Announcement
  <2> QED BY <2>2, <2>3, <2>4
<1> QED BY <1>1, <1>2, <1>3, <1>4

(* Reading a response keeps it.                                            *)
LEMMA ClientReads ==
  ASSUME ClientIInv,
         C!NoStatusLine \/ C!StatusLine \/ C!Redirect \/ C!Accept \/ C!Download
  PROVE  ClientIInv'
<1> USE HopsAssumption DEF ClientIInv, C!Inv, C!request, C!response
<1>1. CASE C!NoStatusLine
  <2>1. /\ cAt = "wait" /\ cAt' = "response"
        /\ UNCHANGED <<cBody, cAtEnd, cHop, cAnnounced, cWritten, cAnswer, cStatus,
                       cStatusOf, cHeadersOf, cStrmOf, cDelivered>>
    BY <1>1 DEF C!NoStatusLine
  <2>2. C!TypeOK' /\ C!OfOneHop' /\ C!SuccessIsWhole' /\ C!BodyAsAnnounced'
    BY <2>1 DEF C!TypeOK, C!OfOneHop, C!SuccessIsWhole, C!BodyAsAnnounced
  <2>3. OnTheWay' /\ AtTheEnd'
    BY <2>1 DEF OnTheWay, AtTheEnd
  <2> QED BY <2>2, <2>3
<1>2. CASE C!StatusLine
  <2>1. /\ cAt = "wait"
        /\ \/ cStatus' = cAnswer.status /\ cStatusOf' = cHop /\ cAnswer.line = "good"
           \/ cAnswer.line = "short" /\ UNCHANGED <<cStatus, cStatusOf>>
        /\ cHeadersOf' = cHeadersOf \cup {cHop}
        /\ cAt' = IF cAnswer.headers = "malformed" THEN "response" ELSE "headers"
        /\ UNCHANGED <<cBody, cAtEnd, cHop, cAnnounced, cWritten, cAnswer, cStrmOf, cDelivered>>
    BY <1>2 DEF C!StatusLine
  <2>2. cHeadersOf = {} /\ cStrmOf = 0 /\ cHop >= 1 /\ cHop \in 0 .. MaxHops
    BY <2>1 DEF OnTheWay, C!TypeOK
  <2>3. cAnswer.status \in C!Statuses
    BY DEF C!TypeOK, C!Answers, C!Nothing, C!Statuses
  <2>4. cHop \in 0 .. cHop /\ {cHop} \subseteq 1 .. cHop
    BY <2>2
  <2>5. C!TypeOK'
    BY <2>1, <2>2, <2>3, <2>4 DEF C!TypeOK
  <2>6. C!OfOneHop' /\ C!SuccessIsWhole' /\ C!BodyAsAnnounced'
    BY <2>1, <2>2 DEF C!OfOneHop, C!SuccessIsWhole, C!BodyAsAnnounced
  <2>7. OnTheWay' /\ AtTheEnd'
    BY <2>1, <2>2 DEF OnTheWay, AtTheEnd
  <2> QED BY <2>5, <2>6, <2>7
<1>3. CASE C!Redirect
  <2>1. /\ cAt = "headers" /\ cStatus = "redirect" /\ cAt' \in {"url", "crashed"}
        /\ cHeadersOf' = {}
        /\ UNCHANGED <<cBody, cAtEnd, cAnnounced, cWritten, cStatus, cStatusOf, cStrmOf,
                       cHop, cAnswer, cDelivered>>
    BY <1>3 DEF C!Redirect, C!Leads, C!HeadersAfterRedirect
  <2>2. C!TypeOK'
    BY <2>1 DEF C!TypeOK, C!Ended
  <2>3. C!OfOneHop' /\ C!SuccessIsWhole' /\ C!BodyAsAnnounced'
    BY <2>1 DEF C!OfOneHop, C!SuccessIsWhole, C!BodyAsAnnounced, OnTheWay
  <2>4. OnTheWay' /\ AtTheEnd'
    BY <2>1 DEF OnTheWay, AtTheEnd
  <2> QED BY <2>2, <2>3, <2>4
<1>4. CASE C!Accept
  <2>1. /\ cAt = "headers" /\ cStrmOf' = cHop /\ cAt' = "response"
        /\ UNCHANGED <<cBody, cAtEnd, cAnnounced, cWritten, cStatus, cStatusOf, cHeadersOf,
                       cHop, cAnswer, cDelivered>>
    BY <1>4 DEF C!Accept
  <2>2. cHop \in 0 .. cHop /\ cHop # 0
    BY <2>1 DEF C!TypeOK, OnTheWay
  <2>3. C!TypeOK'
    BY <2>1, <2>2 DEF C!TypeOK
  <2>4. C!OfOneHop' /\ C!SuccessIsWhole' /\ C!BodyAsAnnounced'
    BY <2>1 DEF C!OfOneHop, C!SuccessIsWhole, C!BodyAsAnnounced, AtTheEnd
  <2>5. OnTheWay' /\ AtTheEnd'
    BY <2>1, <2>2 DEF OnTheWay, AtTheEnd
  <2> QED BY <2>3, <2>4, <2>5
<1>5. CASE C!Download
  <2>1. /\ cAt = "response" /\ cAt' \in {"threw", "returned"}
        /\ cDelivered' \in {"no", "empty", "whole", "part"}
        /\ cAt' = "returned" =>
             /\ cStatus = "ok"
             /\ \/ cStrmOf = 0 /\ cDelivered' = "empty"
                \/ cStrmOf # 0 /\ cDelivered' = "whole"
                \/ cDelivered' = "part" /\ cAnswer.framing = "none"
                \/ cDelivered' = "empty" /\ cAnswer.rest = "nothing"
                   /\ (cAnswer.framing # "length" \/ cAnswer.headers = "cut")
        /\ UNCHANGED <<cBody, cAtEnd, cAnnounced, cWritten, cStatus, cStatusOf, cHeadersOf,
                       cStrmOf, cHop, cAnswer>>
    <3>1. cAnswer.rest \in {"full", "breaks", "nothing"}
      BY DEF C!TypeOK, C!Answers, C!Nothing
    <3>2. ASSUME NEW c \in C!Copied
          PROVE  \/ c = <<"returned", "whole">> \/ c = <<"threw", "part">>
                 \/ c = <<"threw", "empty">>
                 \/ c = <<"returned", "part">> /\ cAnswer.framing = "none"
                 \/ c = <<"returned", "empty">> /\ cAnswer.rest = "nothing"
                    /\ (cAnswer.framing # "length" \/ cAnswer.headers = "cut")
      BY <3>1 DEF C!Copied
    <3> QED BY <1>5, <3>2 DEF C!Download
  <2>2. C!TypeOK'
    BY <2>1 DEF C!TypeOK, C!Ended
  <2>3. C!OfOneHop' /\ C!BodyAsAnnounced'
    BY <2>1 DEF C!OfOneHop, C!BodyAsAnnounced
  <2>4. C!SuccessIsWhole'
    BY <2>1 DEF C!SuccessIsWhole, AtTheEnd
  <2>5. OnTheWay' /\ AtTheEnd'
    BY <2>1 DEF OnTheWay, AtTheEnd
  <2> QED BY <2>2, <2>3, <2>4, <2>5
<1> QED BY <1>1, <1>2, <1>3, <1>4, <1>5

(* Every step keeps it; one of another part changes none of it.            *)
LEMMA ClientNext == ClientIInv /\ [PartsNext]_allVars => ClientIInv'
<1> SUFFICES ASSUME ClientIInv, [PartsNext]_allVars PROVE ClientIInv'
  OBVIOUS
<1>1. C!Next \/ UNCHANGED clientVars
  BY DEF PartsNext, allVars, ServerPart, EventsPart, ClientPart
<1>2. CASE C!Next
  BY <1>2, ClientSends, ClientReads DEF C!Next, C!Client
<1>3. CASE UNCHANGED clientVars
  BY <1>3 DEF clientVars, ClientIInv, C!Inv, C!TypeOK, C!OfOneHop, C!SuccessIsWhole,
     C!BodyAsAnnounced, OnTheWay, AtTheEnd, C!Announcement
<1> QED BY <1>1, <1>2, <1>3

(* For any number of redirects: a response is of one hop; a download that  *)
(* returns wrote the whole body, unless the framing of the answer could    *)
(* not tell or no body was announced; what was announced is written        *)
(* (HttpClient.cpp:195-277, :294-322).                                     *)
THEOREM ClientCorrect == PartsSpec => []ClientInv
<1>1. PartsInit /\ [][PartsNext]_allVars => []ClientIInv
  BY ClientInit, ClientNext, PTL
<1>2. ClientIInv => ClientInv
  BY DEF ClientIInv, ClientInv
<1> QED BY <1>1, <1>2, PTL DEF PartsSpec
=============================================================================
