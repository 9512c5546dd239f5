------------------------------ MODULE MCServing ------------------------------
(***************************************************************************)
(* One instance for the two ends of a connection and for what outlives a   *)
(* request: the accepting server (HttpServer), the client that follows     *)
(* redirects (HttpClient) and the streams of server-sent events            *)
(* (ServerSentEvents).  They have no state in common; the initial state    *)
(* says which of them runs.                                                *)
(***************************************************************************)
EXTENDS HttpServer

CONSTANTS
  Subscribers, Senders, MaxEvents,      \* ServerSentEvents
  MaxHops                               \* HttpClient

ASSUME EventsAssumption == None \notin Subscribers \cup Senders /\ MaxEvents \in Nat
ASSUME HopsAssumption == MaxHops \in Nat

VARIABLES
  part,
  sAt, sUp, sStalled, sAhead, sEnded, sStrms, sMtx, sRest, sEvents, sSince, sGot,
  cBody, cAtEnd, cHop, cAt, cAnnounced, cWritten, cAnswer, cStatus, cStatusOf,
  cHeadersOf, cStrmOf, cDelivered

eventVars == <<sAt, sUp, sStalled, sAhead, sEnded, sStrms, sMtx, sRest, sEvents,
               sSince, sGot>>
clientVars == <<cBody, cAtEnd, cHop, cAt, cAnnounced, cWritten, cAnswer, cStatus,
                cStatusOf, cHeadersOf, cStrmOf, cDelivered>>
allVars == <<part, vars, eventVars, clientVars>>

S == INSTANCE ServerSentEvents WITH
  Clients <- Subscribers, Nobody <- None,
  at <- sAt, up <- sUp, stalled <- sStalled, ahead <- sAhead, ended <- sEnded,
  strms <- sStrms, mtx <- sMtx, rest <- sRest, events <- sEvents, since <- sSince,
  got <- sGot

C == INSTANCE HttpClient WITH
  Bodies <- {"none", "text", "file", "pipe", "unknown"},
  body <- cBody, atEnd <- cAtEnd, hop <- cHop, at <- cAt, announced <- cAnnounced,
  written <- cWritten, answer <- cAnswer, status <- cStatus, statusOf <- cStatusOf,
  headersOf <- cHeadersOf, strmOf <- cStrmOf, delivered <- cDelivered

ServerPart == part = "server" /\ Next /\ UNCHANGED <<part, eventVars, clientVars>>
EventsPart == part = "events" /\ S!Next /\ UNCHANGED <<part, vars, clientVars>>
ClientPart == part = "client" /\ C!Next /\ UNCHANGED <<part, vars, eventVars>>

PartsInit ==
  /\ part \in {"server", "events", "client"}
  /\ Init /\ S!Init /\ C!Init
  /\ part = "server" \/ (isRunning /\ reachable /\ valid)
  /\ part = "events" \/ sAhead = {}
  /\ part = "client" \/ (cBody = "none" /\ cStatus = "ok")

(* The fairness of the three specifications.  Only one of them runs, so    *)
(* one action stands for an action of each.                                *)
Only(p) == part = p /\ UNCHANGED part
OfServer(A) == Only("server") /\ A /\ UNCHANGED <<eventVars, clientVars>>
OfEvents(A) == Only("events") /\ A /\ UNCHANGED <<vars, clientVars>>
OfClient(A) == Only("client") /\ A /\ UNCHANGED <<vars, eventVars>>

PartsNext == ServerPart \/ EventsPart \/ ClientPart

PartsSpec ==
  /\ PartsInit /\ [][PartsNext]_allVars
  /\ WF_allVars(OfServer(Acceptor) \/ OfClient(C!Client))
  /\ WF_allVars(OfServer(Destructor) \/ OfClient(C!Satisfied /\ C!Answer))
  /\ \A c \in Subscribers : WF_allVars(OfEvents(S!Handler(c)))
  /\ \A s \in Senders : WF_allVars(OfEvents(S!Sender(s)))

-----------------------------------------------------------------------------
EventsInv == S!Inv
NobodyHeldUp == S!NobodyHeldUp
ClientInv == C!Inv
RequestEnds == (part = "client") => C!RequestEnds
=============================================================================
