------------------------------ MODULE MCHandling ------------------------------
(***************************************************************************)
(* One instance for the way of one request through the server: which of    *)
(* the composed servers gets it while mounts change (ComposedServers),     *)
(* what the handler then does with its ServerContext, and the WebSocket    *)
(* session it can make of the connection (WebSocket).  They have no state  *)
(* in common; the initial state says which of them runs.                   *)
(***************************************************************************)
EXTENDS MCServerContext

CONSTANTS
  Clients,      \* the requests that ComposedServers sees
  Targets, Points, Servers, Root, Mounts, None, MaxChanges,
  s1, s2,
  Fragments, SessionCalls, Echo         \* WebSocket

ASSUME PathsAssumption ==
  /\ Targets \subseteq Seq(STRING)
  /\ Points \subseteq [text : STRING, path : Seq(STRING)]
ASSUME ServersAssumption ==
  Mounts \notin Servers /\ None \notin Servers /\ Mounts # None
ASSUME ChangesAssumption == MaxChanges \in Nat

VARIABLES
  part,
  front, servers, routed, log,
  wLink, wOut, wAlive, wAccepted, wStrm, wEos, wHasInit, wClosed, wLock, wTodo,
  wCall, wCalls, wOpen, wStart, wMessage, wSent, wReceived, wTold, wBeforeClose

composedVars == <<front, servers, routed, log>>
sessionVars == <<wLink, wOut, wAlive, wAccepted, wStrm, wEos, wHasInit, wClosed, wLock,
                 wTodo, wCall, wCalls, wOpen, wStart, wMessage, wSent, wReceived,
                 wTold, wBeforeClose>>
allVars == <<part, vars, composedVars, sessionVars>>

MCTargets == {<<>>, <<"a">>, <<"a", "b">>}
MCPoints ==
  {[text |-> "/a", path |-> <<"a">>], [text |-> "/a/", path |-> <<"a">>],
   [text |-> "/a/b", path |-> <<"a", "b">>]}
MCServers == {s1, s2}

M == INSTANCE ComposedServers WITH Requests <- Clients, request <- routed

W == INSTANCE WebSocket WITH
  MaxCalls <- SessionCalls,
  link <- wLink, out <- wOut, alive <- wAlive, accepted <- wAccepted, strm <- wStrm,
  eos <- wEos, hasInit <- wHasInit, closed <- wClosed, lock <- wLock, todo <- wTodo,
  call <- wCall, calls <- wCalls, open <- wOpen, start <- wStart, message <- wMessage,
  sent <- wSent, received <- wReceived, told <- wTold, beforeClose <- wBeforeClose

ASSUME FragmentsAssumption == Fragments \subseteq Nat
ASSUME EchoAssumption == Echo \subseteq W!End /\ Echo # W!End
ASSUME SessionAssumption == SessionCalls \in [W!End -> Nat]

MCSessionCalls == [p \in {"server", "client"} |-> IF p = "server" THEN 1 ELSE 2]

ContextPart == part = "context" /\ Next /\ UNCHANGED <<part, composedVars, sessionVars>>
ServersPart == part = "servers" /\ M!Next /\ UNCHANGED <<part, vars, sessionVars>>
SessionPart == part = "session" /\ W!Next /\ UNCHANGED <<part, vars, composedVars>>

Finished ==
  /\ part = "servers" /\ Len(log) > MaxChanges
  /\ \A r \in Clients : routed[r].at \in {"handled", "unhandled"}
  /\ UNCHANGED allVars

(* A session may stop: an end waits for the mutex that a failed write left *)
(* locked, or for an OnOpen that does not return.                          *)
Stopped == part = "session" /\ UNCHANGED allVars

PartsInit ==
  /\ part \in {"context", "servers", "session"}
  /\ Init /\ M!Init /\ W!Init
  /\ part = "context" \/ request = Get
  /\ part = "session" \/ ~wAccepted

PartsNext == ContextPart \/ ServersPart \/ SessionPart \/ Finished \/ Stopped

PartsSpec == PartsInit /\ [][PartsNext]_allVars

-----------------------------------------------------------------------------
RightServer == M!Inv
SessionInv == W!Inv
=============================================================================
