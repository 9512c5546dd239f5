--------------------------- MODULE ComposedServers ---------------------------
(***************************************************************************)
(* MountableServer and ChangeableServer (MountableServer.cpp,              *)
(* ChangeableServer.cpp): requests are handed to servers that other        *)
(* threads mount, unmount and exchange meanwhile.                          *)
(*                                                                         *)
(* A ChangeableServer stands in front; its server is a MountableServer, a  *)
(* plain server, or none.  Both look their server up under a mutex and run *)
(* it after the mutex was released, so that a server may still be running  *)
(* a request after Unmount returned.                                       *)
(***************************************************************************)
EXTENDS Naturals, SequencesExt

CONSTANTS
  Requests,     \* requests, each handled by a thread of its own
  Targets,      \* paths of requests: sequences of names
  Points,       \* mount points, [text |-> the string, path |-> what it parses to]
  Servers,      \* plain servers
  Root,         \* root of the MountableServer, or None
  Mounts,       \* the MountableServer
  None,         \* no server
  MaxChanges    \* bound: calls of Mount, Unmount and SetServer

VARIABLES
  front,        \* ChangeableServer: server
  servers,      \* MountableServer: servers, the newest mount first
  request,      \* each request: where it is, [at, target, path, by, since]
  log           \* history: the pairs of front and servers there have been

vars == <<front, servers, request, log>>

New == [at |-> "new", target |-> <<>>, path |-> <<>>, by |-> None, since |-> 0]

Init ==
  /\ front = Mounts
  /\ servers = <<>>
  /\ request = [r \in Requests |-> New]
  /\ log = <<[front |-> Mounts, servers |-> <<>>]>>

StartsWith(full, offset) ==
  Len(full) >= Len(offset) /\ SubSeq(full, 1, Len(offset)) = offset

Matching(list, p) == {i \in DOMAIN list : StartsWith(p, list[i].point.path)}
First(S) == CHOOSE i \in S : \A j \in S : i <= j

-----------------------------------------------------------------------------
(* Faulty forms of some definitions below.  No specification here uses     *)
(* them: each one breaks a property, which shows that it can fail.         *)
LookAgain(r) ==                 \* the server is looked up after the path
  /\ request[r].at = "mounts"
  /\ Matching(servers, request[r].path) # {}
  /\ LET m == servers[First(Matching(servers, request[r].path))]
         rest == SubSeq(request[r].path, Len(m.point.path) + 1, Len(request[r].path))
     IN request' = [request EXCEPT ![r].at = "mounted",
                      ![r].by = servers[1].server, ![r].path = rest]
  /\ UNCHANGED <<front, servers, log>>

-----------------------------------------------------------------------------
(* Calls of the owners of the two servers.                                 *)
Record == log' = Append(log, [front |-> front', servers |-> servers'])

SetServer(s) ==
  /\ Len(log) <= MaxChanges
  /\ front' = s
  /\ UNCHANGED <<servers, request>>
  /\ Record

Mount(p, s) ==
  /\ Len(log) <= MaxChanges
  /\ servers' = <<[point |-> p, server |-> s]>> \o servers
  /\ UNCHANGED <<front, request>>
  /\ Record

(* The first mount with that very string, if there is one.                 *)
Unmount(text) ==
  /\ Len(log) <= MaxChanges
  /\ LET same == {i \in DOMAIN servers : servers[i].point.text = text}
     IN servers' = IF same = {} THEN servers ELSE RemoveAt(servers, First(same))
  /\ UNCHANGED <<front, request>>
  /\ Record

-----------------------------------------------------------------------------
(* Requests.                                                               *)
Arrive(r, p) ==
  /\ request[r].at = "new"
  /\ request' = [request EXCEPT ![r] =
       [at |-> "front", target |-> p, path |-> p, by |-> None, since |-> Len(log)]]
  /\ UNCHANGED <<front, servers, log>>

(* ChangeableServer::Handle, up to the call of the server it got.          *)
GetServer(r) ==
  /\ request[r].at = "front"
  /\ request' = [request EXCEPT
       ![r].at = CASE front = None -> "unhandled"
                   [] front = Mounts -> "mounts"
                   [] OTHER -> "plain",
       ![r].by = IF front = Mounts THEN None ELSE front]
  /\ UNCHANGED <<front, servers, log>>

PlainAnswers(r) ==
  /\ request[r].at = "plain"
  /\ \E a \in {"handled", "unhandled"} : request' = [request EXCEPT ![r].at = a]
  /\ UNCHANGED <<front, servers, log>>

(* MountableServer::Handle, up to Unlock: only the first mount that fits.  *)
Route(r) ==
  /\ request[r].at = "mounts"
  /\ Matching(servers, request[r].path) # {}
  /\ LET m == servers[First(Matching(servers, request[r].path))]
         rest == SubSeq(request[r].path, Len(m.point.path) + 1, Len(request[r].path))
     IN request' = [request EXCEPT ![r].at = "mounted", ![r].by = m.server,
                                   ![r].path = rest]
  /\ UNCHANGED <<front, servers, log>>

RouteToRoot(r) ==
  /\ request[r].at = "mounts"
  /\ Matching(servers, request[r].path) = {}
  /\ request' = [request EXCEPT ![r].at = "root", ![r].by = Root]
  /\ UNCHANGED <<front, servers, log>>

(* The mounted server handled the request, or leaves it to the root.       *)
MountedAnswers(r) ==
  /\ request[r].at = "mounted"
  /\ \/ request' = [request EXCEPT ![r].at = "handled", ![r].path = request[r].target]
     \/ request' = [request EXCEPT ![r].at = "root", ![r].path = request[r].target,
                                   ![r].by = Root]
  /\ UNCHANGED <<front, servers, log>>

RootAnswers(r) ==
  /\ request[r].at = "root"
  /\ \E a \in IF Root = None THEN {"unhandled"} ELSE {"handled", "unhandled"} :
       request' = [request EXCEPT ![r].at = a]
  /\ UNCHANGED <<front, servers, log>>

Handle(r) ==
  \/ GetServer(r) \/ PlainAnswers(r) \/ Route(r) \/ RouteToRoot(r)
  \/ MountedAnswers(r) \/ RootAnswers(r)

Next ==
  \/ \E s \in Servers \cup {Mounts, None} : SetServer(s)
  \/ \E p \in Points : Unmount(p.text) \/ (\E s \in Servers : Mount(p, s))
  \/ \E r \in Requests : Handle(r) \/ (\E p \in Targets : Arrive(r, p))

Spec == Init /\ [][Next]_vars

-----------------------------------------------------------------------------
TypeOK ==
  /\ front \in Servers \cup {Mounts, None}
  /\ servers \in Seq([point : Points, server : Servers])
  /\ \A r \in Requests :
       /\ request[r].at \in {"new", "front", "plain", "mounts", "mounted", "root",
                             "handled", "unhandled"}
       /\ request[r].by \in Servers \cup {Root, None}
  /\ Len(log) \in 1 .. MaxChanges + 1

(* The states of the two servers since a request came.                     *)
Seen(r) == {log[i] : i \in request[r].since .. Len(log)}

(* A request runs in a server that, at some moment since it came, was the  *)
(* newest mount whose path begins its own, with the rest of its path: a    *)
(* server that was unmounted gets no request that came after Unmount       *)
(* returned.  A plain server was in front at some moment.  Behind the      *)
(* mounts and at the end the path is whole again                           *)
(* (MountableServer.cpp:72-95, ChangeableServer.cpp:41-47).                *)
RightServer ==
  \A r \in Requests :
    LET q == request[r]
    IN /\ q.at = "mounted" =>
            \E s \in Seen(r) : \E i \in Matching(s.servers, q.target) :
              /\ s.servers[i].server = q.by
              /\ s.servers[i].point.path \o q.path = q.target
              /\ \A j \in Matching(s.servers, q.target) : i <= j
       /\ q.at = "plain" => \E s \in Seen(r) : s.front = q.by
       /\ q.at \in {"root", "handled", "unhandled"} => q.path = q.target

Inv == TypeOK /\ RightServer
=============================================================================
