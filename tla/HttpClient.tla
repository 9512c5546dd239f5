------------------------------ MODULE HttpClient ------------------------------
(***************************************************************************)
(* HttpResponse(HttpRequest&) and DownloadToStreamSimple (HttpClient.cpp): *)
(* a request is sent to a server, again to the next one for every redirect *)
(* there is, and the body of the last response is copied to a stream.      *)
(*                                                                         *)
(* The body of the request is written anew at every hop from where the     *)
(* last hop left it; its Content-Length is GetLength of the whole stream   *)
(* (0 for a stream that cannot seek), and a stream of unknown length is    *)
(* announced as chunked and written without chunks.  A server answers when *)
(* it has what was announced, or earlier; it may break off anywhere.       *)
(* statusCode has no initial value: its first content is any of the three. *)
(***************************************************************************)
EXTENDS Naturals

CONSTANTS
  Bodies,       \* bodies to consider, of "none" "text" "file" "pipe" "unknown"
  MaxHops       \* bound: requests, redirects included

VARIABLES
  body,         \* the body of the request
  atEnd,        \* was the stream of the body read to its end by an earlier hop?
  hop,          \* number of the request
  at,           \* where the client is
  announced,    \* what the head of the request says of the body
  written,      \* was the whole body written in this hop?
  answer,       \* what the server sends back, Nothing before
  status,       \* statusCode: ok, redirect, error
  statusOf,     \* history: the hop statusCode comes from, 0 when from none
  headersOf,    \* history: the hops responseHeaders come from
  strmOf,       \* handleStrm: the hop whose connection it is, 0 for nullptr
  delivered     \* what DownloadToStreamSimple wrote: no, empty, whole, part

vars == <<body, atEnd, hop, at, announced, written, answer, status, statusOf,
          headersOf, strmOf, delivered>>

Statuses == {"ok", "redirect", "error"}
(* line: the status line has a number, has too few parts, or none of it    *)
(* came; headers: all, cut off, or with a line that is no header;          *)
(* location: absolute, relative, unusable or none; framing: how the body   *)
(* is framed (by a Content-Length, else by chunks when the version is      *)
(* HTTP/1.1, else by the end of the connection); rest: the body follows in *)
(* full, breaks off, or nothing of it came at all.  What follows the place *)
(* where an answer breaks off does not matter.                             *)
Answers ==
  {a \in [line : {"good", "short", "none"}, status : Statuses,
          headers : {"all", "cut", "malformed"},
          location : {"absolute", "relative", "unusable", "none"},
          framing : {"length", "chunked", "none"},
          rest : {"full", "breaks", "nothing"}] :
     /\ a.line = "none" =>
          a.headers = "cut" /\ a.location = "none" /\ a.framing = "none"
     /\ a.headers # "all" => a.rest = "nothing"}
Nothing == [line |-> "no", status |-> "error", headers |-> "all",
            location |-> "none", framing |-> "none", rest |-> "full"]

Ended == {"threw", "crashed", "returned"}

Init ==
  /\ body \in Bodies
  /\ atEnd = FALSE
  /\ hop = 0
  /\ at = "url"
  /\ announced = "nothing"
  /\ written = FALSE
  /\ answer = Nothing
  /\ status \in Statuses
  /\ statusOf = 0
  /\ headersOf = {}
  /\ strmOf = 0
  /\ delivered = "no"

-----------------------------------------------------------------------------
(* Faulty forms of some definitions below.  No specification here uses     *)
(* them: each one breaks a property, which shows that it can fail.         *)
KeepHeaders == headersOf      \* the headers of a redirect are kept

AlwaysAtEnd == TRUE           \* a body is read to its end before it is written

TakeWhatComes ==              \* a body that breaks off is taken as it is
  {<<"returned", CASE answer.rest = "full" -> "whole"
                   [] answer.rest = "breaks" -> "part"
                   [] answer.rest = "nothing" -> "empty">>}

-----------------------------------------------------------------------------
request == <<body, atEnd, announced, written>>
response == <<status, statusOf, headersOf, strmOf>>

(* HandleHeaders of the body.                                              *)
Announcement == CASE body = "none" -> "nothing"
                  [] body \in {"text", "file"} -> "length"
                  [] body = "pipe" -> "zero"
                  [] body = "unknown" -> "chunked"

(* The head of the request.  Without a URL that parses, or with a scheme   *)
(* there is no connection for, the response stays as it is.                *)
NoConnection ==
  /\ at = "url"
  /\ at' = "response"
  /\ UNCHANGED <<request, response, hop, answer, delivered>>

SendHead ==
  /\ at = "url"
  /\ hop < MaxHops
  /\ hop' = hop + 1
  /\ at' = "body"
  /\ announced' = Announcement
  /\ written' = FALSE
  /\ answer' = Nothing
  /\ UNCHANGED <<body, atEnd, response, delivered>>

(* A text is written again at each hop, a stream from where it stands.     *)
Exhausted == atEnd /\ body # "text"

SendBody ==
  /\ at = "body"
  /\ written' = (body # "none" /\ ~Exhausted)
  /\ atEnd' = TRUE
  /\ at' = "wait"
  /\ UNCHANGED <<body, announced, response, hop, answer, delivered>>

(* A write that fails, or a status that is no number, throws.              *)
Throw ==
  /\ at \in {"url", "body", "wait"}
  /\ at = "url" => hop < MaxHops
  /\ at' = "threw"
  /\ UNCHANGED <<request, response, hop, answer, delivered>>

-----------------------------------------------------------------------------
(* The server.                                                             *)
Satisfied ==
  /\ at = "wait"
  /\ announced \in {"nothing", "zero"} \/ (announced = "length" /\ written)

Answer ==
  /\ at \in {"body", "wait"}
  /\ answer = Nothing
  /\ answer' \in Answers
  /\ UNCHANGED <<request, response, hop, at, delivered>>

-----------------------------------------------------------------------------
(* The response is read: status line, headers, and where they lead.        *)
NoStatusLine ==
  /\ at = "wait" /\ answer.line = "none"
  /\ at' = "response"
  /\ UNCHANGED <<request, response, hop, answer, delivered>>

StatusLine ==
  /\ at = "wait" /\ answer.line \in {"good", "short"}
  /\ \/ answer.line = "good" /\ status' = answer.status /\ statusOf' = hop
     \/ answer.line = "short" /\ UNCHANGED <<status, statusOf>>
  /\ headersOf' = headersOf \cup {hop}
  /\ at' = IF answer.headers = "malformed" THEN "response" ELSE "headers"
  /\ UNCHANGED <<request, strmOf, hop, answer, delivered>>

HeadersAfterRedirect == {}

Leads == status = "redirect" /\ answer.location \in {"absolute", "relative"}

(* followRedirects is set.  A Location without a host is cut out of a part *)
(* of it that may not exist (HttpUtils.cpp:53, :69): undefined behaviour.  *)
Redirect ==
  /\ at = "headers"
  /\ Leads
  /\ at' \in IF answer.location = "relative" THEN {"url", "crashed"} ELSE {"url"}
  /\ headersOf' = HeadersAfterRedirect
  /\ UNCHANGED <<request, status, statusOf, strmOf, hop, answer, delivered>>

Accept ==
  /\ at = "headers"
  /\ ~Leads
  /\ strmOf' = hop
  /\ at' = "response"
  /\ UNCHANGED <<request, status, statusOf, headersOf, hop, answer, delivered>>

(* What copying the body ends with, and what was written by then: the      *)
(* reading HttpStream throws when a framed body breaks off, but takes the  *)
(* end of the connection for the end of a body without framing, and, when  *)
(* nothing of a chunked one came, for an empty body.  A chunked body that  *)
(* is all there throws as well when one Read takes a whole chunk           *)
(* (HttpStream.tla).  Headers that were cut off may lack the length.       *)
Copied ==
  CASE answer.rest = "full" ->
         {<<"returned", "whole">>}
           \cup (IF answer.framing = "chunked" THEN {<<"threw", "part">>} ELSE {})
    [] answer.rest = "breaks" ->
         {<<IF answer.framing = "none" THEN "returned" ELSE "threw", "part">>}
    [] answer.rest = "nothing" ->
         {<<IF answer.framing = "length" THEN "threw" ELSE "returned", "empty">>}
           \cup (IF answer.headers = "cut" THEN {<<"returned", "empty">>} ELSE {})

(* DownloadToStreamSimple: the status is looked at, then the body copied;  *)
(* without a stream CopyToStream does nothing.                             *)
Download ==
  /\ at = "response"
  /\ \/ /\ status # "ok"
        /\ at' = "threw" /\ delivered' = "no"
     \/ /\ status = "ok" /\ strmOf = 0
        /\ at' = "returned" /\ delivered' = "empty"
     \/ /\ status = "ok" /\ strmOf # 0
        /\ \E c \in Copied : at' = c[1] /\ delivered' = c[2]
  /\ UNCHANGED <<request, response, hop, answer>>

Client ==
  \/ NoConnection \/ SendHead \/ SendBody \/ NoStatusLine \/ StatusLine
  \/ Redirect \/ Accept \/ Download

Next == Client \/ Throw \/ Answer

(* The client goes on, and a server answers when it has what was announced *)
(* to it.                                                                  *)
Spec == Init /\ [][Next]_vars /\ WF_vars(Client) /\ WF_vars(Satisfied /\ Answer)

-----------------------------------------------------------------------------
TypeOK ==
  /\ body \in Bodies
  /\ atEnd \in BOOLEAN /\ written \in BOOLEAN
  /\ hop \in 0 .. MaxHops
  /\ at \in {"url", "body", "wait", "headers", "response"} \cup Ended
  /\ announced \in {"nothing", "length", "zero", "chunked"}
  /\ answer \in Answers \cup {Nothing}
  /\ status \in Statuses
  /\ statusOf \in 0 .. hop /\ headersOf \subseteq 1 .. hop
  /\ strmOf \in 0 .. hop
  /\ delivered \in {"no", "empty", "whole", "part"}

(* A response with a connection is of one hop, the last: no header of a    *)
(* redirect is left in it, and neither is its status, unless the last      *)
(* status line had none (HttpClient.cpp:239-274).                          *)
OfOneHop ==
  strmOf # 0 =>
    /\ strmOf = hop /\ headersOf = {hop}
    /\ statusOf = hop \/ answer.line = "short"

(* A download that returns wrote the whole body of a response that said    *)
(* ok, as far as its framing can tell: a part of it only when nothing but  *)
(* the end of the connection said where it ends; nothing only when there   *)
(* was no length and the connection ended before the body began, or when   *)
(* the last response broke off in its headers or had a line among them     *)
(* that is none, or no server ever gave a status (HttpClient.cpp:186,      *)
(* :294-322, HttpStream.cpp:68-163).                                       *)
SuccessIsWhole ==
  at = "returned" =>
    \/ delivered = "whole" /\ (statusOf = hop \/ answer.line = "short")
    \/ delivered = "part" /\ answer.framing = "none"
    \/ /\ delivered = "empty"
       /\ \/ answer.framing # "length" /\ answer.rest = "nothing"
          \/ statusOf = 0 \/ answer.headers \in {"cut", "malformed"}

(* What was announced is written, but for a stream that an earlier hop     *)
(* read to its end (HttpClient.cpp:212-235).                               *)
BodyAsAnnounced ==
  (at = "wait" /\ announced = "length") => (written \/ (body = "file" /\ hop > 1))

Inv == TypeOK /\ OfOneHop /\ SuccessIsWhole /\ BodyAsAnnounced

(* The call ends, unless its redirects do not, or the server waits for a   *)
(* body that does not come: a stream read to its end by the hop before the *)
(* redirect, or one without chunks that was announced to have them         *)
(* (HttpClient.cpp:67-78, :233).                                           *)
RequestEnds ==
  <>( \/ at \in Ended
      \/ hop = MaxHops
      \/ body = "unknown"
      \/ body = "file" /\ hop > 1 )
=============================================================================
