--------------------------- MODULE MCServerContext ---------------------------
(* Small instances of ServerContext for TLC.                               *)
EXTENDS ServerContext

NoRange == [kind |-> "none", first |-> Absent, last |-> Absent]
BytesRange(first, last) == [kind |-> "bytes", first |-> first, last |-> last]

Get == [line |-> "ok", header |-> "ok", method |-> "GET",
        version |-> "HTTP/1.1", range |-> NoRange, values |-> 1, form |-> "none"]

MCRanges ==
  {[NoRange EXCEPT !.kind = k] : k \in {"no equals", "refused", "no number"}}
  \cup {BytesRange(Absent, 2), BytesRange(1, Absent), BytesRange(1, 2),
        BytesRange(1, 1), BytesRange(0, 4), BytesRange(3, 1)}

MCRequests ==
  {[Get EXCEPT !.line = l] : l \in {"none", "short"}}
  \cup {[Get EXCEPT !.header = "no colon"], [Get EXCEPT !.values = 2]}
  \cup {[Get EXCEPT !.method = m, !.version = v] :
          m \in {"GET", "HEAD", "TRACE"}, v \in {"HTTP/1.1", "HTTP/1.0"}}
  \cup {[Get EXCEPT !.method = "POST", !.form = f] : f \in {"filled", "empty"}}
  \cup {[Get EXCEPT !.range = r] : r \in MCRanges}

MCSources == [seek : BOOLEAN, len : {4}, fails : BOOLEAN]
             \cup {[seek |-> TRUE, len |-> n, fails |-> FALSE] : n \in {-1, 0}}
MCLengths == {Junk, 0, 2}
=============================================================================
