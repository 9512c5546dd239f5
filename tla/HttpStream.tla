------------------------------ MODULE HttpStream ------------------------------
(***************************************************************************)
(* Tesses::Framework::Http::HttpStream (HttpStream.cpp): the body of a     *)
(* message, written by an HttpStream on one end of a connection and read   *)
(* by an HttpStream on the other, with Content-Length, with chunks, or     *)
(* until the connection closes (HTTP/1.0).                                 *)
(*                                                                         *)
(* The connection is a sequence of tokens: a byte of the body, a chunk     *)
(* size line, an empty line.  A call of Read is several steps, because     *)
(* each read of the underlying stream blocks until something arrived or    *)
(* the connection closed, and may return less than asked for.              *)
(***************************************************************************)
EXTENDS Integers, SequencesExt

CONSTANTS
  Modes,        \* the framings to consider: records [length, http1_1]
  WriteSizes,   \* sizes the application passes to Write
  ReadSizes,    \* sizes the application passes to Read
  MaxBytes      \* bound: bytes of the body written in one run

ASSUME SizesAssumption ==
  /\ WriteSizes \subseteq Nat \ {0}
  /\ ReadSizes \subseteq Nat \ {0}
  /\ MaxBytes \in Nat
ASSUME ModesAssumption ==
  Modes \subseteq [length : Nat \cup {-1}, http1_1 : BOOLEAN]

VARIABLES
  mode,       \* the constructor arguments, the same on both ends
  wire,       \* tokens written and not yet read
  closed,     \* has the connection been closed by the writing side?
  cut,        \* was it lost rather than closed?
  sent,       \* how many bytes of the body the writer accepted
  writer,     \* the writing HttpStream: open, closed, destroyed
  finals,     \* history: how many final chunks were written
  reader,     \* where the reading HttpStream stands in a call of Read
  want,       \* the rest of that call's len
  read,       \* size of the current chunk
  offset,     \* bytes of it read
  position,   \* bytes of the body read
  got,        \* history: the bytes of the body handed to the application
  error,      \* the exception Read ended with
  taken       \* history: has one Read taken a size line and its whole chunk?

writerVars == <<sent, writer, finals>>
readerVars == <<reader, want, read, offset, position, got, error>>
vars == <<mode, wire, closed, cut, writerVars, readerVars, taken>>

Byte(k) == <<"byte", k>>
SizeLine(n) == <<"size", n>>
EmptyLine == <<"crlf", 0>>
Bytes(from, n) == [k \in 1 .. n |-> Byte(from + k)]

Chunked == mode.length < 0 /\ mode.http1_1
Framed == mode.length >= 0 \/ mode.http1_1
Least(a, b) == IF a < b THEN a ELSE b

Init ==
  /\ mode \in Modes
  /\ wire = <<>>
  /\ closed = FALSE
  /\ cut = FALSE
  /\ sent = 0
  /\ writer = "open"
  /\ finals = 0
  /\ reader = "ready"
  /\ want = 0
  /\ read = 0
  /\ offset = 0
  /\ position = 0
  /\ got = <<>>
  /\ error = "none"
  /\ taken = FALSE

-----------------------------------------------------------------------------
(* Faulty forms of some definitions below.  No specification here uses     *)
(* them: each one breaks a property, which shows that it can fail.         *)
EmptyIsEnd == wire = <<>>     \* nothing to read yet is taken for the end

DeliverAgain(n) ==            \* the bytes are not consumed
  /\ n <= want
  /\ n <= Len(wire)
  /\ \A k \in 1 .. n : wire[k][1] = "byte"
  /\ got' = got \o SubSeq(wire, 1, n)
  /\ position' = position + n
  /\ UNCHANGED wire

ReadChunkKeepLine ==          \* the line after a chunk is never skipped
  /\ reader = "chunk"
  /\ \E n \in 1 .. want :
       /\ n <= Len(wire)
       /\ \A k \in 1 .. n : wire[k][1] = "byte"
       /\ wire' = SubSeq(wire, n + 1, Len(wire))
       /\ got' = got \o SubSeq(wire, 1, n)
       /\ position' = position + n
       /\ offset' = offset + n
  /\ reader' = "ready"
  /\ UNCHANGED <<mode, closed, cut, writerVars, want, read, error, taken>>

ReadNothingAgain ==           \* the end is not remembered
  /\ wire = <<>> /\ closed
  /\ reader \in {"body", "chunk", "first", "raw"}
  /\ reader' = "ready"
  /\ UNCHANGED <<mode, wire, closed, cut, writerVars, want, read, offset,
                 position, got, error, taken>>

ReadEmptySizeClean ==         \* position is not looked at
  /\ reader = "size"
  /\ wire = <<>> /\ closed
  /\ reader' = "eof"
  /\ UNCHANGED <<mode, wire, closed, cut, writerVars, want, read, offset,
                 position, got, error, taken>>

-----------------------------------------------------------------------------
(* The writing end.                                                        *)

(* What the underlying stream accepts, when it is not a chunk that         *)
(* WriteBlock writes to the end: some of it.                               *)
Accepted(len) == 1 .. len

WriteChunk(len) ==
  /\ Chunked
  /\ sent + len <= MaxBytes
  /\ wire' = wire \o <<SizeLine(len)>> \o Bytes(sent, len) \o <<EmptyLine>>
  /\ sent' = sent + len

WriteLength(len) ==
  /\ mode.length > 0
  /\ sent < mode.length
  /\ \E n \in Accepted(Least(mode.length - sent, len)) :
       /\ wire' = wire \o Bytes(sent, n)
       /\ sent' = sent + n

WriteRaw(len) ==
  /\ mode.length < 0
  /\ ~mode.http1_1
  /\ sent + len <= MaxBytes
  /\ \E n \in Accepted(len) :
       /\ wire' = wire \o Bytes(sent, n)
       /\ sent' = sent + n

Write(len) ==
  /\ writer = "open"
  /\ ~closed
  /\ WriteChunk(len) \/ WriteLength(len) \/ WriteRaw(len)
  /\ UNCHANGED <<mode, closed, cut, writer, finals, readerVars, taken>>

(* "0", an empty line: written once, by Close or by the destructor.  On a  *)
(* lost connection the exception is swallowed.                             *)
WriteFinal ==
  IF Chunked /\ writer = "open" /\ ~closed
    THEN /\ wire' = wire \o <<SizeLine(0), EmptyLine>>
         /\ finals' = finals + 1
    ELSE UNCHANGED <<wire, finals>>

Close ==                      \* of a body without chunks it does nothing
  /\ Chunked
  /\ writer = "open"
  /\ WriteFinal
  /\ writer' = "closed"
  /\ UNCHANGED <<mode, closed, cut, sent, readerVars, taken>>

Destroy ==
  /\ writer \in {"open", "closed"}
  /\ WriteFinal
  /\ writer' = "destroyed"
  /\ UNCHANGED <<mode, closed, cut, sent, readerVars, taken>>

(* The connection under the writer is closed after the message, and what   *)
(* was written still arrives; or it is lost at any moment, and with it the *)
(* end of what was written.                                                *)
CloseConnection ==
  /\ writer = "destroyed"
  /\ ~closed
  /\ closed' = TRUE
  /\ UNCHANGED <<mode, wire, cut, writerVars, readerVars, taken>>

LoseConnection ==
  /\ ~closed
  /\ closed' = TRUE
  /\ cut' = TRUE
  /\ \E n \in 0 .. Len(wire) : wire' = SubSeq(wire, 1, n)
  /\ UNCHANGED <<mode, writerVars, readerVars, taken>>

-----------------------------------------------------------------------------
(* The reading end.                                                        *)

(* A call of Read up to the first read of the underlying stream.           *)
ReadCall(len) ==
  /\ reader = "ready"
  /\ \/ /\ mode.length >= 0 /\ position >= mode.length
        /\ reader' = "eof"
        /\ UNCHANGED want
     \/ /\ mode.length > position
        /\ reader' = "body"
        /\ want' = Least(mode.length - position, len)
     \/ /\ Chunked /\ offset < read
        /\ reader' = "chunk"
        /\ want' = Least(read - offset, len)
     \/ /\ Chunked /\ offset >= read
        /\ reader' = "size"
        /\ want' = len
     \/ /\ ~Framed
        /\ reader' = "raw"
        /\ want' = len
  /\ UNCHANGED <<mode, wire, closed, cut, writerVars, read, offset, position,
                 got, error, taken>>

AtEnd == wire = <<>> /\ closed

(* strm->Read(buff, want) returned n bytes of the body.                    *)
Deliver(n) ==
  /\ n <= want
  /\ n <= Len(wire)
  /\ \A k \in 1 .. n : wire[k][1] = "byte"
  /\ wire' = SubSeq(wire, n + 1, Len(wire))
  /\ got' = got \o SubSeq(wire, 1, n)
  /\ position' = position + n

Fail(why) == reader' = "error" /\ error' = why

ReadBody ==
  /\ reader \in {"body", "raw"}
  /\ \E n \in 1 .. want : Deliver(n)
  /\ reader' = "ready"
  /\ UNCHANGED <<mode, closed, cut, writerVars, want, read, offset, error,
                 taken>>

ReadChunk ==
  /\ reader = "chunk"
  /\ \E n \in 1 .. want :
       /\ Deliver(n)
       /\ offset' = offset + n
       /\ reader' = IF offset + n >= read THEN "crlf" ELSE "ready"
  /\ UNCHANGED <<mode, closed, cut, writerVars, want, read, error, taken>>

(* The first bytes of a chunk, in the call that read its size line.        *)
ReadFirst ==
  /\ reader = "first"
  /\ \E n \in 1 .. want :
       /\ Deliver(n)
       /\ offset' = offset + n
       /\ taken' = (taken \/ n = read)
  /\ reader' = "ready"
  /\ UNCHANGED <<mode, closed, cut, writerVars, want, read, error>>

(* The underlying stream ended where bytes of the body were due: one of    *)
(* the three exceptions for an incomplete body.                            *)
ReadNothing ==
  /\ AtEnd
  /\ \/ reader = "body" /\ Fail("Incomplete")
     \/ reader = "chunk" /\ Fail("InChunk")
     \/ reader = "first" /\ Fail("AfterSize")
     \/ reader = "raw" /\ reader' = "eof" /\ UNCHANGED error
  /\ UNCHANGED <<mode, wire, closed, cut, writerVars, want, read, offset,
                 position, got, taken>>

(* ReadLine at the start of a chunk.                                       *)
ReadSizeLine ==
  /\ reader = "size"
  /\ wire # <<>>
  /\ Head(wire)[1] = "size"
  /\ wire' = Tail(wire)
  /\ read' = Head(wire)[2]
  /\ IF read' = 0 THEN /\ reader' = "trailer"
                       /\ UNCHANGED <<offset, want>>
                  ELSE /\ reader' = "first"
                       /\ offset' = 0
                       /\ want' = Least(read', want)
  /\ UNCHANGED <<mode, closed, cut, writerVars, position, got, error, taken>>

(* An empty line, or none at all, where a size line was due.               *)
ReadEmptySize ==
  /\ reader = "size"
  /\ AtEnd \/ (wire # <<>> /\ Head(wire) = EmptyLine)
  /\ wire' = IF AtEnd THEN wire ELSE Tail(wire)
  /\ IF position > 0 THEN Fail("NoFinalChunk")
                     ELSE reader' = "eof" /\ UNCHANGED error
  /\ UNCHANGED <<mode, closed, cut, writerVars, want, read, offset, position,
                 got, taken>>

(* ReadLine after a chunk, or after the line of the final chunk: whatever  *)
(* line there is, none at all included.                                    *)
SkipLine ==
  /\ reader \in {"crlf", "trailer"}
  /\ AtEnd \/ (wire # <<>> /\ Head(wire) = EmptyLine)
  /\ wire' = IF AtEnd THEN wire ELSE Tail(wire)
  /\ reader' = IF reader = "crlf" THEN "ready" ELSE "eof"
  /\ UNCHANGED <<mode, closed, cut, writerVars, want, read, offset, position,
                 got, error, taken>>

Read == \/ \E len \in ReadSizes : ReadCall(len)
        \/ ReadBody \/ ReadChunk \/ ReadFirst \/ ReadNothing
        \/ ReadSizeLine \/ ReadEmptySize \/ SkipLine

Finished == reader \in {"eof", "error"} /\ writer = "destroyed" /\ closed

Next == \/ \E len \in WriteSizes : Write(len)
        \/ Close \/ Destroy \/ CloseConnection \/ LoseConnection
        \/ Read
        \/ Finished /\ UNCHANGED vars

(* The reader keeps calling Read and the writer's stream is destroyed in   *)
(* the end; a connection that is not framed is closed then.                *)
Spec == /\ Init /\ [][Next]_vars
        /\ WF_vars(Read) /\ WF_vars(Destroy) /\ WF_vars(CloseConnection)

-----------------------------------------------------------------------------
(* The types of the variables.                                             *)
TypeOK ==
  /\ mode \in Modes
  /\ closed \in BOOLEAN /\ cut \in BOOLEAN
  /\ sent \in Nat
  /\ writer \in {"open", "closed", "destroyed"}
  /\ finals \in Nat
  /\ reader \in {"ready", "body", "raw", "size", "first", "chunk", "crlf",
                 "trailer", "eof", "error"}
  /\ want \in Nat /\ read \in Nat /\ offset \in Nat /\ position \in Nat
  /\ taken \in BOOLEAN
  /\ error \in {"none", "Incomplete", "InChunk",
                "AfterSize", "NoFinalChunk"}

(* The application reads the bytes that were written, in order, without    *)
(* gap or repetition, whatever the sizes of the writes and of the reads.   *)
InOrder == got = Bytes(0, Len(got)) /\ Len(got) <= sent

(* The final chunk is written at most once, and not before Close or the    *)
(* destructor.                                                             *)
OneFinalChunk == finals <= 1 /\ (finals = 1 => writer # "open")

(* The variables have their types, and what was read is what was written.  *)
Inv == TypeOK /\ InOrder /\ OneFinalChunk

(* When Read reports the end of a framed body without an exception, the    *)
(* whole body was read and nothing of the message is left on the           *)
(* connection; the one exception is a chunked body of which nothing        *)
(* arrived, which is taken for an empty one.                               *)
EofIsComplete ==
  reader = "eof" /\ Framed =>
    \/ wire = <<>> /\ IF mode.length >= 0 THEN position = mode.length
                                          ELSE position = sent /\ finals = 1
    \/ Chunked /\ position = 0 /\ cut

(* "Incomplete Read" is thrown only when the connection closed too early.  *)
IncompleteMeansClosed ==
  error \in {"Incomplete", "InChunk", "AfterSize"} =>
    closed /\ Len(got) < sent + (IF mode.length > 0 THEN mode.length - sent ELSE 0)

(* Both ends of a body mean what they say: a clean one that the body is    *)
(* complete, an exception that the connection closed before it was         *)
(* (HttpStream.cpp:68-163).                                                *)
CleanEndIsComplete == EofIsComplete /\ IncompleteMeansClosed

(* "connection closed before final 0 chunk" is thrown only when the        *)
(* connection was closed (HttpStream.cpp:124).                             *)
NoFinalChunkMeansClosed == error = "NoFinalChunk" => closed

(* Reading ends, with an exception or without.                             *)
ReadingEnds == <>(reader \in {"eof", "error"})

(* On a connection that is not lost the reader gets the whole body without *)
(* an exception, unless the writer promised more bytes than it wrote, or   *)
(* one Read took a whole chunk (NoFinalChunkMeansClosed).                  *)
WholeBodyArrives ==
  [](~cut) =>
    <>( \/ reader = "eof" /\ position = sent /\ writer = "destroyed"
        \/ sent < mode.length /\ writer = "destroyed"
        \/ taken )
=============================================================================
