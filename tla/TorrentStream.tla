---------------------------- MODULE TorrentStream ----------------------------
(***************************************************************************)
(* Tesses::Framework::BitTorrent (TorrentStream.cpp): blocks at offsets of *)
(* a torrent, laid over the files of the torrent one after another.  A     *)
(* TorrentFileStream has one file, a TorrentDirectoryStream several.       *)
(*                                                                         *)
(* Threads write blocks at the same time, a file at a time under its       *)
(* mutex; the stream of a single file is closed, which writes what fwrite  *)
(* kept in its buffer, after the mutex was released.  A reader takes no    *)
(* mutex.  The file system is LocalFS, whose OpenFile is fopen: mode "wb"  *)
(* makes the file empty, and a file that cannot be opened makes the first  *)
(* Write throw, with the mutex locked.                                     *)
(*                                                                         *)
(* A block may go beyond the end of the torrent, or begin there.  Of a     *)
(* directory such a block is cut at the end of the last entry.  Of a       *)
(* single file it is cut too, and returns at once when it begins at the    *)
(* end; when it begins beyond the end, the number of bytes to write is     *)
(* negative, as a size_t huge, and what lies behind the caller's buffer is *)
(* written until that fails or the process dies.                           *)
(***************************************************************************)
EXTENDS Integers, Sequences, FiniteSetsExt

CONSTANTS
  Torrents,     \* [single |-> is it a TorrentFileStream?, lengths |-> of the entries]
  Writers,      \* threads that call WriteBlockAt
  Nobody,       \* no owner of a mutex, no write
  Beyond,       \* bound: how far behind the end a block may begin
  MaxBlock,     \* bound: the length of a block
  MaxStray,     \* bound: bytes written from behind a caller's buffer
  MaxWrites,    \* bound: calls of WriteBlockAt
  MaxFailures   \* bound: files that cannot be opened, or made a directory for

VARIABLES
  torrent,   \* the stream under test
  files,     \* what is in each file, or Missing
  owner,     \* who holds the mutex of each file
  left,      \* files whose mutex stays locked, since a write to them threw
  writer,    \* the call each writer is in
  reader,    \* the call of ReadBlockAt
  writes,    \* history: the range of every call of WriteBlockAt
  last       \* history: the last write, if no other ran beside it

vars == <<torrent, files, owner, left, writer, reader, writes, last>>

(* Bytes are named for the write they come from and their place in it.     *)
Hole == <<0, 0>>                  \* a byte between the end and a seek
Stale == <<-1, 0>>                \* what was in the caller's buffer before
Wild == <<-2, 0>>                 \* a byte from behind the caller's buffer
Missing == <<Stale>>              \* there is no such file

Entries == 1 .. Len(torrent.lengths)
Offsets(lengths) ==                \* currentOffset
  LET from[i \in 1 .. Len(lengths) + 1] ==
        IF i = 1 THEN 0 ELSE from[i - 1] + lengths[i - 1]
  IN from
Start(i) == Offsets(torrent.lengths)[i]
Total == Start(Len(torrent.lengths) + 1)
Ranges == [offset : 0 .. Total + Beyond, len : 0 .. MaxBlock]

Lesser(a, b) == IF a < b THEN a ELSE b
Greater(a, b) == IF a > b THEN a ELSE b

NoRead == [at |-> "idle", of |-> 0]
Idle == \A w \in Writers : writer[w].at = "idle"
Covers(r, x) == r.offset <= x /\ x < r.offset + r.len
Inside(r, q) == r.offset >= q.offset /\ r.offset + r.len <= q.offset + q.len

Init ==
  /\ torrent \in Torrents
  /\ files = [i \in Entries |-> Missing]
  /\ owner = [i \in Entries |-> Nobody]
  /\ left = {}
  /\ writer = [w \in Writers |-> [at |-> "idle"]]
  /\ reader = NoRead
  /\ writes = <<>>
  /\ last = 0

-----------------------------------------------------------------------------
(* Faulty forms of some definitions below.  No specification here uses     *)
(* them: each one breaks a property, which shows that it can fail.         *)
SegmentFromStart(r, i) ==     \* the place in the buffer is not moved on
  LET base == Start(i)
  IN [fstart |-> Greater(0, r.offset - base),
      fend   |-> Lesser(r.offset + r.len - base, torrent.lengths[i]),
      bstart |-> 0]

KeepMutex(w) ==               \* the mutex is not unlocked
  /\ writer[w].at = "open"
  /\ writer' = [writer EXCEPT ![w].at = "next", ![w].rest = @ \ {Min(@)}]
  /\ UNCHANGED <<torrent, files, owner, left, reader, writes, last>>

-----------------------------------------------------------------------------
(* Does a range lead to entry i?  In a directory every entry it meets, and *)
(* also one that ends where the range begins or begins where it ends.      *)
Touched(r, i) ==
  LET first == Start(i)
      end == first + torrent.lengths[i]
      stop == r.offset + r.len
  IN torrent.single \/ (stop >= first /\ r.offset <= end)

(* The part of the file, and where it begins in the caller's buffer.       *)
Segment(r, i) ==
  LET base == Start(i)
  IN [fstart |-> Greater(0, r.offset - base),
      fend   |-> Lesser(r.offset + r.len - base, torrent.lengths[i]),
      bstart |-> Greater(0, base - r.offset)]

(* The entries a call goes to, the first of those left at a time.          *)
Path(r) == {i \in Entries : Touched(r, i)}

(* A single file: no byte is left to write, which returns at once; or less *)
(* than none, which is a huge number.                                      *)
ToWrite(r) == Lesser(r.len, torrent.lengths[1] - r.offset)
WritePath(r) == IF torrent.single /\ ToWrite(r) = 0 THEN {} ELSE Path(r)
Astray(r) == torrent.single /\ r.offset > torrent.lengths[1]

(* A reader of a single file asks it for any bytes.                        *)
ReadSegment(r, i) ==
  IF torrent.single
    THEN [fstart |-> r.offset, fend |-> r.offset + r.len, bstart |-> 0]
    ELSE Segment(r, i)

(* The k-th byte from where the caller's buffer begins.                    *)
ByteOf(id, k) == IF k <= writes[id].len THEN <<id, k>> ELSE Wild

(* WriteBlock at fstart: what lay behind the end becomes a hole.           *)
Put(file, s, id) ==
  IF s.fend = s.fstart THEN file
  ELSE [p \in 1 .. Greater(Len(file), s.fend) |->
          IF p > s.fstart /\ p <= s.fend THEN ByteOf(id, s.bstart + p - s.fstart)
          ELSE IF p <= Len(file) THEN file[p] ELSE Hole]

-----------------------------------------------------------------------------
(* WriteBlockAt, one entry after another.                                  *)
WriteBlockAt(w, r) ==
  /\ writer[w].at = "idle"
  /\ Len(writes) < MaxWrites
  /\ writes' = Append(writes, r)
  /\ writer' = [writer EXCEPT ![w] =
       [at |-> "next", id |-> Len(writes) + 1, rest |-> WritePath(r)]]
  /\ last' = IF Idle THEN Len(writes) + 1 ELSE 0
  /\ reader' = IF reader.at = "idle" THEN NoRead ELSE [reader EXCEPT !.of = 0]
  /\ UNCHANGED <<torrent, files, owner, left>>

(* Lock, then OpenFile with "wb".                                          *)
OpenForWriting(w) ==
  /\ writer[w].at = "next"
  /\ writer[w].rest # {}
  /\ LET i == Min(writer[w].rest)
     IN /\ owner[i] \in {Nobody, w}
        /\ owner' = [owner EXCEPT ![i] = w]
        /\ files' = [files EXCEPT ![i] = <<>>]
  /\ writer' = [writer EXCEPT ![w].at = "open"]
  /\ UNCHANGED <<torrent, left, reader, writes, last>>

(* Seek, WriteBlock and Unlock.  In a directory the stream is closed before *)
(* the Unlock; in a single file the bytes may still be in its buffer.       *)
WriteSegment(w) ==
  /\ writer[w].at = "open"
  /\ ~Astray(writes[writer[w].id])
  /\ LET i == Min(writer[w].rest)
         id == writer[w].id
     IN /\ \/ /\ files' = [files EXCEPT ![i] = Put(@, Segment(writes[id], i), id)]
              /\ writer' = [writer EXCEPT ![w].at = "next", ![w].rest = @ \ {i}]
           \/ /\ torrent.single
              /\ files' = files
              /\ writer' = [writer EXCEPT ![w].at = "unlocked"]
        /\ owner' = [owner EXCEPT ![i] = IF i \in left THEN @ ELSE Nobody]
  /\ UNCHANGED <<torrent, left, reader, writes, last>>

(* The destructor of the stream: fclose writes the buffer.                 *)
CloseStream(w) ==
  /\ writer[w].at = "unlocked"
  /\ LET i == Min(writer[w].rest)
         id == writer[w].id
     IN /\ files' = [files EXCEPT ![i] = Put(@, Segment(writes[id], i), id)]
        /\ writer' = [writer EXCEPT ![w].at = "next", ![w].rest = @ \ {i}]
  /\ UNCHANGED <<torrent, owner, left, reader, writes, last>>

(* The block begins beyond the end of a single file: the caller's bytes    *)
(* and then others go into it, as many as can be written before WriteBlock *)
(* throws, past the Unlock.  Where the process dies instead, this is its   *)
(* last step.                                                              *)
WriteAstray(w) ==
  /\ writer[w].at = "open"
  /\ Astray(writes[writer[w].id])
  /\ LET i == Min(writer[w].rest)
         id == writer[w].id
         r == writes[id]
     IN /\ \E n \in 0 .. r.len + MaxStray :
             files' = [files EXCEPT ![i] =
               Put(@, [fstart |-> r.offset, fend |-> r.offset + n, bstart |-> 0], id)]
        /\ left' = left \cup {i}
  /\ writer' = [writer EXCEPT ![w] = [at |-> "idle"]]
  /\ last' = 0
  /\ UNCHANGED <<torrent, owner, reader, writes>>

(* The directory of the file is not there and cannot be made, before the   *)
(* mutex is taken.                                                         *)
DirectoryFails(w) ==
  /\ writer[w].at = "next"
  /\ writer[w].rest # {}
  /\ ~torrent.single
  /\ Cardinality(left) < MaxFailures
  /\ writer' = [writer EXCEPT ![w] = [at |-> "idle"]]
  /\ last' = 0
  /\ UNCHANGED <<torrent, files, owner, left, reader, writes>>

(* The file cannot be opened.  Without a byte to write nobody notices;     *)
(* otherwise the exception leaves WriteBlockAt past the Unlock.            *)
OpenFails(w) ==
  /\ writer[w].at = "next"
  /\ writer[w].rest # {}
  /\ Cardinality(left) < MaxFailures
  /\ LET i == Min(writer[w].rest)
         s == Segment(writes[writer[w].id], i)
     IN /\ owner[i] \in {Nobody, w}
        /\ \/ /\ s.fstart = s.fend
              /\ writer' = [writer EXCEPT ![w].rest = @ \ {i}]
              /\ UNCHANGED <<owner, left>>
           \/ /\ s.fstart # s.fend
              /\ writer' = [writer EXCEPT ![w] = [at |-> "idle"]]
              /\ owner' = [owner EXCEPT ![i] = w]
              /\ left' = left \cup {i}
  /\ last' = 0
  /\ UNCHANGED <<torrent, files, reader, writes>>

WriteReturns(w) ==
  /\ writer[w].at = "next"
  /\ writer[w].rest = {}
  /\ writer' = [writer EXCEPT ![w] = [at |-> "idle"]]
  /\ UNCHANGED <<torrent, files, owner, left, reader, writes, last>>

-----------------------------------------------------------------------------
(* ReadBlockAt: false at the first entry whose file is missing, true when  *)
(* all were read; what a file does not have stays as it was in the buffer. *)
ReadBlockAt(r) ==
  /\ reader.at = "idle"
  /\ reader' = [at |-> "next", offset |-> r.offset, len |-> r.len, rest |-> Path(r),
                got |-> [k \in 1 .. r.len |-> Stale], ok |-> TRUE,
                of |-> IF Idle THEN last ELSE 0]
  /\ UNCHANGED <<torrent, files, owner, left, writer, writes, last>>

ReadEntry ==
  /\ reader.at = "next"
  /\ reader.rest # {}
  /\ LET i == Min(reader.rest)
         s == ReadSegment(reader, i)
         there == {k \in 1 .. reader.len :
                     /\ k > s.bstart /\ k - s.bstart <= s.fend - s.fstart
                     /\ s.fstart + k - s.bstart <= Len(files[i])}
     IN reader' =
          IF files[i] = Missing
            THEN [reader EXCEPT !.ok = FALSE, !.rest = {}]
            ELSE [reader EXCEPT !.rest = @ \ {i},
                    !.got = [k \in DOMAIN @ |-> IF k \in there
                               THEN files[i][s.fstart + k - s.bstart] ELSE @[k]]]
  /\ UNCHANGED <<torrent, files, owner, left, writer, writes, last>>

ReadReturns ==
  /\ reader.at = "next"
  /\ reader.rest = {}
  /\ reader' = NoRead
  /\ UNCHANGED <<torrent, files, owner, left, writer, writes, last>>

Write(w) ==
  \/ OpenForWriting(w) \/ WriteSegment(w) \/ CloseStream(w)
  \/ WriteReturns(w)

Next ==
  \/ \E w \in Writers :
       \/ Write(w) \/ WriteAstray(w) \/ DirectoryFails(w) \/ OpenFails(w)
       \/ \E r \in Ranges : WriteBlockAt(w, r)
  \/ (\E r \in Ranges : ReadBlockAt(r)) \/ ReadEntry \/ ReadReturns

Spec == Init /\ [][Next]_vars

-----------------------------------------------------------------------------
TypeOK ==
  /\ torrent \in Torrents
  /\ owner \in [Entries -> Writers \cup {Nobody}]
  /\ left \subseteq Entries
  /\ \A w \in Writers : writer[w].at \in {"idle", "next", "open", "unlocked"}
  /\ reader.at \in {"idle", "next"}
  /\ writes \in Seq(Ranges)
  /\ last \in 0 .. Len(writes)

(* A byte of a write is where its offset says: entry i holds the bytes of  *)
(* the torrent from Start(i) on, whatever ran beside it and wherever a     *)
(* write failed; and no file outgrows its entry, but a single one that a   *)
(* block was written to that begins beyond its end: behind the end there   *)
(* are such blocks only, and what lay behind the buffers they came from    *)
(* (TorrentStream.cpp:44-57, 125-142).                                     *)
Placed ==
  \A i \in Entries : files[i] # Missing => \A p \in DOMAIN files[i] :
    LET byte == files[i][p]
        strays == {n \in DOMAIN writes : Astray(writes[n])}
    IN /\ byte \notin {Hole, Wild} => writes[byte[1]].offset + byte[2] = Start(i) + p
       /\ byte = Wild => p > torrent.lengths[i]
       /\ p > torrent.lengths[i] =>
            strays # {} /\ (byte \in {Hole, Wild} \/ byte[1] \in strays)

(* What a reader gets for an offset was written to that offset, or nobody  *)
(* wrote it; what no caller wrote it gets only behind the end; and a block *)
(* read after a write that ran alone, and inside it, is what was written,  *)
(* up to the end of the torrent and across every boundary between files:   *)
(* if any of it is in the torrent, it is read without an error             *)
(* (TorrentStream.cpp:34-148).                                             *)
ReadBack ==
  (reader.at = "next" /\ reader.rest = {}) =>
    LET inTorrent == {k \in DOMAIN reader.got : reader.offset + k <= Total}
    IN /\ \A k \in DOMAIN reader.got :
            /\ reader.got[k] \notin {Stale, Hole, Wild} =>
                 writes[reader.got[k][1]].offset + reader.got[k][2] = reader.offset + k
            /\ reader.got[k] = Wild => k \notin inTorrent
       /\ (reader.of # 0 /\ Inside(reader, writes[reader.of])) =>
            /\ inTorrent # {} => reader.ok
            /\ \A k \in inTorrent : reader.got[k][1] = reader.of

Inv == TypeOK /\ Placed /\ ReadBack

(* Whoever waits for a file waits for a thread that writes and then gives  *)
(* the file back, so no two threads wait for each other, in whatever order *)
(* they come to the files; only a file whose write threw stays locked: it  *)
(* could not be opened, or the block began beyond the end of the single    *)
(* one (TorrentStream.cpp:52-56, 138-144).                                 *)
LocksGivenBack ==
  \A i \in Entries : owner[i] # Nobody =>
    \/ i \in left
    \/ writer[owner[i]].at = "open" /\ Min(writer[owner[i]].rest) = i

(* What was written stays: when no write is active and none failed, every  *)
(* offset that some write covered holds a byte of such a write.  It does   *)
(* not: opening a file for the next block empties it (the mode "wb" of     *)
(* TorrentStream.cpp:53 and :140).                                         *)
WrittenStays ==
  (Idle /\ left = {}) =>
    \A i \in Entries, n \in DOMAIN writes : \A p \in 1 .. torrent.lengths[i] :
      Covers(writes[n], Start(i) + p - 1) =>
        /\ files[i] # Missing
        /\ p <= Len(files[i]) /\ files[i][p] # Hole
=============================================================================
