---------------------------- MODULE FilesProofs ----------------------------
(***************************************************************************)
(* What the two halves of MCFiles keep, for any torrent, any number of     *)
(* writers, of writes and of files that cannot be opened, and for any      *)
(* file systems, names, depth and number of entries.                       *)
(*                                                                         *)
(* The blocks of a torrent: every byte is where its offset says, a block   *)
(* is read as it was written, and no mutex stays locked but that of a file *)
(* that could not be opened.  The inductive invariant TorrentIInv says of  *)
(* a call that is under way which entries it still goes to, and from that  *)
(* which it has left behind: a write that runs alone has filled them       *)
(* (Alone), and a read that began after it has got their bytes (Reading).  *)
(* That the parts of a range cover it and do not overlap is shown first,   *)
(* for the recursive function that says where the entries begin.           *)
(*                                                                         *)
(* The mounts: the objects form a tree, listings show what can be reached, *)
(* and no operation reaches what a mount hides.  The inductive invariant   *)
(* MountsIInv adds to Inv that the entries of every file system form a     *)
(* tree too (Trees); what GetFS finds is the deepest object on the way     *)
(* that has a file system (Found), and what a step adds or takes away is   *)
(* what GetFS found for some path (EntriesReached).                        *)
(***************************************************************************)
EXTENDS MCFiles, QueueLemmas

-----------------------------------------------------------------------------
(* The places of the entries of a torrent: a recursive function, proved to *)
(* be what it says by induction over a set of numbers.                     *)
Sums(f, L, k) ==
  /\ f \in [1 .. k + 1 -> Nat] /\ f[1] = 0
  /\ \A i \in 1 .. k : f[i + 1] = f[i] + L[i]

(* There is such a function: one more entry at a time.                     *)
LEMMA SumsExist ==
  ASSUME NEW L \in Seq(Nat)
  PROVE  \E f : Sums(f, L, Len(L))
<1> DEFINE S == {k \in Nat : k <= Len(L) => \E f : Sums(f, L, k)}
<1>0. Len(L) \in Nat /\ \A i \in 1 .. Len(L) : L[i] \in Nat
  BY LenProperties, ElementOfSeq
<1>1. 0 \in S
  <2> DEFINE f == [i \in 1 .. 0 + 1 |-> 0]
  <2>1. Sums(f, L, 0)
    BY DEF Sums
  <2> QED BY <2>1
<1>2. ASSUME NEW n \in Nat, n \in S PROVE n + 1 \in S
  <2>1. SUFFICES ASSUME n + 1 <= Len(L) PROVE \E f : Sums(f, L, n + 1)
    OBVIOUS
  <2>2. n <= Len(L)
    BY <1>0, <2>1
  <2>3. PICK f : Sums(f, L, n)
    BY <1>2, <2>2
  <2> DEFINE g == [i \in 1 .. n + 2 |-> IF i = n + 2 THEN f[n + 1] + L[n + 1] ELSE f[i]]
  <2>4. f[n + 1] \in Nat /\ L[n + 1] \in Nat
    BY <1>0, <2>1, <2>3 DEF Sums
  <2>5. /\ f \in [1 .. n + 1 -> Nat] /\ f[1] = 0
        /\ \A i \in 1 .. n : f[i + 1] = f[i] + L[i]
    BY <2>3 DEF Sums
  <2>8. g \in [1 .. n + 2 -> Nat]
    BY <2>4, <2>5
  <2>9. /\ \A i \in 1 .. n + 1 : g[i] = f[i]
        /\ g[n + 2] = f[n + 1] + L[n + 1]
    OBVIOUS
  <2> HIDE DEF g
  <2>10. ASSUME NEW i \in 1 .. n + 1 PROVE g[i + 1] = g[i] + L[i]
    <3>1. CASE i = n + 1
      BY <2>9, <3>1
    <3>2. CASE i # n + 1
      <4>1. i \in 1 .. n /\ i + 1 \in 1 .. n + 1
        BY <3>2
      <4> QED BY <2>5, <2>9, <4>1
    <3> QED BY <3>1, <3>2
  <2>11. g[1] = 0
    BY <2>5, <2>9
  <2>6. (n + 1) + 1 = n + 2
    OBVIOUS
  <2>7. Sums(g, L, n + 1)
    BY <2>6, <2>8, <2>10, <2>11 DEF Sums
  <2> QED BY <2>7
<1> HIDE DEF S
<1>3. Len(L) \in S
  BY <1>0, <1>1, <1>2, SetInduction
<1> QED BY <1>3 DEF S

(* Offsets(lengths), which TorrentStream defines recursively, is one.      *)
LEMMA OffsetsAdd ==
  ASSUME NEW L \in Seq(Nat)
  PROVE  Sums(B!Offsets(L), L, Len(L))
<1>0. Len(L) \in Nat /\ \A i \in 1 .. Len(L) : L[i] \in Nat
  BY LenProperties, ElementOfSeq
<1>1. PICK f : Sums(f, L, Len(L))
  BY SumsExist
<1>2. f = [i \in 1 .. Len(L) + 1 |-> IF i = 1 THEN 0 ELSE f[i - 1] + L[i - 1]]
  <2>1. ASSUME NEW i \in 1 .. Len(L) + 1 PROVE f[i] = IF i = 1 THEN 0 ELSE f[i - 1] + L[i - 1]
    <3>1. CASE i = 1
      BY <1>1, <3>1 DEF Sums
    <3>2. CASE i # 1
      <4>1. i - 1 \in 1 .. Len(L) /\ (i - 1) + 1 = i
        BY <1>0, <3>2
      <4>2. f[(i - 1) + 1] = f[i - 1] + L[i - 1]
        BY <1>1, <4>1 DEF Sums
      <4> QED BY <3>2, <4>1, <4>2
    <3> QED BY <3>1, <3>2
  <2> QED BY <1>1, <2>1 DEF Sums
<1>3. B!Offsets(L) = [i \in 1 .. Len(L) + 1 |-> IF i = 1 THEN 0 ELSE B!Offsets(L)[i - 1] + L[i - 1]]
  BY <1>2 DEF B!Offsets
<1> DEFINE g == B!Offsets(L)
<1> HIDE DEF g
<1>4. g = [i \in 1 .. Len(L) + 1 |-> IF i = 1 THEN 0 ELSE g[i - 1] + L[i - 1]]
  BY <1>3 DEF g
<1>5. DOMAIN g = 1 .. Len(L) + 1 /\ g[1] = 0
  BY <1>0, <1>4
<1>6. \A i \in 1 .. Len(L) : g[i + 1] = g[i] + L[i]
  <2> TAKE i \in 1 .. Len(L)
  <2>1. i + 1 \in 1 .. Len(L) + 1 /\ i + 1 # 1 /\ (i + 1) - 1 = i
    BY <1>0
  <2> QED BY <1>4, <2>1
<1> DEFINE N == {k \in Nat : k <= Len(L) => g[k + 1] \in Nat}
<1>7. 0 \in N
  BY <1>5
<1>8. ASSUME NEW n \in Nat, n \in N PROVE n + 1 \in N
  <2> SUFFICES ASSUME n + 1 <= Len(L) PROVE g[(n + 1) + 1] \in Nat
    OBVIOUS
  <2>1. g[n + 1] \in Nat /\ n + 1 \in 1 .. Len(L)
    BY <1>0, <1>8
  <2> QED BY <1>0, <1>6, <2>1
<1> HIDE DEF N
<1>9. Nat \subseteq N
  BY <1>7, <1>8, SetInduction
<1>10. ASSUME NEW i \in 1 .. Len(L) + 1 PROVE g[i] \in Nat
  <2>1. i - 1 \in N /\ i - 1 <= Len(L) /\ (i - 1) + 1 = i
    BY <1>0, <1>9
  <2>2. g[(i - 1) + 1] \in Nat
    BY <2>1 DEF N
  <2> QED BY <2>1, <2>2
<1>11. g \in [1 .. Len(L) + 1 -> Nat]
  <2> DEFINE h == [i \in 1 .. Len(L) + 1 |-> IF i = 1 THEN 0 ELSE g[i - 1] + L[i - 1]]
  <2>1. g = h
    BY <1>4
  <2>2. h = [i \in 1 .. Len(L) + 1 |-> h[i]]
    OBVIOUS
  <2> HIDE DEF h
  <2> QED BY <1>10, <2>1, <2>2
<1> QED BY <1>5, <1>6, <1>11 DEF Sums, g

(* Any offset and length.                                                  *)
IsRange(r) == r.offset \in Nat /\ r.len \in Nat

(* Segment, Touched, ReadSegment and Astray, of a torrent that is an       *)
(* argument; and the entries a write goes to.                              *)
Part(L, r, i) ==
  LET base == B!Offsets(L)[i]
  IN [fstart |-> B!Greater(0, r.offset - base),
      fend   |-> B!Lesser(r.offset + r.len - base, L[i]),
      bstart |-> B!Greater(0, base - r.offset)]

Goes(t, r, i) ==
  t.single \/ /\ r.offset + r.len >= B!Offsets(t.lengths)[i]
              /\ r.offset <= B!Offsets(t.lengths)[i] + t.lengths[i]

ReadPart(t, r, i) ==
  IF t.single THEN [fstart |-> r.offset, fend |-> r.offset + r.len, bstart |-> 0]
              ELSE Part(t.lengths, r, i)

Stray(t, r) == t.single /\ r.offset > t.lengths[1]

Wants(t, r) == ~(t.single /\ B!Lesser(r.len, t.lengths[1] - r.offset) = 0)

EndOf(t) == B!Offsets(t.lengths)[Len(t.lengths) + 1]

(* What is known of a torrent and of an entry of it.                       *)
LEMMA PlacesOf ==
  ASSUME NEW t \in Torrents, NEW i \in 1 .. Len(t.lengths)
  PROVE  /\ t.lengths \in Seq(Nat) /\ t.single \in BOOLEAN /\ Len(t.lengths) \in Nat
         /\ t.single => Len(t.lengths) = 1
         /\ t.lengths[i] \in Nat /\ B!Offsets(t.lengths)[i] \in Nat
         /\ B!Offsets(t.lengths)[i + 1] = B!Offsets(t.lengths)[i] + t.lengths[i]
         /\ B!Offsets(t.lengths)[1] = 0
<1>1. t.lengths \in Seq(Nat) /\ t.single \in BOOLEAN /\ (t.single => Len(t.lengths) = 1)
  BY TorrentsAssumption
<1>2. Sums(B!Offsets(t.lengths), t.lengths, Len(t.lengths))
  BY <1>1, OffsetsAdd
<1>3. Len(t.lengths) \in Nat /\ t.lengths[i] \in Nat
  BY <1>1, LenProperties, ElementOfSeq
<1>4. i \in 1 .. Len(t.lengths) + 1
  BY <1>3
<1> DEFINE o == B!Offsets(t.lengths)
<1> HIDE DEF o
<1>5. Sums(o, t.lengths, Len(t.lengths))
  BY <1>2 DEF o
<1>6. o[i] \in Nat /\ o[1] = 0 /\ o[i + 1] = o[i] + t.lengths[i]
  BY <1>4, <1>5 DEF Sums
<1> QED BY <1>1, <1>3, <1>6 DEF o

(* A single file is the whole torrent.                                     *)
LEMMA SingleIs ==
  ASSUME NEW t \in Torrents, t.single, NEW i \in 1 .. Len(t.lengths)
  PROVE  /\ i = 1 /\ B!Offsets(t.lengths)[i] = 0
         /\ EndOf(t) = t.lengths[1] /\ t.lengths[1] \in Nat
<1>1. Len(t.lengths) = 1
  BY PlacesOf
<1>2. i = 1
  BY <1>1
<1>3. /\ t.lengths[1] \in Nat /\ B!Offsets(t.lengths)[1] = 0
      /\ B!Offsets(t.lengths)[1 + 1] = B!Offsets(t.lengths)[1] + t.lengths[1]
  BY <1>2, PlacesOf
<1>4. EndOf(t) = B!Offsets(t.lengths)[1 + 1]
  BY <1>1 DEF EndOf
<1> QED BY <1>2, <1>3, <1>4

(* The part of a file a range leads to lies in the file and in the buffer, *)
(* and the two have the same place in the torrent.                         *)
LEMMA PartInPlace ==
  ASSUME NEW t \in Torrents, NEW i \in 1 .. Len(t.lengths), NEW r,
         IsRange(r), Goes(t, r, i), ~Stray(t, r)
  PROVE  LET s == Part(t.lengths, r, i)
         IN /\ s.fstart \in Nat /\ s.fend \in Nat /\ s.bstart \in Nat
            /\ s.fstart <= s.fend /\ s.fend <= t.lengths[i]
            /\ r.offset + s.bstart = B!Offsets(t.lengths)[i] + s.fstart
            /\ s.bstart + s.fend - s.fstart <= r.len
<1> DEFINE base == B!Offsets(t.lengths)[i]
           n == t.lengths[i]
           x == r.offset
           len == r.len
<1>1. base \in Nat /\ n \in Nat /\ x \in Nat /\ len \in Nat
  BY PlacesOf DEF IsRange
<1>2. x + len >= base /\ x <= base + n
  <2>1. CASE t.single
    <3>1. base = 0 /\ i = 1
      BY <2>1, SingleIs
    <3>2. ~(x > n)
      BY <2>1, <3>1 DEF Stray
    <3> HIDE DEF base, n, x, len
    <3> QED BY <1>1, <3>1, <3>2
  <2>2. CASE ~t.single
    BY <2>2 DEF Goes
  <2> QED BY <2>1, <2>2
<1>3. /\ Part(t.lengths, r, i).fstart = IF 0 > x - base THEN 0 ELSE x - base
      /\ Part(t.lengths, r, i).fend = IF x + len - base < n THEN x + len - base ELSE n
      /\ Part(t.lengths, r, i).bstart = IF 0 > base - x THEN 0 ELSE base - x
  BY DEF Part, B!Greater, B!Lesser
<1> DEFINE s == Part(t.lengths, r, i)
<1> HIDE DEF s, base, n, x, len
<1>4. /\ s.fstart \in Nat /\ s.fend \in Nat /\ s.bstart \in Nat
      /\ s.fstart <= s.fend /\ s.fend <= n
      /\ x + s.bstart = base + s.fstart
      /\ s.bstart + s.fend - s.fstart <= len
  BY <1>1, <1>2, <1>3 DEF s
<1> QED BY <1>4 DEF s, base, n, x, len

(* The part a reader asks a file for is at its place, too.                 *)
LEMMA ReadInPlace ==
  ASSUME NEW t \in Torrents, NEW i \in 1 .. Len(t.lengths), NEW r,
         IsRange(r), Goes(t, r, i)
  PROVE  LET s == ReadPart(t, r, i)
         IN /\ s.fstart \in Nat /\ s.fend \in Nat /\ s.bstart \in Nat
            /\ s.fstart <= s.fend
            /\ r.offset + s.bstart = B!Offsets(t.lengths)[i] + s.fstart
<1>1. CASE t.single
  <2>1. B!Offsets(t.lengths)[i] = 0 /\ r.offset \in Nat /\ r.len \in Nat
    BY <1>1, SingleIs DEF IsRange
  <2>2. /\ ReadPart(t, r, i).fstart = r.offset /\ ReadPart(t, r, i).bstart = 0
        /\ ReadPart(t, r, i).fend = r.offset + r.len
    BY <1>1 DEF ReadPart
  <2> QED BY <2>1, <2>2
<1>2. CASE ~t.single
  <2>1. ReadPart(t, r, i) = Part(t.lengths, r, i) /\ ~Stray(t, r)
    BY <1>2 DEF ReadPart, Stray
  <2> QED BY <2>1, PartInPlace
<1> QED BY <1>1, <1>2

(* A range with a byte in the torrent, inside another range: that is not   *)
(* astray, has bytes to write, and goes to every entry the first goes to.  *)
LEMMA GoesToo ==
  ASSUME NEW t \in Torrents, NEW i \in 1 .. Len(t.lengths), NEW r, NEW q,
         IsRange(r), IsRange(q), Goes(t, r, i), B!Inside(r, q),
         r.len > 0, r.offset < EndOf(t)
  PROVE  Goes(t, q, i) /\ Wants(t, q) /\ ~Stray(t, q)
<1> DEFINE base == B!Offsets(t.lengths)[i]
           n == t.lengths[i]
<1>1. /\ base \in Nat /\ n \in Nat /\ r.offset \in Nat /\ r.len \in Nat
      /\ q.offset \in Nat /\ q.len \in Nat
  BY PlacesOf DEF IsRange
<1>2. r.offset >= q.offset /\ r.offset + r.len <= q.offset + q.len
  BY DEF B!Inside
<1>3. t.single \/ (r.offset + r.len >= base /\ r.offset <= base + n)
  BY DEF Goes
<1>4. Goes(t, q, i) <=> (t.single \/ (q.offset + q.len >= base /\ q.offset <= base + n))
  BY DEF Goes
<1> HIDE DEF base, n
<1>5. Goes(t, q, i)
  BY <1>1, <1>2, <1>3, <1>4
<1>6. ASSUME t.single PROVE B!Lesser(q.len, t.lengths[1] - q.offset) # 0 /\ q.offset <= t.lengths[1]
  <2>1. EndOf(t) = t.lengths[1] /\ t.lengths[1] \in Nat
    BY <1>6, SingleIs
  <2> DEFINE l == t.lengths[1]
  <2> HIDE DEF l
  <2>2. l \in Nat /\ r.offset < l
    BY <2>1 DEF l
  <2>3. q.len > 0 /\ l - q.offset > 0 /\ q.offset <= l
    BY <1>1, <1>2, <2>2
  <2>4. B!Lesser(q.len, l - q.offset) = IF q.len < l - q.offset THEN q.len ELSE l - q.offset
    BY DEF B!Lesser
  <2>5. B!Lesser(q.len, l - q.offset) # 0
    BY <1>1, <2>2, <2>3, <2>4
  <2> QED BY <2>3, <2>5 DEF l
<1>7. Wants(t, q)
  BY <1>6 DEF Wants
<1>8. ~Stray(t, q)
  <2>1. t.single => t.lengths[1] \in Nat
    BY SingleIs
  <2> QED BY <1>1, <1>6, <2>1 DEF Stray
<1> QED BY <1>5, <1>7, <1>8

(* Its bytes that lie in the torrent are in the part that is written.      *)
LEMMA PartInside ==
  ASSUME NEW t \in Torrents, NEW i \in 1 .. Len(t.lengths), NEW r, NEW q,
         IsRange(r), IsRange(q), Goes(t, r, i), B!Inside(r, q),
         NEW k \in 1 .. r.len, r.offset + k <= EndOf(t),
         NEW s, s = ReadPart(t, r, i), k > s.bstart, k - s.bstart <= s.fend - s.fstart,
         NEW p, p = s.fstart + k - s.bstart
  PROVE  p > Part(t.lengths, q, i).fstart /\ p <= Part(t.lengths, q, i).fend
<1> DEFINE base == B!Offsets(t.lengths)[i]
           n == t.lengths[i]
<1>1. /\ base \in Nat /\ n \in Nat /\ r.offset \in Nat /\ r.len \in Nat
      /\ q.offset \in Nat /\ q.len \in Nat /\ k \in Nat
  BY PlacesOf DEF IsRange
<1>2. r.offset >= q.offset /\ r.offset + r.len <= q.offset + q.len
  BY DEF B!Inside
<1>3. /\ s.fstart \in Nat /\ s.fend \in Nat /\ s.bstart \in Nat
      /\ r.offset + s.bstart = base + s.fstart
  BY ReadInPlace
<1>4. /\ Part(t.lengths, q, i).fstart = IF 0 > q.offset - base THEN 0 ELSE q.offset - base
      /\ Part(t.lengths, q, i).fend =
           IF q.offset + q.len - base < n THEN q.offset + q.len - base ELSE n
  BY DEF Part, B!Greater, B!Lesser
<1>5. base + p = r.offset + k /\ p \in Int /\ p > 0
  <2>1. PICK u, v, w : u = s.fstart /\ v = s.fend /\ w = s.bstart
    OBVIOUS
  <2>2. PICK x, z : x = r.offset /\ z = base
    OBVIOUS
  <2> HIDE DEF base, n
  <2>3. /\ u \in Nat /\ w \in Nat /\ k > w /\ p = u + k - w
        /\ x + w = z + u /\ x \in Nat /\ z \in Nat /\ k \in Nat
    BY <1>1, <1>3, <2>1, <2>2
  <2>4. z + p = x + k /\ p \in Int /\ p > 0
    BY ONLY <2>3
  <2> QED BY <2>2, <2>4
<1>6. p <= n
  <2>1. CASE t.single
    <3>1. base = 0 /\ EndOf(t) = n
      BY <2>1, SingleIs
    <3> HIDE DEF base, n
    <3> QED BY <1>1, <1>5, <3>1
  <2>2. CASE ~t.single
    <3>1. s = Part(t.lengths, r, i) /\ ~Stray(t, r)
      BY <2>2 DEF ReadPart, Stray
    <3>2. s.fend <= n
      BY <3>1, PartInPlace
    <3> HIDE DEF base, n
    <3>3. PICK u, v, w : u = s.fstart /\ v = s.fend /\ w = s.bstart
      OBVIOUS
    <3>4. /\ u \in Nat /\ v \in Nat /\ w \in Nat /\ k - w <= v - u /\ p = u + k - w
          /\ v <= n
      BY <1>3, <3>2, <3>3
    <3> QED BY <1>1, <3>4
  <2> QED BY <2>1, <2>2
<1> HIDE DEF base, n
<1>7. p > q.offset - base /\ p <= q.offset + q.len - base
  <2>1. PICK x, y, u, v, z : x = r.offset /\ y = r.len /\ u = q.offset /\ v = q.len /\ z = base
    OBVIOUS
  <2>2. /\ x \in Nat /\ y \in Nat /\ u \in Nat /\ v \in Nat /\ z \in Nat
        /\ k \in 1 .. y /\ x >= u /\ x + y <= u + v
        /\ z + p = x + k /\ p \in Int
    BY <1>1, <1>2, <1>5, <2>1
  <2>3. p > u - z /\ p <= u + v - z
    BY ONLY <2>2
  <2> QED BY <2>1, <2>3
<1> QED BY <1>1, <1>4, <1>5, <1>6, <1>7

(* Every byte of a range that lies in the torrent is in the part of some   *)
(* entry.                                                                  *)
LEMMA PartsCover ==
  ASSUME NEW t \in Torrents, NEW r, IsRange(r), NEW k \in 1 .. r.len,
         r.offset + k <= EndOf(t)
  PROVE  \E i \in 1 .. Len(t.lengths) :
           LET s == ReadPart(t, r, i)
           IN Goes(t, r, i) /\ k > s.bstart /\ k - s.bstart <= s.fend - s.fstart
<1> DEFINE o == B!Offsets(t.lengths)
           n == Len(t.lengths)
           x == r.offset + k - 1
           T == {i \in 1 .. n + 1 : x < o[i]}
           m == Min(T)
<1>1. t.lengths \in Seq(Nat) /\ n \in Nat
  BY TorrentsAssumption, LenProperties
<1>2. Sums(o, t.lengths, n)
  BY <1>1, OffsetsAdd
<1>3. /\ r.offset \in Nat /\ r.len \in Nat /\ x < o[n + 1]
      /\ x \in Nat /\ x < r.offset + r.len
  <2>1. r.offset \in Nat /\ r.len \in Nat /\ r.offset + k <= o[n + 1]
    BY DEF IsRange, EndOf
  <2>2. n + 1 \in 1 .. n + 1
    BY <1>1
  <2>3. o[n + 1] \in Nat
    <3> HIDE DEF o, n, x
    <3> QED BY <1>1, <1>2, <2>2 DEF Sums
  <2> HIDE DEF o, n
  <2> QED BY <2>1, <2>3
<1> HIDE DEF o, n, x
<1>4. n + 1 \in T /\ T \in SUBSET Nat
  BY <1>1, <1>2, <1>3 DEF Sums
<1>5. m \in T /\ \A i \in T : m <= i
  BY <1>4, Least
<1> HIDE DEF m
<1>6. m # 1 /\ m \in 1 .. n + 1
  BY <1>2, <1>3, <1>5 DEF Sums
<1>7. m - 1 \in 1 .. n /\ m - 1 \in 1 .. n + 1 /\ m - 1 \notin T /\ (m - 1) + 1 = m
  BY <1>1, <1>5, <1>6
<1> DEFINE i == m - 1
<1> HIDE DEF i
<1>8. i \in 1 .. n /\ o[i] <= x /\ x < o[i + 1] /\ o[i] \in Nat
  BY <1>1, <1>2, <1>3, <1>5, <1>7 DEF Sums, i
<1> HIDE DEF T
<1>9. o[i + 1] = o[i] + t.lengths[i] /\ t.lengths[i] \in Nat
  BY <1>1, <1>2, <1>8, ElementOfSeq DEF Sums, n
<1>10. /\ Part(t.lengths, r, i).fstart = IF 0 > r.offset - o[i] THEN 0 ELSE r.offset - o[i]
       /\ Part(t.lengths, r, i).fend =
            IF r.offset + r.len - o[i] < t.lengths[i] THEN r.offset + r.len - o[i] ELSE t.lengths[i]
       /\ Part(t.lengths, r, i).bstart = IF 0 > o[i] - r.offset THEN 0 ELSE o[i] - r.offset
  BY DEF Part, B!Greater, B!Lesser, o
<1>11. Goes(t, r, i) <=> (t.single \/ (r.offset + r.len >= o[i] /\ r.offset <= o[i] + t.lengths[i]))
  BY DEF Goes, o
<1>12. x = r.offset + k - 1 /\ k \in Int
  BY <1>3 DEF x
<1> DEFINE s == ReadPart(t, r, i)
<1> HIDE DEF s
<1>13. Goes(t, r, i) /\ k > s.bstart /\ k - s.bstart <= s.fend - s.fstart
  <2>1. CASE t.single
    <3>1. s.fstart = r.offset /\ s.fend = r.offset + r.len /\ s.bstart = 0
      BY <2>1 DEF s, ReadPart
    <3>2. k > 0 /\ k - 0 <= (r.offset + r.len) - r.offset
      BY <1>3
    <3> QED BY <1>11, <2>1, <3>1, <3>2
  <2>2. CASE ~t.single
    <3>1. s = Part(t.lengths, r, i)
      BY <2>2 DEF s, ReadPart
    <3> QED BY <1>3, <1>8, <1>9, <1>10, <1>11, <1>12, <3>1
  <2> QED BY <2>1, <2>2
<1> QED BY <1>8, <1>13 DEF s, n

(* What a block leaves of a file and puts into it.                         *)
Bytes == Int \X Int

(* What Put does to a file: a byte of the part comes from the write, every *)
(* other one is a hole or as it was.                                       *)
LEMMA PutBytes ==
  ASSUME NEW file \in Seq(Bytes), NEW s, NEW id \in Int,
         s.fstart \in Nat, s.fend \in Nat, s.bstart \in Nat, s.fstart <= s.fend
  PROVE  LET g == B!Put(file, s, id)
         IN /\ g \in Seq(Bytes)
            /\ Len(g) >= s.fend \/ s.fstart = s.fend
            /\ Len(g) <= s.fend \/ Len(g) = Len(file)
            /\ \A p \in 1 .. Len(g) :
                 IF p > s.fstart /\ p <= s.fend THEN g[p] = B!ByteOf(id, s.bstart + p - s.fstart)
                 ELSE \/ g[p] = B!Hole /\ p <= s.fend
                      \/ p <= Len(file) /\ g[p] = file[p]
<1>1. Len(file) \in Nat /\ \A p \in 1 .. Len(file) : file[p] \in Bytes
  BY LenProperties, ElementOfSeq
<1>2. CASE s.fend = s.fstart
  <2>1. B!Put(file, s, id) = file
    BY <1>2 DEF B!Put
  <2> QED BY <1>1, <1>2, <2>1
<1>3. CASE s.fend # s.fstart
  <2> DEFINE n == B!Greater(Len(file), s.fend)
             byte(p) == IF p > s.fstart /\ p <= s.fend THEN B!ByteOf(id, s.bstart + p - s.fstart)
                        ELSE IF p <= Len(file) THEN file[p] ELSE B!Hole
             g == [p \in 1 .. n |-> byte(p)]
  <2>1. B!Put(file, s, id) = g
    BY <1>3 DEF B!Put
  <2>2. n \in Nat /\ n >= s.fend /\ (n <= s.fend \/ n = Len(file))
    BY <1>1 DEF B!Greater
  <2> HIDE DEF n
  <2>3. ASSUME NEW p \in 1 .. n PROVE byte(p) \in Bytes
    <3>1. ASSUME NEW k \in Int PROVE B!ByteOf(id, k) \in Bytes
      BY DEF B!ByteOf, B!Wild, Bytes
    <3>2. s.bstart + p - s.fstart \in Int
      BY <2>2
    <3>3. p \in Int /\ p >= 1 /\ (p <= Len(file) => file[p] \in Bytes)
      BY <1>1, <2>2
    <3>4. B!Hole \in Bytes
      BY DEF B!Hole, Bytes
    <3>5. B!ByteOf(id, s.bstart + p - s.fstart) \in Bytes
      BY <3>1, <3>2
    <3> QED BY <3>3, <3>4, <3>5
  <2>4. g \in Seq(Bytes) /\ Len(g) = n /\ \A p \in 1 .. n : g[p] = byte(p)
    <3> HIDE DEF byte
    <3> QED BY <2>2, <2>3
  <2>5. \A p \in 1 .. n : p <= Len(file) \/ p <= s.fend
    BY <1>1, <2>2
  <2> HIDE DEF g
  <2> QED BY <2>1, <2>2, <2>4, <2>5
<1> QED BY <1>2, <1>3

-----------------------------------------------------------------------------
(* The inductive invariant of TorrentStream.  A byte that is InPlace comes *)
(* from a write to that offset of the torrent; Right is what Placed says   *)
(* of byte x at place p of file i, and Got what ReadBack says of what a    *)
(* reader got for an offset.                                               *)
InPlace(x, q) ==
  x = B!Hole \/ (x[1] \in 1 .. Len(writes) /\ writes[x[1]].offset + x[2] = q)

Strayed(n) == n \in 1 .. Len(writes) /\ Stray(torrent, writes[n])

Right(i, p, x) ==
  /\ \/ InPlace(x, B!Offsets(torrent.lengths)[i] + p)
     \/ x = B!Wild /\ p > torrent.lengths[i]
  /\ p > torrent.lengths[i] =>
       (\E n : Strayed(n)) /\ (x = B!Hole \/ x = B!Wild \/ Strayed(x[1]))

Got(x, q) == x = B!Stale \/ InPlace(x, q) \/ (x = B!Wild /\ q > EndOf(torrent))

FilesPlaced ==
  /\ files \in [B!Entries -> Seq(Bytes)]
  /\ \A i \in B!Entries : files[i] # B!Missing =>
       \A p \in 1 .. Len(files[i]) : Right(i, p, files[i][p])

Owners ==
  /\ torrent \in Torrents
  /\ owner \in [B!Entries -> Writers \cup {None}]
  /\ left \subseteq B!Entries
  /\ writes \in Seq(B!Ranges) /\ last \in 0 .. Len(writes)

(* A call of WriteBlockAt goes only to entries its range leads to, and a   *)
(* file it has open is there.                                              *)
Calls ==
  /\ DOMAIN writer = Writers
  /\ \A w \in Writers :
       \/ writer[w] = [at |-> "idle"]
       \/ /\ writer[w].at \in {"next", "open", "unlocked"}
          /\ writer[w] = [at |-> writer[w].at, id |-> writer[w].id,
                          rest |-> writer[w].rest]
          /\ writer[w].id \in 1 .. Len(writes)
          /\ writer[w].rest \subseteq B!Entries
          /\ \A i \in writer[w].rest : Goes(torrent, writes[writer[w].id], i)
          /\ writer[w].at # "next" =>
               writer[w].rest # {} /\ files[B!Min(writer[w].rest)] # B!Missing
          /\ writer[w].at = "unlocked" => ~Stray(torrent, writes[writer[w].id])

(* The bytes of write id are in file i.                                    *)
Full(i, id) ==
  /\ files[i] # B!Missing
  /\ \A p \in Int :
       /\ p > Part(torrent.lengths, writes[id], i).fstart
       /\ p <= Part(torrent.lengths, writes[id], i).fend
       => p <= Len(files[i]) /\ files[i][p][1] = id

(* A write that runs alone has filled the files it has left behind.        *)
Alone ==
  last # 0 =>
    /\ \A w \in Writers : writer[w].at # "idle" => writer[w].id = last
    /\ \A v, w \in Writers : writer[v].at # "idle" /\ writer[w].at # "idle" => v = w
    /\ \A i \in B!Entries :
         /\ Goes(torrent, writes[last], i) /\ Wants(torrent, writes[last])
         /\ \A w \in Writers : writer[w].at = "idle" \/ i \notin writer[w].rest
         => Full(i, last)

(* A reader has read every entry it has left behind; when it began after a *)
(* write that ran alone, no other has begun.                               *)
Reading ==
  \/ reader = B!NoRead
  \/ /\ reader.at = "next"
     /\ reader = [at |-> reader.at, offset |-> reader.offset, len |-> reader.len,
                  rest |-> reader.rest, got |-> reader.got, ok |-> reader.ok,
                  of |-> reader.of]
     /\ IsRange(reader)
     /\ reader.rest \subseteq B!Entries
     /\ \A i \in reader.rest : Goes(torrent, reader, i)
     /\ DOMAIN reader.got = 1 .. reader.len
     /\ \A k \in 1 .. reader.len : Got(reader.got[k], reader.offset + k)
     /\ reader.of # 0 =>
          /\ reader.of = last
          /\ \A w \in Writers : writer[w].at = "idle"
          /\ B!Inside(reader, writes[last]) =>
               /\ reader.len > 0 /\ reader.offset < EndOf(torrent) => reader.ok
               /\ \A i \in B!Entries \ reader.rest : Goes(torrent, reader, i) =>
                    \A k \in 1 .. reader.len :
                      LET s == ReadPart(torrent, reader, i)
                      IN /\ k > s.bstart /\ k - s.bstart <= s.fend - s.fstart
                         /\ reader.offset + k <= EndOf(torrent)
                         => reader.got[k][1] = last

TorrentIInv ==
  Owners /\ FilesPlaced /\ Calls /\ LocksGivenBack /\ Alone /\ Reading

(* What the actions say of places and parts, in the terms used here.       *)
LEMMA InTerms ==
  /\ B!Entries = 1 .. Len(torrent.lengths)
  /\ \A r, i : B!Segment(r, i) = Part(torrent.lengths, r, i)
  /\ \A r, i : B!ReadSegment(r, i) = ReadPart(torrent, r, i)
  /\ \A r, i : B!Touched(r, i) <=> Goes(torrent, r, i)
  /\ \A r : B!Path(r) = {i \in B!Entries : Goes(torrent, r, i)}
  /\ \A r : B!WritePath(r) = {i \in B!Entries : Goes(torrent, r, i) /\ Wants(torrent, r)}
  /\ \A r : B!Astray(r) <=> Stray(torrent, r)
  /\ B!Total = EndOf(torrent)
<1>1. B!Entries = 1 .. Len(torrent.lengths)
  BY DEF B!Entries
<1>2. \A r, i : B!Segment(r, i) = Part(torrent.lengths, r, i)
  BY DEF B!Segment, Part, B!Start
<1>3. \A r, i : B!Touched(r, i) <=> Goes(torrent, r, i)
  BY DEF B!Touched, Goes, B!Start
<1>4. \A r : B!Path(r) = {i \in B!Entries : Goes(torrent, r, i)}
  BY <1>3 DEF B!Path
<1>5. \A r, i : B!ReadSegment(r, i) = ReadPart(torrent, r, i)
  BY <1>2 DEF B!ReadSegment, ReadPart
<1>6. \A r : B!WritePath(r) = {i \in B!Entries : Goes(torrent, r, i) /\ Wants(torrent, r)}
  BY <1>4 DEF B!WritePath, B!ToWrite, Wants
<1>7. B!Total = EndOf(torrent) /\ \A r : B!Astray(r) <=> Stray(torrent, r)
  BY DEF B!Total, B!Start, EndOf, B!Astray, Stray
<1> QED BY <1>1, <1>2, <1>3, <1>4, <1>5, <1>6, <1>7

(* The end of a torrent is a number.                                       *)
LEMMA EndIs ==
  ASSUME NEW t \in Torrents
  PROVE  EndOf(t) \in Nat
<1>1. Sums(B!Offsets(t.lengths), t.lengths, Len(t.lengths))
  BY OffsetsAdd, TorrentsAssumption
<1>2. Len(t.lengths) \in Nat
  BY TorrentsAssumption, LenProperties
<1> QED BY <1>1, <1>2 DEF EndOf, Sums

(* What a caller may ask for is a range.                                   *)
LEMMA RangesFit ==
  ASSUME Owners, NEW r \in B!Ranges
  PROVE  IsRange(r)
<1>1. B!Total \in Nat
  BY EndIs, InTerms DEF Owners
<1>2. r.offset \in 0 .. B!Total + Beyond /\ r.len \in 0 .. MaxBlock
  BY DEF B!Ranges
<1> QED BY <1>1, <1>2, RangesAssumption DEF IsRange

(* So is the range of every write.                                         *)
LEMMA WritesFit ==
  ASSUME Owners, NEW id \in 1 .. Len(writes)
  PROVE  writes[id] \in B!Ranges /\ IsRange(writes[id])
<1>1. writes[id] \in B!Ranges
  BY ElementOfSeq DEF Owners
<1> QED BY <1>1, RangesFit

(* The entry a call is at.                                                 *)
LEMMA Current ==
  ASSUME NEW S \in SUBSET B!Entries, S # {}
  PROVE  B!Min(S) \in S
<1>1. S \in SUBSET Nat
  BY InTerms
<1>2. B!Min(S) = Min(S)
  BY DEF B!Min, Min
<1> QED BY <1>1, <1>2, Least

(* No file is there at first, and nobody has called anything.              *)
LEMMA TorrentInit == B!Init => TorrentIInv
<1> SUFFICES ASSUME B!Init PROVE TorrentIInv
  OBVIOUS
<1>1. /\ torrent \in Torrents
      /\ files = [i \in B!Entries |-> B!Missing]
      /\ owner = [i \in B!Entries |-> None]
      /\ left = {}
      /\ writer = [w \in Writers |-> [at |-> "idle"]]
      /\ reader = B!NoRead
      /\ writes = <<>> /\ last = 0
  BY DEF B!Init
<1>2. Owners
  BY <1>1 DEF Owners
<1>3. FilesPlaced
  <2>1. B!Missing \in Seq(Bytes)
    BY DEF B!Missing, B!Stale, Bytes
  <2> QED BY <1>1, <2>1 DEF FilesPlaced
<1>4. Calls
  BY <1>1 DEF Calls
<1>5. LocksGivenBack
  BY <1>1 DEF LocksGivenBack, B!LocksGivenBack
<1>6. Alone /\ Reading
  BY <1>1 DEF Alone, Reading
<1> QED BY <1>2, <1>3, <1>4, <1>5, <1>6 DEF TorrentIInv

(* A caller is in the middle of a call.                                    *)
LEMMA InCall ==
  ASSUME TorrentIInv, NEW w \in Writers, writer[w].at # "idle"
  PROVE  /\ writer[w].at \in {"next", "open", "unlocked"}
         /\ writer[w] = [at |-> writer[w].at, id |-> writer[w].id,
                         rest |-> writer[w].rest]
         /\ writer[w].id \in 1 .. Len(writes)
         /\ writer[w].rest \subseteq B!Entries
         /\ \A i \in writer[w].rest : Goes(torrent, writes[writer[w].id], i)
         /\ writer[w].at # "next" =>
              writer[w].rest # {} /\ files[B!Min(writer[w].rest)] # B!Missing
         /\ writer[w].at = "unlocked" => ~Stray(torrent, writes[writer[w].id])
         /\ reader.of = 0
         /\ last # 0 => writer[w].id = last
<1>1. writer[w] # [at |-> "idle"]
  OBVIOUS
<1>2. reader.of = 0
  BY DEF TorrentIInv, Reading, B!NoRead
<1>3. last # 0 => writer[w].id = last
  BY DEF TorrentIInv, Alone
<1> QED BY <1>1, <1>2, <1>3 DEF TorrentIInv, Calls

(* Only files and callers change: the shape that most steps share.         *)
LEMMA SameTorrent ==
  ASSUME UNCHANGED <<torrent, writes>>
  PROVE  /\ B!Entries' = B!Entries /\ B!Ranges' = B!Ranges
         /\ \A i, p, x : Right(i, p, x)' <=> Right(i, p, x)
         /\ \A x, q : Got(x, q)' <=> Got(x, q)
         /\ EndOf(torrent)' = EndOf(torrent)
<1>1. B!Entries' = B!Entries /\ B!Ranges' = B!Ranges /\ EndOf(torrent)' = EndOf(torrent)
  BY DEF B!Entries, B!Ranges, B!Total, B!Start, EndOf
<1>2. \A x, q : InPlace(x, q)' <=> InPlace(x, q)
  BY DEF InPlace, B!Hole
<1>3. \A n : Strayed(n)' <=> Strayed(n)
  BY DEF Strayed
<1>4. \A i, p, x : Right(i, p, x)' <=> Right(i, p, x)
  BY <1>2, <1>3 DEF Right, B!Hole, B!Wild
<1>5. \A x, q : Got(x, q)' <=> Got(x, q)
  BY <1>1, <1>2 DEF Got, B!Stale, B!Wild
<1> QED BY <1>1, <1>4, <1>5

(* A reader is not disturbed by writers while of is 0.                     *)
LEMMA ReaderKept ==
  ASSUME TorrentIInv, reader.of = 0, UNCHANGED <<torrent, reader, writes>>
  PROVE  Reading'
<1>1. CASE reader = B!NoRead
  BY <1>1 DEF Reading, B!NoRead
<1>2. CASE reader # B!NoRead
  <2> DEFINE BE == B!Entries
  <2>1. BE' = BE
    BY InTerms DEF B!Entries
  <2>2. \A x, q : Got(x, q)' <=> Got(x, q)
    BY SameTorrent
  <2>3. /\ reader.at = "next"
        /\ reader = [at |-> reader.at, offset |-> reader.offset, len |-> reader.len,
                     rest |-> reader.rest, got |-> reader.got, ok |-> reader.ok,
                     of |-> reader.of]
        /\ IsRange(reader)
        /\ reader.rest \subseteq BE
        /\ \A i \in reader.rest : Goes(torrent, reader, i)
        /\ DOMAIN reader.got = 1 .. reader.len
        /\ \A k \in 1 .. reader.len : Got(reader.got[k], reader.offset + k)
    BY <1>2 DEF TorrentIInv, Reading
  <2> HIDE DEF BE
  <2>4. /\ \A i \in reader'.rest : Goes(torrent', reader', i)
        /\ IsRange(reader')
    BY <2>3
  <2>5. \A k \in 1 .. reader'.len : Got(reader.got[k], reader.offset + k)'
    BY <2>2, <2>3
  <2> QED BY <2>1, <2>3, <2>4, <2>5 DEF Reading, BE
<1> QED BY <1>1, <1>2

-----------------------------------------------------------------------------
(* The steps.  A new write goes to every entry it leads to, and spoils     *)
(* what an earlier one or a reader could rely on.                          *)
LEMMA Begins ==
  ASSUME TorrentIInv, NEW w \in Writers, NEW r \in B!Ranges, B!WriteBlockAt(w, r)
  PROVE  TorrentIInv'
<1> DEFINE n == Len(writes)
           call == [at |-> "next", id |-> n + 1, rest |-> B!WritePath(r)]
<1>1. /\ writer[w].at = "idle"
      /\ writes' = Append(writes, r)
      /\ writer' = [writer EXCEPT ![w] = call]
      /\ last' = IF B!Idle THEN n + 1 ELSE 0
      /\ reader' = IF reader.at = "idle" THEN B!NoRead ELSE [reader EXCEPT !.of = 0]
      /\ UNCHANGED <<torrent, files, owner, left>>
  BY DEF B!WriteBlockAt
<1>2. writes \in Seq(B!Ranges) /\ n \in Nat
  BY LenProperties DEF TorrentIInv, Owners
<1>3. /\ Len(writes') = n + 1
      /\ \A k \in 1 .. n : writes'[k] = writes[k]
      /\ writes'[n + 1] = r
      /\ writes' \in Seq(B!Ranges)
  BY <1>1, <1>2, AppendProperties
<1>4. B!Entries' = B!Entries /\ B!Ranges' = B!Ranges
  BY <1>1 DEF B!Entries, B!Ranges, B!Total, B!Start
<1>5. /\ \A i, p, x : Right(i, p, x) => Right(i, p, x)'
      /\ \A x, q : Got(x, q) => Got(x, q)'
      /\ EndOf(torrent)' = EndOf(torrent)
  <2>1. \A x, q : InPlace(x, q) => InPlace(x, q)'
    BY <1>2, <1>3 DEF InPlace, B!Hole
  <2>2. \A m : Strayed(m) => Strayed(m)'
    BY <1>1, <1>2, <1>3 DEF Strayed
  <2>3. EndOf(torrent)' = EndOf(torrent)
    BY <1>1 DEF EndOf
  <2>4. \A i, p, x : Right(i, p, x) => Right(i, p, x)'
    BY <1>1, <2>1, <2>2 DEF Right, B!Hole, B!Wild
  <2>5. \A x, q : Got(x, q) => Got(x, q)'
    BY <2>1, <2>3 DEF Got, B!Stale, B!Wild
  <2> QED BY <2>3, <2>4, <2>5
<1>6. DOMAIN writer = Writers
  BY DEF TorrentIInv, Calls
<1> HIDE DEF n
<1>7. Owners'
  <2>1. last' \in 0 .. Len(writes')
    BY <1>1, <1>2, <1>3
  <2> QED BY <1>1, <1>3, <1>4, <2>1 DEF TorrentIInv, Owners
<1>8. FilesPlaced'
  BY <1>1, <1>4, <1>5 DEF TorrentIInv, FilesPlaced, B!Missing, B!Stale
<1>9. /\ call.rest \subseteq B!Entries
      /\ \A i \in B!Entries :
           i \in call.rest <=> Goes(torrent, r, i) /\ Wants(torrent, r)
  BY InTerms
<1> HIDE DEF call
<1>10. call = [at |-> "next", id |-> n + 1, rest |-> call.rest] /\ call.at = "next" /\ call.id = n + 1
  BY DEF call
<1>11. writer'[w] = call /\ \A v \in Writers : v # w => writer'[v] = writer[v]
  BY <1>1, <1>6
<1>12. Calls'
  <2>1. DOMAIN writer' = Writers
    BY <1>1, <1>6
  <2>2. ASSUME NEW v \in Writers
        PROVE  \/ writer'[v] = [at |-> "idle"]
               \/ /\ writer'[v].at \in {"next", "open", "unlocked"}
                  /\ writer'[v] = [at |-> writer'[v].at, id |-> writer'[v].id,
                                   rest |-> writer'[v].rest]
                  /\ writer'[v].id \in 1 .. Len(writes')
                  /\ writer'[v].rest \subseteq B!Entries'
                  /\ \A i \in writer'[v].rest : Goes(torrent', writes'[writer'[v].id], i)
                  /\ writer'[v].at # "next" =>
                       writer'[v].rest # {} /\ files'[B!Min(writer'[v].rest)] # B!Missing
                  /\ writer'[v].at = "unlocked" => ~Stray(torrent', writes'[writer'[v].id])
    <3>1. CASE v = w
      BY <1>1, <1>2, <1>3, <1>4, <1>9, <1>10, <1>11, <3>1
    <3>2. CASE v # w
      BY <1>1, <1>2, <1>3, <1>4, <1>11, <3>2 DEF TorrentIInv, Calls, n
    <3> QED BY <3>1, <3>2
  <2> QED BY <2>1, <2>2 DEF Calls, B!Missing, B!Stale
<1>13. LocksGivenBack'
  <2>1. ASSUME NEW i \in B!Entries, owner[i] # None
        PROVE  i \in left \/ (writer'[owner[i]].at = "open" /\ B!Min(writer'[owner[i]].rest) = i)
    <3>1. i \in left \/ (writer[owner[i]].at = "open" /\ B!Min(writer[owner[i]].rest) = i)
      BY <2>1 DEF TorrentIInv, LocksGivenBack, B!LocksGivenBack
    <3>2. owner[i] \in Writers
      BY <2>1 DEF TorrentIInv, Owners
    <3> QED BY <1>1, <1>11, <3>1, <3>2
  <2> QED BY <1>1, <1>4, <2>1 DEF LocksGivenBack, B!LocksGivenBack
<1>14. Alone'
  <2>1. CASE last' = 0
    BY <2>1 DEF Alone
  <2>2. CASE last' # 0
    <3>1. last' = n + 1 /\ \A v \in Writers : writer[v].at = "idle"
      BY <1>1, <2>2 DEF B!Idle
    <3>2. \A v \in Writers : writer'[v].at # "idle" <=> v = w
      BY <1>10, <1>11, <3>1
    <3>3. \A i \in B!Entries :
            Goes(torrent', writes'[last'], i) /\ Wants(torrent', writes'[last']) =>
              i \in writer'[w].rest
      BY <1>1, <1>3, <1>9, <1>11, <3>1
    <3> QED BY <1>4, <1>10, <1>11, <3>1, <3>2, <3>3 DEF Alone
  <2> QED BY <2>1, <2>2
<1>15. Reading'
  <2>1. CASE reader.at = "idle"
    BY <1>1, <2>1 DEF Reading, B!NoRead
  <2>2. CASE reader.at # "idle"
    <3>1. reader # B!NoRead
      BY <2>2 DEF B!NoRead
    <3>2. /\ reader.at = "next"
          /\ reader = [at |-> reader.at, offset |-> reader.offset, len |-> reader.len,
                       rest |-> reader.rest, got |-> reader.got, ok |-> reader.ok,
                       of |-> reader.of]
          /\ IsRange(reader)
          /\ reader.rest \subseteq B!Entries
          /\ \A i \in reader.rest : Goes(torrent, reader, i)
          /\ DOMAIN reader.got = 1 .. reader.len
          /\ \A k \in 1 .. reader.len : Got(reader.got[k], reader.offset + k)
      BY <3>1 DEF TorrentIInv, Reading
    <3>3. reader' = [reader EXCEPT !.of = 0]
      BY <1>1, <2>2
    <3>4. /\ reader'.at = "next"
          /\ reader' = [at |-> reader'.at, offset |-> reader'.offset, len |-> reader'.len,
                        rest |-> reader'.rest, got |-> reader'.got, ok |-> reader'.ok,
                        of |-> reader'.of]
          /\ reader'.offset = reader.offset /\ reader'.len = reader.len
          /\ reader'.rest = reader.rest /\ reader'.got = reader.got /\ reader'.of = 0
      <4> DEFINE x == [at |-> reader.at, offset |-> reader.offset, len |-> reader.len,
                       rest |-> reader.rest, got |-> reader.got, ok |-> reader.ok,
                       of |-> reader.of]
                 y == [at |-> reader.at, offset |-> reader.offset, len |-> reader.len,
                       rest |-> reader.rest, got |-> reader.got, ok |-> reader.ok,
                       of |-> 0]
      <4>1. reader' = y
        BY <3>2, <3>3
      <4> QED BY <3>2, <4>1
    <3>5. IsRange(reader') /\ \A i \in reader'.rest : Goes(torrent', reader', i)
      BY <1>1, <3>2, <3>4 DEF IsRange, Goes
    <3>6. \A k \in 1 .. reader'.len : Got(reader.got[k], reader.offset + k)'
      <4> SUFFICES ASSUME NEW k \in 1 .. reader'.len PROVE Got(reader.got[k], reader.offset + k)'
        OBVIOUS
      <4>1. PICK x, q : x = reader.got[k] /\ q = reader.offset + k
        OBVIOUS
      <4>2. Got(x, q)'
        BY <1>5, <3>2, <3>4, <4>1
      <4>3. reader'.got[k] = x /\ reader'.offset + k = q
        BY <3>4, <4>1
      <4> QED BY <4>2, <4>3
    <3> QED BY <1>4, <3>2, <3>4, <3>5, <3>6 DEF Reading
  <2> QED BY <2>1, <2>2
<1> QED BY <1>7, <1>8, <1>12, <1>13, <1>14, <1>15 DEF TorrentIInv

(* A call that goes on to its next entry remembers its write.              *)
LEMMA GoesOn ==
  ASSUME TorrentIInv, NEW w \in Writers, writer[w].at # "idle", NEW i, NEW next,
         writer' = [writer EXCEPT ![w].at = "next", ![w].rest = @ \ {i}],
         next = [at |-> "next", id |-> writer[w].id, rest |-> writer[w].rest \ {i}]
  PROVE  writer' = [writer EXCEPT ![w] = next]
<1>1. PICK call, id, rest : call = writer[w] /\ id = writer[w].id /\ rest = writer[w].rest
  OBVIOUS
<1>2. call = [at |-> call.at, id |-> id, rest |-> rest]
  BY <1>1, InCall
<1> DEFINE e == [call EXCEPT !.at = "next"]
<1>3. e = [at |-> "next", id |-> id, rest |-> rest]
  BY <1>2
<1>4. [call EXCEPT !.at = "next", !.rest = rest \ {i}] = [e EXCEPT !.rest = rest \ {i}]
  BY Zenon
<1> HIDE DEF e
<1>5. [e EXCEPT !.rest = rest \ {i}] = next
  BY <1>1, <1>3
<1>6. DOMAIN writer = Writers
  BY DEF TorrentIInv, Calls
<1>7. writer' = [writer EXCEPT ![w] = [writer[w] EXCEPT !.at = "next", !.rest = writer[w].rest \ {i}]]
  BY <1>6
<1> QED BY <1>1, <1>4, <1>5, <1>7

(* Every byte stays in its place if those of the files after the step are  *)
(* in theirs.                                                              *)
LEMMA PlacedStep ==
  ASSUME UNCHANGED <<torrent, writes>>, files' \in [B!Entries -> Seq(Bytes)],
         \A j \in B!Entries : files'[j] # B!Missing =>
           \A p \in 1 .. Len(files'[j]) : Right(j, p, files'[j][p])
  PROVE  FilesPlaced'
<1>1. B!Entries' = B!Entries /\ B!Missing' = B!Missing
  BY SameTorrent
<1>2. ASSUME NEW j \in B!Entries', (files[j] # B!Missing)', NEW p \in 1 .. Len(files'[j])
      PROVE  Right(j, p, files[j][p])'
  <2>1. PICK x : x = files'[j][p]
    OBVIOUS
  <2>2. Right(j, p, x)
    BY <1>1, <1>2, <2>1
  <2>3. Right(j, p, x)'
    BY <2>2, SameTorrent
  <2> QED BY <2>1, <2>3
<1> QED BY <1>1, <1>2 DEF FilesPlaced

(* Of the calls only that of w has changed, and it is well formed.         *)
LEMMA CallsStep ==
  ASSUME TorrentIInv, UNCHANGED <<torrent, writes>>, NEW w \in Writers, NEW call,
         writer' = [writer EXCEPT ![w] = call],
         \A i \in B!Entries : files[i] # B!Missing => files'[i] # B!Missing,
         \/ call = [at |-> "idle"]
         \/ /\ call.at \in {"next", "open", "unlocked"}
            /\ call = [at |-> call.at, id |-> call.id, rest |-> call.rest]
            /\ call.id = writer[w].id /\ writer[w].at # "idle"
            /\ call.rest \subseteq writer[w].rest
            /\ call.at # "next" =>
                 call.rest # {} /\ files'[B!Min(call.rest)] # B!Missing
            /\ call.at = "unlocked" => ~Stray(torrent, writes[call.id])
  PROVE  Calls' /\ writer'[w] = call /\ \A v \in Writers : v # w => writer'[v] = writer[v]
<1>1. DOMAIN writer = Writers
  BY DEF TorrentIInv, Calls
<1>2. /\ writer'[w] = call /\ DOMAIN writer' = Writers
      /\ \A v \in Writers : v # w => writer'[v] = writer[v]
  BY <1>1
<1>3. B!Entries' = B!Entries /\ torrent' = torrent /\ writes' = writes
  BY SameTorrent
<1>4. ASSUME NEW v \in Writers
      PROVE  \/ writer'[v] = [at |-> "idle"]
             \/ /\ writer'[v].at \in {"next", "open", "unlocked"}
                /\ writer'[v] = [at |-> writer'[v].at, id |-> writer'[v].id,
                                 rest |-> writer'[v].rest]
                /\ writer'[v].id \in 1 .. Len(writes')
                /\ writer'[v].rest \subseteq B!Entries'
                /\ \A i \in writer'[v].rest : Goes(torrent', writes'[writer'[v].id], i)
                /\ writer'[v].at # "next" =>
                     writer'[v].rest # {} /\ files'[B!Min(writer'[v].rest)] # B!Missing
                /\ writer'[v].at = "unlocked" => ~Stray(torrent', writes'[writer'[v].id])
  <2>1. CASE v = w
    <3>1. CASE call = [at |-> "idle"]
      BY <1>2, <2>1, <3>1
    <3>2. CASE call # [at |-> "idle"]
      <4>1. /\ writer[w].id \in 1 .. Len(writes)
            /\ writer[w].rest \subseteq B!Entries
            /\ \A i \in writer[w].rest : Goes(torrent, writes[writer[w].id], i)
        BY <3>2, InCall
      <4> QED BY <1>2, <1>3, <2>1, <3>2, <4>1
    <3> QED BY <3>1, <3>2
  <2>2. CASE v # w
    <3>1. writer'[v] = writer[v]
      BY <1>2, <2>2
    <3>2. CASE writer[v] = [at |-> "idle"]
      BY <3>1, <3>2
    <3>3. CASE writer[v] # [at |-> "idle"]
      <4>1. /\ writer[v].at \in {"next", "open", "unlocked"}
            /\ writer[v] = [at |-> writer[v].at, id |-> writer[v].id, rest |-> writer[v].rest]
            /\ writer[v].id \in 1 .. Len(writes)
            /\ writer[v].rest \subseteq B!Entries
            /\ \A i \in writer[v].rest : Goes(torrent, writes[writer[v].id], i)
            /\ writer[v].at # "next" =>
                 writer[v].rest # {} /\ files[B!Min(writer[v].rest)] # B!Missing
            /\ writer[v].at = "unlocked" => ~Stray(torrent, writes[writer[v].id])
        BY <3>3 DEF TorrentIInv, Calls
      <4>2. writer[v].at # "next" => files'[B!Min(writer[v].rest)] # B!Missing
        <5> SUFFICES ASSUME writer[v].at # "next" PROVE files'[B!Min(writer[v].rest)] # B!Missing
          OBVIOUS
        <5>1. B!Min(writer[v].rest) \in B!Entries
          BY <4>1, Current
        <5> QED BY <4>1, <5>1
      <4> QED BY <1>3, <3>1, <4>1, <4>2
    <3> QED BY <3>2, <3>3
  <2> QED BY <2>1, <2>2
<1>5. Calls'
  BY <1>2, <1>4 DEF Calls, B!Missing, B!Stale
<1> QED BY <1>2, <1>5

(* The mutexes, when only the call of w and the mutex of i have changed.   *)
LEMMA LocksStep ==
  ASSUME TorrentIInv, UNCHANGED <<torrent, writes>>, NEW w \in Writers, NEW i \in B!Entries,
         left \subseteq left',
         \A v \in Writers : v # w => writer'[v] = writer[v],
         \A j \in B!Entries : j # i => (owner'[j] = owner[j] /\ owner[j] # w) \/ j \in left',
         \/ owner'[i] = None \/ i \in left'
         \/ owner'[i] = w /\ writer'[w].at = "open" /\ B!Min(writer'[w].rest) = i
         \/ owner'[i] = owner[i] /\ owner[i] # w
  PROVE  LocksGivenBack'
<1>1. B!Entries' = B!Entries
  BY SameTorrent
<1>2. ASSUME NEW j \in B!Entries, owner'[j] # None, j \notin left'
      PROVE  writer'[owner'[j]].at = "open" /\ B!Min(writer'[owner'[j]].rest) = j
  <2>1. CASE owner'[j] = owner[j] /\ owner[j] # w
    <3>1. writer[owner[j]].at = "open" /\ B!Min(writer[owner[j]].rest) = j
      BY <1>2, <2>1 DEF TorrentIInv, LocksGivenBack, B!LocksGivenBack
    <3>2. owner[j] \in Writers
      BY <1>2, <2>1 DEF TorrentIInv, Owners
    <3> QED BY <2>1, <3>1, <3>2
  <2>2. CASE ~(owner'[j] = owner[j] /\ owner[j] # w)
    <3>1. j = i
      BY <1>2, <2>2
    <3> QED BY <1>2, <2>2, <3>1
  <2> QED BY <2>1, <2>2
<1> QED BY <1>1, <1>2 DEF LocksGivenBack, B!LocksGivenBack

(* A thread holds the mutex of the file it is about to write, or of files  *)
(* that could not be opened.                                               *)
LEMMA Holds ==
  ASSUME TorrentIInv, NEW w \in Writers, NEW j \in B!Entries, owner[j] = w, w # None
  PROVE  j \in left \/ (writer[w].at = "open" /\ B!Min(writer[w].rest) = j)
BY DEF TorrentIInv, LocksGivenBack, B!LocksGivenBack

(* Opening a file empties it: it is in the rest of its call, and the write *)
(* of that call is the only one that can be alone.                         *)
LEMMA Opens ==
  ASSUME TorrentIInv, NEW w \in Writers, B!OpenForWriting(w)
  PROVE  TorrentIInv'
<1> DEFINE i == B!Min(writer[w].rest)
           call == [at |-> "open", id |-> writer[w].id, rest |-> writer[w].rest]
<1>1. /\ writer[w].at = "next" /\ writer[w].rest # {}
      /\ owner[i] \in {None, w}
      /\ owner' = [owner EXCEPT ![i] = w]
      /\ files' = [files EXCEPT ![i] = <<>>]
      /\ writer' = [writer EXCEPT ![w].at = "open"]
      /\ UNCHANGED <<torrent, left, reader, writes, last>>
  BY DEF B!OpenForWriting
<1>2. /\ writer[w] = [at |-> writer[w].at, id |-> writer[w].id, rest |-> writer[w].rest]
      /\ writer[w].rest \subseteq B!Entries /\ reader.of = 0
  BY <1>1, InCall
<1>3. i \in writer[w].rest /\ i \in B!Entries
  BY <1>1, <1>2, Current
<1>4. /\ owner \in [B!Entries -> Writers \cup {None}]
      /\ files \in [B!Entries -> Seq(Bytes)] /\ DOMAIN writer = Writers
  BY DEF TorrentIInv, Owners, FilesPlaced, Calls
<1>5. writer' = [writer EXCEPT ![w] = call]
  <2>1. [writer[w] EXCEPT !.at = "open"] = call
    BY <1>2
  <2>2. writer' = [writer EXCEPT ![w] = [writer[w] EXCEPT !.at = "open"]]
    BY <1>1
  <2> QED BY <2>1, <2>2
<1> HIDE DEF i
<1>6. /\ files'[i] = <<>> /\ \A j \in B!Entries : j # i => files'[j] = files[j]
      /\ files' \in [B!Entries -> Seq(Bytes)] /\ <<>> # B!Missing /\ Len(<<>>) = 0
  BY <1>1, <1>3, <1>4 DEF B!Missing
<1>7. B!Entries' = B!Entries /\ B!Ranges' = B!Ranges
  BY <1>1, SameTorrent
<1>8. Owners'
  BY <1>1, <1>4, <1>7 DEF TorrentIInv, Owners
<1>9. FilesPlaced'
  <2>1. ASSUME NEW j \in B!Entries, files'[j] # B!Missing
        PROVE  \A p \in 1 .. Len(files'[j]) : Right(j, p, files'[j][p])
    <3>1. CASE j = i
      BY <1>6, <3>1
    <3>2. CASE j # i
      BY <1>6, <2>1, <3>2 DEF TorrentIInv, FilesPlaced
    <3> QED BY <3>1, <3>2
  <2> QED BY <1>1, <1>6, <2>1, PlacedStep
<1>10. Calls' /\ writer'[w] = call /\ \A v \in Writers : v # w => writer'[v] = writer[v]
  <2>1. \A j \in B!Entries : files[j] # B!Missing => files'[j] # B!Missing
    BY <1>6
  <2>2. files'[B!Min(call.rest)] # B!Missing
    BY <1>6 DEF i
  <2> HIDE DEF call
  <2>3. /\ call.at = "open" /\ call.id = writer[w].id /\ call.rest = writer[w].rest
        /\ call = [at |-> call.at, id |-> call.id, rest |-> call.rest]
    BY DEF call
  <2> QED BY <1>1, <1>5, <2>1, <2>2, <2>3, CallsStep
<1>11. LocksGivenBack'
  <2>1. \A j \in B!Entries : j # i => (owner'[j] = owner[j] /\ owner[j] # w) \/ j \in left'
    <3> TAKE j \in B!Entries
    <3>1. owner[j] = w /\ w # None => j \in left
      BY <1>1, Holds
    <3>2. w # None
      BY NobodyWrites
    <3> QED BY <1>1, <1>4, <3>1, <3>2
  <2>2. owner'[i] = w /\ writer'[w].at = "open" /\ B!Min(writer'[w].rest) = i
    BY <1>1, <1>3, <1>4, <1>10 DEF i
  <2> QED BY <1>1, <1>3, <1>10, <2>1, <2>2, LocksStep
<1>12. Alone'
  <2> SUFFICES ASSUME last # 0 PROVE Alone'
    BY <1>1 DEF Alone
  <2>1. \A v \in Writers : /\ writer'[v].at # "idle" <=> writer[v].at # "idle"
                           /\ writer[v].at # "idle" =>
                                writer'[v].id = writer[v].id /\ writer'[v].rest = writer[v].rest
    BY <1>1, <1>10
  <2>2. ASSUME NEW j \in B!Entries,
               Goes(torrent, writes[last], j), Wants(torrent, writes[last]),
               \A v \in Writers : writer'[v].at = "idle" \/ j \notin writer'[v].rest
        PROVE  Full(j, last) /\ j # i
    <3>1. \A v \in Writers : writer[v].at = "idle" \/ j \notin writer[v].rest
      BY <2>1, <2>2
    <3>2. j # i
      BY <1>1, <1>3, <3>1
    <3> QED BY <2>2, <3>1, <3>2 DEF TorrentIInv, Alone
  <2>3. ASSUME NEW j \in B!Entries, Full(j, last), j # i
        PROVE  Full(j, last)'
    BY <1>1, <1>6, <2>3 DEF Full, B!Missing, B!Stale
  <2> QED BY <1>1, <1>7, <2>1, <2>2, <2>3 DEF TorrentIInv, Alone, Full, B!Missing, B!Stale
<1>13. Reading'
  BY <1>1, <1>2, ReaderKept
<1> QED BY <1>8, <1>9, <1>10, <1>11, <1>12, <1>13 DEF TorrentIInv

(* A block that is written is in its file, and in its place there.         *)
LEMMA Fills ==
  ASSUME TorrentIInv, NEW w \in Writers, writer[w].at \in {"open", "unlocked"},
         UNCHANGED <<torrent, writes>>, NEW i, i = B!Min(writer[w].rest),
         NEW id, id = writer[w].id, ~Stray(torrent, writes[id]),
         NEW new, new = B!Put(files[i], B!Segment(writes[id], i), id),
         files' = [files EXCEPT ![i] = new]
  PROVE  /\ FilesPlaced' /\ Full(i, id)'
         /\ \A j \in B!Entries : j # i => files'[j] = files[j]
         /\ \A j \in B!Entries : files[j] # B!Missing => files'[j] # B!Missing
<1> DEFINE s == Part(torrent.lengths, writes[id], i)
           base == B!Offsets(torrent.lengths)[i]
           g == B!Put(files[i], s, id)
<1>1. /\ writer[w].rest # {} /\ writer[w].rest \subseteq B!Entries
      /\ id \in 1 .. Len(writes) /\ Goes(torrent, writes[id], i) /\ i \in B!Entries
      /\ files[i] # B!Missing
  <2>1. /\ writer[w].rest \subseteq B!Entries /\ id \in 1 .. Len(writes)
        /\ \A j \in writer[w].rest : Goes(torrent, writes[id], j)
        /\ writer[w].rest # {} /\ files[i] # B!Missing
    BY InCall
  <2> QED BY <2>1, Current
<1>2. torrent \in Torrents /\ Owners /\ IsRange(writes[id])
  BY <1>1, WritesFit DEF TorrentIInv, Owners
<1>3. i \in 1 .. Len(torrent.lengths)
  BY <1>1, InTerms
<1>4. /\ s.fstart \in Nat /\ s.fend \in Nat /\ s.bstart \in Nat
      /\ s.fstart <= s.fend /\ s.fend <= torrent.lengths[i]
      /\ writes[id].offset + s.bstart = base + s.fstart
      /\ s.bstart + s.fend - s.fstart <= writes[id].len
      /\ torrent.lengths[i] \in Nat /\ base \in Nat
  BY <1>1, <1>2, <1>3, PartInPlace, PlacesOf
<1>5. /\ writes[id].offset \in Nat /\ writes[id].len \in Nat /\ id \in Int
      /\ Len(writes) \in Nat
  BY <1>1, <1>2, LenProperties DEF IsRange, Owners
<1>6. /\ files \in [B!Entries -> Seq(Bytes)] /\ files[i] \in Seq(Bytes)
      /\ Len(files[i]) \in Nat
      /\ \A p \in 1 .. Len(files[i]) : Right(i, p, files[i][p])
  BY <1>1, LenProperties DEF TorrentIInv, FilesPlaced
<1>7. files' = [files EXCEPT ![i] = g]
  BY InTerms
<1> HIDE DEF s, base
<1>8. /\ g \in Seq(Bytes)
      /\ Len(g) >= s.fend \/ s.fstart = s.fend
      /\ Len(g) <= s.fend \/ Len(g) = Len(files[i])
      /\ \A p \in 1 .. Len(g) :
           IF p > s.fstart /\ p <= s.fend THEN g[p] = B!ByteOf(id, s.bstart + p - s.fstart)
           ELSE \/ g[p] = B!Hole /\ p <= s.fend
                \/ p <= Len(files[i]) /\ g[p] = files[i][p]
  BY <1>4, <1>5, <1>6, PutBytes
<1> HIDE DEF g
<1>9. Len(g) \in Nat
  BY <1>8, LenProperties
<1>91. ASSUME NEW p \in 1 .. Len(g), p > s.fstart, p <= s.fend
       PROVE  g[p] = <<id, s.bstart + p - s.fstart>>
  <2>1. g[p] = B!ByteOf(id, s.bstart + p - s.fstart)
    BY <1>8, <1>91
  <2>2. s.bstart + p - s.fstart <= writes[id].len
    <3>1. PICK u, v, y, l : u = s.fstart /\ v = s.fend /\ y = s.bstart /\ l = writes[id].len
      OBVIOUS
    <3>2. /\ u \in Nat /\ v \in Nat /\ y \in Nat /\ l \in Nat /\ p \in Int
          /\ y + v - u <= l /\ p <= v
      BY <1>4, <1>5, <1>9, <1>91, <3>1
    <3>3. y + p - u <= l
      BY <3>2
    <3> QED BY <3>1, <3>3
  <2> QED BY <2>1, <2>2 DEF B!ByteOf
<1>10. ASSUME NEW p \in 1 .. Len(g) PROVE Right(i, p, g[p])
  <2>0. /\ p \in Int /\ s.fstart \in Nat /\ s.fend \in Nat /\ torrent.lengths[i] \in Nat
        /\ p <= s.fend => ~(p > torrent.lengths[i])
    BY <1>4, <1>9
  <2>1. CASE p > s.fstart /\ p <= s.fend
    <3>1. g[p] = <<id, s.bstart + p - s.fstart>>
      BY <1>91, <2>1
    <3> DEFINE x == writes[id].offset
    <3>2. x + (s.bstart + p - s.fstart) = base + p
      <4>1. x + s.bstart = base + s.fstart /\ x \in Nat /\ p \in Int
        BY <1>4, <1>5, <1>9
      <4> DEFINE y == s.bstart
                 z == s.fstart
      <4>2. x + y = base + z /\ x \in Nat /\ p \in Int /\ y \in Nat /\ z \in Nat /\ base \in Nat
        BY <1>4, <4>1
      <4> HIDE DEF x, y, z
      <4>3. x + (y + p - z) = base + p
        BY <4>2
      <4> QED BY <4>3 DEF y, z
    <3>3. InPlace(g[p], base + p)
      BY <1>1, <3>1, <3>2 DEF InPlace
    <3> QED BY <2>0, <2>1, <3>3 DEF Right, base
  <2>2. CASE ~(p > s.fstart /\ p <= s.fend)
    <3>1. \/ g[p] = B!Hole /\ p <= s.fend
          \/ p \in 1 .. Len(files[i]) /\ g[p] = files[i][p]
      BY <1>6, <1>8, <1>9, <2>2
    <3>2. CASE g[p] = B!Hole /\ p <= s.fend
      BY <2>0, <3>2 DEF Right, InPlace
    <3>3. CASE p \in 1 .. Len(files[i]) /\ g[p] = files[i][p]
      BY <1>6, <3>3
    <3> QED BY <3>1, <3>2, <3>3
  <2> QED BY <2>1, <2>2
<1>11. g # B!Missing
  <2> SUFFICES ASSUME g = B!Missing PROVE FALSE
    OBVIOUS
  <2>1. Len(g) = 1 /\ g[1] = <<-1, 0>>
    BY DEF B!Missing, B!Stale
  <2>2. Right(i, 1, <<-1, 0>>)
    BY <1>10, <2>1
  <2> QED BY <2>2, <1>5 DEF Right, InPlace, B!Hole, B!Wild
<1>12. /\ files'[i] = g /\ files' \in [B!Entries -> Seq(Bytes)]
       /\ \A j \in B!Entries : j # i => files'[j] = files[j]
  BY <1>1, <1>6, <1>7, <1>8
<1>13. FilesPlaced'
  <2>1. ASSUME NEW j \in B!Entries, files'[j] # B!Missing
        PROVE  \A p \in 1 .. Len(files'[j]) : Right(j, p, files'[j][p])
    <3>1. CASE j = i
      BY <1>10, <1>12, <3>1
    <3>2. CASE j # i
      BY <1>12, <2>1, <3>2 DEF TorrentIInv, FilesPlaced
    <3> QED BY <3>1, <3>2
  <2> QED BY <1>12, <2>1, PlacedStep
<1>14. Full(i, id)'
  <2>1. ASSUME NEW p \in Int, p > s.fstart, p <= s.fend
        PROVE  p <= Len(g) /\ g[p][1] = id
    <3>1. p \in 1 .. Len(g)
      BY <1>4, <1>8, <1>9, <2>1
    <3>2. g[p] = <<id, s.bstart + p - s.fstart>>
      BY <1>91, <2>1, <3>1
    <3> QED BY <3>1, <3>2
  <2>2. /\ files'[i] # B!Missing
        /\ \A p \in Int :
             /\ p > Part(torrent'.lengths, writes'[id], i).fstart
             /\ p <= Part(torrent'.lengths, writes'[id], i).fend
             => p <= Len(files'[i]) /\ files'[i][p][1] = id
    BY <1>11, <1>12, <2>1 DEF s
  <2> QED BY <2>2 DEF Full
<1> QED BY <1>11, <1>12, <1>13, <1>14

(* The write that runs alone goes on.                                      *)
LEMMA AloneStep ==
  ASSUME TorrentIInv, UNCHANGED <<torrent, writes, last>>, NEW w \in Writers,
         writer[w].at # "idle", NEW id, id = writer[w].id,
         writer'[w].at = "idle" \/ writer'[w].id = id,
         \A v \in Writers : v # w => writer'[v] = writer[v],
         NEW k, \A j \in B!Entries : j # k => files'[j] = files[j],
         k \in B!Entries => files'[k] = files[k] \/ Full(k, id)',
         writer'[w].at = "idle" =>
           writer[w].rest = {} \/ (writer[w].rest = {k} /\ Full(k, id)'),
         writer'[w].at # "idle" =>
           \/ writer'[w].rest = writer[w].rest
           \/ writer'[w].rest = writer[w].rest \ {k} /\ Full(k, id)'
  PROVE  Alone'
<1> SUFFICES ASSUME last # 0 PROVE Alone'
  BY DEF Alone
<1>1. /\ \A v \in Writers : writer[v].at # "idle" => writer[v].id = last
      /\ \A u, v \in Writers : writer[u].at # "idle" /\ writer[v].at # "idle" => u = v
  BY DEF TorrentIInv, Alone
<1>2. id = last
  BY <1>1
<1>3. /\ \A v \in Writers : writer'[v].at # "idle" => writer'[v].id = last'
      /\ \A u, v \in Writers : writer'[u].at # "idle" /\ writer'[v].at # "idle" => u = v
  BY <1>1, <1>2
<1>4. ASSUME NEW j \in B!Entries,
             Goes(torrent, writes[last], j), Wants(torrent, writes[last]),
             \A v \in Writers : writer'[v].at = "idle" \/ j \notin writer'[v].rest
      PROVE  Full(j, last)'
  <2>1. CASE j = k /\ Full(k, last)'
    BY <2>1
  <2>2. CASE ~(j = k /\ Full(k, last)')
    <3>1. files'[j] = files[j]
      BY <1>2, <2>2
    <3>2. j \notin writer[w].rest
      BY <1>2, <1>4, <2>2
    <3>3. \A v \in Writers : writer[v].at = "idle" \/ j \notin writer[v].rest
      BY <1>4, <3>2
    <3>4. Full(j, last)
      BY <1>4, <3>3 DEF TorrentIInv, Alone
    <3>5. /\ files'[j] # B!Missing
          /\ \A p \in Int :
               /\ p > Part(torrent'.lengths, writes'[last], j).fstart
               /\ p <= Part(torrent'.lengths, writes'[last], j).fend
               => p <= Len(files'[j]) /\ files'[j][p][1] = last
      BY <3>1, <3>4 DEF Full
    <3> QED BY <3>5 DEF Full
  <2> QED BY <2>1, <2>2
<1>5. B!Entries' = B!Entries
  BY SameTorrent
<1>6. ASSUME NEW j \in B!Entries',
             Goes(torrent', writes'[last'], j), Wants(torrent', writes'[last']),
             \A v \in Writers : writer'[v].at = "idle" \/ j \notin writer'[v].rest
      PROVE  Full(j, last)'
  BY <1>4, <1>5, <1>6
<1> QED BY <1>3, <1>6 DEF Alone

(* A block is written: in a file that stays open, or one that is closed.   *)
LEMMA Writes ==
  ASSUME TorrentIInv, NEW w \in Writers, B!WriteSegment(w)
  PROVE  TorrentIInv'
<1>1. PICK i, id, rest : i = B!Min(writer[w].rest) /\ id = writer[w].id /\ rest = writer[w].rest
  OBVIOUS
<1> DEFINE next == [at |-> "next", id |-> id, rest |-> rest \ {i}]
           unlocked == [at |-> "unlocked", id |-> id, rest |-> rest]
<1>2. /\ writer[w].at = "open" /\ ~Stray(torrent, writes[id])
      /\ \/ /\ files' = [files EXCEPT ![i] = B!Put(@, B!Segment(writes[id], i), id)]
            /\ writer' = [writer EXCEPT ![w].at = "next", ![w].rest = @ \ {i}]
         \/ /\ files' = files
            /\ writer' = [writer EXCEPT ![w].at = "unlocked"]
      /\ owner' = [owner EXCEPT ![i] = IF i \in left THEN @ ELSE None]
      /\ UNCHANGED <<torrent, left, reader, writes, last>>
  BY <1>1, InTerms DEF B!WriteSegment
<1>3. /\ writer[w] = [at |-> writer[w].at, id |-> id, rest |-> rest]
      /\ rest \subseteq B!Entries /\ rest # {} /\ files[i] # B!Missing /\ reader.of = 0
  BY <1>1, <1>2, InCall
<1>4. i \in rest /\ i \in B!Entries
  BY <1>1, <1>3, Current
<1>5. /\ owner \in [B!Entries -> Writers \cup {None}] /\ DOMAIN writer = Writers
      /\ FilesPlaced
  BY DEF TorrentIInv, Owners, Calls
<1>6. B!Entries' = B!Entries /\ B!Ranges' = B!Ranges
  BY <1>2, SameTorrent
<1>7. Owners'
  BY <1>2, <1>4, <1>5, <1>6 DEF TorrentIInv, Owners
<1>8. \A j \in B!Entries : j # i => (owner'[j] = owner[j] /\ owner[j] # w) \/ j \in left'
  <2> TAKE j \in B!Entries
  <2>1. owner[j] = w => j \in left \/ j = i
    BY <1>1, <1>2, Holds, NobodyWrites
  <2> QED BY <1>2, <1>5, <2>1
<1>9. owner'[i] = None \/ i \in left'
  BY <1>2, <1>4, <1>5
<1>10. Reading'
  BY <1>2, <1>3, ReaderKept
<1>11. CASE files' = files /\ writer' = [writer EXCEPT ![w].at = "unlocked"]
  <2>1. writer' = [writer EXCEPT ![w] = unlocked]
    <3>1. [writer[w] EXCEPT !.at = "unlocked"] = unlocked
      BY <1>3
    <3>2. writer' = [writer EXCEPT ![w] = [writer[w] EXCEPT !.at = "unlocked"]]
      BY <1>11
    <3> QED BY <3>1, <3>2
  <2> HIDE DEF unlocked
  <2>2. /\ unlocked.at = "unlocked" /\ unlocked.id = id /\ unlocked.rest = rest
        /\ unlocked = [at |-> unlocked.at, id |-> unlocked.id, rest |-> unlocked.rest]
    BY DEF unlocked
  <2>3. Calls' /\ writer'[w] = unlocked /\ \A v \in Writers : v # w => writer'[v] = writer[v]
    <3>1. UNCHANGED <<torrent, writes>>
      BY <1>2
    <3>2. \A j \in B!Entries : files[j] # B!Missing => files'[j] # B!Missing
      BY <1>11
    <3>3. unlocked.id = writer[w].id /\ writer[w].at # "idle" /\ unlocked.rest \subseteq writer[w].rest
      BY <1>1, <1>2, <2>2
    <3>4. unlocked.rest # {} /\ files'[B!Min(unlocked.rest)] # B!Missing
      BY <1>1, <1>3, <1>11, <2>2
    <3>5. ~Stray(torrent, writes[unlocked.id])
      BY <1>2, <2>2
    <3> QED BY <2>1, <2>2, <3>1, <3>2, <3>3, <3>4, <3>5, CallsStep
  <2>4. LocksGivenBack'
    BY <1>2, <1>4, <1>8, <1>9, <2>3, LocksStep
  <2>5. FilesPlaced'
    BY <1>2, <1>5, <1>11, PlacedStep DEF FilesPlaced
  <2>6. Alone'
    BY <1>1, <1>2, <1>11, <2>2, <2>3, AloneStep
  <2> QED BY <1>7, <1>10, <2>3, <2>4, <2>5, <2>6 DEF TorrentIInv
<1>12. CASE /\ files' = [files EXCEPT ![i] = B!Put(@, B!Segment(writes[id], i), id)]
            /\ writer' = [writer EXCEPT ![w].at = "next", ![w].rest = @ \ {i}]
  <2>1. writer' = [writer EXCEPT ![w] = next]
    <3>1. writer[w].at # "idle"
      BY <1>2
    <3>2. next = [at |-> "next", id |-> writer[w].id, rest |-> writer[w].rest \ {i}]
      BY <1>1
    <3> HIDE DEF next
    <3>3. writer' = [writer EXCEPT ![w].at = "next", ![w].rest = @ \ {i}]
      BY <1>12
    <3> QED BY <3>1, <3>2, <3>3, GoesOn
  <2> HIDE DEF next
  <2>2. /\ next.at = "next" /\ next.id = id /\ next.rest = rest \ {i}
        /\ next = [at |-> next.at, id |-> next.id, rest |-> next.rest]
    BY DEF next
  <2>3. /\ FilesPlaced' /\ Full(i, id)'
        /\ \A j \in B!Entries : j # i => files'[j] = files[j]
        /\ \A j \in B!Entries : files[j] # B!Missing => files'[j] # B!Missing
    <3>1. PICK g : g = B!Put(files[i], B!Segment(writes[id], i), id)
      OBVIOUS
    <3>2. /\ writer[w].at \in {"open", "unlocked"} /\ UNCHANGED <<torrent, writes>>
          /\ files' = [files EXCEPT ![i] = g]
      BY <1>2, <1>12, <3>1
    <3> HIDE DEF next, unlocked
    <3>21. ~Stray(torrent, writes[id])
      BY <1>2
    <3>3. FilesPlaced'
      BY <1>1, <3>1, <3>2, <3>21, Fills
    <3>4. Full(i, id)'
      BY <1>1, <3>1, <3>2, <3>21, Fills
    <3>5. \A j \in B!Entries : j # i => files'[j] = files[j]
      BY <1>1, <3>1, <3>2, <3>21, Fills
    <3>6. \A j \in B!Entries : files[j] # B!Missing => files'[j] # B!Missing
      BY <1>1, <3>1, <3>2, <3>21, Fills
    <3> QED BY <3>3, <3>4, <3>5, <3>6
  <2>4. Calls' /\ writer'[w] = next /\ \A v \in Writers : v # w => writer'[v] = writer[v]
    <3>1. UNCHANGED <<torrent, writes>>
      BY <1>2
    <3>2. next.id = writer[w].id /\ writer[w].at # "idle" /\ next.rest \subseteq writer[w].rest
      BY <1>1, <1>2, <2>2
    <3> QED BY <2>1, <2>2, <2>3, <3>1, <3>2, CallsStep
  <2>5. LocksGivenBack'
    BY <1>2, <1>4, <1>8, <1>9, <2>4, LocksStep
  <2>6. Alone'
    BY <1>1, <1>2, <2>2, <2>3, <2>4, AloneStep
  <2> QED BY <1>7, <1>10, <2>3, <2>4, <2>5, <2>6 DEF TorrentIInv
<1> QED BY <1>2, <1>11, <1>12

(* The bytes of a single file reach it when its stream is closed.          *)
LEMMA Closes ==
  ASSUME TorrentIInv, NEW w \in Writers, B!CloseStream(w)
  PROVE  TorrentIInv'
<1>1. PICK i, id, rest : i = B!Min(writer[w].rest) /\ id = writer[w].id /\ rest = writer[w].rest
  OBVIOUS
<1> DEFINE next == [at |-> "next", id |-> id, rest |-> rest \ {i}]
<1>2. /\ writer[w].at = "unlocked"
      /\ files' = [files EXCEPT ![i] = B!Put(@, B!Segment(writes[id], i), id)]
      /\ writer' = [writer EXCEPT ![w].at = "next", ![w].rest = @ \ {i}]
      /\ UNCHANGED <<torrent, owner, left, reader, writes, last>>
  BY <1>1 DEF B!CloseStream
<1>3. /\ writer[w] = [at |-> writer[w].at, id |-> id, rest |-> rest]
      /\ rest \subseteq B!Entries /\ rest # {} /\ files[i] # B!Missing /\ reader.of = 0
  BY <1>1, <1>2, InCall
<1>4. i \in rest /\ i \in B!Entries
  BY <1>1, <1>3, Current
<1>5. DOMAIN writer = Writers
  BY DEF TorrentIInv, Calls
<1>6. Owners'
  BY <1>2, SameTorrent DEF TorrentIInv, Owners
<1>7. writer' = [writer EXCEPT ![w] = next]
  <2>1. writer[w].at # "idle"
    BY <1>2
  <2>2. next = [at |-> "next", id |-> writer[w].id, rest |-> writer[w].rest \ {i}]
    BY <1>1
  <2>3. writer' = [writer EXCEPT ![w].at = "next", ![w].rest = @ \ {i}]
    BY <1>2
  <2> HIDE DEF next
  <2> QED BY <2>1, <2>2, <2>3, GoesOn
<1> HIDE DEF next
<1>8. /\ next.at = "next" /\ next.id = id /\ next.rest = rest \ {i}
      /\ next = [at |-> next.at, id |-> next.id, rest |-> next.rest]
  BY DEF next
<1>9. /\ FilesPlaced' /\ Full(i, id)'
      /\ \A j \in B!Entries : j # i => files'[j] = files[j]
      /\ \A j \in B!Entries : files[j] # B!Missing => files'[j] # B!Missing
  <2>1. PICK g : g = B!Put(files[i], B!Segment(writes[id], i), id)
    OBVIOUS
  <2>2. /\ writer[w].at \in {"open", "unlocked"} /\ UNCHANGED <<torrent, writes>>
        /\ files' = [files EXCEPT ![i] = g]
    BY <1>2, <2>1
  <2>21. ~Stray(torrent, writes[id])
    BY <1>1, <1>2, InCall
  <2>3. FilesPlaced'
    BY <1>1, <2>1, <2>2, <2>21, Fills
  <2>4. Full(i, id)'
    BY <1>1, <2>1, <2>2, <2>21, Fills
  <2>5. \A j \in B!Entries : j # i => files'[j] = files[j]
    BY <1>1, <2>1, <2>2, <2>21, Fills
  <2>6. \A j \in B!Entries : files[j] # B!Missing => files'[j] # B!Missing
    BY <1>1, <2>1, <2>2, <2>21, Fills
  <2> QED BY <2>3, <2>4, <2>5, <2>6
<1>10. Calls' /\ writer'[w] = next /\ \A v \in Writers : v # w => writer'[v] = writer[v]
  <2>1. UNCHANGED <<torrent, writes>>
    BY <1>2
  <2>2. next.id = writer[w].id /\ writer[w].at # "idle" /\ next.rest \subseteq writer[w].rest
    BY <1>1, <1>2, <1>8
  <2> QED BY <1>7, <1>8, <1>9, <2>1, <2>2, CallsStep
<1>11. LocksGivenBack'
  <2>1. \A j \in B!Entries : owner[j] # w \/ j \in left
    BY <1>2, Holds, NobodyWrites
  <2> QED BY <1>2, <1>4, <1>10, <2>1, LocksStep
<1>12. Alone'
  <2>1. UNCHANGED <<torrent, writes, last>> /\ writer[w].at # "idle"
    BY <1>2
  <2>2. writer'[w].id = id /\ writer'[w].at = "next" /\ writer'[w].rest = writer[w].rest \ {i}
    BY <1>1, <1>8, <1>10
  <2> QED BY <1>1, <1>9, <1>10, <2>1, <2>2, AloneStep
<1>13. Reading'
  BY <1>2, <1>3, ReaderKept
<1> QED BY <1>6, <1>9, <1>10, <1>11, <1>12, <1>13 DEF TorrentIInv

(* At the end of a call its thread has nothing left to do.                 *)
LEMMA Returns ==
  ASSUME TorrentIInv, NEW w \in Writers, B!WriteReturns(w)
  PROVE  TorrentIInv'
<1>1. /\ writer[w].at = "next" /\ writer[w].rest = {}
      /\ writer' = [writer EXCEPT ![w] = [at |-> "idle"]]
      /\ UNCHANGED <<torrent, files, owner, left, reader, writes, last>>
  BY DEF B!WriteReturns
<1>2. reader.of = 0
  BY <1>1, InCall
<1>3. Owners'
  BY <1>1, SameTorrent DEF TorrentIInv, Owners
<1>4. FilesPlaced'
  BY <1>1, PlacedStep DEF TorrentIInv, FilesPlaced
<1>5. Calls' /\ writer'[w] = [at |-> "idle"] /\ \A v \in Writers : v # w => writer'[v] = writer[v]
  BY <1>1, CallsStep
<1>6. LocksGivenBack'
  <2>1. \A j \in B!Entries : owner[j] # w \/ j \in left
    BY <1>1, Holds, NobodyWrites
  <2>2. CASE B!Entries = {}
    BY <1>1, <2>2, SameTorrent DEF LocksGivenBack, B!LocksGivenBack
  <2>3. CASE B!Entries # {}
    BY <1>1, <1>5, <2>1, <2>3, LocksStep
  <2> QED BY <2>2, <2>3
<1>7. Alone'
  <2>1. PICK id : id = writer[w].id
    OBVIOUS
  <2> QED BY <1>1, <1>5, <2>1, AloneStep
<1>8. Reading'
  BY <1>1, <1>2, ReaderKept
<1> QED BY <1>3, <1>4, <1>5, <1>6, <1>7, <1>8 DEF TorrentIInv

(* A file that cannot be opened: nobody notices, or the call is over, its  *)
(* mutex is locked for ever, and no write is known to be whole.            *)
LEMMA Fails ==
  ASSUME TorrentIInv, NEW w \in Writers, B!OpenFails(w)
  PROVE  TorrentIInv'
<1>1. PICK i, id, rest : i = B!Min(writer[w].rest) /\ id = writer[w].id /\ rest = writer[w].rest
  OBVIOUS
<1> DEFINE next == [at |-> "next", id |-> id, rest |-> rest \ {i}]
<1>2. /\ writer[w].at = "next" /\ rest # {}
      /\ owner[i] \in {None, w}
      /\ \/ /\ writer' = [writer EXCEPT ![w].rest = @ \ {i}]
            /\ UNCHANGED <<owner, left>>
         \/ /\ writer' = [writer EXCEPT ![w] = [at |-> "idle"]]
            /\ owner' = [owner EXCEPT ![i] = w]
            /\ left' = left \cup {i}
      /\ last' = 0
      /\ UNCHANGED <<torrent, files, reader, writes>>
  BY <1>1 DEF B!OpenFails
<1>3. /\ writer[w] = [at |-> writer[w].at, id |-> id, rest |-> rest]
      /\ rest \subseteq B!Entries /\ reader.of = 0
  BY <1>1, <1>2, InCall
<1>4. i \in rest /\ i \in B!Entries
  BY <1>1, <1>2, <1>3, Current
<1>5. /\ owner \in [B!Entries -> Writers \cup {None}] /\ DOMAIN writer = Writers
      /\ left \subseteq B!Entries
  BY DEF TorrentIInv, Owners, Calls
<1>6. B!Entries' = B!Entries /\ B!Ranges' = B!Ranges
  BY <1>2, SameTorrent
<1>7. Owners'
  <2>1. 0 \in 0 .. Len(writes)
    BY LenProperties DEF TorrentIInv, Owners
  <2> QED BY <1>2, <1>4, <1>5, <1>6, <2>1 DEF TorrentIInv, Owners
<1>8. FilesPlaced'
  BY <1>2, PlacedStep DEF TorrentIInv, FilesPlaced
<1>9. Alone' /\ Reading'
  BY <1>2, <1>3, ReaderKept DEF Alone
<1>10. \A j \in B!Entries : owner[j] # w \/ j \in left
  BY <1>2, Holds, NobodyWrites
<1>11. CASE writer' = [writer EXCEPT ![w].rest = @ \ {i}] /\ UNCHANGED <<owner, left>>
  <2>1. writer' = [writer EXCEPT ![w] = next]
    <3>1. [writer[w] EXCEPT !.rest = rest \ {i}] = next
      BY <1>2, <1>3
    <3>2. writer' = [writer EXCEPT ![w] = [writer[w] EXCEPT !.rest = rest \ {i}]]
      BY <1>1, <1>5, <1>11
    <3> QED BY <3>1, <3>2
  <2> HIDE DEF next
  <2>2. /\ next.at = "next" /\ next.id = id /\ next.rest = rest \ {i}
        /\ next = [at |-> next.at, id |-> next.id, rest |-> next.rest]
    BY DEF next
  <2>3. Calls' /\ \A v \in Writers : v # w => writer'[v] = writer[v]
    BY <1>1, <1>2, <1>3, <2>1, <2>2, CallsStep
  <2>4. LocksGivenBack'
    BY <1>2, <1>4, <1>10, <1>11, <2>3, LocksStep
  <2> QED BY <1>7, <1>8, <1>9, <2>3, <2>4 DEF TorrentIInv
<1>12. CASE /\ writer' = [writer EXCEPT ![w] = [at |-> "idle"]]
            /\ owner' = [owner EXCEPT ![i] = w]
            /\ left' = left \cup {i}
  <2>1. Calls' /\ \A v \in Writers : v # w => writer'[v] = writer[v]
    BY <1>2, <1>12, CallsStep
  <2>2. LocksGivenBack'
    BY <1>2, <1>4, <1>5, <1>10, <1>12, <2>1, LocksStep
  <2> QED BY <1>7, <1>8, <1>9, <2>1, <2>2 DEF TorrentIInv
<1> QED BY <1>2, <1>11, <1>12

(* A directory that cannot be made: the call is over and holds nothing.    *)
LEMMA DirectoryMissing ==
  ASSUME TorrentIInv, NEW w \in Writers, B!DirectoryFails(w)
  PROVE  TorrentIInv'
<1>1. /\ writer[w].at = "next" /\ writer[w].rest # {}
      /\ writer' = [writer EXCEPT ![w] = [at |-> "idle"]] /\ last' = 0
      /\ UNCHANGED <<torrent, files, owner, left, reader, writes>>
  BY DEF B!DirectoryFails
<1>2. writer[w].rest \subseteq B!Entries /\ reader.of = 0
  BY <1>1, InCall
<1>3. Owners'
  <2>1. 0 \in 0 .. Len(writes)
    BY LenProperties DEF TorrentIInv, Owners
  <2> QED BY <1>1, <2>1, SameTorrent DEF TorrentIInv, Owners
<1>4. FilesPlaced'
  BY <1>1, PlacedStep DEF TorrentIInv, FilesPlaced
<1>5. Alone' /\ Reading'
  BY <1>1, <1>2, ReaderKept DEF Alone
<1>6. Calls' /\ \A v \in Writers : v # w => writer'[v] = writer[v]
  BY <1>1, CallsStep
<1>7. LocksGivenBack'
  <2>1. \A j \in B!Entries : owner[j] # w \/ j \in left
    BY <1>1, Holds, NobodyWrites
  <2>2. PICK i \in B!Entries : TRUE
    BY <1>1, <1>2
  <2> QED BY <1>1, <1>6, <2>1, <2>2, LocksStep
<1> QED BY <1>3, <1>4, <1>5, <1>6, <1>7 DEF TorrentIInv

(* A block that begins beyond the end of a single file: its bytes, and     *)
(* those from behind its buffer, come to lie behind that end; the call is  *)
(* over, and the mutex stays locked.                                       *)
LEMMA GoesAstray ==
  ASSUME TorrentIInv, NEW w \in Writers, B!WriteAstray(w)
  PROVE  TorrentIInv'
<1>1. PICK i, id, r : i = B!Min(writer[w].rest) /\ id = writer[w].id /\ r = writes[id]
  OBVIOUS
<1>2. /\ writer[w].at = "open" /\ Stray(torrent, r)
      /\ \E n \in 0 .. r.len + MaxStray :
           files' = [files EXCEPT ![i] =
             B!Put(@, [fstart |-> r.offset, fend |-> r.offset + n, bstart |-> 0], id)]
      /\ left' = left \cup {i} /\ last' = 0
      /\ writer' = [writer EXCEPT ![w] = [at |-> "idle"]]
      /\ UNCHANGED <<torrent, owner, reader, writes>>
  BY <1>1, InTerms DEF B!WriteAstray
<1>3. /\ writer[w].rest # {} /\ writer[w].rest \subseteq B!Entries
      /\ id \in 1 .. Len(writes) /\ i \in B!Entries /\ files[i] # B!Missing /\ reader.of = 0
  <2>1. /\ writer[w].rest \subseteq B!Entries /\ id \in 1 .. Len(writes)
        /\ writer[w].rest # {} /\ files[i] # B!Missing /\ reader.of = 0
    BY <1>1, <1>2, InCall
  <2> QED BY <1>1, <2>1, Current
<1>4. /\ torrent \in Torrents /\ IsRange(r) /\ Len(writes) \in Nat
      /\ owner \in [B!Entries -> Writers \cup {None}] /\ left \subseteq B!Entries
      /\ files \in [B!Entries -> Seq(Bytes)] /\ files[i] \in Seq(Bytes)
      /\ \A p \in 1 .. Len(files[i]) : Right(i, p, files[i][p])
  <2>1. IsRange(r)
    BY <1>1, <1>3, WritesFit DEF TorrentIInv
  <2> QED BY <1>3, <2>1, LenProperties DEF TorrentIInv, Owners, FilesPlaced
<1>5. /\ torrent.lengths[i] \in Nat /\ B!Offsets(torrent.lengths)[i] = 0
      /\ r.offset > torrent.lengths[i] /\ r.offset \in Nat /\ r.len \in Nat
  <2>1. torrent.single /\ r.offset > torrent.lengths[1]
    BY <1>2 DEF Stray
  <2>2. i \in 1 .. Len(torrent.lengths)
    BY <1>3, InTerms
  <2>3. i = 1 /\ B!Offsets(torrent.lengths)[i] = 0 /\ torrent.lengths[1] \in Nat
    BY <1>4, <2>1, <2>2, SingleIs
  <2> QED BY <1>4, <2>1, <2>3 DEF IsRange
<1>6. PICK n \in 0 .. r.len + MaxStray :
        files' = [files EXCEPT ![i] =
          B!Put(@, [fstart |-> r.offset, fend |-> r.offset + n, bstart |-> 0], id)]
  BY <1>2
<1>7. n \in Nat
  BY <1>5, <1>6, RangesAssumption
<1>8. PICK x, y : x = r.offset /\ y = r.offset + n
  OBVIOUS
<1>9. x \in Nat /\ y \in Nat /\ x <= y /\ x > torrent.lengths[i]
  BY <1>5, <1>7, <1>8
<1>10. PICK s : s = [fstart |-> x, fend |-> y, bstart |-> 0]
  OBVIOUS
<1>11. s.fstart = x /\ s.fend = y /\ s.bstart = 0
  BY <1>10
<1>12. PICK g : g = B!Put(files[i], s, id)
  OBVIOUS
<1>13. files' = [files EXCEPT ![i] = g]
  BY <1>6, <1>8, <1>10, <1>12
<1>14. /\ g \in Seq(Bytes)
       /\ \A p \in 1 .. Len(g) :
            IF p > x /\ p <= y THEN g[p] = B!ByteOf(id, 0 + p - x)
            ELSE \/ g[p] = B!Hole /\ p <= y
                 \/ p <= Len(files[i]) /\ g[p] = files[i][p]
  <2>1. id \in Int /\ s.fstart \in Nat /\ s.fend \in Nat /\ s.bstart \in Nat /\ s.fstart <= s.fend
    BY <1>3, <1>4, <1>9, <1>11
  <2>2. g \in Seq(Bytes)
    BY <1>4, <1>12, <2>1, PutBytes
  <2>3. \A p \in 1 .. Len(g) :
          IF p > s.fstart /\ p <= s.fend THEN g[p] = B!ByteOf(id, s.bstart + p - s.fstart)
          ELSE \/ g[p] = B!Hole /\ p <= s.fend
               \/ p <= Len(files[i]) /\ g[p] = files[i][p]
    BY <1>4, <1>12, <2>1, PutBytes
  <2> QED BY <1>11, <2>2, <2>3
<1>15. Strayed(id)
  BY <1>1, <1>2, <1>3 DEF Strayed
<1>16. ASSUME NEW p \in 1 .. Len(g) PROVE Right(i, p, g[p])
  <2>0. Len(g) \in Nat /\ p \in Nat
    BY <1>14, LenProperties
  <2>1. CASE p > x /\ p <= y
    <3>1. g[p] = B!ByteOf(id, 0 + p - x) /\ 0 + p - x = p - x
      BY <1>9, <1>14, <2>0, <2>1
    <3>2. p > torrent.lengths[i]
      BY <1>5, <1>9, <2>0, <2>1
    <3>3. CASE p - x <= r.len
      <4>1. g[p] = <<id, p - x>>
        BY <1>1, <3>1, <3>3 DEF B!ByteOf
      <4>2. writes[id].offset + (p - x) = B!Offsets(torrent.lengths)[i] + p
        BY <1>1, <1>5, <1>8, <1>9, <2>0
      <4>3. InPlace(g[p], B!Offsets(torrent.lengths)[i] + p)
        BY <1>3, <4>1, <4>2 DEF InPlace
      <4> QED BY <1>15, <4>1, <4>3 DEF Right
    <3>4. CASE ~(p - x <= r.len)
      <4>1. g[p] = B!Wild
        BY <1>1, <3>1, <3>4 DEF B!ByteOf
      <4> QED BY <1>15, <3>2, <4>1 DEF Right
    <3> QED BY <3>3, <3>4
  <2>2. CASE ~(p > x /\ p <= y)
    <3>1. \/ g[p] = B!Hole
          \/ p \in 1 .. Len(files[i]) /\ g[p] = files[i][p]
      <4>1. Len(files[i]) \in Nat
        BY <1>4, LenProperties
      <4> QED BY <1>14, <2>0, <2>2, <4>1
    <3>2. CASE g[p] = B!Hole
      BY <1>15, <3>2 DEF Right, InPlace
    <3>3. CASE p \in 1 .. Len(files[i]) /\ g[p] = files[i][p]
      BY <1>4, <3>3
    <3> QED BY <3>1, <3>2, <3>3
  <2> QED BY <2>1, <2>2
<1>17. g # B!Missing
  <2> SUFFICES ASSUME g = B!Missing PROVE FALSE
    OBVIOUS
  <2>1. Len(g) = 1 /\ g[1] = <<-1, 0>>
    BY DEF B!Missing, B!Stale
  <2>2. Right(i, 1, <<-1, 0>>)
    BY <1>16, <2>1
  <2> QED BY <1>4, <2>2 DEF Right, InPlace, B!Hole, B!Wild
<1>18. /\ files'[i] = g /\ files' \in [B!Entries -> Seq(Bytes)]
       /\ \A j \in B!Entries : j # i => files'[j] = files[j]
  BY <1>3, <1>4, <1>13, <1>14
<1>19. FilesPlaced'
  <2>1. ASSUME NEW j \in B!Entries, files'[j] # B!Missing
        PROVE  \A p \in 1 .. Len(files'[j]) : Right(j, p, files'[j][p])
    <3>1. CASE j = i
      BY <1>16, <1>18, <3>1
    <3>2. CASE j # i
      BY <1>18, <2>1, <3>2 DEF TorrentIInv, FilesPlaced
    <3> QED BY <3>1, <3>2
  <2> QED BY <1>2, <1>18, <2>1, PlacedStep
<1>20. Owners'
  <2>1. 0 \in 0 .. Len(writes)
    BY <1>4
  <2>2. left' \subseteq B!Entries
    BY <1>2, <1>3, <1>4
  <2> QED BY <1>2, <2>1, <2>2, SameTorrent DEF TorrentIInv, Owners
<1>21. Calls' /\ \A v \in Writers : v # w => writer'[v] = writer[v]
  <2>1. \A j \in B!Entries : files[j] # B!Missing => files'[j] # B!Missing
    BY <1>17, <1>18
  <2> QED BY <1>2, <2>1, CallsStep
<1>22. LocksGivenBack'
  <2>1. \A j \in B!Entries : j # i => owner[j] # w \/ j \in left
    BY <1>1, <1>2, Holds, NobodyWrites
  <2> QED BY <1>2, <1>3, <1>21, <2>1, LocksStep
<1>23. Alone' /\ Reading'
  BY <1>2, <1>3, ReaderKept DEF Alone
<1> QED BY <1>19, <1>20, <1>21, <1>22, <1>23 DEF TorrentIInv

(* A reader takes no mutex and changes no file.                            *)
LEMMA WritersKept ==
  ASSUME TorrentIInv, UNCHANGED <<torrent, files, owner, left, writer, writes, last>>
  PROVE  Owners' /\ FilesPlaced' /\ Calls' /\ LocksGivenBack' /\ Alone'
<1>1. B!Entries' = B!Entries /\ B!Ranges' = B!Ranges
  BY SameTorrent
<1>2. Owners'
  BY <1>1 DEF TorrentIInv, Owners
<1>3. FilesPlaced'
  BY PlacedStep DEF TorrentIInv, FilesPlaced
<1>4. Calls'
  BY <1>1 DEF TorrentIInv, Calls, B!Missing, B!Stale
<1>5. LocksGivenBack'
  BY <1>1 DEF TorrentIInv, LocksGivenBack, B!LocksGivenBack
<1>6. Alone'
  <2>1. \A j : Full(j, last) => Full(j, last)'
    BY DEF Full, B!Missing, B!Stale
  <2> QED BY <1>1, <2>1 DEF TorrentIInv, Alone
<1> QED BY <1>2, <1>3, <1>4, <1>5, <1>6

(* A call of ReadBlockAt begins, with nothing in its buffer.               *)
LEMMA ReadBegins ==
  ASSUME TorrentIInv, NEW r \in B!Ranges, B!ReadBlockAt(r)
  PROVE  TorrentIInv'
<1> DEFINE to == IF B!Idle THEN last ELSE 0
           call == [at |-> "next", offset |-> r.offset, len |-> r.len, rest |-> B!Path(r),
                    got |-> [k \in 1 .. r.len |-> B!Stale], ok |-> TRUE, of |-> to]
<1>1. /\ reader' = call
      /\ UNCHANGED <<torrent, files, owner, left, writer, writes, last>>
  BY DEF B!ReadBlockAt
<1>2. IsRange(r)
  BY RangesFit DEF TorrentIInv
<1>3. to # 0 => to = last /\ \A w \in Writers : writer[w].at = "idle"
  BY DEF B!Idle
<1> HIDE DEF to
<1>4. /\ call.at = "next" /\ call.offset = r.offset /\ call.len = r.len
      /\ call.rest = B!Path(r) /\ call.ok /\ call.of = to
      /\ DOMAIN call.got = 1 .. r.len /\ \A k \in 1 .. r.len : call.got[k] = B!Stale
      /\ call = [at |-> call.at, offset |-> call.offset, len |-> call.len,
                 rest |-> call.rest, got |-> call.got, ok |-> call.ok, of |-> call.of]
  OBVIOUS
<1> HIDE DEF call
<1>5. PICK c, f, path : c = call /\ f = to /\ path = B!Path(r)
  OBVIOUS
<1>6. /\ reader' = c
      /\ c.at = "next" /\ c.offset = r.offset /\ c.len = r.len
      /\ c.rest = path /\ c.of = f
      /\ DOMAIN c.got = 1 .. r.len /\ \A k \in 1 .. r.len : c.got[k] = B!Stale
      /\ c = [at |-> c.at, offset |-> c.offset, len |-> c.len,
              rest |-> c.rest, got |-> c.got, ok |-> c.ok, of |-> c.of]
      /\ f # 0 => f = last /\ \A w \in Writers : writer[w].at = "idle"
      /\ c.ok
  BY <1>1, <1>3, <1>4, <1>5
<1>7. \A i : Goes(torrent, c, i) <=> Goes(torrent, r, i)
  BY <1>6 DEF Goes
<1>8. path \subseteq B!Entries /\ \A i \in B!Entries : i \in path <=> Goes(torrent, c, i)
  BY <1>5, <1>7, InTerms
<1>81. IsRange(c)
  BY <1>2, <1>6 DEF IsRange
<1>82. B!Entries' = B!Entries /\ \A k \in 1 .. c.len : Got(c.got[k], c.offset + k)'
  <2>1. B!Entries' = B!Entries
    BY <1>1, SameTorrent
  <2>2. \A k \in 1 .. c.len : c.got[k] = B!Stale
    BY <1>6
  <2> QED BY <2>1, <2>2 DEF Got, B!Stale
<1>9. Reading'
  BY <1>1, <1>6, <1>8, <1>81, <1>82 DEF Reading
<1> QED BY <1>1, <1>9, WritersKept DEF TorrentIInv

(* A byte of a file comes to its place in the buffer, and after a write    *)
(* that ran alone and covers the block there is no file it does not find.  *)
LEMMA Reads ==
  ASSUME TorrentIInv, B!ReadEntry
  PROVE  TorrentIInv'
<1>1. PICK i, of, rest, len, got, offset :
        /\ i = B!Min(reader.rest) /\ of = reader.of /\ rest = reader.rest
        /\ len = reader.len /\ got = reader.got /\ offset = reader.offset
  OBVIOUS
<1>2. PICK s : s = ReadPart(torrent, reader, i)
  OBVIOUS
<1> DEFINE there == {k \in 1 .. len :
                       /\ k > s.bstart /\ k - s.bstart <= s.fend - s.fstart
                       /\ s.fstart + k - s.bstart <= Len(files[i])}
           now == [k \in 1 .. len |-> IF k \in there
                     THEN files[i][s.fstart + k - s.bstart] ELSE got[k]]
           failed == [at |-> "next", offset |-> offset, len |-> len, rest |-> {},
                      got |-> got, ok |-> FALSE, of |-> of]
           read == [at |-> "next", offset |-> offset, len |-> len, rest |-> rest \ {i},
                    got |-> now, ok |-> reader.ok, of |-> of]
<1>3. /\ reader.at = "next" /\ rest # {}
      /\ reader' = IF files[i] = B!Missing
            THEN [reader EXCEPT !.ok = FALSE, !.rest = {}]
            ELSE [reader EXCEPT !.rest = rest \ {i},
                    !.got = [k \in DOMAIN got |-> IF k \in there
                               THEN files[i][s.fstart + k - s.bstart] ELSE got[k]]]
      /\ UNCHANGED <<torrent, files, owner, left, writer, writes, last>>
  <2>1. B!ReadSegment(reader, i) = s
    BY <1>2, InTerms
  <2> QED BY <1>1, <2>1 DEF B!ReadEntry
<1>4. reader # B!NoRead
  BY <1>3 DEF B!NoRead
<1>5. /\ reader = [at |-> "next", offset |-> offset, len |-> len, rest |-> rest,
                   got |-> got, ok |-> reader.ok, of |-> of]
      /\ IsRange(reader)
      /\ rest \subseteq B!Entries
      /\ \A j \in rest : Goes(torrent, reader, j)
      /\ DOMAIN got = 1 .. len
      /\ \A k \in 1 .. len : Got(got[k], offset + k)
  BY <1>1, <1>3, <1>4 DEF TorrentIInv, Reading
<1>6. of # 0 =>
        /\ of = last
        /\ \A w \in Writers : writer[w].at = "idle"
        /\ B!Inside(reader, writes[last]) =>
             /\ len > 0 /\ offset < EndOf(torrent) => reader.ok
             /\ \A j \in B!Entries \ rest : Goes(torrent, reader, j) =>
                  \A k \in 1 .. len :
                    LET z == ReadPart(torrent, reader, j)
                    IN /\ k > z.bstart /\ k - z.bstart <= z.fend - z.fstart
                       /\ offset + k <= EndOf(torrent)
                       => got[k][1] = last
  BY <1>1, <1>4 DEF TorrentIInv, Reading
<1>7. i \in rest /\ i \in B!Entries /\ Goes(torrent, reader, i)
  BY <1>1, <1>3, <1>5, Current
<1>8. torrent \in Torrents /\ i \in 1 .. Len(torrent.lengths)
  BY <1>7, InTerms DEF TorrentIInv, Owners
<1>9. /\ s.fstart \in Nat /\ s.fend \in Nat /\ s.bstart \in Nat
      /\ s.fstart <= s.fend
      /\ offset + s.bstart = B!Offsets(torrent.lengths)[i] + s.fstart
      /\ offset \in Nat /\ len \in Nat /\ B!Offsets(torrent.lengths)[i] \in Nat
  BY <1>1, <1>2, <1>5, <1>7, <1>8, ReadInPlace, PlacesOf DEF IsRange
<1>91. EndOf(torrent) \in Nat
  BY <1>8, EndIs
<1>10. reader' = IF files[i] = B!Missing THEN failed ELSE read
  <2>1. PICK c : c = reader
    OBVIOUS
  <2>2. c = [at |-> "next", offset |-> offset, len |-> len, rest |-> rest,
             got |-> got, ok |-> c.ok, of |-> of]
    BY <1>5, <2>1
  <2>3. ASSUME NEW g PROVE
          [c EXCEPT !.rest = rest \ {i}, !.got = g] =
            [at |-> "next", offset |-> offset, len |-> len, rest |-> rest \ {i},
             got |-> g, ok |-> c.ok, of |-> of]
    <3> DEFINE e == [c EXCEPT !.rest = rest \ {i}]
    <3>1. e = [at |-> "next", offset |-> offset, len |-> len, rest |-> rest \ {i},
               got |-> got, ok |-> c.ok, of |-> of]
      BY <2>2
    <3>2. [c EXCEPT !.rest = rest \ {i}, !.got = g] = [e EXCEPT !.got = g]
      BY Zenon
    <3> HIDE DEF e
    <3> QED BY <3>1, <3>2
  <2>4. [c EXCEPT !.ok = FALSE, !.rest = {}] =
            [at |-> "next", offset |-> offset, len |-> len, rest |-> {},
             got |-> got, ok |-> FALSE, of |-> of]
    <3>0. PICK no : no = FALSE
      OBVIOUS
    <3> DEFINE e == [c EXCEPT !.ok = no]
    <3>1. e = [at |-> "next", offset |-> offset, len |-> len, rest |-> rest,
               got |-> got, ok |-> no, of |-> of]
      BY <2>2
    <3>2. [c EXCEPT !.ok = no, !.rest = {}] = [e EXCEPT !.rest = {}]
      BY Zenon
    <3> HIDE DEF e
    <3>3. [c EXCEPT !.ok = no, !.rest = {}] =
            [at |-> "next", offset |-> offset, len |-> len, rest |-> {},
             got |-> got, ok |-> no, of |-> of]
      BY <3>1, <3>2
    <3> QED BY <3>0, <3>3, Zenon
  <2>5. reader' = IF files[i] = B!Missing
            THEN [c EXCEPT !.ok = FALSE, !.rest = {}]
            ELSE [c EXCEPT !.rest = rest \ {i}, !.got = now]
    BY <1>3, <1>5, <2>1
  <2> HIDE DEF now
  <2>6. [c EXCEPT !.rest = rest \ {i}, !.got = now] = read
    BY <2>1, <2>3
  <2> QED BY <2>4, <2>5, <2>6
<1>11. /\ B!Entries' = B!Entries /\ EndOf(torrent)' = EndOf(torrent)
       /\ \A x, q : Got(x, q)' <=> Got(x, q)
  BY <1>3, SameTorrent
<1>12. (of # 0 /\ B!Inside(reader, writes[last]) /\ len > 0 /\ offset < EndOf(torrent)) =>
        Full(i, last)
  <2> SUFFICES ASSUME of # 0, B!Inside(reader, writes[last]), len > 0, offset < EndOf(torrent)
               PROVE  Full(i, last)
    OBVIOUS
  <2>1. PICK q : q = writes[last]
    OBVIOUS
  <2>2. last \in 1 .. Len(writes)
    BY <1>6, LenProperties DEF TorrentIInv, Owners
  <2>3. IsRange(q)
    BY <2>1, <2>2, WritesFit DEF TorrentIInv
  <2>4. Goes(torrent, q, i) /\ Wants(torrent, q)
    BY <1>1, <1>5, <1>7, <1>8, <2>1, <2>3, GoesToo
  <2> QED BY <1>6, <1>7, <2>1, <2>4 DEF TorrentIInv, Alone
<1>121. ASSUME of # 0, B!Inside(reader, writes[last]), NEW k \in 1 .. len,
               k > s.bstart, k - s.bstart <= s.fend - s.fstart, offset + k <= EndOf(torrent)
        PROVE  /\ s.fstart + k - s.bstart <= Len(files[i])
               /\ files[i][s.fstart + k - s.bstart][1] = last
  <2>1. PICK q : q = writes[last]
    OBVIOUS
  <2>2. last \in 1 .. Len(writes)
    BY <1>6, <1>121, LenProperties DEF TorrentIInv, Owners
  <2>3. IsRange(q)
    BY <2>1, <2>2, WritesFit DEF TorrentIInv
  <2>4. len > 0 /\ offset < EndOf(torrent)
    BY <1>9, <1>91, <1>121
  <2>5. Full(i, last)
    BY <1>12, <1>121, <2>4
  <2>6. PICK p : p = s.fstart + k - s.bstart
    OBVIOUS
  <2>7. p > Part(torrent.lengths, q, i).fstart /\ p <= Part(torrent.lengths, q, i).fend
    <3>1. k \in 1 .. reader.len /\ reader.offset + k <= EndOf(torrent) /\ B!Inside(reader, q)
      BY <1>1, <1>121, <2>1
    <3> QED BY <1>2, <1>5, <1>7, <1>8, <1>121, <2>3, <2>6, <3>1, PartInside
  <2>8. p \in Int
    <3>1. PICK u, v : u = s.fstart /\ v = s.bstart
      OBVIOUS
    <3>2. u \in Nat /\ v \in Nat /\ k \in Int
      BY <1>9, <3>1
    <3> QED BY <2>6, <3>1, <3>2
  <2> QED BY <2>1, <2>5, <2>6, <2>7, <2>8 DEF Full
<1>13. CASE files[i] = B!Missing
  <2> HIDE DEF failed
  <2>1. reader' = failed
    BY <1>10, <1>13
  <2>2. /\ failed.at = "next" /\ failed.offset = offset /\ failed.len = len
        /\ failed.rest = {} /\ failed.got = got /\ failed.of = of
        /\ failed = [at |-> failed.at, offset |-> failed.offset, len |-> failed.len,
                     rest |-> failed.rest, got |-> failed.got, ok |-> failed.ok,
                     of |-> failed.of]
    BY DEF failed
  <2>3. /\ IsRange(failed)
        /\ B!Inside(failed, writes[last]) <=> B!Inside(reader, writes[last])
    BY <1>1, <1>5, <2>2 DEF IsRange, B!Inside
  <2>4. of # 0 => of = last /\ (\A w \in Writers : writer[w].at = "idle")
    BY <1>6
  <2>41. of # 0 /\ B!Inside(failed, writes[last]) => ~(len > 0 /\ offset < EndOf(torrent))
    BY <1>12, <1>13, <2>3 DEF Full
  <2>42. of # 0 /\ B!Inside(failed, writes[last]) =>
           \A k \in 1 .. len : ~(offset + k <= EndOf(torrent))
    BY <1>9, <1>91, <2>41
  <2>43. \A k \in 1 .. len : Got(got[k], offset + k)'
    BY <1>5, <1>11
  <2>44. PICK c : c = failed
    OBVIOUS
  <2>45. /\ reader' = c /\ IsRange(c)
         /\ c.at = "next" /\ c.offset = offset /\ c.len = len
         /\ c.rest = {} /\ c.got = got /\ c.of = of
         /\ c = [at |-> c.at, offset |-> c.offset, len |-> c.len,
                 rest |-> c.rest, got |-> c.got, ok |-> c.ok, of |-> c.of]
    BY <2>1, <2>2, <2>3, <2>44
  <2>46. of # 0 /\ B!Inside(c, writes[last]) =>
           /\ ~(len > 0 /\ offset < EndOf(torrent))
           /\ \A k \in 1 .. len : ~(offset + k <= EndOf(torrent))
    BY <2>41, <2>42, <2>44
  <2>5. Reading'
    BY <1>3, <1>5, <1>11, <2>4, <2>43, <2>45, <2>46 DEF Reading, B!Inside
  <2> QED BY <1>3, <2>5, WritersKept DEF TorrentIInv
<1>14. CASE files[i] # B!Missing
  <2> HIDE DEF read, now, there
  <2>1. reader' = read
    BY <1>10, <1>14
  <2>2. /\ read.at = "next" /\ read.offset = offset /\ read.len = len
        /\ read.rest = rest \ {i} /\ read.got = now /\ read.ok = reader.ok /\ read.of = of
        /\ read = [at |-> read.at, offset |-> read.offset, len |-> read.len,
                   rest |-> read.rest, got |-> read.got, ok |-> read.ok, of |-> read.of]
    BY DEF read
  <2>3. /\ IsRange(read)
        /\ B!Inside(read, writes[last]) <=> B!Inside(reader, writes[last])
    BY <1>1, <1>5, <2>2 DEF IsRange, B!Inside
  <2>4. \A j : /\ Goes(torrent, read, j) <=> Goes(torrent, reader, j)
               /\ ReadPart(torrent, read, j) = ReadPart(torrent, reader, j)
    BY <1>1, <2>2 DEF Goes, Part, ReadPart
  <2>5. ASSUME NEW k \in 1 .. len, k > s.bstart, k - s.bstart <= s.fend - s.fstart
        PROVE  /\ s.fstart + k - s.bstart \in Int
               /\ s.fstart + k - s.bstart > s.fstart /\ s.fstart + k - s.bstart <= s.fend
               /\ s.fstart + k - s.bstart \in Nat \ {0}
               /\ B!Offsets(torrent.lengths)[i] + (s.fstart + k - s.bstart) = offset + k
    <3>1. PICK u, v, w, x : u = s.fstart /\ v = s.fend /\ w = s.bstart /\ x = B!Offsets(torrent.lengths)[i]
      OBVIOUS
    <3>2. /\ u \in Nat /\ v \in Nat /\ w \in Nat /\ x \in Nat /\ k \in Int
          /\ offset \in Nat /\ k > w /\ k - w <= v - u /\ offset + w = x + u
      BY <1>9, <2>5, <3>1
    <3>3. /\ u + k - w \in Int /\ u + k - w > u /\ u + k - w <= v
          /\ u + k - w \in Nat \ {0} /\ x + (u + k - w) = offset + k
      BY <3>2
    <3> QED BY <3>1, <3>3
  <2>6. ASSUME NEW k \in 1 .. len
        PROVE  /\ k \in there => now[k] = files[i][s.fstart + k - s.bstart]
               /\ k \notin there => now[k] = got[k]
               /\ k \in there <=> /\ k > s.bstart /\ k - s.bstart <= s.fend - s.fstart
                                  /\ s.fstart + k - s.bstart <= Len(files[i])
    BY DEF now, there
  <2>7. DOMAIN now = 1 .. len
    BY DEF now
  <2>8. ASSUME NEW k \in 1 .. len
        PROVE  Got(now[k], offset + k)
    <3>1. CASE k \in there
      <4>1. k > s.bstart /\ k - s.bstart <= s.fend - s.fstart /\ s.fstart + k - s.bstart <= Len(files[i])
        BY <2>6, <3>1
      <4>2. PICK p : p = s.fstart + k - s.bstart
        OBVIOUS
      <4>3. p \in Nat \ {0} /\ p <= Len(files[i]) /\ B!Offsets(torrent.lengths)[i] + p = offset + k
        BY <2>5, <4>1, <4>2
      <4>4. Len(files[i]) \in Nat
        BY <1>7, LenProperties DEF TorrentIInv, FilesPlaced
      <4>5. p \in 1 .. Len(files[i])
        BY <4>3, <4>4
      <4>6. Right(i, p, files[i][p])
        BY <1>7, <1>14, <4>5 DEF TorrentIInv, FilesPlaced
      <4>7. CASE InPlace(files[i][p], B!Offsets(torrent.lengths)[i] + p)
        BY <2>6, <3>1, <4>2, <4>3, <4>7 DEF Got
      <4>8. CASE files[i][p] = B!Wild /\ p > torrent.lengths[i]
        <5>1. PICK m : Strayed(m)
          BY <4>6, <4>8 DEF Right
        <5>2. torrent.single
          BY <5>1 DEF Strayed, Stray
        <5>3. /\ i = 1 /\ B!Offsets(torrent.lengths)[i] = 0 /\ EndOf(torrent) = torrent.lengths[1]
              /\ torrent.lengths[1] \in Nat
          BY <1>8, <5>2, SingleIs
        <5>4. offset + k > EndOf(torrent)
          BY <4>3, <4>8, <5>3
        <5> QED BY <2>6, <3>1, <4>2, <4>8, <5>4 DEF Got
      <4> QED BY <4>6, <4>7, <4>8 DEF Right
    <3>2. CASE k \notin there
      BY <1>5, <2>6, <3>2
    <3> QED BY <3>1, <3>2
  <2>9. ASSUME of # 0, B!Inside(reader, writes[last]), NEW j \in B!Entries \ (rest \ {i}),
               Goes(torrent, reader, j), NEW k \in 1 .. len,
               k > ReadPart(torrent, reader, j).bstart,
               k - ReadPart(torrent, reader, j).bstart
                 <= ReadPart(torrent, reader, j).fend - ReadPart(torrent, reader, j).fstart,
               offset + k <= EndOf(torrent)
        PROVE  now[k][1] = last
    <3>1. CASE k \in there
      <4>1. k > s.bstart /\ k - s.bstart <= s.fend - s.fstart
        BY <2>6, <3>1
      <4> QED BY <1>121, <2>6, <2>9, <3>1, <4>1
    <3>2. CASE k \notin there
      <4>1. j # i
        <5> SUFFICES ASSUME j = i PROVE FALSE
          OBVIOUS
        <5>1. k > s.bstart /\ k - s.bstart <= s.fend - s.fstart
          BY <1>2, <2>9
        <5>2. s.fstart + k - s.bstart <= Len(files[i])
          BY <1>121, <2>9, <5>1
        <5> QED BY <2>6, <3>2, <5>1, <5>2
      <4> QED BY <1>6, <2>6, <2>9, <3>2, <4>1
    <3> QED BY <3>1, <3>2
  <2>10. of # 0 =>
           /\ of = last /\ \A w \in Writers : writer[w].at = "idle"
           /\ B!Inside(read, writes[last]) =>
                /\ len > 0 /\ offset < EndOf(torrent) => read.ok
                /\ \A j \in B!Entries \ read.rest : Goes(torrent, read, j) =>
                     \A k \in 1 .. len :
                       LET z == ReadPart(torrent, read, j)
                       IN /\ k > z.bstart /\ k - z.bstart <= z.fend - z.fstart
                          /\ offset + k <= EndOf(torrent)
                          => now[k][1] = last
    BY <1>6, <2>2, <2>3, <2>4, <2>9
  <2>11. /\ read.rest \subseteq B!Entries
         /\ \A j \in read.rest : Goes(torrent, read, j)
    BY <1>5, <2>2, <2>4
  <2>12. PICK c, h, fine : c = read /\ h = now /\ fine = reader.ok
    OBVIOUS
  <2>13. \A k \in 1 .. len : Got(h[k], offset + k)'
    BY <1>11, <2>8, <2>12
  <2>14. /\ reader' = c
         /\ c.at = "next" /\ c.offset = offset /\ c.len = len /\ c.got = h /\ c.of = of
         /\ c = [at |-> c.at, offset |-> c.offset, len |-> c.len,
                 rest |-> c.rest, got |-> c.got, ok |-> c.ok, of |-> c.of]
         /\ IsRange(c) /\ DOMAIN h = 1 .. len
         /\ c.rest \subseteq B!Entries /\ \A j \in c.rest : Goes(torrent, c, j)
    BY <2>1, <2>2, <2>3, <2>7, <2>11, <2>12
  <2>15. of # 0 =>
           /\ of = last /\ \A w \in Writers : writer[w].at = "idle"
           /\ B!Inside(c, writes[last]) =>
                /\ len > 0 /\ offset < EndOf(torrent) => c.ok
                /\ \A j \in B!Entries \ c.rest : Goes(torrent, c, j) =>
                     \A k \in 1 .. len :
                       LET z == ReadPart(torrent, c, j)
                       IN /\ k > z.bstart /\ k - z.bstart <= z.fend - z.fstart
                          /\ offset + k <= EndOf(torrent)
                          => h[k][1] = last
    BY <2>10, <2>12
  <2>16. Reading'
    BY <1>3, <1>11, <2>13, <2>14, <2>15 DEF Reading, B!Inside
  <2> QED BY <1>3, <2>16, WritersKept DEF TorrentIInv
<1> QED BY <1>13, <1>14

(* A read returns.                                                         *)
LEMMA ReadEnds ==
  ASSUME TorrentIInv, B!ReadReturns
  PROVE  TorrentIInv'
<1>1. reader' = B!NoRead /\ UNCHANGED <<torrent, files, owner, left, writer, writes, last>>
  BY DEF B!ReadReturns
<1>2. Reading'
  BY <1>1 DEF Reading, B!NoRead
<1> QED BY <1>1, <1>2, WritersKept DEF TorrentIInv

(* Every step of the torrent preserves the invariant.                      *)
LEMMA TorrentStep == TorrentIInv /\ (B!Next \/ UNCHANGED torrentVars) => TorrentIInv'
<1> SUFFICES ASSUME TorrentIInv, B!Next \/ UNCHANGED torrentVars PROVE TorrentIInv'
  OBVIOUS
<1>1. ASSUME NEW w \in Writers, B!Write(w) PROVE TorrentIInv'
  BY <1>1, Opens, Writes, Closes, Returns DEF B!Write
<1>2. ASSUME NEW w \in Writers, B!OpenFails(w) \/ B!DirectoryFails(w) \/ B!WriteAstray(w)
      PROVE  TorrentIInv'
  BY <1>2, Fails, DirectoryMissing, GoesAstray
<1>3. ASSUME NEW w \in Writers, NEW r \in B!Ranges, B!WriteBlockAt(w, r) PROVE TorrentIInv'
  BY <1>3, Begins
<1>4. ASSUME NEW r \in B!Ranges, B!ReadBlockAt(r) PROVE TorrentIInv'
  BY <1>4, ReadBegins
<1>5. CASE B!ReadEntry \/ B!ReadReturns
  BY <1>5, Reads, ReadEnds
<1>6. CASE UNCHANGED torrentVars
  <2>1. UNCHANGED <<torrent, files, owner, left, writer, reader, writes, last>>
    BY <1>6 DEF torrentVars
  <2>2. Reading'
    <3>1. B!Entries' = B!Entries /\ EndOf(torrent)' = EndOf(torrent)
      BY <2>1, SameTorrent
    <3>2. \A x, q : Got(x, q) => Got(x, q)'
      BY <2>1, SameTorrent
    <3>3. reader # B!NoRead =>
            \A k \in 1 .. reader'.len : Got(reader.got[k], reader.offset + k)'
      BY <2>1, <3>2 DEF TorrentIInv, Reading
    <3> QED BY <2>1, <3>1, <3>3 DEF TorrentIInv, Reading, B!NoRead, B!Inside
  <2> QED BY <2>1, <2>2, WritersKept DEF TorrentIInv
<1> QED BY <1>1, <1>2, <1>3, <1>4, <1>5, <1>6 DEF B!Next

(* What the runs check follows from the invariant.                         *)
LEMMA TorrentInvImplies == TorrentIInv => BlocksInPlace
<1> SUFFICES ASSUME TorrentIInv PROVE BlocksInPlace
  OBVIOUS
<1>1. B!TypeOK
  <2>1. \A w \in Writers : writer[w].at \in {"idle", "next", "open", "unlocked"}
    BY DEF TorrentIInv, Calls
  <2>2. reader.at \in {"idle", "next"}
    BY DEF TorrentIInv, Reading, B!NoRead
  <2> QED BY <2>1, <2>2 DEF TorrentIInv, Owners, B!TypeOK
<1>2. B!Placed
  <2> DEFINE strays == {n \in DOMAIN writes : B!Astray(writes[n])}
  <2>1. \A n : n \in strays <=> Strayed(n)
    <3>1. DOMAIN writes = 1 .. Len(writes)
      BY LenProperties DEF TorrentIInv, Owners
    <3> QED BY <3>1, InTerms DEF Strayed
  <2> HIDE DEF strays
  <2>2. SUFFICES ASSUME NEW i \in B!Entries, files[i] # B!Missing, NEW p \in DOMAIN files[i],
                        NEW x, x = files[i][p]
        PROVE  /\ x \notin {B!Hole, B!Wild} => writes[x[1]].offset + x[2] = B!Start(i) + p
               /\ x = B!Wild => p > torrent.lengths[i]
               /\ p > torrent.lengths[i] =>
                    strays # {} /\ (x \in {B!Hole, B!Wild} \/ x[1] \in strays)
    BY DEF B!Placed, strays
  <2>3. Right(i, p, x)
    <3>1. files[i] \in Seq(Bytes) /\ \A k \in 1 .. Len(files[i]) : Right(i, k, files[i][k])
      BY <2>2 DEF TorrentIInv, FilesPlaced
    <3>2. DOMAIN files[i] = 1 .. Len(files[i])
      BY <3>1, LenProperties
    <3> QED BY <2>2, <3>1, <3>2
  <2>4. x = B!Wild => ~InPlace(x, B!Offsets(torrent.lengths)[i] + p)
    <3>1. Len(writes) \in Nat
      BY LenProperties DEF TorrentIInv, Owners
    <3> QED BY <3>1 DEF InPlace, B!Wild, B!Hole
  <2> QED BY <2>1, <2>3, <2>4 DEF Right, InPlace, B!Start
<1>3. B!ReadBack
  <2> DEFINE inTorrent == {k \in DOMAIN reader.got : reader.offset + k <= B!Total}
  <2> SUFFICES ASSUME reader.at = "next", reader.rest = {}
               PROVE  /\ \A k \in DOMAIN reader.got :
                           /\ reader.got[k] \notin {B!Stale, B!Hole, B!Wild} =>
                                writes[reader.got[k][1]].offset + reader.got[k][2] =
                                  reader.offset + k
                           /\ reader.got[k] = B!Wild => k \notin inTorrent
                      /\ (reader.of # 0 /\ B!Inside(reader, writes[reader.of])) =>
                           /\ inTorrent # {} => reader.ok
                           /\ \A k \in inTorrent : reader.got[k][1] = reader.of
    BY DEF B!ReadBack
  <2>1. reader # B!NoRead
    BY DEF B!NoRead
  <2>2. /\ DOMAIN reader.got = 1 .. reader.len
        /\ IsRange(reader)
        /\ \A k \in 1 .. reader.len : Got(reader.got[k], reader.offset + k)
    BY <2>1 DEF TorrentIInv, Reading
  <2>3. EndOf(torrent) \in Nat /\ Len(writes) \in Nat /\ B!Total = EndOf(torrent)
    BY EndIs, InTerms, LenProperties DEF TorrentIInv, Owners
  <2>4. ASSUME NEW k \in 1 .. reader.len
        PROVE  /\ reader.got[k] \notin {B!Stale, B!Hole, B!Wild} =>
                    writes[reader.got[k][1]].offset + reader.got[k][2] = reader.offset + k
               /\ reader.got[k] = B!Wild => k \notin inTorrent
    <3>1. PICK x, q : x = reader.got[k] /\ q = reader.offset + k
      OBVIOUS
    <3>2. Got(x, q)
      BY <2>2, <3>1
    <3>3. x = B!Wild => ~InPlace(x, q) /\ x # B!Stale
      BY <2>3 DEF InPlace, B!Wild, B!Hole, B!Stale
    <3>4. q \in Int
      BY <2>2, <3>1 DEF IsRange
    <3>5. x = B!Wild => ~(q <= B!Total)
      BY <2>3, <3>2, <3>3, <3>4 DEF Got
    <3>6. x \notin {B!Stale, B!Hole, B!Wild} => writes[x[1]].offset + x[2] = q
      BY <3>2 DEF Got, InPlace
    <3> QED BY <3>1, <3>5, <3>6
  <2>5. ASSUME reader.of # 0, B!Inside(reader, writes[reader.of])
        PROVE  /\ inTorrent # {} => reader.ok
               /\ \A k \in inTorrent : reader.got[k][1] = reader.of
    <3>1. /\ reader.of = last
          /\ reader.len > 0 /\ reader.offset < EndOf(torrent) => reader.ok
          /\ \A i \in B!Entries : Goes(torrent, reader, i) =>
               \A k \in 1 .. reader.len :
                 LET s == ReadPart(torrent, reader, i)
                 IN /\ k > s.bstart /\ k - s.bstart <= s.fend - s.fstart
                    /\ reader.offset + k <= EndOf(torrent)
                    => reader.got[k][1] = last
      BY <2>1, <2>5 DEF TorrentIInv, Reading
    <3>2. ASSUME NEW k \in inTorrent
          PROVE  reader.got[k][1] = last /\ reader.len > 0 /\ reader.offset < EndOf(torrent)
      <4>0. k \in 1 .. reader.len /\ reader.offset + k <= EndOf(torrent)
        BY <2>2, <2>3
      <4>1. PICK i \in 1 .. Len(torrent.lengths) :
              LET s == ReadPart(torrent, reader, i)
              IN Goes(torrent, reader, i) /\ k > s.bstart /\ k - s.bstart <= s.fend - s.fstart
        BY <2>2, <4>0, PartsCover DEF TorrentIInv, Owners
      <4>2. reader.got[k][1] = last
        BY <3>1, <4>0, <4>1, InTerms
      <4>3. reader.len > 0 /\ reader.offset < EndOf(torrent)
        BY <2>2, <2>3, <4>0 DEF IsRange
      <4> QED BY <4>2, <4>3
    <3> QED BY <3>1, <3>2
  <2> QED BY <2>2, <2>4, <2>5
<1> QED BY <1>1, <1>2, <1>3 DEF BlocksInPlace, B!Inv

-----------------------------------------------------------------------------
(* For any torrent, any writers, any blocks, also beyond its end, and any  *)
(* files that cannot be opened or made a directory for: every byte of a    *)
(* file is where its offset says; no file outgrows its entry but a single  *)
(* one that a block was written to that begins beyond its end; and a block *)
(* that is read after a write that ran alone, and inside it, is what was   *)
(* written, up to the end of the torrent and across every boundary between *)
(* files (TorrentStream.cpp:34-148).                                       *)
THEOREM BlocksInPlaceCorrect == PartsSpec => []BlocksInPlace
<1>1. PartsInit => TorrentIInv
  BY TorrentInit DEF PartsInit
<1>2. TorrentIInv /\ [PartsNext]_<<part, vars, torrentVars>> => TorrentIInv'
  <2>1. [PartsNext]_<<part, vars, torrentVars>> => B!Next \/ UNCHANGED torrentVars
    BY DEF PartsNext, MountsPart, TorrentPart
  <2> QED BY <2>1, TorrentStep
<1> QED BY <1>1, <1>2, TorrentInvImplies, PTL DEF PartsSpec

(* Whoever waits for a file of a torrent waits for a thread that has it    *)
(* open and will unlock it, or for one whose write threw: writers never    *)
(* wait for each other in a circle, however many there are and wherever    *)
(* their blocks lie (TorrentStream.cpp:44-57, 109-148).                    *)
THEOREM LocksGivenBackCorrect == PartsSpec => []LocksGivenBack
<1>1. PartsInit => TorrentIInv
  BY TorrentInit DEF PartsInit
<1>2. TorrentIInv /\ [PartsNext]_<<part, vars, torrentVars>> => TorrentIInv'
  <2>1. [PartsNext]_<<part, vars, torrentVars>> => B!Next \/ UNCHANGED torrentVars
    BY DEF PartsNext, MountsPart, TorrentPart
  <2> QED BY <2>1, TorrentStep
<1>3. TorrentIInv => LocksGivenBack
  BY DEF TorrentIInv
<1> QED BY <1>1, <1>2, <1>3, PTL DEF PartsSpec
-----------------------------------------------------------------------------
(* Paths, which are sequences, and their prefixes.                         *)

(* The paths of a bounded number of components.                            *)
LEMMA PathsAre ==
  /\ \A S : \A n \in Nat : \A p : p \in PathsOver(S, n) <=> p \in Seq(S) /\ Len(p) <= n
  /\ \A p : p \in Paths <=> p \in Seq(Names) /\ Len(p) <= MaxDepth
<1>1. ASSUME NEW S, NEW n \in Nat, NEW p
      PROVE  p \in PathsOver(S, n) <=> p \in Seq(S) /\ Len(p) <= n
  <2>1. ASSUME p \in PathsOver(S, n) PROVE p \in Seq(S) /\ Len(p) <= n
    <3>1. PICK k \in 0 .. n : p \in [1 .. k -> S]
      BY <2>1 DEF PathsOver
    <3>2. p \in Seq(S)
      BY <3>1, SeqDef
    <3>3. Len(p) \in Nat /\ DOMAIN p = 1 .. Len(p) /\ DOMAIN p = 1 .. k
      BY <3>1, <3>2, LenProperties
    <3>4. Len(p) = k
      BY <3>1, <3>3
    <3> QED BY <3>1, <3>2, <3>4
  <2>2. ASSUME p \in Seq(S), Len(p) <= n PROVE p \in PathsOver(S, n)
    <3>1. Len(p) \in 0 .. n /\ p \in [1 .. Len(p) -> S]
      BY <2>2, LenProperties
    <3> QED BY <3>1 DEF PathsOver
  <2> QED BY <2>1, <2>2
<1> QED BY <1>1, BoundsAssumption DEF Paths

(* The first n components of a path.                                       *)
LEMMA FirstOf ==
  ASSUME NEW S, NEW p \in Seq(S), NEW n \in 0 .. Len(p)
  PROVE  /\ First(p, n) \in Seq(S) /\ Len(First(p, n)) = n
         /\ \A i \in 1 .. n : First(p, n)[i] = p[i]
<1>1. Len(p) \in Nat
  BY LenProperties
<1>2. n \in Nat /\ 1 <= n + 1 /\ n <= Len(p) /\ n - 1 + 1 = n
  BY <1>1
<1> QED BY <1>2, PartOf DEF First

(* The first components of the first components of a path.                 *)
LEMMA FirstOfFirst ==
  ASSUME NEW S, NEW p \in Seq(S), NEW n \in 0 .. Len(p), NEW k \in 0 .. n
  PROVE  First(First(p, n), k) = First(p, k)
<1>1. Len(p) \in Nat
  BY LenProperties
<1> DEFINE q == First(p, n)
<1>2. q \in Seq(S) /\ Len(q) = n /\ \A i \in 1 .. n : q[i] = p[i]
  BY FirstOf
<1> HIDE DEF q
<1>3. k \in 0 .. Len(q) /\ k \in 0 .. Len(p)
  BY <1>1, <1>2
<1>4. /\ First(q, k) \in Seq(S) /\ Len(First(q, k)) = k
      /\ \A i \in 1 .. k : First(q, k)[i] = q[i]
  BY <1>2, <1>3, FirstOf
<1>5. /\ First(p, k) \in Seq(S) /\ Len(First(p, k)) = k
      /\ \A i \in 1 .. k : First(p, k)[i] = p[i]
  BY <1>3, FirstOf
<1>6. First(q, k) = First(p, k)
  BY <1>2, <1>4, <1>5, SeqEqual
<1> QED BY <1>6 DEF q

(* The whole of a path, and all but the last of its components.            *)
LEMMA FirstAll ==
  ASSUME NEW S, NEW p \in Seq(S)
  PROVE  /\ First(p, Len(p)) = p /\ First(p, 0) = <<>>
         /\ Front(p) = First(p, Len(p) - 1)
         /\ p = <<>> <=> Len(p) = 0
<1>1. First(p, Len(p)) = p
  BY SubSeqFull DEF First
<1>2. First(p, 0) = <<>>
  BY SubSeqEmpty DEF First
<1>3. p = <<>> <=> Len(p) = 0
  BY EmptySeq
<1> QED BY <1>1, <1>2, <1>3 DEF Front, First

(* A path is a prefix of another when it is what the other begins with.    *)
LEMMA PrefixIs ==
  ASSUME NEW S, NEW p \in Seq(S), NEW q \in Seq(S)
  PROVE  /\ IsPrefix(q, p) <=> Len(q) <= Len(p) /\ q = First(p, Len(q))
         /\ IsStrictPrefix(q, p) <=> Len(q) < Len(p) /\ q = First(p, Len(q))
<1>1. Len(p) \in Nat /\ Len(q) \in Nat
  BY LenProperties
<1>2. First(q, Len(q)) = q /\ First(p, Len(p)) = p
  BY FirstAll
<1>3. IsPrefix(q, p) <=> Len(q) <= Len(p) /\ q = First(p, Len(q))
  BY <1>2 DEF IsPrefix, First
<1>4. CASE IsPrefix(q, p) /\ Len(q) = Len(p)
  <2>1. q = p
    BY <1>2, <1>3, <1>4
  <2> QED BY <1>1, <1>3, <1>4, <2>1 DEF IsStrictPrefix
<1>5. CASE ~(IsPrefix(q, p) /\ Len(q) = Len(p))
  BY <1>1, <1>3, <1>5 DEF IsStrictPrefix
<1> QED BY <1>3, <1>4, <1>5

(* A path and one more name.                                               *)
LEMMA OneMore ==
  ASSUME NEW S, NEW p \in Seq(S), NEW x \in S
  PROVE  /\ Append(p, x) \in Seq(S) /\ Len(Append(p, x)) = Len(p) + 1
         /\ \A k \in 0 .. Len(p) : First(Append(p, x), k) = First(p, k)
         /\ Front(Append(p, x)) = p /\ Last(Append(p, x)) = x
<1>1. Len(p) \in Nat
  BY LenProperties
<1> DEFINE q == Append(p, x)
<1>2. /\ q \in Seq(S) /\ Len(q) = Len(p) + 1
      /\ \A i \in 1 .. Len(p) : q[i] = p[i]
      /\ q[Len(p) + 1] = x
  BY AppendProperties
<1> HIDE DEF q
<1>3. ASSUME NEW k \in 0 .. Len(p) PROVE First(q, k) = First(p, k)
  <2>1. k \in 0 .. Len(q)
    BY <1>1, <1>2
  <2>2. /\ First(q, k) \in Seq(S) /\ Len(First(q, k)) = k
        /\ \A i \in 1 .. k : First(q, k)[i] = q[i]
    BY <1>2, <2>1, FirstOf
  <2>3. /\ First(p, k) \in Seq(S) /\ Len(First(p, k)) = k
        /\ \A i \in 1 .. k : First(p, k)[i] = p[i]
    BY FirstOf
  <2>4. \A i \in 1 .. k : q[i] = p[i]
    BY <1>1, <1>2
  <2> QED BY <2>2, <2>3, <2>4, SeqEqual
<1>4. Front(q) = p
  <2>1. Front(q) = First(q, Len(q) - 1) /\ Len(q) - 1 = Len(p) /\ Len(p) \in 0 .. Len(p)
    BY <1>1, <1>2, FirstAll
  <2> QED BY <1>3, <2>1, FirstAll
<1>5. Last(q) = x
  BY <1>2 DEF Last
<1> QED BY <1>2, <1>3, <1>4, <1>5 DEF q

(* A path that has a parent is the parent and one more name.               *)
LEMMA ParentAndName ==
  ASSUME NEW S, NEW q \in Seq(S), Len(q) > 0
  PROVE  /\ Front(q) \in Seq(S) /\ Len(Front(q)) = Len(q) - 1 /\ Last(q) \in S
         /\ q = Append(Front(q), Last(q))
<1>1. Len(q) \in Nat
  BY LenProperties
<1>2. Front(q) = First(q, Len(q) - 1) /\ Len(q) - 1 \in 0 .. Len(q)
  BY <1>1, FirstAll
<1>3. /\ Front(q) \in Seq(S) /\ Len(Front(q)) = Len(q) - 1
      /\ \A i \in 1 .. Len(q) - 1 : Front(q)[i] = q[i]
  BY <1>2, FirstOf
<1>4. Last(q) = q[Len(q)] /\ q[Len(q)] \in S
  BY <1>1, ElementOfSeq DEF Last
<1> DEFINE p == Front(q)
           x == Last(q)
           r == Append(p, x)
<1>5. p \in Seq(S) /\ Len(p) = Len(q) - 1 /\ x \in S /\ x = q[Len(q)]
      /\ \A i \in 1 .. Len(q) - 1 : p[i] = q[i]
  BY <1>3, <1>4
<1> HIDE DEF p, x
<1>6. /\ r \in Seq(S) /\ Len(r) = Len(p) + 1
      /\ \A i \in 1 .. Len(p) : r[i] = p[i]
      /\ r[Len(p) + 1] = x
  BY <1>5, AppendProperties
<1> HIDE DEF r
<1>7. Len(r) = Len(q) /\ \A i \in 1 .. Len(q) : r[i] = q[i]
  BY <1>1, <1>5, <1>6
<1>8. r = q
  BY <1>6, <1>7, SeqEqual
<1> QED BY <1>3, <1>4, <1>8 DEF r, p, x

(* What collapsing makes of a path is a path, and not a longer one.        *)
LEMMA JoinedIs ==
  ASSUME NEW p \in Seq(Names), NEW name \in Names \cup {"..", "."}
  PROVE  Joined(p, name) \in Seq(Names) /\ Len(Joined(p, name)) <= Len(p) + 1
<1>1. Len(p) \in Nat
  BY LenProperties
<1>2. CASE name = ".." /\ p = <<>>
  <2>1. Joined(p, name) = p
    BY <1>2 DEF Joined
  <2> QED BY <1>1, <2>1
<1>3. CASE name = ".." /\ p # <<>>
  <2>1. Joined(p, name) = Front(p)
    BY <1>3 DEF Joined
  <2>2. Len(p) > 0
    BY <1>1, <1>3, FirstAll
  <2> QED BY <1>1, <2>1, <2>2, ParentAndName
<1>4. CASE name = "."
  <2>1. Joined(p, name) = p
    BY <1>4 DEF Joined
  <2> QED BY <1>1, <2>1
<1>5. CASE name # ".." /\ name # "."
  <2>1. Joined(p, name) = Append(p, name) /\ name \in Names
    BY <1>5 DEF Joined
  <2> QED BY <1>1, <2>1, OneMore
<1> QED BY <1>2, <1>3, <1>4, <1>5

(* What CollapseRelativeParents makes of a path, one part after another.   *)
LEMMA CollapseIs ==
  ASSUME NEW n \in Nat, NEW raw \in Seq(Names \cup {"..", "."}), Len(raw) <= n
  PROVE  Collapse(raw) \in Seq(Names) /\ Len(Collapse(raw)) <= n
<1> DEFINE N == Len(raw)
           S == Seq(Names)
           step == [p \in S |-> [k \in 1 .. N |-> Joined(p, raw[k])]]
           IsParts(f) == f = [k \in 0 .. N |-> IF k = 0 THEN <<>> ELSE Joined(f[k - 1], raw[k])]
           parts == CHOOSE f : IsParts(f)
<1>1. N \in Nat /\ \A k \in 1 .. N : raw[k] \in Names \cup {"..", "."}
  BY LenProperties, ElementOfSeq
<1>2. \A p \in S : \A k \in 1 .. N : Joined(p, raw[k]) \in S
  BY <1>1, JoinedIs
<1>3. step \in [S -> [1 .. N -> S]]
  BY <1>2
<1>4. \A p \in S : \A k \in 1 .. N : step[p][k] = Joined(p, raw[k])
  OBVIOUS
<1>5. <<>> \in S
  BY EmptySeq
<1> HIDE DEF step
<1>6. PICK f \in [0 .. N -> S] : Recurs(f, <<>>, N, step)
  <2> HIDE DEF S, N, IsParts, parts
  <2> QED BY <1>1, <1>3, <1>5, Recursion
<1>7. IsParts(f)
  <2>1. ASSUME NEW k \in 0 .. N, k # 0 PROVE step[f[k - 1]][k] = Joined(f[k - 1], raw[k])
    <3>1. k \in 1 .. N /\ k - 1 \in 0 .. N
      BY <1>1, <2>1
    <3>2. f[k - 1] \in S
      BY <3>1
    <3> QED BY <1>4, <3>1, <3>2
  <2> QED BY <1>6, <2>1 DEF Recurs
<1>8. IsParts(parts)
  <2> HIDE DEF IsParts
  <2> QED BY <1>7
<1> HIDE DEF parts
<1>9. parts[0] = <<>> /\ \A k \in 1 .. N : parts[k] = Joined(parts[k - 1], raw[k])
  BY <1>1, <1>8
<1> DEFINE Short == {k \in Nat : k <= N => parts[k] \in S /\ Len(parts[k]) <= k}
<1>10. 0 \in Short
  <2>1. parts[0] \in S /\ Len(parts[0]) = 0
    BY <1>5, <1>9
  <2> QED BY <2>1
<1>11. ASSUME NEW k \in Nat, k \in Short PROVE k + 1 \in Short
  <2> SUFFICES ASSUME k + 1 <= N PROVE parts[k + 1] \in S /\ Len(parts[k + 1]) <= k + 1
    OBVIOUS
  <2>1. parts[k] \in S /\ Len(parts[k]) <= k /\ Len(parts[k]) \in Nat
    BY <1>1, <1>11, LenProperties
  <2>2. k + 1 \in 1 .. N /\ (k + 1) - 1 = k
    BY <1>1
  <2>3. parts[k + 1] = Joined(parts[k], raw[k + 1])
    BY <1>9, <2>2
  <2>4. raw[k + 1] \in Names \cup {"..", "."}
    BY <1>1, <2>2
  <2>5. parts[k + 1] \in S /\ Len(parts[k + 1]) <= Len(parts[k]) + 1
    BY <2>1, <2>3, <2>4, JoinedIs
  <2>6. Len(parts[k + 1]) \in Nat
    BY <2>5, LenProperties
  <2> QED BY <2>1, <2>5, <2>6
<1> HIDE DEF Short
<1>12. N \in Short
  BY <1>1, <1>10, <1>11, SetInduction
<1>13. parts[N] \in S /\ Len(parts[N]) <= N
  BY <1>1, <1>12 DEF Short
<1>14. Len(parts[N]) \in Nat
  BY <1>13, LenProperties
<1>15. Collapse(raw) = parts[N]
  BY DEF Collapse, parts
<1> QED BY <1>1, <1>13, <1>14, <1>15

(* Every operation is about a path.                                        *)
LEMMA ArgumentsArePaths == Arguments \subseteq Paths
<1> SUFFICES ASSUME NEW raw \in PathsOver(Names \cup {"..", "."}, MaxDepth)
             PROVE  Collapse(raw) \in Paths
  BY DEF Arguments
<1>1. MaxDepth \in Nat
  BY BoundsAssumption
<1>2. raw \in Seq(Names \cup {"..", "."}) /\ Len(raw) <= MaxDepth
  BY <1>1, PathsAre
<1> QED BY <1>1, <1>2, CollapseIs, PathsAre

-----------------------------------------------------------------------------
(* The tree of mounts.  Closed: with a path a set holds all of its         *)
(* prefixes but the empty one.                                             *)
Closed(D) ==
  D \subseteq Paths \ {<<>>} /\ \A p \in D : Len(p) > 1 => Front(p) \in D

(* Closed under fronts is closed under prefixes: one name less at a time.  *)
LEMMA ClosedHoldsPrefixes ==
  ASSUME NEW D, Closed(D), NEW p \in D, NEW n \in 1 .. Len(p)
  PROVE  First(p, n) \in D
<1>1. p \in Seq(Names) /\ Len(p) \in Nat /\ p # <<>>
  BY PathsAre, LenProperties DEF Closed
<1> DEFINE S == {k \in Nat : k < Len(p) => First(p, Len(p) - k) \in D}
<1>2. 0 \in S
  <2>1. First(p, Len(p) - 0) = p
    BY <1>1, FirstAll
  <2> QED BY <2>1
<1>3. ASSUME NEW k \in Nat, k \in S PROVE k + 1 \in S
  <2> SUFFICES ASSUME k + 1 < Len(p) PROVE First(p, Len(p) - (k + 1)) \in D
    OBVIOUS
  <2> DEFINE q == First(p, Len(p) - k)
  <2>1. q \in D /\ Len(p) - k \in 0 .. Len(p)
    BY <1>1, <1>3
  <2>2. q \in Seq(Names) /\ Len(q) = Len(p) - k
    BY <1>1, <2>1, FirstOf
  <2> HIDE DEF q
  <2>3. Front(q) \in D
    BY <1>1, <2>1, <2>2 DEF Closed
  <2>4. Front(q) = First(q, Len(q) - 1)
    BY <2>2, FirstAll
  <2>5. Len(q) - 1 = Len(p) - (k + 1) /\ Len(p) - (k + 1) \in 0 .. Len(p) - k
    BY <1>1, <2>2
  <2>6. First(q, Len(p) - (k + 1)) = First(p, Len(p) - (k + 1))
    BY <1>1, <2>1, <2>5, FirstOfFirst DEF q
  <2> QED BY <2>3, <2>4, <2>5, <2>6
<1> HIDE DEF S
<1>4. Len(p) - n \in S /\ Len(p) - n < Len(p) /\ Len(p) - (Len(p) - n) = n
  BY <1>1, <1>2, <1>3, SetInduction
<1> QED BY <1>1, <1>4 DEF S

(* How far the walk of GetFS comes.                                        *)
LEMMA MatchedIs ==
  ASSUME NEW p \in Seq(Names), Closed(Objects)
  PROVE  /\ Matched(p) \in 0 .. Len(p)
         /\ \A n \in 1 .. Len(p) : n <= Matched(p) <=> First(p, n) \in Objects
<1> DEFINE T == {n \in 1 .. Len(p) : \A k \in 1 .. n : First(p, k) \in Objects}
<1>1. Len(p) \in Nat /\ T \in SUBSET (1 .. Len(p))
  BY LenProperties
<1>2. \A x \in T : \A k \in 1 .. x : k \in T
  BY <1>1
<1>3. Cardinality(T) \in 0 .. Len(p) /\ T = 1 .. Cardinality(T)
  BY <1>1, <1>2, Interval
<1>4. ASSUME NEW n \in 1 .. Len(p) PROVE n \in T <=> First(p, n) \in Objects
  <2>1. n \in T => First(p, n) \in Objects
    OBVIOUS
  <2>2. ASSUME First(p, n) \in Objects, NEW k \in 1 .. n PROVE First(p, k) \in Objects
    <3>1. n \in 0 .. Len(p) /\ k \in 0 .. n
      BY <1>1
    <3>2. First(First(p, n), k) = First(p, k)
      BY <3>1, FirstOfFirst
    <3>3. Len(First(p, n)) = n
      BY <3>1, FirstOf
    <3> QED BY <2>2, <3>2, <3>3, ClosedHoldsPrefixes
  <2> QED BY <2>1, <2>2
<1>5. Matched(p) = Cardinality(T)
  BY DEF Matched
<1> HIDE DEF T
<1> QED BY <1>1, <1>3, <1>4, <1>5

(* What GetFS finds: the deepest mount on the way.                         *)
LEMMA Found ==
  ASSUME NEW p \in Seq(Names), Closed(Objects),
         \A q \in Objects : directories[q] \in Mountable \cup {None}
  PROVE  \E n \in 0 .. Matched(p) :
           /\ GetFS(p).rest = SubSeq(p, n + 1, Len(p))
           /\ \/ n = 0 /\ GetFS(p).fs = Root
              \/ /\ n > 0 /\ First(p, n) \in Objects
                 /\ GetFS(p).fs = directories[First(p, n)]
                 /\ GetFS(p).fs \in Mountable
           /\ \A k \in n + 1 .. Matched(p) :
                First(p, k) \in Objects /\ directories[First(p, k)] = None
<1> DEFINE m == Matched(p)
           with == {n \in 1 .. m : directories[First(p, n)] # None}
<1>1. Len(p) \in Nat /\ m \in 0 .. Len(p)
  BY LenProperties, MatchedIs
<1>2. \A n \in 1 .. m : First(p, n) \in Objects
  BY <1>1, MatchedIs
<1>3. GetFS(p) = IF with = {} THEN [fs |-> Root, rest |-> p]
                 ELSE [fs |-> directories[First(p, Max(with))],
                       rest |-> SubSeq(p, Max(with) + 1, Len(p))]
  BY DEF GetFS
<1> HIDE DEF m
<1>4. CASE with = {}
  <2>1. GetFS(p).fs = Root /\ GetFS(p).rest = p
    BY <1>3, <1>4
  <2>2. p = SubSeq(p, 0 + 1, Len(p))
    BY SubSeqFull
  <2>3. \A k \in 0 + 1 .. m : First(p, k) \in Objects /\ directories[First(p, k)] = None
    BY <1>2, <1>4
  <2>4. 0 \in 0 .. m
    BY <1>1
  <2> HIDE DEF with
  <2> QED BY <2>1, <2>2, <2>3, <2>4 DEF m
<1>5. CASE with # {}
  <2>1. with \in SUBSET (0 .. m) /\ m \in Nat
    BY <1>1
  <2> DEFINE n == Max(with)
  <2> HIDE DEF with
  <2>2. n \in with /\ \A k \in with : n >= k
    BY <1>5, <2>1, Greatest
  <2>3. GetFS(p).fs = directories[First(p, n)] /\ GetFS(p).rest = SubSeq(p, n + 1, Len(p))
    <3>1. GetFS(p) = [fs |-> directories[First(p, n)], rest |-> SubSeq(p, n + 1, Len(p))]
      BY <1>3, <1>5, Zenon
    <3>2. PICK f, r : f = directories[First(p, n)] /\ r = SubSeq(p, n + 1, Len(p))
      OBVIOUS
    <3>3. GetFS(p) = [fs |-> f, rest |-> r]
      BY <3>1, <3>2, Zenon
    <3>4. GetFS(p).fs = f /\ GetFS(p).rest = r
      BY <3>3
    <3> QED BY <3>2, <3>4, Zenon
  <2> HIDE DEF n
  <2>4. n \in 1 .. m /\ directories[First(p, n)] # None
    BY <2>2 DEF with
  <2>5. First(p, n) \in Objects /\ directories[First(p, n)] \in Mountable
    BY <1>2, <2>4
  <2>6. ASSUME NEW k \in n + 1 .. m PROVE First(p, k) \in Objects /\ directories[First(p, k)] = None
    <3>1. k \in 1 .. m /\ ~(n >= k)
      BY <1>1, <2>4
    <3>2. k \notin with
      BY <2>2, <3>1
    <3> QED BY <1>2, <3>1, <3>2 DEF with
  <2>7. n \in 0 .. m /\ n > 0
    BY <1>1, <2>4
  <2> QED BY <2>3, <2>5, <2>6, <2>7 DEF m
<1> QED BY <1>4, <1>5

-----------------------------------------------------------------------------
(* The entries of a file system form a tree: every entry that is not at    *)
(* the top is in a directory.                                              *)
Kinds == {"dir", "file", "link"}

Tree(f) ==
  \A e \in DOMAIN f :
    /\ e \in Paths \ {<<>>} /\ f[e] \in Kinds
    /\ Len(e) > 1 => Front(e) \in DOMAIN f /\ f[Front(e)] = "dir"

Trees == DOMAIN contents = FS /\ \A fs \in FS : Tree(contents[fs])

(* The inductive invariant of the mounts and of the file systems.          *)
MountsIInv == TypeOK /\ TreeOfMounts /\ MountsKept /\ Trees

(* An entry that comes or goes.                                            *)
Changed(fs, r) == (r \in DOMAIN contents[fs]) # (r \in DOMAIN contents'[fs])

(* What a path is that a file system is asked for.                         *)
LEMMA ObjectsClosed ==
  ASSUME MountsIInv
  PROVE  /\ Closed(Objects)
         /\ \A q \in Objects : directories[q] \in Mountable \cup {None}
BY DEF MountsIInv, TypeOK, TreeOfMounts, Closed

(* GetFS of any path: a file system, and a path that is no longer.         *)
LEMMA AskedFor ==
  ASSUME MountsIInv, NEW p \in Seq(Names)
  PROVE  /\ GetFS(p).fs \in FS /\ GetFS(p).rest \in Seq(Names)
         /\ Len(GetFS(p).rest) <= Len(p)
<1>1. PICK n \in 0 .. Matched(p) :
        /\ GetFS(p).rest = SubSeq(p, n + 1, Len(p))
        /\ GetFS(p).fs = Root \/ GetFS(p).fs \in Mountable
  BY ObjectsClosed, Found
<1>2. Len(p) \in Nat /\ Matched(p) \in 0 .. Len(p)
  BY ObjectsClosed, MatchedIs, LenProperties
<1>3. n + 1 \in Nat /\ 1 <= n + 1 /\ n + 1 <= Len(p) + 1
  BY <1>2
<1>4. SubSeq(p, n + 1, Len(p)) \in Seq(Names) /\ Len(SubSeq(p, n + 1, Len(p))) = Len(p) - (n + 1) + 1
  BY <1>2, <1>3, PartOf
<1>5. Len(p) - (n + 1) + 1 <= Len(p)
  BY <1>2
<1> QED BY <1>1, <1>4, <1>5 DEF FS

(* The same for what an operation is given.                                *)
LEMMA ArgumentsAskFor ==
  ASSUME MountsIInv, NEW p \in Arguments
  PROVE  p \in Seq(Names) /\ GetFS(p).fs \in FS /\ GetFS(p).rest \in Seq(Names)
<1>1. p \in Seq(Names)
  BY ArgumentsArePaths, PathsAre
<1> QED BY <1>1, AskedFor

(* What fits is made of paths.                                             *)
LEMMA FittingPaths ==
  ASSUME NEW c, Fits(c), NEW fs \in FS, NEW e \in DOMAIN c[fs], e \in Seq(Names)
  PROVE  e \in Paths
<1>1. <<fs, e>> \in UNION {{<<g, x>> : x \in DOMAIN c[g]} : g \in FS}
  OBVIOUS
<1>2. Len(<<fs, e>>[2]) <= MaxDepth
  BY <1>1 DEF Fits
<1> QED BY <1>2, PathsAre

(* The mounts stay when only entries change.                               *)
LEMMA EntriesStep ==
  ASSUME MountsIInv, UNCHANGED tree, Trees'
  PROVE  MountsIInv'
<1>1. TypeOK'
  BY DEF MountsIInv, TypeOK, Trees, Tree, Entries, Objects, Kinds, tree
<1>2. TreeOfMounts'
  BY DEF MountsIInv, TreeOfMounts, Objects, SubDirs, tree
<1>3. MountsKept'
  BY DEF MountsIInv, MountsKept, Objects, tree
<1> QED BY <1>1, <1>2, <1>3 DEF MountsIInv

(* New entries.                                                            *)
LEMMA AddStep ==
  ASSUME Trees, NEW fs \in FS, NEW added, NEW kind \in Kinds,
         Becomes(Add(fs, added, kind)),
         \A u \in added :
           /\ u \in Seq(Names) /\ u # <<>>
           /\ Len(u) > 1 =>
                \/ Front(u) \in Entries(fs) /\ contents[fs][Front(u)] = "dir"
                \/ Front(u) \in added \ Entries(fs) /\ kind = "dir"
  PROVE  /\ Trees'
         /\ \A g \in FS : \A r : Changed(g, r) => g = fs /\ r \in added
<1> DEFINE f == contents[fs]
           h == [r \in DOMAIN f \cup added |-> IF r \in DOMAIN f THEN f[r] ELSE kind]
<1>1. contents' = [contents EXCEPT ![fs] = h] /\ Fits(contents')
  BY DEF Becomes, Add
<1>2. DOMAIN contents = FS /\ Tree(f) /\ \A g \in FS : Tree(contents[g])
  BY DEF Trees
<1>3. DOMAIN h = DOMAIN f \cup added /\ \A r \in DOMAIN h : h[r] = IF r \in DOMAIN f THEN f[r] ELSE kind
  OBVIOUS
<1> HIDE DEF h
<1>4. DOMAIN contents' = FS /\ contents'[fs] = h /\ \A g \in FS \ {fs} : contents'[g] = contents[g]
  BY <1>1, <1>2
<1>5. Tree(h)
  <2> SUFFICES ASSUME NEW e \in DOMAIN h
               PROVE  /\ e \in Paths \ {<<>>} /\ h[e] \in Kinds
                      /\ Len(e) > 1 => Front(e) \in DOMAIN h /\ h[Front(e)] = "dir"
    BY DEF Tree
  <2>1. CASE e \in DOMAIN f
    BY <1>2, <1>3, <2>1 DEF Tree
  <2>2. CASE e \notin DOMAIN f
    <3>1. e \in added /\ h[e] = kind
      BY <1>3, <2>2
    <3>2. e \in Seq(Names) /\ e # <<>>
      BY <3>1
    <3>3. e \in Paths
      BY <1>1, <1>4, <3>2, FittingPaths
    <3>4. ASSUME Len(e) > 1 PROVE Front(e) \in DOMAIN h /\ h[Front(e)] = "dir"
      <4>1. \/ Front(e) \in Entries(fs) /\ contents[fs][Front(e)] = "dir"
            \/ Front(e) \in added \ Entries(fs) /\ kind = "dir"
        BY <3>1, <3>4
      <4> QED BY <1>3, <4>1 DEF Entries
    <3> QED BY <3>1, <3>2, <3>3, <3>4
  <2> QED BY <2>1, <2>2
<1>6. Trees'
  <2>1. FS' = FS
    BY DEF FS
  <2>2. \A x : Tree(x)' <=> Tree(x)
    BY DEF Tree, Kinds, Paths
  <2>3. \A g \in FS : Tree(contents'[g])
    BY <1>2, <1>4, <1>5
  <2> QED BY <1>4, <2>3 DEF Trees
<1>7. ASSUME NEW g \in FS, NEW r, Changed(g, r) PROVE g = fs /\ r \in added
  BY <1>3, <1>4, <1>7 DEF Changed
<1> QED BY <1>6, <1>7

(* Entries that go, with all that is below them.                           *)
LEMMA CutStep ==
  ASSUME Trees, NEW gone,
         DOMAIN contents' = FS,
         \A fs \in FS :
           /\ DOMAIN contents'[fs] = Entries(fs) \ gone[fs]
           /\ \A e \in Entries(fs) \ gone[fs] : contents'[fs][e] = contents[fs][e],
         \A fs \in FS : \A e \in Entries(fs) :
           Len(e) > 1 /\ Front(e) \in gone[fs] => e \in gone[fs]
  PROVE  /\ Trees'
         /\ \A g \in FS : \A r : Changed(g, r) => r \in gone[g] /\ r \in Entries(g)
<1>1. ASSUME NEW fs \in FS
      PROVE  /\ DOMAIN contents'[fs] = Entries(fs) \ gone[fs]
             /\ \A e \in Entries(fs) \ gone[fs] : contents'[fs][e] = contents[fs][e]
  OBVIOUS
<1>2. ASSUME NEW fs \in FS PROVE Tree(contents'[fs])
  <2>1. Tree(contents[fs])
    BY DEF Trees
  <2> SUFFICES ASSUME NEW e \in DOMAIN contents'[fs]
               PROVE  /\ e \in Paths \ {<<>>} /\ contents'[fs][e] \in Kinds
                      /\ Len(e) > 1 => Front(e) \in DOMAIN contents'[fs]
                                    /\ contents'[fs][Front(e)] = "dir"
    BY DEF Tree
  <2>2. e \in Entries(fs) /\ e \notin gone[fs] /\ contents'[fs][e] = contents[fs][e]
    BY <1>1
  <2>3. e \in Paths \ {<<>>} /\ contents[fs][e] \in Kinds
    BY <2>1, <2>2 DEF Tree, Entries
  <2>4. ASSUME Len(e) > 1 PROVE Front(e) \in DOMAIN contents'[fs] /\ contents'[fs][Front(e)] = "dir"
    <3>1. Front(e) \in Entries(fs) /\ contents[fs][Front(e)] = "dir"
      BY <2>1, <2>2, <2>4 DEF Tree, Entries
    <3>2. Front(e) \notin gone[fs]
      BY <2>2, <2>4
    <3> QED BY <1>1, <3>1, <3>2
  <2> QED BY <2>2, <2>3, <2>4
<1>3. Trees'
  <2>1. \A x : Tree(x)' <=> Tree(x)
    BY DEF Tree, Kinds, Paths
  <2> QED BY <1>2 DEF Trees, FS
<1>4. ASSUME NEW g \in FS, NEW r, Changed(g, r) PROVE r \in gone[g] /\ r \in Entries(g)
  BY <1>1, <1>4 DEF Changed, Entries
<1> QED BY <1>3, <1>4

(* Nothing happens to the entries.                                         *)
LEMMA NoStep ==
  ASSUME Trees, contents' = contents
  PROVE  Trees' /\ \A g \in FS : \A r : ~Changed(g, r)
<1>1. \A x : Tree(x)' <=> Tree(x)
  BY DEF Tree, Kinds, Paths
<1> QED BY <1>1 DEF Trees, FS, Changed

(* A path of one name or more has a first prefix, and ends in itself.      *)
LEMMA PrefixItself ==
  ASSUME NEW S, NEW p \in Seq(S)
  PROVE  /\ IsPrefix(p, p)
         /\ \A n \in 0 .. Len(p) : IsPrefix(First(p, n), p)
<1>1. Len(p) \in Nat /\ First(p, Len(p)) = p
  BY FirstAll, LenProperties
<1>2. ASSUME NEW n \in 0 .. Len(p) PROVE IsPrefix(First(p, n), p)
  <2>1. First(p, n) \in Seq(S) /\ Len(First(p, n)) = n
    BY FirstOf
  <2> QED BY <1>1, <2>1, PrefixIs
<1> QED BY <1>1, <1>2

(* One new entry.                                                          *)
LEMMA OneAdded ==
  ASSUME MountsIInv, NEW fs \in FS, NEW r \in Seq(Names), NEW kind \in Kinds,
         HasPlaceFor(fs, r), Becomes(Add(fs, {r}, kind))
  PROVE  Trees' /\ \A g \in FS : \A x : Changed(g, x) => g = fs /\ IsPrefix(x, r)
<1>1. r # <<>>
  BY DEF HasPlaceFor
<1>2. ASSUME Len(r) > 1 PROVE Front(r) \in Entries(fs) /\ contents[fs][Front(r)] = "dir"
  <2>1. Front(r) \in Seq(Names) /\ Len(Front(r)) = Len(r) - 1 /\ Len(r) \in Nat
    BY <1>2, ParentAndName, LenProperties
  <2>2. Front(r) # <<>>
    BY <1>2, <2>1, FirstAll
  <2> QED BY <2>2 DEF HasPlaceFor, HasDirectory
<1>3. Trees
  BY DEF MountsIInv
<1>4. \A u \in {r} :
        /\ u \in Seq(Names) /\ u # <<>>
        /\ Len(u) > 1 =>
             \/ Front(u) \in Entries(fs) /\ contents[fs][Front(u)] = "dir"
             \/ Front(u) \in {r} \ Entries(fs) /\ kind = "dir"
  BY <1>1, <1>2
<1>5. Trees' /\ \A g \in FS : \A x : Changed(g, x) => g = fs /\ x \in {r}
  BY <1>3, <1>4, AddStep
<1>6. IsPrefix(r, r)
  BY PrefixItself
<1> QED BY <1>5, <1>6

(* OpenFile and the two kinds of links add one entry, where GetFS says.    *)
LEMMA AddsEntry ==
  ASSUME MountsIInv, NEW p \in Arguments,
         OpenFile(p) \/ CreateSymlink(p) \/ CreateHardlink(p)
  PROVE  /\ Trees'
         /\ \A g \in FS : \A x : Changed(g, x) =>
              g = GetFS(p).fs /\ IsPrefix(x, GetFS(p).rest)
<1> DEFINE fs == GetFS(p).fs
           r == GetFS(p).rest
<1>1. fs \in FS /\ r \in Seq(Names)
  BY ArgumentsAskFor
<1>2. Trees
  BY DEF MountsIInv
<1>3. CASE contents' = contents
  BY <1>2, <1>3, NoStep
<1>4. CASE contents' # contents
  <2>1. Becomes(Opened(fs, r)) \/ Becomes(LinkCreated(fs, r)) \/ Becomes(Linked(fs, r, r))
    BY DEF OpenFile, CreateSymlink, CreateHardlink
  <2>2. HasPlaceFor(fs, r) /\ (Becomes(Add(fs, {r}, "file")) \/ Becomes(Add(fs, {r}, "link")))
    <3> HIDE DEF fs, r
    <3>1. CASE Becomes(Opened(fs, r))
      <4>1. contents' = Opened(fs, r)
        BY <3>1 DEF Becomes
      <4>2. HasPlaceFor(fs, r) /\ Opened(fs, r) = Add(fs, {r}, "file")
        BY <1>4, <4>1, Zenon DEF Opened
      <4> QED BY <3>1, <4>2, Zenon
    <3>2. CASE Becomes(LinkCreated(fs, r))
      <4>1. contents' = LinkCreated(fs, r)
        BY <3>2 DEF Becomes
      <4>2. HasPlaceFor(fs, r) /\ LinkCreated(fs, r) = Add(fs, {r}, "link")
        BY <1>4, <4>1, Zenon DEF LinkCreated
      <4> QED BY <3>2, <4>2, Zenon
    <3>3. CASE Becomes(Linked(fs, r, r))
      <4>1. contents' = Linked(fs, r, r)
        BY <3>3 DEF Becomes
      <4>2. HasPlaceFor(fs, r) /\ Linked(fs, r, r) = Add(fs, {r}, "file")
        BY <1>4, <4>1, Zenon DEF Linked
      <4> QED BY <3>3, <4>2, Zenon
    <3> QED BY <2>1, <3>1, <3>2, <3>3
  <2>3. "file" \in Kinds /\ "link" \in Kinds
    BY DEF Kinds
  <2> HIDE DEF fs, r
  <2>4. Trees' /\ \A g \in FS : \A x : Changed(g, x) => g = fs /\ IsPrefix(x, r)
    BY <1>1, <2>2, <2>3, OneAdded
  <2> QED BY <2>4 DEF fs, r
<1> QED BY <1>3, <1>4

(* A directory with the parents that are missing.                          *)
LEMMA CreatesDirectory ==
  ASSUME MountsIInv, NEW p \in Arguments, CreateDirectory(p)
  PROVE  /\ Trees'
         /\ \A g \in FS : \A x : Changed(g, x) =>
              g = GetFS(p).fs /\ IsPrefix(x, GetFS(p).rest)
<1> DEFINE fs == GetFS(p).fs
           r == GetFS(p).rest
           needed == {First(r, n) : n \in 1 .. Len(r)}
<1>1. fs \in FS /\ r \in Seq(Names)
  BY ArgumentsAskFor
<1>2. Trees
  BY DEF MountsIInv
<1>3. CASE contents' = contents
  BY <1>2, <1>3, NoStep
<1>4. CASE contents' # contents
  <2>1. Becomes(DirectoryCreated(fs, r)) /\ contents' = DirectoryCreated(fs, r)
    BY DEF CreateDirectory, Becomes
  <2> HIDE DEF fs, r
  <2>2. /\ \A d \in needed \cap Entries(fs) : contents[fs][d] = "dir"
        /\ DirectoryCreated(fs, r) = Add(fs, needed, "dir")
    BY <1>4, <2>1, Zenon DEF DirectoryCreated
  <2>3. Becomes(Add(fs, needed, "dir"))
    BY <2>1, <2>2, Zenon
  <2>4. Len(r) \in Nat
    BY <1>1, LenProperties
  <2>5. ASSUME NEW n \in 1 .. Len(r)
        PROVE  LET u == First(r, n) IN
               /\ u \in Seq(Names) /\ u # <<>> /\ Len(u) = n
               /\ Len(u) > 1 => Front(u) \in needed
               /\ IsPrefix(u, r)
    <3> DEFINE u == First(r, n)
    <3>1. u \in Seq(Names) /\ Len(u) = n
      BY <1>1, <2>4, FirstOf
    <3>2. u # <<>> /\ Front(u) = First(u, n - 1)
      BY <3>1, FirstAll
    <3>3. ASSUME Len(u) > 1 PROVE Front(u) \in needed
      <4>1. n - 1 \in 0 .. n /\ n \in 0 .. Len(r) /\ n - 1 \in 1 .. Len(r)
        BY <2>4, <3>1, <3>3
      <4>2. First(u, n - 1) = First(r, n - 1)
        BY <1>1, <4>1, FirstOfFirst
      <4> QED BY <3>2, <4>1, <4>2
    <3>4. IsPrefix(u, r)
      BY <1>1, <2>4, PrefixItself
    <3> QED BY <3>1, <3>2, <3>3, <3>4
  <2>6. \A u \in needed :
          /\ u \in Seq(Names) /\ u # <<>>
          /\ Len(u) > 1 =>
               \/ Front(u) \in Entries(fs) /\ contents[fs][Front(u)] = "dir"
               \/ Front(u) \in needed \ Entries(fs) /\ "dir" = "dir"
    <3> TAKE u \in needed
    <3>1. PICK n \in 1 .. Len(r) : u = First(r, n)
      OBVIOUS
    <3>2. u \in Seq(Names) /\ u # <<>> /\ (Len(u) > 1 => Front(u) \in needed)
      BY <2>5, <3>1
    <3> QED BY <2>2, <3>2
  <2>7. \A u \in needed : IsPrefix(u, r)
    BY <2>5
  <2>8. "dir" \in Kinds
    BY DEF Kinds
  <2> HIDE DEF needed
  <2>9. Trees' /\ \A g \in FS : \A x : Changed(g, x) => g = fs /\ x \in needed
    BY <1>1, <1>2, <2>3, <2>6, <2>8, AddStep
  <2> QED BY <2>7, <2>9 DEF fs, r
<1> QED BY <1>3, <1>4

(* A file, a link or an empty directory goes.                              *)
LEMMA Deletes ==
  ASSUME MountsIInv, NEW p \in Arguments, DeleteDirectory(p) \/ DeleteFile(p)
  PROVE  /\ Trees'
         /\ \A g \in FS : \A x : Changed(g, x) =>
              g = GetFS(p).fs /\ IsPrefix(x, GetFS(p).rest)
<1> DEFINE fs == GetFS(p).fs
           r == GetFS(p).rest
<1>1. fs \in FS /\ r \in Seq(Names)
  BY ArgumentsAskFor
<1>2. Trees
  BY DEF MountsIInv
<1>3. CASE contents' = contents
  BY <1>2, <1>3, NoStep
<1>4. CASE contents' # contents
  <2>1. contents' = Deleted(fs, r)
    BY DEF DeleteDirectory, DeleteFile, Becomes
  <2> HIDE DEF fs, r
  <2>2. r \in Entries(fs) /\ Below(fs, r) = {} /\ contents' = Cut(fs, {r})
    BY <1>4, <2>1, Zenon DEF Deleted
  <2> DEFINE gone == [g \in FS |-> IF g = fs THEN {r} ELSE {}]
             h == Restrict(contents[fs], Entries(fs) \ {r})
  <2>3. contents' = [contents EXCEPT ![fs] = h]
    BY <2>2 DEF Cut
  <2>4. DOMAIN contents = FS
    BY <1>2 DEF Trees
  <2>5. gone[fs] = {r} /\ \A g \in FS \ {fs} : gone[g] = {}
    BY <1>1
  <2>6. h = Restrict(contents[fs], Entries(fs) \ gone[fs])
    BY <2>5
  <2> HIDE DEF gone, h
  <2>7. DOMAIN contents' = FS /\ contents'[fs] = h /\ \A g \in FS \ {fs} : contents'[g] = contents[g]
    BY <1>1, <2>3, <2>4
  <2>8. ASSUME NEW g \in FS
        PROVE  /\ DOMAIN contents'[g] = Entries(g) \ gone[g]
               /\ \A e \in Entries(g) \ gone[g] : contents'[g][e] = contents[g][e]
    <3>1. CASE g = fs
      <4>1. contents'[g] = Restrict(contents[g], Entries(g) \ gone[g])
        BY <2>6, <2>7, <3>1
      <4> QED BY <4>1 DEF Restrict
    <3>2. CASE g # fs
      BY <2>5, <2>7, <3>2 DEF Entries
    <3> QED BY <3>1, <3>2
  <2>9. ASSUME NEW g \in FS, NEW e \in Entries(g), Len(e) > 1, Front(e) \in gone[g]
        PROVE  e \in gone[g]
    <3>1. g = fs /\ Front(e) = r
      BY <2>5, <2>9
    <3>2. e \in Seq(Names) /\ Len(e) \in Nat
      BY <1>2, PathsAre, LenProperties DEF Trees, Tree, Entries
    <3>3. Front(e) = First(e, Len(e) - 1) /\ Len(r) = Len(e) - 1
      BY <2>9, <3>1, <3>2, FirstAll, ParentAndName
    <3>4. IsStrictPrefix(r, e)
      BY <1>1, <3>1, <3>2, <3>3, PrefixIs
    <3> QED BY <2>2, <3>1, <3>4 DEF Below
  <2>10. Trees' /\ \A g \in FS : \A x : Changed(g, x) => x \in gone[g] /\ x \in Entries(g)
    BY <1>2, <2>7, <2>8, <2>9, CutStep
  <2>11. \A g \in FS : \A x : x \in gone[g] => g = fs /\ x = r
    BY <2>5
  <2>12. IsPrefix(r, r)
    BY <1>1, PrefixItself
  <2> QED BY <2>10, <2>11, <2>12 DEF fs, r
<1> QED BY <1>3, <1>4

(* Everything the listings lead to, or a part of it.                       *)
LEMMA DeletesAll ==
  ASSUME MountsIInv, NEW p \in Arguments, DeleteDirectoryRecurse(p)
  PROVE  /\ Trees'
         /\ \A g \in FS : \A x : Changed(g, x) =>
              \E q \in Seq(Names) : GetFS(q).fs = g /\ GetFS(q).rest = x
<1> DEFINE found == {d \in {GetFS(q) : q \in Reached(p)} : d.rest \in Entries(d.fs)}
           Clean(gone) == \A d \in gone : \A e \in Below(d.fs, d.rest) :
                            [fs |-> d.fs, rest |-> e] \in gone
           Left(fs, gone) == {e \in Entries(fs) : [fs |-> fs, rest |-> e] \notin gone}
<1>1. PICK gone \in SUBSET found :
        /\ Clean(gone)
        /\ contents' = [fs \in FS |-> Restrict(contents[fs], Left(fs, gone))]
  <2>1. \E gone \in IF Clean(found) THEN {found} ELSE SUBSET found :
          /\ Clean(gone)
          /\ Becomes([fs \in FS |-> Restrict(contents[fs], Left(fs, gone))])
    BY DEF DeleteDirectoryRecurse
  <2> HIDE DEF found, Left, Clean
  <2>2. PICK gone \in IF Clean(found) THEN {found} ELSE SUBSET found :
          /\ Clean(gone)
          /\ Becomes([fs \in FS |-> Restrict(contents[fs], Left(fs, gone))])
    BY <2>1
  <2>3. gone \in SUBSET found
    BY <2>2
  <2> QED BY <2>2, <2>3 DEF Becomes
<1>2. Trees
  BY DEF MountsIInv
<1> DEFINE of == [g \in FS |-> {e \in Entries(g) : [fs |-> g, rest |-> e] \in gone}]
<1>3. \A g \in FS : of[g] = {e \in Entries(g) : [fs |-> g, rest |-> e] \in gone}
  OBVIOUS
<1> HIDE DEF of
<1>4. ASSUME NEW g \in FS
      PROVE  /\ DOMAIN contents'[g] = Entries(g) \ of[g]
             /\ \A e \in Entries(g) \ of[g] : contents'[g][e] = contents[g][e]
  <2>1. contents'[g] = Restrict(contents[g], Left(g, gone))
    BY <1>1
  <2>2. Left(g, gone) = Entries(g) \ of[g]
    BY <1>3
  <2> QED BY <2>1, <2>2 DEF Restrict
<1>5. ASSUME NEW g \in FS, NEW e \in Entries(g), Len(e) > 1, Front(e) \in of[g]
      PROVE  e \in of[g]
  <2>1. e \in Seq(Names) /\ Len(e) \in Nat
    BY <1>2, PathsAre, LenProperties DEF Trees, Tree, Entries
  <2>2. Front(e) = First(e, Len(e) - 1) /\ Len(Front(e)) = Len(e) - 1 /\ Front(e) \in Seq(Names)
    BY <1>5, <2>1, FirstAll, ParentAndName
  <2>3. IsStrictPrefix(Front(e), e)
    BY <2>1, <2>2, PrefixIs
  <2> DEFINE d == [fs |-> g, rest |-> Front(e)]
  <2>4. d \in gone /\ d.fs = g /\ d.rest = Front(e)
    BY <1>3, <1>5
  <2>5. e \in Below(d.fs, d.rest)
    BY <2>3, <2>4 DEF Below
  <2>6. [fs |-> d.fs, rest |-> e] \in gone
    BY <1>1, <2>4, <2>5
  <2> QED BY <1>3, <2>4, <2>6
<1>6. DOMAIN contents' = FS
  BY <1>1
<1>7. Trees' /\ \A g \in FS : \A x : Changed(g, x) => x \in of[g] /\ x \in Entries(g)
  <2> HIDE DEF Clean, Left, found
  <2> QED BY <1>2, <1>4, <1>5, <1>6, CutStep
<1>8. ASSUME NEW g \in FS, NEW x, Changed(g, x)
      PROVE  \E q \in Seq(Names) : GetFS(q).fs = g /\ GetFS(q).rest = x
  <2>1. [fs |-> g, rest |-> x] \in gone
    BY <1>3, <1>7, <1>8
  <2>2. PICK q \in Reached(p) : GetFS(q) = [fs |-> g, rest |-> x]
    BY <1>1, <2>1
  <2>3. q \in Seq(Names)
    <3>1. 2 * MaxDepth \in Nat
      BY BoundsAssumption
    <3> QED BY <3>1, PathsAre DEF Reached
  <2>4. GetFS(q).fs = g /\ GetFS(q).rest = x
    BY <2>2
  <2> QED BY <2>3, <2>4
<1> QED BY <1>7, <1>8

-----------------------------------------------------------------------------
(* rename moves an entry with all that is below it.                        *)

(* The new path of an entry e below s when s becomes d, and the old one of *)
(* an entry x.                                                             *)
NewPath(s, d, e) == d \o SubSeq(e, Len(s) + 1, Len(e))
OldPath(s, d, x) == s \o SubSeq(x, Len(d) + 1, Len(x))

(* The new path is below d, and its old path is e.                         *)
LEMMA NewPathIs ==
  ASSUME NEW s \in Seq(Names), NEW d \in Seq(Names), NEW e \in Seq(Names), IsPrefix(s, e)
  PROVE  LET x == NewPath(s, d, e) IN
         /\ x \in Seq(Names) /\ IsPrefix(d, x) /\ Len(x) = Len(d) + (Len(e) - Len(s))
         /\ OldPath(s, d, x) = e
<1> DEFINE k == Len(s)
           n == Len(e)
           t == SubSeq(e, k + 1, n)
           x == d \o t
<1>1. k \in Nat /\ n \in Nat /\ Len(d) \in Nat /\ k <= n /\ s = First(e, k)
  BY PrefixIs, LenProperties
<1>2. t \in Seq(Names) /\ Len(t) = n - k /\ \A i \in 1 .. n - k : t[i] = e[k + i]
  <2>1. /\ k + 1 \in Nat /\ 1 <= k + 1 /\ k + 1 <= n + 1
        /\ n \in Nat /\ n - (k + 1) + 1 = n - k
    BY <1>1
  <2>2. /\ t \in Seq(Names) /\ Len(t) = n - k
        /\ \A i \in 1 .. n - k : t[i] = e[(k + 1) + i - 1]
    BY <1>1, <2>1, PartOf
  <2>3. \A i \in 1 .. n - k : (k + 1) + i - 1 = k + i
    BY <1>1
  <2> HIDE DEF t, n, k
  <2> QED BY <2>1, <2>2, <2>3
<1>3. \A i \in 1 .. k : s[i] = e[i]
  <2>1. k \in 0 .. n
    BY <1>1
  <2> QED BY <1>1, <2>1, FirstOf
<1> HIDE DEF t
<1>4. /\ x \in Seq(Names) /\ Len(x) = Len(d) + (n - k)
      /\ \A i \in 1 .. Len(d) + (n - k) : x[i] = IF i <= Len(d) THEN d[i] ELSE t[i - Len(d)]
  <2>1. /\ x \in Seq(Names) /\ Len(x) = Len(d) + Len(t)
        /\ \A i \in 1 .. Len(d) + Len(t) : x[i] = IF i <= Len(d) THEN d[i] ELSE t[i - Len(d)]
    BY <1>2, ConcatProperties
  <2> HIDE DEF x
  <2> QED BY <1>2, <2>1
<1> HIDE DEF x
<1>5. IsPrefix(d, x)
  <2>1. Len(d) \in 0 .. Len(x) /\ Len(d) <= Len(x)
    BY <1>1, <1>4
  <2>2. /\ First(x, Len(d)) \in Seq(Names) /\ Len(First(x, Len(d))) = Len(d)
        /\ \A i \in 1 .. Len(d) : First(x, Len(d))[i] = x[i]
    BY <1>4, <2>1, FirstOf
  <2>3. \A i \in 1 .. Len(d) : First(x, Len(d))[i] = d[i]
    BY <1>1, <1>4, <2>2
  <2>4. First(x, Len(d)) = d
    BY <2>2, <2>3, SeqEqual
  <2> QED BY <1>4, <2>1, <2>4, PrefixIs
<1> DEFINE u == SubSeq(x, Len(d) + 1, Len(x))
           y == s \o u
<1>6. u \in Seq(Names) /\ Len(u) = n - k /\ \A i \in 1 .. n - k : u[i] = t[i]
  <2>1. /\ Len(d) + 1 \in Nat /\ 1 <= Len(d) + 1 /\ Len(d) + 1 <= Len(x) + 1
        /\ Len(x) \in Nat /\ Len(x) - (Len(d) + 1) + 1 = n - k
    BY <1>1, <1>4
  <2>2. /\ u \in Seq(Names) /\ Len(u) = n - k
        /\ \A i \in 1 .. n - k : u[i] = x[(Len(d) + 1) + i - 1]
    BY <1>4, <2>1, PartOf
  <2>3. ASSUME NEW i \in 1 .. n - k PROVE x[(Len(d) + 1) + i - 1] = t[i]
    <3>1. /\ (Len(d) + 1) + i - 1 = Len(d) + i /\ Len(d) + i \in 1 .. Len(d) + (n - k)
          /\ ~(Len(d) + i <= Len(d)) /\ (Len(d) + i) - Len(d) = i
      BY <1>1
    <3> QED BY <1>4, <3>1
  <2> HIDE DEF u
  <2> QED BY <2>2, <2>3
<1> HIDE DEF u
<1>7. /\ y \in Seq(Names) /\ Len(y) = k + (n - k)
      /\ \A i \in 1 .. k + (n - k) : y[i] = IF i <= k THEN s[i] ELSE u[i - k]
  BY <1>6, ConcatProperties
<1> HIDE DEF y
<1>8. Len(y) = Len(e)
  BY <1>1, <1>7
<1>9. ASSUME NEW i \in 1 .. Len(y) PROVE y[i] = e[i]
  <2>1. i \in 1 .. k + (n - k)
    BY <1>7
  <2>2. CASE i <= k
    BY <1>1, <1>3, <1>7, <2>1, <2>2
  <2>3. CASE ~(i <= k)
    <3>1. i - k \in 1 .. n - k /\ k + (i - k) = i
      BY <1>1, <2>1, <2>3
    <3>2. y[i] = u[i - k] /\ u[i - k] = t[i - k] /\ t[i - k] = e[k + (i - k)]
      BY <1>2, <1>6, <1>7, <2>1, <2>3, <3>1
    <3> QED BY <3>1, <3>2
  <2> QED BY <2>2, <2>3
<1>10. y = e
  BY <1>7, <1>8, <1>9, SeqEqual
<1> QED BY <1>4, <1>5, <1>10 DEF NewPath, OldPath, t, x, u, y

(* The directory of an entry goes where the entry goes.                    *)
LEMMA NewPathOfFront ==
  ASSUME NEW s \in Seq(Names), NEW d \in Seq(Names), NEW e \in Seq(Names), IsPrefix(s, e)
  PROVE  /\ Len(e) = Len(s) => e = s /\ NewPath(s, d, e) = d
         /\ Len(e) > Len(s) => /\ IsPrefix(s, Front(e)) /\ Front(e) \in Seq(Names)
                               /\ Front(NewPath(s, d, e)) = NewPath(s, d, Front(e))
<1>1. Len(s) \in Nat /\ Len(e) \in Nat /\ Len(d) \in Nat /\ Len(s) <= Len(e) /\ s = First(e, Len(s))
  BY PrefixIs, LenProperties
<1>2. ASSUME Len(e) = Len(s) PROVE e = s /\ NewPath(s, d, e) = d
  <2>1. e = s
    BY <1>1, <1>2, FirstAll
  <2>2. SubSeq(e, Len(s) + 1, Len(e)) = <<>>
    BY <1>1, <1>2, SubSeqEmpty
  <2> QED BY <2>1, <2>2, ConcatEmptySeq DEF NewPath
<1>3. ASSUME Len(e) > Len(s)
      PROVE  /\ IsPrefix(s, Front(e)) /\ Front(e) \in Seq(Names)
             /\ Front(NewPath(s, d, e)) = NewPath(s, d, Front(e))
  <2> DEFINE p == Front(e)
             x == NewPath(s, d, e)
             y == NewPath(s, d, p)
  <2>1. p \in Seq(Names) /\ Len(p) = Len(e) - 1 /\ p = First(e, Len(e) - 1)
    BY <1>1, <1>3, ParentAndName, FirstAll
  <2>2. First(p, Len(s)) = First(e, Len(s))
    <3>1. Len(e) - 1 \in 0 .. Len(e) /\ Len(s) \in 0 .. Len(e) - 1
      BY <1>1, <1>3
    <3> QED BY <2>1, <3>1, FirstOfFirst
  <2> HIDE DEF p
  <2>3. IsPrefix(s, p)
    <3>1. Len(s) <= Len(p) /\ s = First(p, Len(s))
      BY <1>1, <1>3, <2>1, <2>2
    <3> QED BY <2>1, <3>1, PrefixIs
  <2>4. x \in Seq(Names) /\ Len(x) = Len(d) + (Len(e) - Len(s))
    BY NewPathIs
  <2>5. y \in Seq(Names) /\ Len(y) = Len(d) + (Len(p) - Len(s))
    BY <2>1, <2>3, NewPathIs
  <2>6. Front(x) \in Seq(Names) /\ Len(Front(x)) = Len(x) - 1 /\ \A i \in 1 .. Len(x) - 1 : Front(x)[i] = x[i]
    <3> HIDE DEF x
    <3>1. Len(x) \in Nat /\ Len(x) > 0
      BY <1>1, <1>3, <2>4
    <3> DEFINE m == Len(x) - 1
    <3>2. m \in 0 .. Len(x)
      BY <3>1
    <3> HIDE DEF m
    <3>3. PICK n \in 0 .. Len(x) : n = m
      BY <3>2
    <3>4. Front(x) = First(x, n)
      BY <2>4, <3>3, FirstAll DEF m
    <3>5. First(x, n) \in Seq(Names) /\ Len(First(x, n)) = n /\ \A i \in 1 .. n : First(x, n)[i] = x[i]
      BY <2>4, FirstOf
    <3> QED BY <3>3, <3>4, <3>5 DEF m
  <2>7. Len(Front(x)) = Len(y)
    BY <1>1, <2>1, <2>4, <2>5, <2>6
  <2>8. ASSUME NEW i \in 1 .. Len(y) PROVE Front(x)[i] = y[i]
    <3> DEFINE k == Len(s)
               t == SubSeq(e, k + 1, Len(e))
               v == SubSeq(p, k + 1, Len(p))
    <3>1. /\ k + 1 \in Nat /\ 1 <= k + 1 /\ k + 1 <= Len(e) + 1 /\ k + 1 <= Len(p) + 1
          /\ Len(p) \in Nat /\ Len(e) - (k + 1) + 1 = Len(e) - k /\ Len(p) - (k + 1) + 1 = Len(p) - k
      BY <1>1, <1>3, <2>1
    <3>2. /\ t \in Seq(Names) /\ Len(t) = Len(e) - k
          /\ \A j \in 1 .. Len(e) - k : t[j] = e[(k + 1) + j - 1]
      BY <1>1, <3>1, PartOf
    <3>3. /\ v \in Seq(Names) /\ Len(v) = Len(p) - k
          /\ \A j \in 1 .. Len(p) - k : v[j] = p[(k + 1) + j - 1]
      BY <1>1, <2>1, <3>1, PartOf
    <3>4. \A j \in 1 .. Len(p) : p[j] = e[j]
      <4>1. Len(e) - 1 \in 0 .. Len(e)
        BY <1>1, <1>3
      <4> QED BY <2>1, <4>1, FirstOf
    <3>5. /\ x = d \o t /\ y = d \o v
      BY DEF NewPath
    <3> HIDE DEF t, v, x, y
    <3>6. \A j \in 1 .. Len(d) + Len(t) : x[j] = IF j <= Len(d) THEN d[j] ELSE t[j - Len(d)]
      BY <3>2, <3>5, ConcatProperties
    <3>7. \A j \in 1 .. Len(d) + Len(v) : y[j] = IF j <= Len(d) THEN d[j] ELSE v[j - Len(d)]
      BY <3>3, <3>5, ConcatProperties
    <3>8. i \in 1 .. Len(d) + Len(t) /\ i \in 1 .. Len(d) + Len(v) /\ i \in 1 .. Len(x) - 1
      BY <1>1, <2>1, <2>4, <2>5, <3>2, <3>3
    <3>9. Front(x)[i] = x[i]
      BY <2>6, <3>8
    <3>10. CASE i <= Len(d)
      BY <3>6, <3>7, <3>8, <3>9, <3>10
    <3>11. CASE ~(i <= Len(d))
      <4> DEFINE j == i - Len(d)
      <4>1. j \in 1 .. Len(e) - k /\ j \in 1 .. Len(p) - k /\ (k + 1) + j - 1 \in 1 .. Len(p)
        BY <1>1, <2>1, <3>2, <3>3, <3>8, <3>11
      <4>2. x[i] = t[j] /\ y[i] = v[j]
        BY <3>6, <3>7, <3>8, <3>11
      <4> HIDE DEF j
      <4>3. t[j] = e[(k + 1) + j - 1] /\ v[j] = p[(k + 1) + j - 1]
        BY <3>2, <3>3, <4>1
      <4> QED BY <3>4, <3>9, <4>1, <4>2, <4>3
    <3> QED BY <3>10, <3>11
  <2>9. Front(x) = y
    BY <2>5, <2>6, <2>7, <2>8, SeqEqual
  <2> QED BY <2>1, <2>3, <2>9 DEF p
<1> QED BY <1>2, <1>3

(* What is known when an entry s can be renamed to d.                      *)
Movable(f, s, d) ==
  /\ Tree(f) /\ s \in DOMAIN f /\ d # <<>> /\ d \in Seq(Names)
  /\ Front(d) = <<>> \/ (Front(d) \in DOMAIN f /\ f[Front(d)] = "dir")
  /\ ~IsPrefix(s, d)
  /\ d \in DOMAIN f =>
       IF f[s] = "dir"
         THEN f[d] = "dir" /\ {e \in DOMAIN f : IsStrictPrefix(d, e)} = {}
         ELSE f[d] # "dir"

Inhabitants(f, s) == {e \in DOMAIN f : IsPrefix(s, e)}
Stay(f, s, d) == DOMAIN f \ (Inhabitants(f, s) \cup {d})

(* With an entry all directories above it are in the tree.                 *)
LEMMA TreePaths ==
  ASSUME NEW f, Tree(f), NEW e \in DOMAIN f
  PROVE  /\ e \in Seq(Names) /\ e # <<>> /\ Len(e) \in Nat /\ Len(e) > 0
         /\ Closed(DOMAIN f)
         /\ \A n \in 1 .. Len(e) : First(e, n) \in DOMAIN f
         /\ \A n \in 1 .. Len(e) - 1 : f[First(e, n)] = "dir"
<1>1. Closed(DOMAIN f)
  BY DEF Tree, Closed
<1>2. e \in Seq(Names) /\ e # <<>> /\ Len(e) \in Nat
  BY PathsAre, LenProperties DEF Tree
<1>3. Len(e) > 0
  BY <1>2, FirstAll
<1>4. \A n \in 1 .. Len(e) : First(e, n) \in DOMAIN f
  BY <1>1, ClosedHoldsPrefixes
<1>5. ASSUME NEW n \in 1 .. Len(e) - 1 PROVE f[First(e, n)] = "dir"
  <2>1. n + 1 \in 1 .. Len(e) /\ n + 1 \in 0 .. Len(e) /\ n \in 0 .. n + 1
    BY <1>2
  <2> DEFINE x == First(e, n + 1)
  <2>2. x \in DOMAIN f /\ x \in Seq(Names) /\ Len(x) = n + 1
    BY <1>2, <1>4, <2>1, FirstOf
  <2>3. First(x, n) = First(e, n)
    BY <1>2, <2>1, FirstOfFirst
  <2> HIDE DEF x
  <2>4. Front(x) = First(x, Len(x) - 1) /\ Len(x) - 1 = n
    BY <2>2, FirstAll
  <2>5. f[Front(x)] = "dir"
    BY <2>2 DEF Tree
  <2> QED BY <2>3, <2>4, <2>5
<1> QED BY <1>1, <1>2, <1>3, <1>4, <1>5

(* A file has nothing below it; a directory takes a place at which there   *)
(* is nothing, or an empty directory.                                      *)
LEMMA OnlyItself ==
  ASSUME NEW f, NEW s, NEW d, Movable(f, s, d)
  PROVE  /\ f[s] # "dir" => Inhabitants(f, s) = {s}
         /\ f[s] = "dir" => \A y \in DOMAIN f : ~IsStrictPrefix(d, y)
         /\ s \in Inhabitants(f, s)
<1>1. s \in Seq(Names) /\ s # <<>> /\ Len(s) \in Nat /\ Len(s) > 0
  BY TreePaths DEF Movable
<1>2. d \in Seq(Names) /\ Len(d) \in Nat /\ Len(d) > 0
  <2>1. d \in Seq(Names) /\ d # <<>>
    BY DEF Movable
  <2> QED BY <2>1, FirstAll, LenProperties
<1>3. s \in Inhabitants(f, s)
  BY <1>1, PrefixItself DEF Inhabitants, Movable
<1>4. ASSUME NEW e \in Inhabitants(f, s), e # s PROVE f[s] = "dir"
  <2>1. e \in DOMAIN f /\ e \in Seq(Names) /\ IsStrictPrefix(s, e) /\ Len(e) \in Nat
    BY <1>4, TreePaths DEF Inhabitants, Movable, IsStrictPrefix
  <2>2. Len(s) < Len(e) /\ s = First(e, Len(s))
    BY <1>1, <2>1, PrefixIs
  <2>3. Len(s) \in 1 .. Len(e) - 1
    BY <1>1, <2>1, <2>2
  <2> QED BY <2>1, <2>2, <2>3, TreePaths DEF Movable
<1>5. ASSUME f[s] = "dir", NEW y \in DOMAIN f, IsStrictPrefix(d, y) PROVE FALSE
  <2>1. y \in Seq(Names) /\ Len(y) \in Nat
    BY TreePaths DEF Movable
  <2>2. Len(d) < Len(y) /\ d = First(y, Len(d))
    BY <1>2, <1>5, <2>1, PrefixIs
  <2>3. d \in DOMAIN f
    BY <1>2, <2>1, <2>2, TreePaths DEF Movable
  <2> QED BY <1>5, <2>3 DEF Movable
<1>6. f[s] # "dir" => Inhabitants(f, s) = {s}
  BY <1>3, <1>4
<1> QED BY <1>3, <1>5, <1>6

(* What is moved comes to places where nothing stays.                      *)
LEMMA NewPlaces ==
  ASSUME NEW f, NEW s, NEW d, Movable(f, s, d), NEW e \in Inhabitants(f, s)
  PROVE  LET x == NewPath(s, d, e) IN
         /\ s \in Seq(Names) /\ d \in Seq(Names) /\ e \in Seq(Names) /\ IsPrefix(s, e)
         /\ x \in Seq(Names) /\ x # <<>> /\ IsPrefix(d, x) /\ x \notin Stay(f, s, d)
         /\ OldPath(s, d, x) = e
<1> DEFINE x == NewPath(s, d, e)
<1>1. s \in Seq(Names) /\ d \in Seq(Names) /\ e \in Seq(Names) /\ IsPrefix(s, e) /\ d # <<>>
  BY TreePaths DEF Inhabitants, Movable
<1>2. /\ x \in Seq(Names) /\ IsPrefix(d, x) /\ Len(x) = Len(d) + (Len(e) - Len(s))
      /\ OldPath(s, d, x) = e
  BY <1>1, NewPathIs
<1>3. Len(d) \in Nat /\ Len(d) > 0 /\ Len(e) \in Nat /\ Len(s) \in Nat /\ Len(s) <= Len(e)
  BY <1>1, FirstAll, LenProperties, PrefixIs
<1>4. x # <<>>
  <2> HIDE DEF x
  <2>1. Len(x) > 0
    BY <1>2, <1>3
  <2> QED BY <1>2, <2>1, FirstAll
<1>5. ASSUME x \in Stay(f, s, d) PROVE FALSE
  <2>1. x \in DOMAIN f /\ IsStrictPrefix(d, x)
    BY <1>2, <1>5 DEF Stay, IsStrictPrefix
  <2>2. f[s] # "dir"
    BY <2>1, OnlyItself
  <2>3. e = s
    BY <2>2, OnlyItself
  <2>4. x = d
    BY <1>1, <2>3, NewPathOfFront
  <2> QED BY <1>5, <2>4 DEF Stay
<1> QED BY <1>1, <1>2, <1>4, <1>5

(* The entries of the file system h after s became d in f.                 *)
Renamed(f, s, d, h) ==
  /\ DOMAIN h = Stay(f, s, d) \cup {NewPath(s, d, e) : e \in Inhabitants(f, s)}
  /\ \A x \in Stay(f, s, d) : h[x] = f[x]
  /\ \A e \in Inhabitants(f, s) : h[NewPath(s, d, e)] = f[e]
  /\ \A x \in DOMAIN h : x \in Seq(Names) => x \in Paths

(* Below s every directory moves with what it holds.                       *)
LEMMA MovesWithFront ==
  ASSUME NEW f, NEW s, NEW d, Movable(f, s, d), NEW e \in Inhabitants(f, s), e # s
  PROVE  /\ Front(e) \in Inhabitants(f, s) /\ f[Front(e)] = "dir" /\ f[s] = "dir"
         /\ Front(NewPath(s, d, e)) = NewPath(s, d, Front(e))
         /\ Len(e) > 1
<1>1. s \in Seq(Names) /\ d \in Seq(Names) /\ e \in Seq(Names) /\ IsPrefix(s, e)
  BY NewPlaces
<1>2. Len(s) \in Nat /\ Len(s) > 0 /\ Len(e) \in Nat
  BY TreePaths DEF Inhabitants, Movable
<1>3. Len(s) <= Len(e) /\ Len(e) # Len(s)
  BY <1>1, PrefixIs, NewPathOfFront
<1>4. Len(e) > Len(s) /\ Len(e) > 1
  BY <1>2, <1>3
<1>5. /\ IsPrefix(s, Front(e)) /\ Front(NewPath(s, d, e)) = NewPath(s, d, Front(e))
  BY <1>1, <1>4, NewPathOfFront
<1>6. Front(e) \in DOMAIN f /\ f[Front(e)] = "dir"
  BY <1>4 DEF Inhabitants, Movable, Tree
<1>7. f[s] = "dir"
  BY OnlyItself
<1> QED BY <1>4, <1>5, <1>6, <1>7 DEF Inhabitants

(* A renaming keeps the tree of entries.                                   *)
LEMMA RenamedTree ==
  ASSUME NEW f, NEW s, NEW d, Movable(f, s, d), NEW h, Renamed(f, s, d, h)
  PROVE  Tree(h)
<1>1. DOMAIN h = Stay(f, s, d) \cup {NewPath(s, d, e) : e \in Inhabitants(f, s)}
  BY DEF Renamed
<1>2. s \in Inhabitants(f, s) /\ Tree(f)
  BY OnlyItself DEF Movable
<1>3. s \in Seq(Names) /\ d \in Seq(Names) /\ Len(s) \in Nat /\ Len(d) \in Nat
  BY <1>2, NewPlaces, LenProperties
<1> SUFFICES ASSUME NEW x \in DOMAIN h
             PROVE  /\ x \in Paths \ {<<>>} /\ h[x] \in Kinds
                    /\ Len(x) > 1 => Front(x) \in DOMAIN h /\ h[Front(x)] = "dir"
  BY DEF Tree
<1>4. CASE x \in Stay(f, s, d)
  <2>1. x \in DOMAIN f /\ x \notin Inhabitants(f, s) /\ x # d /\ h[x] = f[x]
    BY <1>4 DEF Stay, Renamed
  <2>2. x \in Paths \ {<<>>} /\ f[x] \in Kinds /\ x \in Seq(Names) /\ Len(x) \in Nat
    BY <1>2, <2>1, TreePaths DEF Tree
  <2>3. ASSUME Len(x) > 1 PROVE Front(x) \in DOMAIN h /\ h[Front(x)] = "dir"
    <3> DEFINE p == Front(x)
    <3>1. p \in DOMAIN f /\ f[p] = "dir"
      BY <1>2, <2>1, <2>3 DEF Tree
    <3>2. p = First(x, Len(x) - 1) /\ p \in Seq(Names) /\ Len(p) = Len(x) - 1
      BY <2>2, <2>3, FirstAll, ParentAndName
    <3>3. IsStrictPrefix(p, x)
      BY <2>2, <3>2, PrefixIs
    <3>4. p \notin Inhabitants(f, s)
      <4> SUFFICES ASSUME IsPrefix(s, p) PROVE x \in Inhabitants(f, s)
        BY <2>1 DEF Inhabitants
      <4>1. Len(s) <= Len(p) /\ s = First(p, Len(s))
        BY <1>3, <3>2, PrefixIs
      <4>2. Len(x) - 1 \in 0 .. Len(x) /\ Len(s) \in 0 .. Len(x) - 1
        BY <1>3, <2>2, <2>3, <3>2, <4>1
      <4>3. First(p, Len(s)) = First(x, Len(s))
        BY <2>2, <3>2, <4>2, FirstOfFirst
      <4>4. Len(s) <= Len(x)
        BY <2>2, <4>2
      <4>5. IsPrefix(s, x)
        BY <1>3, <2>2, <4>1, <4>3, <4>4, PrefixIs
      <4> QED BY <2>1, <4>5 DEF Inhabitants
    <3>5. p # d
      <4> SUFFICES ASSUME p = d PROVE FALSE
        OBVIOUS
      <4>1. f[s] # "dir"
        BY <2>1, <3>3, OnlyItself
      <4> QED BY <3>1, <4>1 DEF Movable
    <3>6. p \in Stay(f, s, d)
      BY <3>1, <3>4, <3>5 DEF Stay
    <3> QED BY <1>1, <3>1, <3>6 DEF Renamed
  <2> QED BY <2>1, <2>2, <2>3
<1>5. CASE x \notin Stay(f, s, d)
  <2>1. PICK e \in Inhabitants(f, s) : x = NewPath(s, d, e)
    BY <1>1, <1>5
  <2>2. x \in Seq(Names) /\ x # <<>> /\ h[x] = f[e] /\ e \in DOMAIN f
    BY <2>1, NewPlaces DEF Renamed, Inhabitants
  <2>3. x \in Paths /\ f[e] \in Kinds
    BY <1>2, <2>2 DEF Renamed, Tree
  <2>4. ASSUME Len(x) > 1 PROVE Front(x) \in DOMAIN h /\ h[Front(x)] = "dir"
    <3>1. CASE e = s
      <4>1. IsPrefix(s, s) /\ NewPath(s, d, s) = d
        BY <1>3, PrefixItself, NewPathOfFront
      <4>2. x = d
        BY <2>1, <3>1, <4>1
      <4>3. Front(d) \in Seq(Names) /\ Len(Front(d)) = Len(d) - 1 /\ Front(d) = First(d, Len(d) - 1)
        BY <1>3, <2>4, <4>2, ParentAndName, FirstAll
      <4>4. Front(d) # <<>> /\ Front(d) # d
        BY <1>3, <2>4, <4>2, <4>3, FirstAll
      <4>5. Front(d) \in DOMAIN f /\ f[Front(d)] = "dir"
        BY <4>4 DEF Movable
      <4>6. Front(d) \notin Inhabitants(f, s)
        <5> SUFFICES ASSUME IsPrefix(s, Front(d)) PROVE IsPrefix(s, d)
          BY DEF Inhabitants, Movable
        <5>1. Len(s) <= Len(Front(d)) /\ s = First(Front(d), Len(s))
          BY <1>3, <4>3, PrefixIs
        <5>2. Len(d) - 1 \in 0 .. Len(d) /\ Len(s) \in 0 .. Len(d) - 1 /\ Len(s) <= Len(d)
          BY <1>3, <2>4, <4>2, <4>3, <5>1
        <5>3. First(Front(d), Len(s)) = First(d, Len(s))
          BY <1>3, <4>3, <5>2, FirstOfFirst
        <5> QED BY <1>3, <5>1, <5>2, <5>3, PrefixIs
      <4>7. Front(d) \in Stay(f, s, d)
        BY <4>4, <4>5, <4>6 DEF Stay
      <4> QED BY <1>1, <4>2, <4>5, <4>7 DEF Renamed
    <3>2. CASE e # s
      <4>1. Front(e) \in Inhabitants(f, s) /\ f[Front(e)] = "dir" /\ Front(x) = NewPath(s, d, Front(e))
        BY <2>1, <3>2, MovesWithFront
      <4> QED BY <1>1, <4>1 DEF Renamed
    <3> QED BY <3>1, <3>2
  <2> QED BY <2>2, <2>3, <2>4
<1> QED BY <1>4, <1>5

(* An entry comes or goes with its directory, but for s and d, and for     *)
(* what comes to an empty directory d.                                     *)
LEMMA RenamedEntries ==
  ASSUME NEW f, NEW s, NEW d, Movable(f, s, d), NEW h, Renamed(f, s, d, h),
         NEW x, (x \in DOMAIN f) # (x \in DOMAIN h), x # s, x # d
  PROVE  /\ Len(x) > 1
         /\ (Front(x) \in DOMAIN f) # (Front(x) \in DOMAIN h) \/ Front(x) = d
<1>1. DOMAIN h = Stay(f, s, d) \cup {NewPath(s, d, e) : e \in Inhabitants(f, s)}
  BY DEF Renamed
<1>2. s \in Inhabitants(f, s) /\ Tree(f)
  BY OnlyItself DEF Movable
<1>3. s \in Seq(Names) /\ d \in Seq(Names) /\ ~IsPrefix(s, d)
  BY <1>2, NewPlaces DEF Movable
<1>4. CASE x \in DOMAIN f
  <2>1. x \in Inhabitants(f, s)
    BY <1>1, <1>4 DEF Stay
  <2>2. Front(x) \in Inhabitants(f, s) /\ f[s] = "dir" /\ Len(x) > 1
    BY <2>1, MovesWithFront
  <2>3. Front(x) \notin DOMAIN h
    <3> SUFFICES ASSUME Front(x) \in DOMAIN h PROVE FALSE
      OBVIOUS
    <3>1. PICK e \in Inhabitants(f, s) : Front(x) = NewPath(s, d, e)
      BY <1>1, <2>2 DEF Stay
    <3>2. IsPrefix(d, Front(x)) /\ Front(x) \in DOMAIN f
      BY <2>2, <3>1, NewPlaces DEF Inhabitants
    <3>3. Front(x) # d
      BY <1>3, <2>2 DEF Inhabitants
    <3> QED BY <2>2, <3>2, <3>3, OnlyItself DEF IsStrictPrefix
  <2> QED BY <2>2, <2>3 DEF Inhabitants
<1>5. CASE x \notin DOMAIN f
  <2>1. PICK e \in Inhabitants(f, s) : x = NewPath(s, d, e)
    BY <1>1, <1>5 DEF Stay
  <2>2. e # s
    <3>1. IsPrefix(s, s) /\ NewPath(s, d, s) = d
      BY <1>3, PrefixItself, NewPathOfFront
    <3> QED BY <2>1, <3>1
  <2>3. Front(e) \in Inhabitants(f, s) /\ f[s] = "dir" /\ Front(x) = NewPath(s, d, Front(e))
    BY <2>1, <2>2, MovesWithFront
  <2>4. Front(x) \in DOMAIN h /\ IsPrefix(d, Front(x))
    BY <1>1, <2>3, NewPlaces
  <2>5. ASSUME Front(x) \in DOMAIN f PROVE Front(x) = d
    BY <2>3, <2>4, <2>5, OnlyItself DEF IsStrictPrefix
  <2>6. Len(x) > 1
    <3>1. e \in Seq(Names) /\ IsPrefix(s, e) /\ Len(e) \in Nat /\ Len(d) \in Nat /\ Len(s) \in Nat
      BY <1>3, NewPlaces, LenProperties
    <3>2. Len(x) = Len(d) + (Len(e) - Len(s)) /\ Len(s) <= Len(e) /\ Len(e) # Len(s)
      BY <1>3, <2>1, <2>2, <3>1, NewPathIs, NewPathOfFront, PrefixIs
    <3>3. Len(d) > 0
      BY <1>3, FirstAll DEF Movable
    <3> QED BY <3>1, <3>2, <3>3
  <2> QED BY <2>4, <2>5, <2>6
<1> QED BY <1>4, <1>5

(* Move, in the file system both paths are in.                             *)
LEMMA Moves ==
  ASSUME MountsIInv, NEW src \in Arguments, NEW dest \in Arguments, Move(src, dest)
  PROVE  /\ Trees'
         /\ \A g \in FS : \A x : Changed(g, x) =>
              /\ g = GetFS(dest).fs /\ g = GetFS(src).fs
              /\ \/ x = GetFS(src).rest \/ x = GetFS(dest).rest
                 \/ Len(x) > 1 /\ (Changed(g, Front(x)) \/ Front(x) = GetFS(dest).rest)
<1> DEFINE fs == GetFS(src).fs
           s == GetFS(src).rest
           d == GetFS(dest).rest
           f == contents[fs]
<1>1. fs \in FS /\ s \in Seq(Names) /\ d \in Seq(Names) /\ GetFS(dest).fs = fs
  BY ArgumentsAskFor DEF Move
<1>2. Trees
  BY DEF MountsIInv
<1>3. CASE contents' = contents
  BY <1>2, <1>3, NoStep
<1>4. CASE contents' # contents
  <2>1. Becomes(Moved(fs, s, d)) /\ contents' = Moved(fs, s, d)
    BY DEF Move, Becomes
  <2> HIDE DEF s, d, fs
  <2> DEFINE moved == {e \in Entries(fs) : IsPrefix(s, e)}
             stay == Entries(fs) \ (moved \cup {d})
             places == {d \o SubSeq(e, Len(s) + 1, Len(e)) : e \in moved}
             h == [e \in stay \cup places |->
                     IF e \in stay THEN f[e] ELSE f[s \o SubSeq(e, Len(d) + 1, Len(e))]]
             replaces == IF f[s] = "dir" THEN f[d] = "dir" /\ Below(fs, d) = {}
                         ELSE f[d] # "dir"
             may == /\ s \in Entries(fs) /\ HasPlaceFor(fs, d) /\ ~IsPrefix(s, d)
                    /\ d \in Entries(fs) => replaces
  <2>2. Moved(fs, s, d) = IF may THEN [contents EXCEPT ![fs] = h] ELSE contents
    BY DEF Moved
  <2>3. may /\ contents' = [contents EXCEPT ![fs] = h]
    <3> HIDE DEF may, h
    <3> QED BY <1>4, <2>1, <2>2, Zenon
  <2>4. Movable(f, s, d)
    BY <1>1, <1>2, <2>3 DEF Trees, Movable, HasPlaceFor, HasDirectory, Entries, Below
  <2>5. moved = Inhabitants(f, s) /\ stay = Stay(f, s, d)
        /\ places = {NewPath(s, d, e) : e \in Inhabitants(f, s)}
    BY DEF Inhabitants, Stay, Entries, NewPath
  <2>6. DOMAIN h = Stay(f, s, d) \cup {NewPath(s, d, e) : e \in Inhabitants(f, s)}
    BY <2>5
  <2>7. \A x \in DOMAIN h : h[x] = IF x \in Stay(f, s, d) THEN f[x]
                                   ELSE f[OldPath(s, d, x)]
    <3>1. \A x \in stay \cup places : h[x] = IF x \in stay THEN f[x]
                                   ELSE f[OldPath(s, d, x)]
      BY Zenon DEF OldPath
    <3>2. DOMAIN h = stay \cup places
      BY Zenon
    <3> HIDE DEF h, moved, stay, places, f
    <3> QED BY <2>5, <3>1, <3>2, Zenon
  <2> HIDE DEF h, may, moved, stay, places
  <2>8. DOMAIN contents = FS
    BY <1>2 DEF Trees
  <2>9. DOMAIN contents' = FS /\ contents'[fs] = h /\ \A g \in FS \ {fs} : contents'[g] = contents[g]
    BY <1>1, <2>3, <2>8
  <2>10. Renamed(f, s, d, h)
    <3> HIDE DEF f
    <3>1. \A x \in Stay(f, s, d) : h[x] = f[x]
      BY <2>6, <2>7
    <3>2. ASSUME NEW e \in Inhabitants(f, s) PROVE h[NewPath(s, d, e)] = f[e]
      <4> DEFINE x == NewPath(s, d, e)
      <4>0. x \notin Stay(f, s, d)
        BY <2>4, NewPlaces
      <4>1. OldPath(s, d, x) = e
        BY <2>4, NewPlaces
      <4>2. x \in DOMAIN h
        BY <2>6
      <4> HIDE DEF x
      <4>3. h[x] = f[OldPath(s, d, x)]
        BY <2>7, <4>0, <4>2
      <4>4. h[x] = f[e]
        BY <4>1, <4>3, Zenon
      <4> QED BY <4>4 DEF x
    <3>3. \A x \in DOMAIN h : x \in Seq(Names) => x \in Paths
      <4>1. Fits(contents')
        BY <2>1 DEF Becomes
      <4> QED BY <1>1, <2>9, <4>1, FittingPaths
    <3> QED BY <2>6, <3>1, <3>2, <3>3 DEF Renamed
  <2>11. Tree(h)
    BY <2>4, <2>10, RenamedTree
  <2>12. Trees'
    <3>1. \A x : Tree(x)' <=> Tree(x)
      BY DEF Tree, Kinds, Paths
    <3>2. \A g \in FS : Tree(contents'[g])
      BY <1>2, <2>9, <2>11 DEF Trees
    <3> QED BY <2>9, <3>2 DEF Trees, FS
  <2>13. ASSUME NEW g \in FS, NEW x, Changed(g, x)
         PROVE  /\ g = fs
                /\ \/ x = s \/ x = d
                   \/ Len(x) > 1 /\ (Changed(g, Front(x)) \/ Front(x) = d)
    <3>1. g = fs
      BY <2>9, <2>13 DEF Changed
    <3>2. (x \in DOMAIN f) # (x \in DOMAIN h)
      BY <2>9, <2>13, <3>1 DEF Changed
    <3>3. ASSUME x # s, x # d
          PROVE  Len(x) > 1 /\ ((Front(x) \in DOMAIN f) # (Front(x) \in DOMAIN h) \/ Front(x) = d)
      <4> HIDE DEF f
      <4> QED BY <2>4, <2>10, <3>2, <3>3, RenamedEntries
    <3>4. (Front(x) \in DOMAIN f) # (Front(x) \in DOMAIN h) <=> Changed(g, Front(x))
      BY <2>9, <3>1 DEF Changed
    <3> QED BY <3>1, <3>3, <3>4
  <2> QED BY <1>1, <2>12, <2>13 DEF s, d, fs
<1> QED BY <1>3, <1>4

-----------------------------------------------------------------------------
(* A path that begins with n components of p goes on in p when what        *)
(* follows them does.                                                      *)
LEMMA GoesOnInPath ==
  ASSUME NEW p \in Seq(Names), NEW n \in 0 .. Len(p), NEW x \in Seq(Names),
         IsPrefix(x, SubSeq(p, n + 1, Len(p)))
  PROVE  /\ First(p, n) \o x = First(p, n + Len(x))
         /\ n + Len(x) \in n .. Len(p)
<1> DEFINE t == SubSeq(p, n + 1, Len(p))
           q == First(p, n)
           y == q \o x
           k == n + Len(x)
<1>1. Len(p) \in Nat /\ Len(x) \in Nat
  BY LenProperties
<1>2. t \in Seq(Names) /\ Len(t) = Len(p) - n /\ \A i \in 1 .. Len(p) - n : t[i] = p[(n + 1) + i - 1]
  <2>1. /\ n \in Nat /\ n + 1 \in Nat /\ 1 <= n + 1 /\ n + 1 <= Len(p) + 1 /\ Len(p) <= Len(p)
        /\ Len(p) \in Nat /\ Len(p) - (n + 1) + 1 = Len(p) - n
    BY <1>1
  <2>2. /\ t \in Seq(Names) /\ Len(t) = Len(p) - (n + 1) + 1
        /\ \A i \in 1 .. Len(p) - (n + 1) + 1 : t[i] = p[(n + 1) + i - 1]
    <3> DEFINE lo == n + 1
               hi == Len(p)
    <3>1. lo \in Nat /\ hi \in Nat /\ 1 <= lo /\ lo <= hi + 1 /\ hi <= Len(p)
      BY <2>1
    <3> HIDE DEF lo, hi
    <3>2. /\ SubSeq(p, lo, hi) \in Seq(Names) /\ Len(SubSeq(p, lo, hi)) = hi - lo + 1
          /\ \A i \in 1 .. hi - lo + 1 : SubSeq(p, lo, hi)[i] = p[lo + i - 1]
      BY <3>1, PartOf
    <3> QED BY <3>2 DEF lo, hi
  <2> HIDE DEF t
  <2> QED BY <2>1, <2>2
<1>3. Len(x) <= Len(t) /\ x = First(t, Len(x))
  BY <1>2, PrefixIs
<1>4. \A i \in 1 .. Len(x) : x[i] = t[i]
  <2>1. Len(x) \in 0 .. Len(t)
    BY <1>1, <1>2, <1>3
  <2> HIDE DEF t
  <2> QED BY <1>2, <1>3, <2>1, FirstOf
<1>5. q \in Seq(Names) /\ Len(q) = n /\ \A i \in 1 .. n : q[i] = p[i]
  BY FirstOf
<1> HIDE DEF q, t
<1>6. y \in Seq(Names) /\ Len(y) = k /\ \A i \in 1 .. k : y[i] = IF i <= n THEN q[i] ELSE x[i - n]
  <2>1. /\ y \in Seq(Names) /\ Len(y) = Len(q) + Len(x)
        /\ \A i \in 1 .. Len(q) + Len(x) : y[i] = IF i <= Len(q) THEN q[i] ELSE x[i - Len(q)]
    BY <1>5, ConcatProperties
  <2> HIDE DEF y
  <2> QED BY <1>5, <2>1
<1> HIDE DEF y
<1>7. k \in 0 .. Len(p) /\ k \in n .. Len(p)
  BY <1>1, <1>2, <1>3
<1>8. /\ First(p, k) \in Seq(Names) /\ Len(First(p, k)) = k
      /\ \A i \in 1 .. k : First(p, k)[i] = p[i]
  <2> HIDE DEF k
  <2> QED BY <1>7, FirstOf
<1>9. ASSUME NEW i \in 1 .. k PROVE y[i] = p[i]
  <2>1. CASE i <= n
    BY <1>5, <1>6, <2>1
  <2>2. CASE ~(i <= n)
    <3>1. i - n \in 1 .. Len(x) /\ i - n \in 1 .. Len(p) - n /\ (n + 1) + (i - n) - 1 = i
      BY <1>1, <1>7, <2>2
    <3>2. y[i] = x[i - n] /\ x[i - n] = t[i - n] /\ t[i - n] = p[(n + 1) + (i - n) - 1]
      BY <1>2, <1>4, <1>6, <2>2, <3>1
    <3> QED BY <3>1, <3>2
  <2> QED BY <2>1, <2>2
<1>10. y = First(p, k)
  <2> HIDE DEF k
  <2> QED BY <1>6, <1>8, <1>9, SeqEqual
<1> QED BY <1>7, <1>10 DEF q, y

(* Nothing hidden is what GetFS finds, or on the way to it.                *)
LEMMA NotHidden ==
  ASSUME MountsIInv, NEW p \in Seq(Names), NEW x \in Seq(Names), IsPrefix(x, GetFS(p).rest)
  PROVE  ~Hidden(GetFS(p).fs, x)
<1> SUFFICES ASSUME Hidden(GetFS(p).fs, x) PROVE FALSE
  OBVIOUS
<1> DEFINE fs == GetFS(p).fs
           places == IF fs = Root THEN {<<>>} ELSE {q \in Objects : directories[q] = fs}
<1>1. PICK n \in 0 .. Matched(p) :
        /\ GetFS(p).rest = SubSeq(p, n + 1, Len(p))
        /\ \/ n = 0 /\ fs = Root
           \/ /\ n > 0 /\ First(p, n) \in Objects
              /\ fs = directories[First(p, n)]
              /\ fs \in Mountable
        /\ \A k \in n + 1 .. Matched(p) :
             First(p, k) \in Objects /\ directories[First(p, k)] = None
  BY ObjectsClosed, Found
<1>2. /\ Len(p) \in Nat /\ Len(x) \in Nat /\ Matched(p) \in 0 .. Len(p)
      /\ \A k \in 1 .. Len(p) : k <= Matched(p) <=> First(p, k) \in Objects
  BY ObjectsClosed, MatchedIs, LenProperties
<1>3. First(p, n) \in places
  <2>1. CASE n = 0 /\ fs = Root
    BY <2>1, FirstAll
  <2>2. CASE n > 0 /\ First(p, n) \in Objects /\ fs = directories[First(p, n)] /\ fs \in Mountable
    BY <2>2, SystemsAssumption
  <2> QED BY <1>1, <2>1, <2>2
<1>4. PICK m \in Objects : /\ directories[m] # None /\ Len(m) > Len(First(p, n))
                           /\ IsPrefix(m, First(p, n) \o x)
  BY <1>3 DEF Hidden
<1>5. n \in 0 .. Len(p) /\ Len(First(p, n)) = n
  BY <1>2, FirstOf
<1>6. First(p, n) \o x = First(p, n + Len(x)) /\ n + Len(x) \in n .. Len(p)
  BY <1>1, <1>5, GoesOnInPath
<1>7. m \in Seq(Names) /\ Len(m) \in Nat
  BY ObjectsClosed, PathsAre, LenProperties DEF Closed
<1>8. PICK k \in 0 .. Len(p) : k = n + Len(x)
  BY <1>2, <1>6
<1>9. First(p, k) \in Seq(Names) /\ Len(First(p, k)) = k /\ IsPrefix(m, First(p, k))
  BY <1>4, <1>6, <1>8, FirstOf
<1>10. Len(m) <= k /\ m = First(First(p, k), Len(m))
  BY <1>7, <1>9, PrefixIs
<1>11. m = First(p, Len(m)) /\ Len(m) \in n + 1 .. Len(p)
  <2>1. Len(m) \in 0 .. k /\ Len(m) \in n + 1 .. Len(p)
    BY <1>2, <1>4, <1>5, <1>7, <1>10
  <2> QED BY <1>10, <2>1, FirstOfFirst
<1>12. Len(m) \in 1 .. Len(p) /\ First(p, Len(m)) \in Objects
  BY <1>5, <1>11
<1>13. Len(m) \in n + 1 .. Matched(p)
  BY <1>2, <1>11, <1>12
<1> QED BY <1>1, <1>4, <1>11, <1>13

-----------------------------------------------------------------------------
(* Mount: the new object has all objects above it, and every one of them   *)
(* leads to it.                                                            *)
LEMMA Mounts ==
  ASSUME MountsIInv, NEW p \in Arguments, NEW fs \in Mountable, Mount(p, fs)
  PROVE  MountsIInv'
<1> DEFINE way == {First(p, n) : n \in 1 .. Len(p)}
           D == Objects \cup way
<1>1. /\ p # <<>>
      /\ directories' = [q \in D |-> IF q = p THEN fs
                           ELSE IF q \in Objects THEN directories[q] ELSE None]
      /\ mounts' = [q \in DOMAIN mounts \cup {p} |-> IF q = p THEN fs ELSE mounts[q]]
      /\ excused' = excused \ {p}
      /\ contents' = contents
  BY DEF Mount
<1>2. p \in Paths /\ p \in Seq(Names) /\ Len(p) \in Nat /\ Len(p) > 0 /\ Len(p) <= MaxDepth
  BY <1>1, ArgumentsArePaths, PathsAre, LenProperties, FirstAll
<1>3. /\ \A n \in 1 .. Len(p) : /\ First(p, n) \in Seq(Names) /\ Len(First(p, n)) = n
                                /\ First(p, n) \in Paths \ {<<>>}
      /\ \A n \in 1 .. Len(p) : n > 1 => Front(First(p, n)) = First(p, n - 1)
      /\ p = First(p, Len(p))
  <2>1. ASSUME NEW n \in 1 .. Len(p)
        PROVE  /\ First(p, n) \in Seq(Names) /\ Len(First(p, n)) = n
               /\ First(p, n) \in Paths \ {<<>>}
               /\ n > 1 => Front(First(p, n)) = First(p, n - 1)
    <3>1. First(p, n) \in Seq(Names) /\ Len(First(p, n)) = n
      BY <1>2, FirstOf
    <3>2. First(p, n) # <<>> /\ Front(First(p, n)) = First(First(p, n), n - 1)
      BY <3>1, FirstAll
    <3>3. n <= MaxDepth
      BY <1>2, BoundsAssumption
    <3>4. First(p, n) \in Paths
      BY <3>1, <3>3, PathsAre
    <3>5. n \in 0 .. Len(p) /\ n - 1 \in 0 .. n
      BY <1>2
    <3>6. First(First(p, n), n - 1) = First(p, n - 1)
      BY <1>2, <3>5, FirstOfFirst
    <3> QED BY <3>1, <3>2, <3>4, <3>6
  <2> QED BY <1>2, <2>1, FirstAll
<1>4. p \in way
  BY <1>2, <1>3
<1>5. /\ Objects' = D
      /\ \A q \in D : directories'[q] = IF q = p THEN fs
                        ELSE IF q \in Objects THEN directories[q] ELSE None
  BY <1>1 DEF Objects
<1>6. DOMAIN mounts' = DOMAIN mounts \cup {p} /\ mounts'[p] = fs
      /\ \A q \in DOMAIN mounts : q # p => mounts'[q] = mounts[q]
  BY <1>1
<1>7. fs # None /\ fs \in Mountable
  BY SystemsAssumption
<1>8. TypeOK'
  <2>1. D \subseteq Paths \ {<<>>}
    BY <1>3, ObjectsClosed DEF Closed
  <2>2. \A q \in D : directories'[q] \in Mountable \cup {None}
    BY <1>5, <1>7, ObjectsClosed
  <2>3. DOMAIN mounts' \subseteq Paths /\ excused' \subseteq DOMAIN mounts'
    BY <1>1, <1>2, <1>6 DEF MountsIInv, TypeOK
  <2>4. \A g \in FS : /\ Entries(g) \subseteq Paths \ {<<>>}
                      /\ \A e \in Entries(g) : contents[g][e] \in {"dir", "file", "link"}
    BY DEF MountsIInv, TypeOK
  <2>5. Paths' = Paths
    BY DEF Paths
  <2>6. \A g \in FS' : /\ Entries(g)' \subseteq Paths \ {<<>>}
                       /\ \A e \in Entries(g)' : contents'[g][e] \in {"dir", "file", "link"}
    BY <1>1, <2>4 DEF FS, Entries
  <2> HIDE DEF D
  <2> QED BY <1>5, <2>1, <2>2, <2>3, <2>5, <2>6 DEF TypeOK
<1>9. TreeOfMounts'
  <2> SUFFICES ASSUME NEW q \in D
               PROVE  /\ Len(q) > 1 => Front(q) \in D
                      /\ SubDirs(q)' = {} => directories'[q] # None
    BY <1>5 DEF TreeOfMounts
  <2>1. CASE q \in way
    <3>1. PICK n \in 1 .. Len(p) : q = First(p, n)
      BY <2>1
    <3>2. ASSUME n > 1 PROVE Front(q) \in D
      <4>1. n - 1 \in 1 .. Len(p)
        BY <1>2, <3>2
      <4> QED BY <1>3, <3>1, <3>2, <4>1
    <3>3. CASE n = Len(p)
      BY <1>3, <1>5, <1>7, <3>1, <3>2, <3>3
    <3>4. CASE n # Len(p)
      <4> DEFINE x == First(p, n + 1)
      <4>1. n + 1 \in 1 .. Len(p) /\ n + 1 > 1 /\ (n + 1) - 1 = n
        BY <1>2, <3>4
      <4>2. x \in D /\ x \in Seq(Names) /\ Len(x) = n + 1 /\ Front(x) = q /\ q \in Seq(Names) /\ Len(q) = n
        BY <1>3, <3>1, <4>1
      <4> HIDE DEF x
      <4>3. Front(x) = First(x, n)
        BY <4>1, <4>2, FirstAll
      <4>4. n <= n + 1
        OBVIOUS
      <4>5. IsPrefix(q, x)
        BY <4>2, <4>3, <4>4, PrefixIs
      <4>6. x \in SubDirs(q)'
        BY <1>5, <4>2, <4>5 DEF SubDirs
      <4> QED BY <1>3, <3>1, <3>2, <4>6
    <3> QED BY <3>3, <3>4
  <2>2. CASE q \in Objects /\ q \notin way
    <3>1. q # p /\ directories'[q] = directories[q]
      BY <1>4, <1>5, <2>2
    <3>2. SubDirs(q) \subseteq SubDirs(q)'
      BY <1>5 DEF SubDirs
    <3>3. (Len(q) > 1 => Front(q) \in Objects) /\ (SubDirs(q) = {} => directories[q] # None)
      BY <2>2 DEF MountsIInv, TreeOfMounts
    <3> QED BY <3>1, <3>2, <3>3
  <2> QED BY <2>1, <2>2
<1>10. MountsKept'
  <2>1. ASSUME NEW q \in D, directories'[q] # None
        PROVE  q \in DOMAIN mounts' /\ mounts'[q] = directories'[q]
    <3>1. CASE q = p
      BY <1>5, <1>6, <3>1
    <3>2. CASE q # p
      <4>1. q \in Objects /\ directories'[q] = directories[q]
        BY <1>5, <2>1, <3>2
      <4>2. q \in DOMAIN mounts /\ mounts[q] = directories[q]
        BY <2>1, <4>1 DEF MountsIInv, MountsKept
      <4> QED BY <1>6, <3>2, <4>1, <4>2
    <3> QED BY <3>1, <3>2
  <2>2. ASSUME NEW q \in DOMAIN mounts' \ excused'
        PROVE  q \in D /\ directories'[q] = mounts'[q]
    <3>1. CASE q = p
      BY <1>4, <1>5, <1>6, <3>1
    <3>2. CASE q # p
      <4>1. q \in DOMAIN mounts /\ q \notin excused
        BY <1>1, <1>6, <2>2, <3>2
      <4>2. q \in Objects /\ directories[q] = mounts[q]
        BY <4>1 DEF MountsIInv, MountsKept
      <4> QED BY <1>5, <1>6, <3>2, <4>1, <4>2
    <3> QED BY <3>1, <3>2
  <2> HIDE DEF D
  <2> QED BY <1>5, <2>1, <2>2 DEF MountsKept
<1>11. Trees'
  <2>1. Trees
    BY DEF MountsIInv
  <2> QED BY <1>1, <2>1, NoStep
<1> QED BY <1>8, <1>9, <1>10, <1>11 DEF MountsIInv

(* Unmount: an object is deleted with the only one it leads to.            *)
LEMMA Unmounts ==
  ASSUME MountsIInv, NEW u \in Arguments, Unmount(u)
  PROVE  MountsIInv'
<1> DEFINE m == Matched(u)
           D == Objects \ Pruned(u)
<1>1. /\ directories' = [q \in D |-> IF q = u THEN None ELSE directories[q]]
      /\ mounts' = Restrict(mounts, DOMAIN mounts \ {u})
      /\ excused' = (excused \cup {q \in DOMAIN mounts : IsStrictPrefix(q, u)}) \ {u}
      /\ contents' = contents
  BY DEF Unmount
<1>2. u \in Seq(Names) /\ Len(u) \in Nat
  BY ArgumentsArePaths, PathsAre, LenProperties
<1>3. /\ m \in 0 .. Len(u)
      /\ \A n \in 1 .. Len(u) : n <= m <=> First(u, n) \in Objects
  BY <1>2, ObjectsClosed, MatchedIs
<1>4. \A q \in Objects : q \in Seq(Names) /\ q # <<>> /\ Len(q) \in Nat /\ Len(q) > 0
  <2> TAKE q \in Objects
  <2>1. q \in Seq(Names) /\ q # <<>> /\ Len(q) \in Nat
    BY ObjectsClosed, PathsAre, LenProperties DEF Closed
  <2> QED BY <2>1, FirstAll
<1>5. Objects' = D /\ \A q \in D : directories'[q] = IF q = u THEN None ELSE directories[q]
  BY <1>1 DEF Objects
<1>6. /\ DOMAIN mounts' = DOMAIN mounts \ {u}
      /\ \A q \in DOMAIN mounts \ {u} : mounts'[q] = mounts[q]
  BY <1>1 DEF Restrict
<1>7. ASSUME NEW q \in Pruned(u)
      PROVE  \E n \in 1 .. m : /\ q = First(u, n) /\ SubDirs(First(u, m)) = {}
                               /\ \A j \in n .. m - 1 : SubDirs(First(u, j)) = {First(u, j + 1)}
  <2>1. /\ ~(m = 0 \/ SubDirs(First(u, m)) # {})
        /\ q \in {First(u, n) : n \in {k \in 1 .. m :
             \A j \in k .. m - 1 : SubDirs(First(u, j)) = {First(u, j + 1)}}}
    BY DEF Pruned
  <2> HIDE DEF m
  <2> QED BY <2>1
<1>8. ASSUME NEW n \in 1 .. m, SubDirs(First(u, m)) = {},
             \A j \in n .. m - 1 : SubDirs(First(u, j)) = {First(u, j + 1)}
      PROVE  First(u, n) \in Pruned(u)
  BY <1>8 DEF Pruned
<1> HIDE DEF m
<1>9. ASSUME NEW q \in Pruned(u) PROVE IsPrefix(q, u)
  <2>1. PICK n \in 1 .. m : q = First(u, n)
    BY <1>7
  <2>2. n \in 0 .. Len(u)
    BY <1>2, <1>3
  <2> QED BY <1>2, <2>1, <2>2, PrefixItself
<1>10. \A q : SubDirs(q)' = SubDirs(q) \ Pruned(u)
  BY <1>5 DEF SubDirs
<1>11. TypeOK'
  <2>1. D \subseteq Paths \ {<<>>} /\ \A q \in D : directories'[q] \in Mountable \cup {None}
    BY <1>5, ObjectsClosed DEF Closed
  <2>2. DOMAIN mounts' \subseteq Paths /\ excused' \subseteq DOMAIN mounts'
    BY <1>1, <1>6 DEF MountsIInv, TypeOK
  <2>3. \A g \in FS : /\ Entries(g) \subseteq Paths \ {<<>>}
                      /\ \A e \in Entries(g) : contents[g][e] \in {"dir", "file", "link"}
    BY DEF MountsIInv, TypeOK
  <2>4. Paths' = Paths
    BY DEF Paths
  <2>5. \A g \in FS' : /\ Entries(g)' \subseteq Paths \ {<<>>}
                       /\ \A e \in Entries(g)' : contents'[g][e] \in {"dir", "file", "link"}
    BY <1>1, <2>3 DEF FS, Entries
  <2> HIDE DEF D
  <2> QED BY <1>5, <2>1, <2>2, <2>4, <2>5 DEF TypeOK
(* What is left still forms a tree.                                        *)
<1>12. ASSUME NEW q \in D, Len(q) > 1 PROVE Front(q) \in D
  <2>1. q \in Objects /\ Front(q) \in Objects
    BY <1>12 DEF MountsIInv, TreeOfMounts
  <2> SUFFICES ASSUME Front(q) \in Pruned(u) PROVE FALSE
    BY <2>1
  <2>2. PICK n \in 1 .. m : /\ Front(q) = First(u, n) /\ SubDirs(First(u, m)) = {}
                            /\ \A j \in n .. m - 1 : SubDirs(First(u, j)) = {First(u, j + 1)}
    BY <1>7
  <2>3. q \in SubDirs(First(u, n))
    <3>1. q \in Seq(Names) /\ Len(q) \in Nat
      BY <1>4, <2>1
    <3>2. Front(q) \in Seq(Names) /\ Len(Front(q)) = Len(q) - 1 /\ Front(q) = First(q, Len(q) - 1)
      BY <1>12, <3>1, ParentAndName, FirstAll
    <3>3. IsPrefix(Front(q), q) /\ Len(q) = Len(Front(q)) + 1
      BY <3>1, <3>2, PrefixIs
    <3> QED BY <2>1, <2>2, <3>3 DEF SubDirs
  <2>4. CASE n = m
    BY <2>2, <2>3, <2>4
  <2>5. CASE n # m
    <3>1. n \in n .. m - 1 /\ n + 1 \in 1 .. m /\ \A j \in n + 1 .. m - 1 : j \in n .. m - 1
      BY <1>2, <1>3, <2>5
    <3>2. q = First(u, n + 1)
      BY <2>2, <2>3, <3>1
    <3>3. First(u, n + 1) \in Pruned(u)
      BY <1>8, <2>2, <3>1
    <3> QED BY <3>2, <3>3
  <2> QED BY <2>4, <2>5
<1>13. ASSUME NEW q \in D, SubDirs(q)' = {} PROVE directories'[q] # None
  <2>1. q \in Objects /\ q \notin Pruned(u) /\ q \in Seq(Names) /\ Len(q) \in Nat /\ Len(q) > 0
    BY <1>4
  <2>2. CASE SubDirs(q) = {}
    <3>1. directories[q] # None
      BY <2>1, <2>2 DEF MountsIInv, TreeOfMounts
    <3>2. q # u
      <4> SUFFICES ASSUME q = u PROVE FALSE
        OBVIOUS
      <4>1. First(u, Len(u)) = u /\ Len(u) \in 1 .. Len(u)
        BY <1>2, <2>1, FirstAll
      <4>2. m = Len(u)
        BY <1>2, <1>3, <2>1, <4>1
      <4>3. First(u, m) \in Pruned(u)
        <5>1. SubDirs(First(u, m)) = {} /\ m \in 1 .. m
          BY <2>2, <4>1, <4>2
        <5>2. \A j \in m .. m - 1 : SubDirs(First(u, j)) = {First(u, j + 1)}
          BY <1>2, <4>2
        <5> QED BY <1>8, <5>1, <5>2
      <4> QED BY <2>1, <4>1, <4>2, <4>3
    <3> QED BY <1>5, <3>1, <3>2
  <2>3. CASE SubDirs(q) # {}
    <3>1. PICK x \in SubDirs(q) : x \in Pruned(u)
      BY <1>10, <1>13, <2>3
    <3>2. PICK n \in 1 .. m : /\ x = First(u, n) /\ SubDirs(First(u, m)) = {}
                              /\ \A j \in n .. m - 1 : SubDirs(First(u, j)) = {First(u, j + 1)}
      BY <1>7, <3>1
    <3>3. \A y \in SubDirs(q) : y \in Objects /\ Len(y) = Len(q) + 1 /\ IsPrefix(q, y) /\ y \in Seq(Names)
      BY <1>4 DEF SubDirs
    <3>4. \A k \in 1 .. m : k \in 0 .. Len(u) /\ Len(First(u, k)) = k /\ First(u, k) \in Seq(Names)
      <4> TAKE k \in 1 .. m
      <4>1. k \in 0 .. Len(u)
        BY <1>2, <1>3
      <4> QED BY <1>2, <4>1, FirstOf
    <3>5. n = Len(q) + 1
      BY <3>2, <3>3, <3>4
    <3>6. q = First(u, n - 1)
      <4>1. q = First(x, Len(q)) /\ Len(q) = n - 1
        BY <2>1, <3>3, <3>5, PrefixIs
      <4>2. n \in 0 .. Len(u) /\ n - 1 \in 0 .. n
        BY <3>4
      <4> QED BY <1>2, <3>2, <4>1, <4>2, FirstOfFirst
    <3>7. SubDirs(q) = {First(u, n)}
      <4> SUFFICES ASSUME NEW y \in SubDirs(q) PROVE y = First(u, n)
        BY <3>1, <3>2
      <4>1. y \in Pruned(u)
        BY <1>10, <1>13
      <4>2. PICK k \in 1 .. m : y = First(u, k)
        BY <1>7, <4>1
      <4>3. k = n
        BY <3>3, <3>4, <3>5, <4>2
      <4> QED BY <4>2, <4>3
    <3>8. n - 1 \in 1 .. m
      <4>1. Len(q) \in Nat /\ Len(q) > 0 /\ n = Len(q) + 1 /\ m \in Nat
        BY <1>2, <1>3, <2>1, <3>5
      <4> QED BY <4>1
    <3>9. ASSUME NEW j \in n - 1 .. m - 1 PROVE SubDirs(First(u, j)) = {First(u, j + 1)}
      <4>1. CASE j = n - 1
        <5>1. j + 1 = n
          BY <4>1
        <5> QED BY <3>6, <3>7, <4>1, <5>1
      <4>2. CASE j # n - 1
        <5>1. j \in n .. m - 1
          BY <4>2
        <5> QED BY <3>2, <5>1
      <4> QED BY <4>1, <4>2
    <3>10. q \in Pruned(u)
      BY <1>8, <3>2, <3>6, <3>8, <3>9
    <3> QED BY <2>1, <3>10
  <2> QED BY <2>2, <2>3
<1>14. TreeOfMounts'
  <2> HIDE DEF D
  <2> QED BY <1>5, <1>12, <1>13 DEF TreeOfMounts
<1>15. MountsKept'
  <2>1. ASSUME NEW q \in D, directories'[q] # None
        PROVE  q \in DOMAIN mounts' /\ mounts'[q] = directories'[q]
    <3>1. q # u /\ directories'[q] = directories[q] /\ q \in Objects
      BY <1>5, <2>1
    <3> QED BY <1>6, <2>1, <3>1 DEF MountsIInv, MountsKept
  <2>2. ASSUME NEW q \in DOMAIN mounts' \ excused'
        PROVE  q \in D /\ directories'[q] = mounts'[q]
    <3>1. q \in DOMAIN mounts /\ q # u /\ q \notin excused /\ ~IsStrictPrefix(q, u)
      BY <1>1, <1>6, <2>2
    <3>2. q \in Objects /\ directories[q] = mounts[q]
      BY <3>1 DEF MountsIInv, MountsKept
    <3>3. q \notin Pruned(u)
      BY <1>9, <3>1 DEF IsStrictPrefix
    <3> QED BY <1>5, <1>6, <3>1, <3>2, <3>3
  <2> HIDE DEF D
  <2> QED BY <1>5, <2>1, <2>2 DEF MountsKept
<1>16. Trees'
  <2>1. Trees
    BY DEF MountsIInv
  <2> QED BY <1>1, <2>1, NoStep
<1> QED BY <1>11, <1>14, <1>15, <1>16 DEF MountsIInv

-----------------------------------------------------------------------------
(* There is no mount and no entry at first.                                *)
LEMMA MountsInit == Init => MountsIInv
<1> SUFFICES ASSUME Init PROVE MountsIInv
  OBVIOUS
<1>1. DOMAIN directories = {} /\ DOMAIN mounts = {} /\ excused = {}
      /\ contents = [fs \in FS |-> <<>>]
  BY DEF Init
<1>2. DOMAIN contents = FS /\ \A fs \in FS : DOMAIN contents[fs] = {}
  BY <1>1
<1>3. TypeOK
  BY <1>1, <1>2 DEF TypeOK, Objects, Entries
<1>4. TreeOfMounts /\ MountsKept
  BY <1>1 DEF TreeOfMounts, MountsKept, Objects
<1>5. Trees
  BY <1>2 DEF Trees, Tree
<1> QED BY <1>3, <1>4, <1>5 DEF MountsIInv

(* Which entries come and go: what GetFS finds for some path, or is on the *)
(* way to it, and what comes or goes with its directory or with a move.    *)
Reachable(g, x) ==
  \E p \in Seq(Names) : g = GetFS(p).fs /\ IsPrefix(x, GetFS(p).rest)

EntriesMoved ==
  /\ UNCHANGED contents \/ (UNCHANGED tree /\ Trees')
  /\ \A g \in FS : \A x \in Seq(Names) : Changed(g, x) =>
       \/ Reachable(g, x)
       \/ Len(x) > 1 /\ (Changed(g, Front(x)) \/ Replaced(g, Front(x)))

(* Every step: an entry comes or goes because GetFS led to it.             *)
LEMMA EntriesReached ==
  ASSUME MountsIInv, Next \/ UNCHANGED vars
  PROVE  EntriesMoved
<1>1. \A p \in Arguments : p \in Seq(Names)
  BY ArgumentsArePaths, PathsAre
<1>2. ASSUME UNCHANGED contents PROVE EntriesMoved
  BY <1>2 DEF Changed, EntriesMoved
<1>3. ASSUME NEW p \in Arguments, UNCHANGED tree, Trees',
             \A g \in FS : \A x : Changed(g, x) =>
               g = GetFS(p).fs /\ IsPrefix(x, GetFS(p).rest)
      PROVE  EntriesMoved
  BY <1>1, <1>3 DEF Reachable, EntriesMoved
<1>4. ASSUME NEW p \in Arguments,
             OpenFile(p) \/ CreateSymlink(p) \/ CreateHardlink(p)
      PROVE  EntriesMoved
  <2>1. UNCHANGED tree
    BY <1>4 DEF OpenFile, CreateSymlink, CreateHardlink, Becomes
  <2> QED BY <1>3, <1>4, <2>1, AddsEntry
<1>5. ASSUME NEW p \in Arguments, CreateDirectory(p) PROVE EntriesMoved
  <2>1. UNCHANGED tree
    BY <1>5 DEF CreateDirectory, Becomes
  <2> QED BY <1>3, <1>5, <2>1, CreatesDirectory
<1>6. ASSUME NEW p \in Arguments, DeleteDirectory(p) \/ DeleteFile(p) PROVE EntriesMoved
  <2>1. UNCHANGED tree
    BY <1>6 DEF DeleteDirectory, DeleteFile, Becomes
  <2> QED BY <1>3, <1>6, <2>1, Deletes
<1>7. ASSUME NEW p \in Arguments, DeleteDirectoryRecurse(p) PROVE EntriesMoved
  <2>1. UNCHANGED tree
    BY <1>7 DEF DeleteDirectoryRecurse, Becomes
  <2>2. /\ Trees'
        /\ \A g \in FS : \A x : Changed(g, x) =>
             \E q \in Seq(Names) : GetFS(q).fs = g /\ GetFS(q).rest = x
    BY <1>7, DeletesAll
  <2>3. \A x \in Seq(Names) : IsPrefix(x, x)
    BY PrefixItself
  <2> QED BY <2>1, <2>2, <2>3 DEF Reachable, EntriesMoved
<1>8. ASSUME NEW src \in Arguments, NEW dest \in Arguments, Move(src, dest) PROVE EntriesMoved
  <2>1. UNCHANGED tree
    BY <1>8 DEF Move, Becomes
  <2>2. /\ Trees'
        /\ \A g \in FS : \A x : Changed(g, x) =>
             /\ g = GetFS(dest).fs /\ g = GetFS(src).fs
             /\ \/ x = GetFS(src).rest \/ x = GetFS(dest).rest
                \/ Len(x) > 1 /\ (Changed(g, Front(x)) \/ Front(x) = GetFS(dest).rest)
    BY <1>8, Moves
  <2>3. ASSUME NEW g \in FS, NEW x \in Seq(Names), Changed(g, x)
        PROVE  \/ Reachable(g, x)
               \/ Len(x) > 1 /\ (Changed(g, Front(x)) \/ Replaced(g, Front(x)))
    <3>1. IsPrefix(x, x)
      BY PrefixItself
    <3>2. CASE x = GetFS(src).rest \/ x = GetFS(dest).rest
      BY <1>1, <2>2, <2>3, <3>1, <3>2 DEF Reachable
    <3>3. ASSUME g = GetFS(dest).fs, Front(x) = GetFS(dest).rest PROVE Replaced(g, Front(x))
      <4>1. GetFS(dest) = [fs |-> g, rest |-> Front(x)]
        <5>1. GetFS(dest) = [fs |-> GetFS(dest).fs, rest |-> GetFS(dest).rest]
          BY DEF GetFS
        <5> QED BY <3>3, <5>1
      <4> QED BY <1>8, <4>1 DEF Replaced
    <3> QED BY <2>2, <2>3, <3>2, <3>3
  <2> QED BY <2>1, <2>2, <2>3 DEF EntriesMoved
<1>9. ASSUME NEW p \in Arguments, Unmount(p) \/ \E fs \in Mountable : Mount(p, fs) PROVE EntriesMoved
  <2>1. UNCHANGED contents
    BY <1>9 DEF Mount, Unmount
  <2> QED BY <1>2, <2>1
<1>10. CASE UNCHANGED vars
  BY <1>2, <1>10 DEF vars
<1>11. CASE Next
  <2>1. PICK p \in Arguments :
       \/ OpenFile(p) \/ CreateDirectory(p) \/ DeleteDirectory(p) \/ DeleteFile(p)
       \/ DeleteDirectoryRecurse(p)
       \/ Unmount(p)
       \/ \E fs \in Mountable : Mount(p, fs)
       \/ CreateSymlink(p) \/ CreateHardlink(p)
       \/ \E q \in Arguments : Move(p, q)
    BY <1>11 DEF Next
  <2>2. CASE OpenFile(p) \/ CreateSymlink(p) \/ CreateHardlink(p)
    BY <1>4, <2>2
  <2>3. CASE CreateDirectory(p)
    BY <1>5, <2>3
  <2>4. CASE DeleteDirectory(p) \/ DeleteFile(p)
    BY <1>6, <2>4
  <2>5. CASE DeleteDirectoryRecurse(p)
    BY <1>7, <2>5
  <2>6. CASE Unmount(p) \/ \E fs \in Mountable : Mount(p, fs)
    BY <1>9, <2>6
  <2>7. CASE \E q \in Arguments : Move(p, q)
    BY <1>8, <2>7
  <2> QED BY <2>1, <2>2, <2>3, <2>4, <2>5, <2>6, <2>7
<1> QED BY <1>10, <1>11

(* Every step preserves the invariant.                                     *)
LEMMA MountsStep ==
  MountsIInv /\ (Next \/ UNCHANGED vars) => MountsIInv'
<1> SUFFICES ASSUME MountsIInv, Next \/ UNCHANGED vars PROVE MountsIInv'
  OBVIOUS
<1>1. UNCHANGED contents \/ (UNCHANGED tree /\ Trees')
  BY EntriesReached DEF EntriesMoved
<1>2. ASSUME UNCHANGED contents, UNCHANGED tree PROVE MountsIInv'
  <2>1. Trees'
    BY <1>2, NoStep DEF MountsIInv
  <2> QED BY <1>2, <2>1, EntriesStep
<1>3. CASE UNCHANGED tree
  BY <1>1, <1>2, <1>3, EntriesStep
<1>4. ASSUME NEW p \in Arguments, Unmount(p) PROVE MountsIInv'
  BY <1>4, Unmounts
<1>5. ASSUME NEW p \in Arguments, NEW fs \in Mountable, Mount(p, fs) PROVE MountsIInv'
  BY <1>5, Mounts
<1>6. CASE UNCHANGED vars
  BY <1>3, <1>6 DEF vars, tree
<1>7. CASE Next
  <2>1. PICK p \in Arguments :
       \/ OpenFile(p) \/ CreateDirectory(p) \/ DeleteDirectory(p) \/ DeleteFile(p)
       \/ DeleteDirectoryRecurse(p)
       \/ Unmount(p)
       \/ \E fs \in Mountable : Mount(p, fs)
       \/ CreateSymlink(p) \/ CreateHardlink(p)
       \/ \E q \in Arguments : Move(p, q)
    BY <1>7 DEF Next
  <2>2. CASE Unmount(p) \/ \E fs \in Mountable : Mount(p, fs)
    BY <1>4, <1>5, <2>2
  <2>3. CASE ~(Unmount(p) \/ \E fs \in Mountable : Mount(p, fs))
    <3>1. UNCHANGED tree
      BY <2>1, <2>3 DEF OpenFile, CreateDirectory, DeleteDirectory, DeleteFile,
         DeleteDirectoryRecurse, CreateSymlink, CreateHardlink, Move, Becomes
    <3> QED BY <1>3, <3>1
  <2> QED BY <2>2, <2>3
<1> QED BY <1>6, <1>7

(* Whatever is mounted, unmounted, created, moved and deleted, in any      *)
(* number of file systems, by any names and to any depth: the objects form *)
(* a tree every branch of which ends in a file system, and every mount is  *)
(* where it was made until it, or a path below it, is unmounted            *)
(* (MountableFilesystem.cpp:408-504).                                      *)
THEOREM MountsCorrect == PartsSpec => []Inv
<1>1. PartsInit => MountsIInv
  BY MountsInit DEF PartsInit
<1>2. MountsIInv /\ [PartsNext]_<<part, vars, torrentVars>> => MountsIInv'
  BY MountsStep DEF PartsNext, MountsPart, TorrentPart
<1>3. MountsIInv => Inv
  BY DEF MountsIInv, Inv
<1> QED BY <1>1, <1>2, <1>3, PTL DEF PartsSpec

(* HiddenUntouched says of every step that what comes or goes and is       *)
(* hidden does so with its directory, or with a move to that place.        *)
HiddenStays ==
  \A fs \in FS : \A r \in Paths \ {<<>>} :
    /\ (r \in DOMAIN contents[fs]) # (r \in DOMAIN contents'[fs])
    /\ Hidden(fs, r)
    => /\ Len(r) > 1
       /\ \/ (Front(r) \in DOMAIN contents[fs]) # (Front(r) \in DOMAIN contents'[fs])
          \/ Replaced(fs, Front(r))

(* It does: what an operation reaches is not hidden.                       *)
LEMMA HiddenStep ==
  MountsIInv /\ (Next \/ UNCHANGED vars) => HiddenStays
<1> SUFFICES ASSUME MountsIInv, Next \/ UNCHANGED vars,
                    NEW fs \in FS, NEW r \in Paths \ {<<>>},
                    Changed(fs, r), Hidden(fs, r)
             PROVE  Len(r) > 1 /\ (Changed(fs, Front(r)) \/ Replaced(fs, Front(r)))
  BY DEF HiddenStays, Changed
<1>1. r \in Seq(Names)
  BY PathsAre
<1>2. ~Reachable(fs, r)
  BY <1>1, NotHidden DEF Reachable
<1>3. EntriesMoved
  BY EntriesReached
<1> QED BY <1>1, <1>2, <1>3 DEF EntriesMoved

(* No operation reaches, in any file system and by any path, what a mount  *)
(* hides or what is in a file system that is not mounted: it comes and     *)
(* goes only with the directory that holds it, or with a directory that is *)
(* moved to its place (GetFS, MountableFilesystem.cpp:41-90).              *)
THEOREM HiddenUntouchedCorrect == PartsSpec => HiddenUntouched
<1>1. PartsInit => MountsIInv
  BY MountsInit DEF PartsInit
<1>2. MountsIInv /\ [PartsNext]_<<part, vars, torrentVars>> => MountsIInv'
  BY MountsStep DEF PartsNext, MountsPart, TorrentPart
<1>3. MountsIInv /\ [PartsNext]_<<part, vars, torrentVars>> => [HiddenStays]_vars
  BY HiddenStep DEF PartsNext, MountsPart, TorrentPart
<1>4. HiddenUntouched <=> [][HiddenStays]_vars
  BY DEF HiddenUntouched, HiddenStays
<1> QED BY <1>1, <1>2, <1>3, <1>4, PTL DEF PartsSpec

-----------------------------------------------------------------------------
(* What a listing shows.  A path with one name more than p: p is what is   *)
(* left of it.                                                             *)
LEMMA ChildOf ==
  ASSUME NEW p \in Seq(Names), NEW q \in Seq(Names), Len(q) = Len(p) + 1, IsPrefix(p, q)
  PROVE  Last(q) \in Names /\ q = Append(p, Last(q))
<1>1. Len(p) \in Nat /\ Len(q) > 0
  BY LenProperties
<1>2. Front(q) = First(q, Len(q) - 1) /\ p = First(q, Len(p)) /\ Len(q) - 1 = Len(p)
  BY <1>1, FirstAll, PrefixIs
<1> QED BY <1>1, <1>2, ParentAndName

(* The path before a name is a prefix of the path with it.                 *)
LEMMA NameBelow ==
  ASSUME NEW p \in Seq(Names), NEW n \in Names
  PROVE  IsPrefix(p, Append(p, n)) /\ IsStrictPrefix(p, Append(p, n))
<1> DEFINE q == Append(p, n)
<1>1. /\ Len(p) \in Nat /\ q \in Seq(Names) /\ Len(q) = Len(p) + 1
      /\ \A k \in 0 .. Len(p) : First(q, k) = First(p, k)
  BY LenProperties, OneMore
<1>2. p = First(q, Len(p))
  BY <1>1, FirstAll
<1> HIDE DEF q
<1>3. Len(p) <= Len(q) /\ Len(p) < Len(q)
  BY <1>1
<1>4. IsPrefix(p, q) /\ IsStrictPrefix(p, q)
  BY <1>1, <1>2, <1>3, PrefixIs
<1> QED BY <1>4 DEF q

(* Of a name that is not an object the walk finds what it found of the     *)
(* path before it.                                                         *)
LEMMA AskedForName ==
  ASSUME MountsIInv, NEW p \in Seq(Names), NEW n \in Names, Append(p, n) \notin Objects
  PROVE  /\ GetFS(Append(p, n)).fs = GetFS(p).fs
         /\ GetFS(Append(p, n)).rest = Append(GetFS(p).rest, n)
<1> DEFINE q == Append(p, n)
           m == Matched(p)
           with == {k \in 1 .. m : directories[First(p, k)] # None}
<1>1. /\ Len(p) \in Nat /\ q \in Seq(Names) /\ Len(q) = Len(p) + 1
      /\ \A k \in 0 .. Len(p) : First(q, k) = First(p, k)
      /\ First(q, Len(q)) = q
  <2>1. /\ Len(p) \in Nat /\ q \in Seq(Names) /\ Len(q) = Len(p) + 1
        /\ \A k \in 0 .. Len(p) : First(q, k) = First(p, k)
    BY LenProperties, OneMore
  <2> HIDE DEF q
  <2>2. First(q, Len(q)) = q
    BY <2>1, FirstAll
  <2> QED BY <2>1, <2>2
<1>2. /\ m \in 0 .. Len(p)
      /\ \A k \in 1 .. Len(p) : k <= m <=> First(p, k) \in Objects
  BY ObjectsClosed, MatchedIs
<1>3. /\ Matched(q) \in 0 .. Len(q)
      /\ \A k \in 1 .. Len(q) : k <= Matched(q) <=> First(q, k) \in Objects
  <2> HIDE DEF q
  <2> QED BY <1>1, ObjectsClosed, MatchedIs
<1>4. Matched(q) = m
  <2>1. ~(Len(q) <= Matched(q))
    <3>1. q \notin Objects
      OBVIOUS
    <3> HIDE DEF q
    <3>2. Len(q) \in 1 .. Len(q) /\ First(q, Len(q)) \notin Objects
      BY <1>1, <3>1
    <3> QED BY <1>3, <3>2
  <2> DEFINE j == Matched(q)
             l == Len(p)
  <2>2. \A k \in 1 .. l : k <= j <=> k <= m
    BY <1>1, <1>2, <1>3
  <2>3. j \in 0 .. l /\ m \in 0 .. l /\ l \in Nat
    BY <1>1, <1>2, <1>3, <2>1
  <2> HIDE DEF j, l, m, q
  <2>4. j = m
    <3>1. CASE j < m
      BY <2>2, <2>3, <3>1
    <3>2. CASE m < j
      <4>1. j \in 1 .. l /\ j <= j
        BY <2>3, <3>2
      <4> QED BY <2>2, <2>3, <3>2, <4>1
    <3> QED BY <2>3, <3>1, <3>2
  <2> QED BY <2>4 DEF j
<1>5. with = {k \in 1 .. Matched(q) : directories[First(q, k)] # None}
  <2>1. \A k \in 1 .. m : First(q, k) = First(p, k)
    BY <1>1, <1>2
  <2> HIDE DEF q, m
  <2> QED BY <1>4, <2>1
<1>6. /\ GetFS(q) = IF with = {} THEN [fs |-> Root, rest |-> q]
                    ELSE [fs |-> directories[First(q, Max(with))],
                          rest |-> SubSeq(q, Max(with) + 1, Len(q))]
      /\ GetFS(p) = IF with = {} THEN [fs |-> Root, rest |-> p]
                    ELSE [fs |-> directories[First(p, Max(with))],
                          rest |-> SubSeq(p, Max(with) + 1, Len(p))]
  <2>1. GetFS(q) = IF with = {} THEN [fs |-> Root, rest |-> q]
                    ELSE [fs |-> directories[First(q, Max(with))],
                          rest |-> SubSeq(q, Max(with) + 1, Len(q))]
    <3> HIDE DEF q
    <3> QED BY <1>5, Zenon DEF GetFS
  <2> QED BY <2>1 DEF GetFS
<1>7. CASE with = {}
  <2>1. GetFS(q) = [fs |-> Root, rest |-> q] /\ GetFS(p) = [fs |-> Root, rest |-> p]
    BY <1>6, <1>7, Zenon
  <2> QED BY <2>1
<1>8. CASE with # {}
  <2>1. with \in SUBSET (0 .. m) /\ m \in Nat
    BY <1>2
  <2> DEFINE w == Max(with)
  <2>2. w \in with
    <3> HIDE DEF with, m
    <3> QED BY <1>8, <2>1, Greatest
  <2>3. w \in 1 .. m /\ w \in 0 .. Len(p)
    <3> HIDE DEF w
    <3> QED BY <1>1, <1>2, <2>2
  <2>4. /\ GetFS(q) = [fs |-> directories[First(q, w)], rest |-> SubSeq(q, w + 1, Len(q))]
        /\ GetFS(p) = [fs |-> directories[First(p, w)], rest |-> SubSeq(p, w + 1, Len(p))]
    BY <1>6, <1>8, Zenon
  <2> HIDE DEF w, with
  <2>5. First(q, w) = First(p, w)
    BY <1>1, <2>3
  <2>6. SubSeq(q, w + 1, Len(q)) = Append(SubSeq(p, w + 1, Len(p)), n)
    <3> DEFINE t == SubSeq(p, w + 1, Len(p))
               u == SubSeq(q, w + 1, Len(q))
               x == w + 1
               l == Len(p)
    <3>1. x \in Nat /\ 1 <= x /\ x <= l + 1 /\ l \in Nat /\ l <= Len(p) /\ l + 1 \in Nat
          /\ x <= (l + 1) + 1 /\ l + 1 <= Len(q) /\ l + 1 = Len(q)
      BY <1>1, <2>3
    <3>2. t \in Seq(Names) /\ Len(t) = l - x + 1 /\ \A i \in 1 .. l - x + 1 : t[i] = p[x + i - 1]
      <4>1. t = SubSeq(p, x, l)
        OBVIOUS
      <4> HIDE DEF t, x, l
      <4> QED BY <3>1, <4>1, PartOf
    <3>3. /\ u \in Seq(Names) /\ Len(u) = (l + 1) - x + 1
          /\ \A i \in 1 .. (l + 1) - x + 1 : u[i] = q[x + i - 1]
      <4>1. u = SubSeq(q, x, l + 1)
        BY <1>1
      <4>2. q \in Seq(Names)
        BY <1>1
      <4> HIDE DEF u, x, l, q
      <4> QED BY <3>1, <4>1, <4>2, PartOf
    <3>4. (\A i \in 1 .. l : q[i] = p[i]) /\ q[l + 1] = n
      BY AppendProperties
    <3> HIDE DEF t, u, q
    <3>5. /\ Append(t, n) \in Seq(Names) /\ Len(Append(t, n)) = Len(t) + 1
          /\ \A i \in 1 .. Len(t) : Append(t, n)[i] = t[i]
          /\ Append(t, n)[Len(t) + 1] = n
      BY <3>2, AppendProperties
    <3> HIDE DEF x, l
    <3>6. Len(u) = Len(t) + 1 /\ Len(t) = l - x + 1
      BY <3>1, <3>2, <3>3
    <3>7. ASSUME NEW i \in 1 .. Len(t) + 1 PROVE u[i] = Append(t, n)[i]
      <4>1. u[i] = q[x + i - 1]
        BY <3>1, <3>3, <3>6
      <4>2. CASE i <= Len(t)
        <5>1. i \in 1 .. l - x + 1 /\ x + i - 1 \in 1 .. l /\ i \in 1 .. Len(t)
          BY <3>1, <3>6, <4>2
        <5> QED BY <3>2, <3>4, <3>5, <4>1, <5>1
      <4>3. CASE ~(i <= Len(t))
        <5>1. i = Len(t) + 1 /\ x + i - 1 = l + 1
          BY <3>1, <3>6, <4>3
        <5> QED BY <3>4, <3>5, <4>1, <5>1
      <4> QED BY <4>2, <4>3
    <3>8. u = Append(t, n)
      BY <3>3, <3>5, <3>6, <3>7, SeqEqual
    <3> QED BY <3>8 DEF t, u
  <2> HIDE DEF q
  <2>7. PICK f, r, s : f = directories[First(p, w)] /\ r = SubSeq(p, w + 1, Len(p)) /\ s = SubSeq(q, w + 1, Len(q))
    OBVIOUS
  <2>8. GetFS(q) = [fs |-> f, rest |-> s] /\ GetFS(p) = [fs |-> f, rest |-> r]
    BY <2>4, <2>5, <2>7, Zenon
  <2>9. GetFS(q).fs = f /\ GetFS(q).rest = s /\ GetFS(p).fs = f /\ GetFS(p).rest = r
    BY <2>8
  <2>10. GetFS(q).fs = GetFS(p).fs /\ GetFS(q).rest = Append(GetFS(p).rest, n)
    BY <2>6, <2>7, <2>9, Zenon
  <2> QED BY <2>10 DEF q
<1> QED BY <1>7, <1>8

(* A listing shows every entry and every mount, by any path; of a path     *)
(* that is itself an object, or the root, it shows nothing else            *)
(* (EnumeratePaths, MountableFilesystem.cpp:334-406).                      *)
LEMMA ListingsKept == MountsIInv => Listings
<1> SUFFICES ASSUME MountsIInv, NEW p \in Paths, DirectoryExists(p)
             PROVE  LET Seen(q) == LET d == GetFS(q)
                                   IN d.rest = <<>> \/ d.rest \in Entries(d.fs)
                        there == {n \in Names : Append(p, n) \in Objects \/ Seen(Append(p, n))}
                    IN /\ there \subseteq Listed(p)
                       /\ Matched(p) = Len(p) => Listed(p) = there
  BY DEF Listings
<1> DEFINE m == Matched(p)
           f == GetFS(p).fs
           r == GetFS(p).rest
           Seen(q) == GetFS(q).rest = <<>> \/ GetFS(q).rest \in Entries(GetFS(q).fs)
           there == {n \in Names : Append(p, n) \in Objects \/ Seen(Append(p, n))}
           inner == {Last(e) : e \in {x \in Below(f, r) : Len(x) = Len(r) + 1}}
<1>1. p \in Seq(Names) /\ Len(p) \in Nat
  BY PathsAre, LenProperties
<1>2. f \in FS /\ r \in Seq(Names) /\ Len(r) \in Nat
  BY <1>1, AskedFor, LenProperties
<1>3. Listed(p) = MountNames(p) \cup inner
  BY DEF Listed, DirectoryExists
<1>4. Closed(Objects) /\ \A q \in Objects : q \in Seq(Names)
  BY ObjectsClosed, PathsAre DEF Closed
<1>5. m = Len(p) => First(p, m) = p
  BY <1>1, FirstAll
<1>6. Entries(f) \subseteq Seq(Names)
  BY <1>2, PathsAre DEF MountsIInv, TypeOK
<1>7. ASSUME NEW n \in Names, Append(p, n) \in Objects
      PROVE  m = Len(p) /\ n \in MountNames(p)
  <2> DEFINE q == Append(p, n)
  <2>1. Len(q) = Len(p) + 1 /\ Front(q) = p /\ Last(q) = n /\ IsPrefix(p, q)
    BY <1>1, OneMore, NameBelow
  <2>2. p = <<>> \/ p \in Objects
    <3>1. Len(p) = 0 => p = <<>>
      BY <1>1, FirstAll
    <3>2. q \in Objects
      BY <1>7
    <3> HIDE DEF q
    <3>3. Len(p) > 0 => Front(q) \in Objects
      BY <1>1, <1>4, <2>1, <3>2 DEF Closed
    <3> QED BY <1>1, <2>1, <3>1, <3>3
  <2>3. m \in 0 .. Len(p) /\ \A k \in 1 .. Len(p) : k <= m <=> First(p, k) \in Objects
    BY <1>1, <1>4, MatchedIs
  <2>4. m = Len(p)
    <3>1. CASE p = <<>>
      <4>1. Len(p) = 0
        BY <1>1, <3>1, FirstAll
      <4> HIDE DEF m
      <4> QED BY <2>3, <4>1
    <3>2. CASE p \in Objects /\ Len(p) > 0
      <4>1. Len(p) \in 1 .. Len(p) /\ First(p, Len(p)) = p
        BY <1>1, <3>2, FirstAll
      <4> HIDE DEF m
      <4> QED BY <1>1, <2>3, <3>2, <4>1
    <3>3. Len(p) = 0 => p = <<>>
      BY <1>1, FirstAll
    <3> QED BY <1>1, <2>2, <3>1, <3>2, <3>3
  <2>5. q \in SubDirs(p)
    <3> HIDE DEF q
    <3> QED BY <1>7, <2>1 DEF SubDirs, q
  <2> HIDE DEF q, m
  <2>6. n \in {Last(s) : s \in SubDirs(p)}
    BY <2>1, <2>5
  <2> QED BY <1>5, <2>4, <2>6 DEF MountNames, m
<1>8. ASSUME NEW n \in Names, Append(p, n) \notin Objects
      PROVE  Seen(Append(p, n)) <=> Append(r, n) \in Entries(f)
  <2>1. GetFS(Append(p, n)).fs = f /\ GetFS(Append(p, n)).rest = Append(r, n)
    BY <1>1, <1>8, AskedForName
  <2>2. Append(r, n) # <<>>
    <3>1. Append(r, n) \in Seq(Names) /\ Len(Append(r, n)) = Len(r) + 1
      BY <1>2, OneMore
    <3>2. Len(Append(r, n)) # 0
      BY <1>2, <3>1
    <3> QED BY <3>2, EmptySeq
  <2> QED BY <2>1, <2>2
<1>9. ASSUME NEW n \in Names, Append(r, n) \in Entries(f) PROVE n \in inner
  <2> DEFINE e == Append(r, n)
  <2>1. Len(e) = Len(r) + 1 /\ Last(e) = n /\ IsStrictPrefix(r, e)
    BY <1>2, OneMore, NameBelow
  <2>2. e \in Below(f, r)
    BY <1>9, <2>1 DEF Below
  <2> HIDE DEF e
  <2> QED BY <2>1, <2>2
<1>10. ASSUME NEW n \in inner PROVE n \in Names /\ Append(r, n) \in Entries(f)
  <2>1. PICK e \in Below(f, r) : Len(e) = Len(r) + 1 /\ n = Last(e)
    BY <1>10
  <2>2. e \in Entries(f) /\ e \in Seq(Names) /\ IsStrictPrefix(r, e)
    BY <1>6 DEF Below
  <2>3. IsPrefix(r, e)
    BY <2>2 DEF IsStrictPrefix
  <2> QED BY <1>2, <2>1, <2>2, <2>3, ChildOf
<1>11. there \subseteq MountNames(p) \cup inner
  <2> SUFFICES ASSUME NEW n \in there PROVE n \in MountNames(p) \cup inner
    OBVIOUS
  <2>1. n \in Names
    OBVIOUS
  <2>2. CASE Append(p, n) \in Objects
    BY <1>7, <2>1, <2>2
  <2>3. CASE Append(p, n) \notin Objects
    <3>1. Append(r, n) \in Entries(f)
      BY <1>8, <2>1, <2>3
    <3> HIDE DEF inner, there
    <3> QED BY <1>9, <2>1, <3>1
  <2> QED BY <2>2, <2>3
<1>12. ASSUME m = Len(p) PROVE MountNames(p) \cup inner \subseteq there
  <2>1. ASSUME NEW n \in MountNames(p) PROVE n \in there
    <3>1. PICK q \in SubDirs(p) : n = Last(q)
      BY <1>5, <1>12 DEF MountNames
    <3>2. q \in Objects /\ q \in Seq(Names) /\ Len(q) = Len(p) + 1 /\ IsPrefix(p, q)
      BY <1>4 DEF SubDirs
    <3>3. n \in Names /\ q = Append(p, n)
      BY <1>1, <3>1, <3>2, ChildOf
    <3> QED BY <3>2, <3>3
  <2>2. ASSUME NEW n \in inner PROVE n \in there
    <3>1. n \in Names /\ Append(r, n) \in Entries(f)
      BY <1>10, <2>2
    <3>2. CASE Append(p, n) \in Objects
      BY <3>1, <3>2
    <3>3. CASE Append(p, n) \notin Objects
      <4>1. Seen(Append(p, n))
        BY <1>8, <3>1, <3>3
      <4> HIDE DEF Seen
      <4> QED BY <3>1, <4>1
    <3> QED BY <3>2, <3>3
  <2> HIDE DEF inner, there
  <2> QED BY <2>1, <2>2
<1>13. there \subseteq Listed(p) /\ (Matched(p) = Len(p) => Listed(p) = there)
  <2> HIDE DEF inner, there
  <2> QED BY <1>3, <1>11, <1>12
<1> QED BY <1>13

(* The same in every state.                                                *)
THEOREM ListingsCorrect == PartsSpec => []Listings
<1>1. PartsInit => MountsIInv
  BY MountsInit DEF PartsInit
<1>2. MountsIInv /\ [PartsNext]_<<part, vars, torrentVars>> => MountsIInv'
  BY MountsStep DEF PartsNext, MountsPart, TorrentPart
<1> QED BY <1>1, <1>2, ListingsKept, PTL DEF PartsSpec
=============================================================================
