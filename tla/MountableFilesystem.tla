-------------------------- MODULE MountableFilesystem --------------------------
(***************************************************************************)
(* Tesses::Framework::Filesystem::MountableFilesystem                      *)
(* (MountableFilesystem.cpp), a file system made of a root and of file     *)
(* systems mounted into it, with the paths and the recursive deletion it   *)
(* takes from VFS.cpp.  One caller uses it: the class has no lock.         *)
(*                                                                         *)
(* The tree of MountableDirectory objects is a function from the path of   *)
(* each object to its vfs.  The file systems under it are external: each   *)
(* is a function from paths to kinds of entries that behaves as LocalFS    *)
(* does, whose errors (exceptions) change nothing.                         *)
(***************************************************************************)
EXTENDS Integers, FiniteSets, SequencesExt

CONSTANTS
  Names,       \* the names a path is made of
  Mountable,   \* the file systems that are mounted
  Root,        \* the root file system
  None,        \* a null vfs
  MaxDepth,    \* bound: components of a path
  MaxEntries   \* bound: entries in all file systems together

ASSUME NamesAssumption == {"..", "."} \cap Names = {}
ASSUME SystemsAssumption == Root \notin Mountable /\ None \notin Mountable /\ None # Root
ASSUME BoundsAssumption == MaxDepth \in Nat /\ MaxEntries \in Nat

VARIABLES
  directories,  \* the vfs of every MountableDirectory
  contents,     \* the entries of every file system
  mounts,       \* history: what was mounted where, and not unmounted since
  excused       \* history: of these, the paths below which one was unmounted

vars == <<directories, contents, mounts, excused>>
tree == <<directories, mounts, excused>>

FS == Mountable \cup {Root}
PathsOver(parts, n) == UNION {[1 .. k -> parts] : k \in 0 .. n}
Paths == PathsOver(Names, MaxDepth)
First(p, n) == SubSeq(p, 1, n)

(* CollapseRelativeParents, one part after another: ".." at the top is     *)
(* dropped.                                                                *)
Joined(p, part) ==
  CASE part = ".." -> IF p = <<>> THEN p ELSE Front(p)
    [] part = "."  -> p
    [] OTHER       -> Append(p, part)

Collapse(raw) ==
  LET parts[k \in 0 .. Len(raw)] ==
        IF k = 0 THEN <<>> ELSE Joined(parts[k - 1], raw[k])
  IN parts[Len(raw)]

(* Every operation collapses the paths it is given.                        *)
Arguments == {Collapse(raw) : raw \in PathsOver(Names \cup {"..", "."}, MaxDepth)}

Init ==
  /\ directories = <<>>
  /\ contents = [fs \in FS |-> <<>>]
  /\ mounts = <<>>
  /\ excused = {}

Objects == DOMAIN directories
SubDirs(p) == {q \in Objects : Len(q) = Len(p) + 1 /\ IsPrefix(p, q)}

(* How many components of p lead from object to object.                    *)
Matched(p) ==
  Cardinality({n \in 1 .. Len(p) : \A k \in 1 .. n : First(p, k) \in Objects})

-----------------------------------------------------------------------------
(* Faulty forms of some definitions below.  No specification here uses     *)
(* them: each one breaks a property, which shows that it can fail.         *)
GetFSAtTop(p) ==              \* mounts below the first level are not found
  IF Matched(p) > 0 /\ directories[First(p, 1)] # None
    THEN [fs |-> directories[First(p, 1)], rest |-> Tail(p)]
    ELSE [fs |-> Root, rest |-> p]

LeaveAll(u) == {}             \* no object is ever deleted

DeleteAlways(u) ==            \* objects that lead to others are deleted too
  IF Matched(u) = 0 THEN {}
  ELSE {q \in Objects : IsPrefix(First(u, Matched(u)), q)}

ListAtRoot(p) == {Last(q) : q \in SubDirs(<<>>)}    \* always the first level

-----------------------------------------------------------------------------
(* GetFS: the deepest object on the way that has a file system.            *)
GetFS(p) ==
  LET with == {n \in 1 .. Matched(p) : directories[First(p, n)] # None}
      n == Max(with)
  IN IF with = {} THEN [fs |-> Root, rest |-> p]
     ELSE [fs |-> directories[First(p, n)], rest |-> SubSeq(p, n + 1, Len(p))]

-----------------------------------------------------------------------------
(* The file systems underneath.                                            *)
Entries(fs) == DOMAIN contents[fs]
HasDirectory(fs, r) == r = <<>> \/ (r \in Entries(fs) /\ contents[fs][r] = "dir")
HasPlaceFor(fs, r) == r # <<>> /\ HasDirectory(fs, Front(r))
Below(fs, r) == {e \in Entries(fs) : IsStrictPrefix(r, e)}

Add(fs, added, kind) ==
  [contents EXCEPT ![fs] = [r \in DOMAIN @ \cup added |->
                              IF r \in DOMAIN @ THEN @[r] ELSE kind]]
Cut(fs, removed) ==
  [contents EXCEPT ![fs] = Restrict(@, Entries(fs) \ removed)]

Opened(fs, r) ==              \* open for writing
  IF HasPlaceFor(fs, r) /\ r \notin Entries(fs) THEN Add(fs, {r}, "file") ELSE contents

DirectoryCreated(fs, r) ==    \* with its parents
  LET needed == {First(r, n) : n \in 1 .. Len(r)}
  IN IF \A d \in needed \cap Entries(fs) : contents[fs][d] = "dir"
       THEN Add(fs, needed, "dir") ELSE contents

Deleted(fs, r) ==             \* a file, a link, or an empty directory
  IF r \in Entries(fs) /\ Below(fs, r) = {} THEN Cut(fs, {r}) ELSE contents

Linked(fs, existing, new) ==  \* a hard link
  IF /\ existing \in Entries(fs) /\ contents[fs][existing] = "file"
     /\ HasPlaceFor(fs, new) /\ new \notin Entries(fs)
    THEN Add(fs, {new}, "file") ELSE contents

LinkCreated(fs, new) ==       \* a symbolic link that leads nowhere
  IF HasPlaceFor(fs, new) /\ new \notin Entries(fs) THEN Add(fs, {new}, "link") ELSE contents

Moved(fs, src, dest) ==       \* rename
  LET moved == {e \in Entries(fs) : IsPrefix(src, e)}
      NewName(e) == dest \o SubSeq(e, Len(src) + 1, Len(e))
      stay == Entries(fs) \ (moved \cup {dest})
      replaces == IF contents[fs][src] = "dir"
                    THEN contents[fs][dest] = "dir" /\ Below(fs, dest) = {}
                    ELSE contents[fs][dest] # "dir"
  IN IF /\ src \in Entries(fs) /\ HasPlaceFor(fs, dest) /\ ~IsPrefix(src, dest)
        /\ dest \in Entries(fs) => replaces
       THEN [contents EXCEPT ![fs] =
               [e \in stay \cup {NewName(e) : e \in moved} |->
                  IF e \in stay THEN @[e]
                  ELSE @[src \o SubSeq(e, Len(dest) + 1, Len(e))]]]
       ELSE contents

Fits(c) ==
  LET all == UNION {{<<fs, e>> : e \in DOMAIN c[fs]} : fs \in FS}
  IN Cardinality(all) <= MaxEntries /\ \A entry \in all : Len(entry[2]) <= MaxDepth

Becomes(c) == Fits(c) /\ contents' = c /\ UNCHANGED tree

-----------------------------------------------------------------------------
(* Operations on one path.                                                 *)
OpenFile(p) == LET d == GetFS(p) IN Becomes(Opened(d.fs, d.rest))

CreateDirectory(p) ==
  LET d == GetFS(p) IN d.rest # <<>> /\ Becomes(DirectoryCreated(d.fs, d.rest))

DeleteDirectory(p) ==
  LET d == GetFS(p) IN d.rest # <<>> /\ Becomes(Deleted(d.fs, d.rest))

DeleteFile(p) == LET d == GetFS(p) IN Becomes(Deleted(d.fs, d.rest))

(* Stat, as DirectoryExists uses it.                                       *)
DirectoryExists(p) == LET d == GetFS(p) IN HasDirectory(d.fs, d.rest)

(* Operations on two paths do nothing between two file systems.            *)
Move(src, dest) ==
  LET s == GetFS(src)
      d == GetFS(dest)
  IN s.fs = d.fs /\ Becomes(Moved(s.fs, s.rest, d.rest))

(* The name of the new link, the second argument, is overwritten with      *)
(* existingFile before it is used.                                         *)
CreateSymlink(existingFile) ==
  LET d == GetFS(existingFile) IN Becomes(LinkCreated(d.fs, d.rest))

CreateHardlink(existingFile) ==
  LET d == GetFS(existingFile) IN Becomes(Linked(d.fs, d.rest, d.rest))

-----------------------------------------------------------------------------
(* EnumeratePaths: dirs is the level the walk came to, the one of p or a   *)
(* level above.                                                            *)
MountNames(p) == {Last(q) : q \in SubDirs(First(p, Matched(p)))}

Listed(p) ==
  LET d == GetFS(p)
      mydirs == Matched(p) = Len(p)
      inner == {Last(e) : e \in {x \in Below(d.fs, d.rest) : Len(x) = Len(d.rest) + 1}}
  IN MountNames(p) \cup (IF HasDirectory(d.fs, d.rest) \/ ~mydirs THEN inner ELSE {})

(* DeleteDirectoryRecurse of VFS.cpp: everything the listings lead to, and *)
(* through mounts.  An entry that a mount hides makes the deletion of its  *)
(* directory throw, after any part of the rest is gone: the order of a     *)
(* listing is that of the file system.                                     *)
Reached(p) ==
  {q \in PathsOver(Names, 2 * MaxDepth) :
     /\ IsPrefix(p, q)
     /\ \A n \in Len(p) .. Len(q) - 1 :
          DirectoryExists(First(q, n)) /\ q[n + 1] \in Listed(First(q, n))}

DeleteDirectoryRecurse(p) ==
  LET found == {d \in {GetFS(q) : q \in Reached(p)} : d.rest \in Entries(d.fs)}
      Clean(gone) == \A d \in gone : \A e \in Below(d.fs, d.rest) :
                       [fs |-> d.fs, rest |-> e] \in gone
      Left(fs, gone) == {e \in Entries(fs) : [fs |-> fs, rest |-> e] \notin gone}
  IN /\ DirectoryExists(p)
     /\ \E gone \in IF Clean(found) THEN {found} ELSE SUBSET found :
          /\ Clean(gone)
          /\ Becomes([fs \in FS |-> Restrict(contents[fs], Left(fs, gone))])

-----------------------------------------------------------------------------
(* Mount creates the objects that are missing on the way.                  *)
Mount(p, fs) ==
  /\ p # <<>>
  /\ \A q \in Objects : directories[q] = fs => q = p      \* one place each
  /\ directories' = [q \in Objects \cup {First(p, n) : n \in 1 .. Len(p)} |->
                       IF q = p THEN fs
                       ELSE IF q \in Objects THEN directories[q] ELSE None]
  /\ mounts' = [q \in DOMAIN mounts \cup {p} |-> IF q = p THEN fs ELSE mounts[q]]
  /\ excused' = excused \ {p}
  /\ UNCHANGED contents

(* myumount deletes the object the walk came to, if it leads nowhere, and  *)
(* then every object above that led only to deleted ones.                  *)
Pruned(u) ==
  LET m == Matched(u)
  IN IF m = 0 \/ SubDirs(First(u, m)) # {} THEN {}
     ELSE {First(u, n) : n \in {k \in 1 .. m :
             \A j \in k .. m - 1 : SubDirs(First(u, j)) = {First(u, j + 1)}}}

Unmount(u) ==
  /\ directories' = [q \in Objects \ Pruned(u) |->
                       IF q = u THEN None ELSE directories[q]]
  /\ mounts' = Restrict(mounts, DOMAIN mounts \ {u})
  /\ excused' = (excused \cup {q \in DOMAIN mounts : IsStrictPrefix(q, u)}) \ {u}
  /\ UNCHANGED contents

-----------------------------------------------------------------------------
Next ==
  \/ \E p \in Arguments :
       \/ OpenFile(p) \/ CreateDirectory(p) \/ DeleteDirectory(p) \/ DeleteFile(p)
       \/ DeleteDirectoryRecurse(p)
       \/ Unmount(p)
       \/ \E fs \in Mountable : Mount(p, fs)
       \/ CreateSymlink(p) \/ CreateHardlink(p)
       \/ \E q \in Arguments : Move(p, q)

Spec == Init /\ [][Next]_vars

-----------------------------------------------------------------------------
(* The types of the variables.                                             *)
TypeOK ==
  /\ Objects \subseteq Paths \ {<<>>}
  /\ \A p \in Objects : directories[p] \in Mountable \cup {None}
  /\ \A fs \in FS :
       /\ Entries(fs) \subseteq Paths \ {<<>>}
       /\ \A e \in Entries(fs) : contents[fs][e] \in {"dir", "file", "link"}
  /\ DOMAIN mounts \subseteq Paths
  /\ excused \subseteq DOMAIN mounts

(* The objects form a tree, and every branch of it ends in a file system:  *)
(* no directory is listed for which nothing is mounted any more.           *)
TreeOfMounts ==
  \A p \in Objects :
    /\ Len(p) > 1 => Front(p) \in Objects
    /\ SubDirs(p) = {} => directories[p] # None

(* A file system is found where it was mounted until it is unmounted, and  *)
(* nowhere else.  One sequence of calls breaks this and is left out: after *)
(* Unmount of a path below, whatever was or was not mounted there, the     *)
(* file system above may be gone too.                                      *)
MountsKept ==
  /\ \A p \in Objects : directories[p] # None =>
       p \in DOMAIN mounts /\ mounts[p] = directories[p]
  /\ \A p \in DOMAIN mounts \ excused :
       p \in Objects /\ directories[p] = mounts[p]

(* The variables have their types, the objects form a tree of mounts, and  *)
(* the mounts are those that were made.                                    *)
Inv == TypeOK /\ TreeOfMounts /\ MountsKept

(* A listing shows every entry and every mount.  Of a path that is itself  *)
(* an object, and where nothing is mounted, it shows nothing else; of      *)
(* other paths it also shows the mounts of the level the walk came to.     *)
Listings ==
  \A p \in Paths :
    LET Seen(q) == LET d == GetFS(q) IN d.rest = <<>> \/ d.rest \in Entries(d.fs)
        there == {n \in Names : Append(p, n) \in Objects \/ Seen(Append(p, n))}
    IN DirectoryExists(p) =>
         /\ there \subseteq Listed(p)
         /\ Matched(p) = Len(p) => Listed(p) = there

(* Behind a file system mounted deeper, or in one that is not mounted.     *)
Hidden(fs, r) ==
  LET places == IF fs = Root THEN {<<>>} ELSE {q \in Objects : directories[q] = fs}
  IN \A q \in places : \E m \in Objects :
       directories[m] # None /\ Len(m) > Len(q) /\ IsPrefix(m, q \o r)

(* A directory takes the place of d, which is empty.                       *)
Replaced(fs, d) ==
  \E src, dest \in Arguments : Move(src, dest) /\ GetFS(dest) = [fs |-> fs, rest |-> d]

(* No operation reaches what a mount hides, or a file system that is not   *)
(* mounted: such an entry comes and goes only together with the directory  *)
(* that holds it, or with a directory that is moved to that place.         *)
HiddenUntouched ==
  [][\A fs \in FS : \A r \in Paths \ {<<>>} :
       /\ (r \in DOMAIN contents[fs]) # (r \in DOMAIN contents'[fs])
       /\ Hidden(fs, r)
       => /\ Len(r) > 1
          /\ \/ (Front(r) \in DOMAIN contents[fs]) # (Front(r) \in DOMAIN contents'[fs])
             \/ Replaced(fs, Front(r))]_vars
=============================================================================
