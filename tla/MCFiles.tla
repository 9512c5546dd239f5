------------------------------- MODULE MCFiles -------------------------------
(***************************************************************************)
(* One instance for the two ways the framework lays one tree of files over *)
(* others: MountableFilesystem, with two file systems to mount, so that    *)
(* one can be mounted below the other, and the blocks of a torrent         *)
(* (TorrentStream).  They have no state in common; the initial state says  *)
(* which of them runs.                                                     *)
(***************************************************************************)
EXTENDS MountableFilesystem

CONSTANTS
  a, b, F, G, Torrents, Writers, Beyond, MaxBlock, MaxStray, MaxWrites, MaxFailures

MCNames == {a, b}
MCMountable == {F, G}
MCTorrents == {[single |-> TRUE, lengths |-> <<2>>],
               [single |-> FALSE, lengths |-> <<1, 0, 1>>]}
Symmetry ==
  Permutations(MCNames) \cup Permutations(MCMountable) \cup Permutations(Writers)

ASSUME TorrentsAssumption ==
  \A t \in Torrents :
    /\ t.single \in BOOLEAN /\ t.lengths \in Seq(Nat)
    /\ t.single => Len(t.lengths) = 1

ASSUME RangesAssumption == {Beyond, MaxBlock, MaxStray} \subseteq Nat
ASSUME NobodyWrites == None \notin Writers

VARIABLES part, torrent, files, owner, left, writer, reader, writes, last

torrentVars == <<torrent, files, owner, left, writer, reader, writes, last>>

B == INSTANCE TorrentStream WITH Nobody <- None

MountsPart == part = "mounts" /\ Next /\ UNCHANGED <<part, torrentVars>>
TorrentPart == part = "torrent" /\ B!Next /\ UNCHANGED <<part, vars>>

PartsInit ==
  /\ part \in {"mounts", "torrent"}
  /\ Init /\ B!Init
  /\ part = "torrent" \/ torrent.single

PartsNext == MountsPart \/ TorrentPart
PartsSpec == PartsInit /\ [][PartsNext]_<<part, vars, torrentVars>>

-----------------------------------------------------------------------------
BlocksInPlace == B!Inv
LocksGivenBack == B!LocksGivenBack
=============================================================================
