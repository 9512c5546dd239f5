--------------------------- MODULE MCTorrentStream ---------------------------
(* Small instances of TorrentStream for TLC.                               *)
EXTENDS TorrentStream
SmallTorrents ==
  {[single |-> TRUE, lengths |-> <<2>>],
   [single |-> FALSE, lengths |-> <<1, 0, 1>>]}
=============================================================================
