---------------------------- MODULE MCHttpStream ----------------------------
(* Small instances of HttpStream for TLC.                                  *)
EXTENDS HttpStream

WithLength(n) == [length |-> n, http1_1 |-> TRUE]
ChunkedMode == [length |-> -1, http1_1 |-> TRUE]
UntilClosed == [length |-> -1, http1_1 |-> FALSE]

AllModes == {WithLength(0), WithLength(3), ChunkedMode, UntilClosed}
OnlyChunked == {ChunkedMode}
=============================================================================
