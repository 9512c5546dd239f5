----------------------------- MODULE MCEventLoop -----------------------------
(* Small instances of EventLoop for TLC.                                   *)
EXTENDS EventLoop, TLC
CONSTANTS i1, i2, t1, t2
TwoInvocations == {i1, i2}
OneTimer == {t1}
TwoTimers == {t1, t2}
OneOrTwo == {1, 2}
OnlyOne == {1}
=============================================================================
