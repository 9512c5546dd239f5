---------------------------- MODULE MCThreadPool ----------------------------
(* Small instances of ThreadPool for TLC.                                  *)
EXTENDS ThreadPool

CONSTANTS t1, t2, t3, t4

MCTasks == {t1, t2, t3, t4}
MCNull == {t4}
=============================================================================
