------------------------------ MODULE TaskQueue ------------------------------
(***************************************************************************)
(* What a thread pool promises to the code that schedules callbacks on it, *)
(* with no threads, locks or destructor in sight: callbacks begin in the   *)
(* order they were submitted, once each time, and the pool may only be     *)
(* closed when nothing waits in it.  After the close nothing begins.       *)
(* ThreadPool.tla is shown to implement this specification.                *)
(***************************************************************************)
EXTENDS Sequences, Functions

CONSTANT Tasks

VARIABLES
  queue,    \* submitted and not begun, oldest first
  running,  \* begun and not ended
  ended,    \* ended and not submitted again
  open      \* may a waiting task still begin?

qvars == <<queue, running, ended, open>>

Init == /\ queue = <<>>
        /\ running = {}
        /\ ended = {}
        /\ open = TRUE

(* A task that ended may be submitted again.                               *)
Submit(t) == /\ t \notin Range(queue) \cup running
             /\ queue' = Append(queue, t)
             /\ ended' = ended \ {t}
             /\ UNCHANGED <<running, open>>

Begin == /\ open
         /\ queue # <<>>
         /\ running' = running \cup {Head(queue)}
         /\ queue' = Tail(queue)
         /\ UNCHANGED <<ended, open>>

End(t) == /\ t \in running
          /\ running' = running \ {t}
          /\ ended' = ended \cup {t}
          /\ UNCHANGED <<queue, open>>

Close == /\ open
         /\ queue = <<>>
         /\ open' = FALSE
         /\ UNCHANGED <<queue, running, ended>>

Next == \/ \E t \in Tasks : Submit(t) \/ End(t)
        \/ Begin
        \/ Close

(* Safety alone, and safety with the promise that waiting tasks begin and  *)
(* begun tasks end.                                                        *)
SafeSpec == Init /\ [][Next]_qvars

Spec == SafeSpec /\ WF_qvars(Begin) /\ \A t \in Tasks : WF_qvars(End(t))
=============================================================================
