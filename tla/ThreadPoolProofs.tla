-------------------------- MODULE ThreadPoolProofs --------------------------
(***************************************************************************)
(* Theorems about ThreadPool, for any number of workers and callbacks.     *)
(*                                                                         *)
(* The properties of ThreadPool are not inductive one by one.  IInv adds   *)
(* what ties them together: which part of the destructor has run, that     *)
(* histories hold what they are meant to, and that every popped callback   *)
(* is in exactly one place (with a worker, finished, or skipped as null).  *)
(***************************************************************************)
EXTENDS ThreadPool, QueueLemmas

(* The order of construction and destruction.                              *)
Phases ==
  /\ isRunning <=> dtor \in {"alive", "draining"}
  /\ isRunning => late = {}
  /\ dtor # "alive" => threads = NumThreads
  /\ dtor = "gone" => joined = NumThreads
  /\ joined > 0 => dtor \in {"joining", "gone"}
  /\ \A i \in Workers : pc[i] = "absent" <=> i >= threads
  /\ \A i \in Workers : pc[i] = "done" => ~isRunning

(* A thread object is joined only when its function has returned.          *)
JoinedAreDone == \A i \in Workers : i < joined => pc[i] = "done"

(* The whereabouts of the callbacks that were popped.                      *)
Whereabouts ==
  /\ Distinct(scheduled)
  /\ finished \subseteq Range(taken) \ NullTasks
  /\ late \cap Range(taken) = {}
  /\ late \subseteq Range(scheduled)
  /\ \A i \in Busy : fn[i] \in Range(taken)
  /\ \A i \in Workers : pc[i] = "run" => fn[i] \notin NullTasks
  /\ \A t \in Range(taken) :
        t \in finished \/ t \in NullTasks \/ \E i \in Busy : fn[i] = t

IInv ==
  /\ TypeOK
  /\ FIFO
  /\ RunOnce
  /\ CloseDrains
  /\ JoinedAreDone
  /\ Phases
  /\ Whereabouts

(* The invariant holds before the first worker is started.                 *)
LEMMA InitIInv == Init => IInv
<1> SUFFICES ASSUME Init PROVE IInv
  OBVIOUS
<1> USE NumThreadsAssumption, TasksAssumption DEF Init
<1>1. TypeOK
  BY DEF TypeOK, Workers
<1>2. FIFO
  BY DEF FIFO
<1>3. RunOnce /\ CloseDrains /\ JoinedAreDone /\ Phases
  BY DEF RunOnce, CloseDrains, JoinedAreDone, Phases, Workers, Busy
<1>4. Whereabouts
  BY DEF Whereabouts, Distinct, Range, Busy, Workers
<1> QED
  BY <1>1, <1>2, <1>3, <1>4 DEF IInv

(* What a push does to the queue and to its histories, first round or not. *)
LEMMA PushEffect ==
  ASSUME IInv, NEW t \in Tasks, Push(t)
  PROVE  /\ scheduled' \in Seq(Tasks) /\ taken' \in Seq(Tasks)
         /\ taken' \o callbacks' = scheduled'
         /\ Distinct(scheduled')
         /\ Range(taken') = Range(taken) \ {t}
         /\ Range(callbacks') = Range(callbacks) \cup {t}
         /\ Range(scheduled') = Range(scheduled) \cup {t}
         /\ finished' = finished \ {t}
         /\ t \notin Range(callbacks)
         /\ t \notin {fn[i] : i \in Busy}
<1> USE DEF IInv
<1>1. /\ callbacks \in Seq(Tasks)
      /\ scheduled \in Seq(Tasks)
      /\ taken \in Seq(Tasks)
  BY DEF TypeOK
<1>2. Range(callbacks') = Range(callbacks) \cup {t}
  BY <1>1, RangeAppend DEF Push
<1>3. Range(taken) \cup Range(callbacks) = Range(scheduled)
  <2>1. Range(taken \o callbacks) = Range(taken) \cup Range(callbacks)
    BY <1>1, RangeConcatenation
  <2> QED
    BY <2>1, Zenon DEF FIFO
<1>4. CASE FirstRound(t)
  <2>1. /\ scheduled' = Append(scheduled, t) /\ taken' = taken
        /\ finished' = finished /\ t \notin Range(scheduled)
    BY <1>4 DEF FirstRound
  <2>2. /\ scheduled' \in Seq(Tasks)
        /\ Range(scheduled') = Range(scheduled) \cup {t}
        /\ Distinct(scheduled')
    BY <1>1, <2>1, AppendProperties, RangeAppend, DistinctAppend DEF Whereabouts
  <2>3. taken' \o callbacks' = scheduled'
    BY <1>1, <2>1, ConcatAppend DEF FIFO, Push
  <2>4. t \notin Range(taken) /\ t \notin finished /\ t \notin Range(callbacks)
    BY <1>3, <2>1 DEF Whereabouts
  <2>5. t \notin {fn[i] : i \in Busy}
    BY <2>4 DEF Whereabouts
  <2> QED BY <1>1, <1>2, <2>1, <2>2, <2>3, <2>4, <2>5
<1>5. CASE NextRound(t)
  <2>1. PICK k \in DOMAIN taken :
           /\ taken[k] = t
           /\ taken' = RemoveAt(taken, k)
           /\ scheduled' = Append(RemoveAt(scheduled, k), t)
    BY <1>5, Zenon DEF NextRound
  <2>2. /\ t \in finished /\ finished' = finished \ {t}
    BY <1>5 DEF NextRound
  <2>3. Len(taken) \in Nat /\ Len(callbacks) \in Nat /\ k \in 1 .. Len(taken)
    BY <1>1, <2>1, LenProperties
  <2> DEFINE u == CutOut(scheduled, k)
             v == CutOut(taken, k)
  <2>4. taken' = v /\ scheduled' = Append(u, t)
    BY <2>1 DEF RemoveAt, CutOut
  <2>5. /\ Len(scheduled) = Len(taken) + Len(callbacks)
        /\ \A i \in 1 .. Len(taken) : scheduled[i] = taken[i]
        /\ \A i \in 1 .. Len(callbacks) :
              scheduled[Len(taken) + i] = callbacks[i]
    <3>1. scheduled = taken \o callbacks
      BY DEF FIFO
    <3> QED BY <1>1, <2>3, <3>1, ConcatProperties
  <2>6. k \in 1 .. Len(scheduled) /\ scheduled[k] = t
    BY <2>1, <2>3, <2>5
  <2>7. Distinct(taken)
    <3>1. \A i, j \in 1 .. Len(taken) : taken[i] = taken[j] => i = j
      <4>1. Distinct(scheduled) /\ DOMAIN scheduled = 1 .. Len(scheduled)
        BY <1>1, LenProperties DEF Whereabouts
      <4>2. TAKE i, j \in 1 .. Len(taken)
      <4>3. i \in DOMAIN scheduled /\ j \in DOMAIN scheduled
        BY <2>3, <2>5, <4>1
      <4>4. scheduled[i] = scheduled[j] => i = j
        BY <4>1, <4>3, Zenon DEF Distinct
      <4>5. scheduled[i] = taken[i] /\ scheduled[j] = taken[j]
        BY <2>5, Zenon
      <4> QED BY <4>4, <4>5, Zenon
    <3> QED BY <1>1, <3>1, LenProperties DEF Distinct
  <2>8. /\ u \in Seq(Tasks) /\ v \in Seq(Tasks)
        /\ Len(u) = Len(scheduled) - 1 /\ Len(v) = Len(taken) - 1
        /\ \A i \in 1 .. Len(scheduled) - 1 :
              u[i] = IF i < k THEN scheduled[i] ELSE scheduled[i + 1]
        /\ \A i \in 1 .. Len(taken) - 1 :
              v[i] = IF i < k THEN taken[i] ELSE taken[i + 1]
    BY <1>1, <2>3, <2>6, CutOutElements
  <2>9. /\ Range(u) = Range(scheduled) \ {t} /\ Distinct(u)
        /\ Range(v) = Range(taken) \ {t}
    <3>1. Range(u) = Range(scheduled) \ {scheduled[k]} /\ Distinct(u)
      BY <1>1, <2>6, CutOutDistinct DEF Whereabouts
    <3>2. Range(v) = Range(taken) \ {taken[k]}
      BY <1>1, <2>3, <2>7, CutOutDistinct
    <3> QED BY <2>1, <2>6, <3>1, <3>2
  <2> HIDE DEF u, v
  <2>10. v \o callbacks = u
    <3>1. /\ v \o callbacks \in Seq(Tasks)
          /\ Len(v \o callbacks) = Len(u)
      BY <1>1, <2>3, <2>5, <2>8, ConcatProperties
    <3>2. ASSUME NEW i \in 1 .. Len(u) PROVE (v \o callbacks)[i] = u[i]
      <4>1. CASE i <= Len(taken) - 1
        <5>1. (v \o callbacks)[i] = v[i]
          BY <1>1, <2>3, <2>8, <4>1, ConcatProperties
        <5>2. u[i] = IF i < k THEN taken[i] ELSE taken[i + 1]
          BY <2>3, <2>5, <2>8, <4>1
        <5> QED BY <2>3, <2>8, <4>1, <5>1, <5>2
      <4>2. CASE i > Len(taken) - 1
        <5> DEFINE j == i - (Len(taken) - 1)
        <5>1. j \in 1 .. Len(callbacks) /\ i = Len(v) + j /\ i + 1 = Len(taken) + j
          BY <2>3, <2>5, <2>8, <4>2
        <5>2. (v \o callbacks)[i] = callbacks[j]
          BY <1>1, <2>3, <2>8, <5>1, ConcatProperties
        <5>3. u[i] = scheduled[i + 1]
          BY <2>3, <2>5, <2>8, <4>2
        <5> QED BY <2>5, <5>1, <5>2, <5>3
      <4> QED BY <2>3, <2>5, <2>8, <4>1, <4>2
    <3> QED BY <2>8, <3>1, <3>2, SeqEqual
  <2>11. /\ scheduled' \in Seq(Tasks)
         /\ Range(scheduled') = Range(scheduled) \cup {t}
    <3>1. Range(scheduled') = Range(u) \cup {t}
      BY <2>4, <2>8, RangeAppend
    <3> QED BY <2>4, <2>6, <2>8, <2>9, <3>1, AppendProperties
  <2>12. Distinct(scheduled')
    BY <2>4, <2>8, <2>9, DistinctAppend
  <2>13. taken' \o callbacks' = scheduled'
    BY <1>1, <2>4, <2>8, <2>10, ConcatAppend DEF Push
  <2>14. t \notin Range(callbacks)
    <3>1. ASSUME NEW j \in 1 .. Len(callbacks) PROVE callbacks[j] # t
      <4>1. Distinct(scheduled) /\ DOMAIN scheduled = 1 .. Len(scheduled)
        BY <1>1, LenProperties DEF Whereabouts
      <4>2. Len(taken) + j \in 1 .. Len(scheduled) /\ Len(taken) + j # k
        BY <2>3, <2>5
      <4>3. scheduled[Len(taken) + j] # scheduled[k]
        BY <2>6, <4>1, <4>2 DEF Distinct
      <4> QED BY <2>5, <2>6, <4>3
    <3> QED BY <1>1, <3>1, LenProperties DEF Range
  <2>15. t \notin {fn[i] : i \in Busy}
    BY <2>2 DEF RunOnce
  <2> QED
    BY <1>2, <2>2, <2>4, <2>8, <2>9, <2>11, <2>12, <2>13, <2>14, <2>15
<1> QED BY <1>4, <1>5 DEF Push

(* A push, whoever makes it, keeps the invariant.                          *)
LEMMA PushIInv ==
  ASSUME IInv, NEW t \in Tasks, Push(t),
         UNCHANGED <<isRunning, threads, pc, fn, dtor, joined>>
  PROVE  IInv'
<1> USE DEF IInv
<1>1. /\ scheduled' \in Seq(Tasks) /\ taken' \in Seq(Tasks)
      /\ taken' \o callbacks' = scheduled'
      /\ Distinct(scheduled')
  BY PushEffect
<1>2. /\ Range(taken') = Range(taken) \ {t}
      /\ Range(callbacks') = Range(callbacks) \cup {t}
      /\ Range(scheduled') = Range(scheduled) \cup {t}
      /\ finished' = finished \ {t}
  BY PushEffect
<1>3. t \notin Range(callbacks) /\ \A i \in Busy : fn[i] # t
  BY PushEffect
<1>4. TypeOK'
  BY <1>1, <1>2, AppendProperties DEF TypeOK, Push
<1>5. FIFO'
  BY <1>1 DEF FIFO
<1>6. Busy' = Busy
  BY DEF Busy
<1>7. RunOnce' /\ JoinedAreDone' /\ Phases'
  <2>1. RunOnce'
    BY <1>2, <1>6 DEF RunOnce
  <2>2. JoinedAreDone'
    BY DEF JoinedAreDone
  <2>3. Phases'
    BY DEF Phases, Push
  <2> QED
    BY <2>1, <2>2, <2>3
<1>8. CloseDrains'
  BY <1>2 DEF CloseDrains, Push
<1>9. Whereabouts'
  <2>1. /\ late' \cap Range(taken') = {}
        /\ late' \subseteq Range(scheduled')
    BY <1>2 DEF Whereabouts, Push
  <2>2. finished' \subseteq Range(taken') \ NullTasks
    BY <1>2 DEF Whereabouts
  <2>3. \A i \in Busy' : fn'[i] \in Range(taken')
    BY <1>2, <1>3, <1>6 DEF Whereabouts
  <2>4. \A i \in Workers : pc'[i] = "run" => fn'[i] \notin NullTasks
    BY DEF Whereabouts
  <2>5. \A x \in Range(taken') :
           x \in finished' \/ x \in NullTasks \/ \E i \in Busy' : fn'[i] = x
    BY <1>2, <1>6 DEF Whereabouts
  <2> QED
    BY <1>1, <2>1, <2>2, <2>3, <2>4, <2>5 DEF Whereabouts
<1> QED
  BY <1>4, <1>5, <1>7, <1>8, <1>9

(* Popping the oldest callback keeps the invariant.                        *)
LEMMA TakeIInv ==
  ASSUME IInv, NEW i \in Workers, Take(i)
  PROVE  IInv'
<1> USE DEF IInv
<1>1. /\ callbacks \in Seq(Tasks) /\ callbacks # <<>>
      /\ scheduled \in Seq(Tasks)
      /\ taken \in Seq(Tasks)
      /\ Head(callbacks) \in Tasks
      /\ Tail(callbacks) \in Seq(Tasks)
  BY HeadTailProperties DEF TypeOK, Take
<1>2. /\ Range(taken') = Range(taken) \cup {Head(callbacks)}
      /\ Range(callbacks) = Range(callbacks') \cup {Head(callbacks)}
  BY <1>1, RangeAppend, RangeHeadTail DEF Take
<1>3. Head(callbacks) \notin Range(taken)
  BY <1>1, HeadNotInTail DEF FIFO, Whereabouts
<1>4. TypeOK'
  BY <1>1, AppendProperties DEF TypeOK, Take
<1>5. FIFO'
  BY <1>1, MoveHead DEF FIFO, Take
<1>6. /\ i \notin Busy
      /\ Busy' = Busy \cup {i}
      /\ fn'[i] = Head(callbacks)
      /\ \A j \in Busy : fn'[j] = fn[j]
  BY DEF Busy, Take, TypeOK
<1>7. RunOnce'
  <2>1. \A j \in Busy : fn[j] # Head(callbacks)
    BY <1>3 DEF Whereabouts
  <2>2. Head(callbacks) \notin finished'
    BY <1>3 DEF Whereabouts, Take
  <2>3. \A j \in Busy' : fn'[j] \notin finished'
    BY <1>6, <2>2 DEF RunOnce, Take
  <2>4. \A j, k \in Busy' : fn'[j] = fn'[k] => j = k
    BY <1>6, <2>1 DEF RunOnce
  <2> QED
    BY <2>3, <2>4 DEF RunOnce
<1>8. CloseDrains' /\ JoinedAreDone' /\ Phases'
  BY DEF CloseDrains, JoinedAreDone, Phases, Take, TypeOK
<1>9. Whereabouts'
  <2>1. UNCHANGED <<scheduled, finished, late>>
    BY DEF Take
  <2>2. late = {}
    BY DEF Take, Phases
  <2>3. \A j \in Busy' : fn'[j] \in Range(taken')
    BY <1>2, <1>6 DEF Whereabouts
  <2>4. \A j \in Workers : pc'[j] = "run" => fn'[j] \notin NullTasks
    BY DEF Take, Whereabouts, TypeOK
  <2>5. \A t \in Range(taken') :
           t \in finished \/ t \in NullTasks \/ \E j \in Busy' : fn'[j] = t
    BY <1>2, <1>6 DEF Whereabouts
  <2> QED
    BY <1>2, <2>1, <2>2, <2>3, <2>4, <2>5 DEF Whereabouts
<1> QED
  BY <1>4, <1>5, <1>7, <1>8, <1>9

(* The steps that move one worker, and those of the constructor and the    *)
(* destructor, touch neither the queue nor its histories.                  *)
LEMMA WorkerIInv ==
  ASSUME IInv, NEW i \in Workers,
         StartThread(i) \/ Exit(i) \/ Call(i) \/ SkipNull(i) \/ Return(i)
  PROVE  IInv'
<1> USE NumThreadsAssumption, TasksAssumption DEF IInv
<1>1. CASE StartThread(i)
  <2>1. pc[i] = "absent" /\ Busy' = Busy
    BY <1>1 DEF StartThread, Busy, TypeOK, Phases, Workers
  <2> USE <1>1, <2>1 DEF StartThread
  <2>2. TypeOK'
    BY DEF TypeOK, Workers
  <2>3. FIFO' /\ RunOnce' /\ CloseDrains' /\ JoinedAreDone'
    BY DEF FIFO, RunOnce, CloseDrains, JoinedAreDone, TypeOK
  <2>4. Phases'
    BY DEF Phases, TypeOK, Workers
  <2>5. Whereabouts'
    BY DEF Whereabouts, TypeOK
  <2> QED
    BY <2>2, <2>3, <2>4, <2>5
<1>2. CASE Exit(i)
  <2>1. Busy' = Busy
    BY <1>2 DEF Exit, Busy, TypeOK
  <2> USE <1>2, <2>1 DEF Exit
  <2>2. TypeOK'
    BY DEF TypeOK
  <2>3. FIFO' /\ RunOnce' /\ CloseDrains' /\ JoinedAreDone'
    BY DEF FIFO, RunOnce, CloseDrains, JoinedAreDone, TypeOK
  <2>4. Phases' /\ Whereabouts'
    BY DEF Phases, Whereabouts, TypeOK
  <2> QED
    BY <2>2, <2>3, <2>4
<1>3. CASE Call(i)
  <2>1. Busy' = Busy
    BY <1>3 DEF Call, Busy, TypeOK
  <2> USE <1>3, <2>1 DEF Call
  <2>2. TypeOK'
    BY DEF TypeOK
  <2>3. FIFO' /\ RunOnce' /\ CloseDrains' /\ JoinedAreDone'
    BY DEF FIFO, RunOnce, CloseDrains, JoinedAreDone, TypeOK
  <2>4. Phases' /\ Whereabouts'
    BY DEF Phases, Whereabouts, TypeOK
  <2> QED
    BY <2>2, <2>3, <2>4
<1>4. CASE SkipNull(i)
  <2>1. Busy' = Busy \ {i} /\ \A j \in Busy' : fn'[j] = fn[j]
    BY <1>4 DEF SkipNull, Busy, TypeOK
  <2> USE <1>4, <2>1 DEF SkipNull
  <2>2. TypeOK'
    BY DEF TypeOK
  <2>3. FIFO' /\ RunOnce' /\ CloseDrains' /\ JoinedAreDone'
    BY DEF FIFO, RunOnce, CloseDrains, JoinedAreDone, TypeOK
  <2>4. Phases'
    BY DEF Phases, TypeOK
  <2>5. Whereabouts'
    BY DEF Whereabouts, TypeOK
  <2> QED
    BY <2>2, <2>3, <2>4, <2>5
<1>5. CASE Return(i)
  <2>1. /\ i \in Busy
        /\ Busy' = Busy \ {i}
        /\ \A j \in Busy' : fn'[j] = fn[j]
    BY <1>5 DEF Return, Busy, TypeOK
  <2>2. fn[i] \in Range(taken) \ NullTasks /\ fn[i] \in Tasks
    <3>1. Range(taken) \subseteq Tasks
      BY RangeOfSeq DEF TypeOK
    <3> QED
      BY <1>5, <2>1, <3>1 DEF Whereabouts, Return
  <2> USE <1>5, <2>1, <2>2 DEF Return
  <2>3. TypeOK'
    BY DEF TypeOK
  <2>4. RunOnce'
    BY DEF RunOnce
  <2>5. FIFO' /\ CloseDrains' /\ JoinedAreDone'
    BY DEF FIFO, CloseDrains, JoinedAreDone, TypeOK
  <2>6. Phases'
    BY DEF Phases, TypeOK
  <2>7. Whereabouts'
    BY DEF Whereabouts, TypeOK
  <2> QED
    BY <2>3, <2>4, <2>5, <2>6, <2>7
<1> QED
  BY <1>1, <1>2, <1>3, <1>4, <1>5

LEMMA DestructorIInv ==
  ASSUME IInv, Destroy \/ CloseEmpty \/ Join \/ DestroyReturn
  PROVE  IInv'
<1> USE NumThreadsAssumption DEF IInv
<1>1. UNCHANGED <<callbacks, threads, pc, fn, scheduled, taken, finished, late>>
  BY DEF Destroy, CloseEmpty, Join, DestroyReturn
<1>2. Busy' = Busy
  BY <1>1 DEF Busy
<1>3. FIFO' /\ RunOnce' /\ Whereabouts'
  BY <1>1, <1>2 DEF FIFO, RunOnce, Whereabouts
<1>4. TypeOK'
  <2>1. CASE Destroy \/ CloseEmpty \/ DestroyReturn
    BY <1>1, <2>1 DEF TypeOK, Destroy, CloseEmpty, DestroyReturn
  <2>2. CASE Join
    BY <1>1, <2>2 DEF TypeOK, Join
  <2> QED
    BY <2>1, <2>2
<1>5. CloseDrains'
  BY <1>1 DEF CloseDrains, Range, Destroy, CloseEmpty, Join, DestroyReturn
<1>6. JoinedAreDone'
  BY <1>1 DEF JoinedAreDone, Workers, TypeOK,
              Destroy, CloseEmpty, Join, DestroyReturn
<1>7. Phases'
  <2>1. CASE Destroy
    BY <1>1, <2>1 DEF Phases, TypeOK, Destroy
  <2>2. CASE CloseEmpty
    BY <1>1, <2>2 DEF Phases, TypeOK, CloseEmpty
  <2>3. CASE Join
    BY <1>1, <2>3 DEF Phases, TypeOK, Join
  <2>4. CASE DestroyReturn
    BY <1>1, <2>4 DEF Phases, TypeOK, DestroyReturn
  <2> QED
    BY <2>1, <2>2, <2>3, <2>4
<1> QED
  BY <1>3, <1>4, <1>5, <1>6, <1>7

LEMMA NextIInv == IInv /\ [Next]_vars => IInv'
<1> SUFFICES ASSUME IInv, [Next]_vars PROVE IInv'
  OBVIOUS
<1>1. CASE UNCHANGED vars
  <2>1. UNCHANGED Busy
    BY <1>1 DEF vars, Busy
  <2> QED
    BY <1>1, <2>1 DEF vars, IInv, TypeOK, FIFO, RunOnce, CloseDrains,
                      JoinedAreDone, Phases, Whereabouts
<1>2. ASSUME NEW i \in Workers, StartThread(i) \/ Worker(i) PROVE IInv'
  BY <1>2, WorkerIInv, TakeIInv DEF Worker
<1>3. ASSUME NEW i \in Workers, NEW t \in Tasks, ScheduleFromCallback(i, t)
      PROVE  IInv'
  BY <1>3, PushIInv DEF ScheduleFromCallback
<1>4. ASSUME NEW t \in Tasks, Schedule(t) PROVE IInv'
  BY <1>4, PushIInv DEF Schedule
<1>5. CASE Destroy \/ Destructor
  BY <1>5, DestructorIInv DEF Destructor
<1> QED
  BY <1>1, <1>2, <1>3, <1>4, <1>5 DEF Next, Gone

(* IInv holds in every reachable state.                                    *)
THEOREM Invariance == SafeSpec => []IInv
  BY InitIInv, NextIInv, PTL DEF SafeSpec

(* The state of the pool is always well typed.                             *)
THEOREM TypeCorrect == SafeSpec => []TypeOK
  BY Invariance, PTL DEF IInv

(* No callback is lost, duplicated or reordered between push and pop.      *)
THEOREM FIFOCorrect == SafeSpec => []FIFO
  BY Invariance, PTL DEF IInv

(* No two workers hold one callback, and none is called again.             *)
THEOREM RunOnceCorrect == SafeSpec => []RunOnce
  BY Invariance, PTL DEF IInv

(* The destructor closes the pool only when it is drained.                 *)
THEOREM CloseDrainsCorrect == SafeSpec => []CloseDrains
  BY Invariance, PTL DEF IInv

(* After the destructor no worker runs, and everything scheduled before    *)
(* the close was called to its end.                                        *)
THEOREM DestroyedIsQuietCorrect == SafeSpec => []DestroyedIsQuiet
<1>1. IInv => DestroyedIsQuiet
  <2> SUFFICES ASSUME IInv, dtor = "gone" PROVE DestroyedIsQuiet
    BY DEF DestroyedIsQuiet
  <2> USE NumThreadsAssumption DEF IInv
  <2>1. \A i \in Workers : pc[i] = "done"
    BY DEF Phases, JoinedAreDone, Workers
  <2>2. Busy = {}
    BY <2>1 DEF Busy
  <2>3. Range(scheduled) = Range(taken) \cup Range(callbacks)
    <3>1. Range(taken \o callbacks) = Range(taken) \cup Range(callbacks)
      BY RangeConcatenation DEF TypeOK
    <3> QED
      BY <3>1, Zenon DEF FIFO
  <2>4. Range(callbacks) \subseteq late
    BY DEF CloseDrains, Phases
  <2>5. Range(taken) \subseteq finished \cup NullTasks
    BY <2>2 DEF Whereabouts
  <2>6. Range(scheduled) \ (late \cup NullTasks) = finished
    BY <2>3, <2>4, <2>5 DEF Whereabouts
  <2> QED
    BY <2>1, <2>6 DEF DestroyedIsQuiet
<1> QED
  BY <1>1, Invariance, PTL

(* No callback begins once the pool was closed.                            *)
THEOREM NothingBeginsAfterCloseCorrect == SafeSpec => NothingBeginsAfterClose
<1>1. IInv /\ [Next]_vars
        => [~isRunning => Range(taken') \subseteq Range(taken) /\ ~isRunning']_vars
  <2> SUFFICES ASSUME IInv, Next, ~isRunning
               PROVE  Range(taken') \subseteq Range(taken) /\ ~isRunning'
    OBVIOUS
  <2>1. ASSUME NEW t \in Tasks,
               Schedule(t) \/ \E i \in Workers : ScheduleFromCallback(i, t)
        PROVE  Range(taken') \subseteq Range(taken) /\ ~isRunning'
    <3>1. Push(t) /\ isRunning' = isRunning
      BY <2>1 DEF Schedule, ScheduleFromCallback
    <3> QED BY <3>1, PushEffect
  <2>2. ASSUME NEW i \in Workers, StartThread(i) \/ Worker(i)
        PROVE  taken' = taken /\ ~isRunning'
    BY <2>2 DEF StartThread, Worker, Take, Exit, Call, SkipNull, Return
  <2>3. CASE Destroy \/ Destructor \/ Gone
    <3>1. taken' = taken /\ ~isRunning'
      BY <2>3 DEF Destroy, Destructor, CloseEmpty, Join, DestroyReturn, Gone,
                  vars
    <3> QED BY <3>1
  <2> QED
    BY <2>1, <2>2, <2>3 DEF Next
<1> QED
  BY <1>1, Invariance, PTL DEF SafeSpec, NothingBeginsAfterClose

(* Steps of the pool are steps of TaskQueue, seen through the mapping.     *)
LEMMA PushSubmits ==
  ASSUME IInv, NEW t \in Tasks, Push(t),
         UNCHANGED <<isRunning, threads, pc, fn, dtor, joined>>
  PROVE  Queue!Submit(t)
<1>1. running' = running
  BY DEF running, Busy
<1>2. /\ t \notin Range(callbacks) /\ t \notin running
      /\ Range(taken') = Range(taken) \ {t}
  BY PushEffect DEF running
<1>3. t \notin Queue!Range(callbacks) \cup running
  BY <1>2 DEF Queue!Range, Range
<1>4. Range(taken') \ running' = (Range(taken) \ running) \ {t}
  BY <1>1, <1>2
<1> QED
  BY <1>1, <1>3, <1>4 DEF Queue!Submit, Push

LEMMA TakeBegins ==
  ASSUME IInv, NEW i \in Workers, Take(i)
  PROVE  Queue!Begin
<1>1. /\ callbacks \in Seq(Tasks) /\ callbacks # <<>>
      /\ taken \in Seq(Tasks)
      /\ Head(callbacks) \in Tasks
  BY HeadTailProperties DEF IInv, TypeOK, Take
<1>2. Head(callbacks) \notin Range(taken)
  BY <1>1, HeadNotInTail DEF IInv, FIFO, Whereabouts
<1>3. Range(taken') = Range(taken) \cup {Head(callbacks)}
  BY <1>1, RangeAppend DEF Take
<1>4. /\ i \notin Busy
      /\ Busy' = Busy \cup {i}
      /\ fn'[i] = Head(callbacks)
      /\ \A j \in Busy : fn'[j] = fn[j]
  BY DEF Busy, Take, IInv, TypeOK
<1>5. running' = running \cup {Head(callbacks)}
  BY <1>4 DEF running
<1>6. (Range(taken) \ running)' = Range(taken) \ running
  BY <1>2, <1>3, <1>5
<1> QED
  BY <1>1, <1>5, <1>6 DEF Queue!Begin, Take

LEMMA ReturnEnds ==
  ASSUME IInv, NEW i \in Workers, SkipNull(i) \/ Return(i)
  PROVE  \E t \in Tasks : Queue!End(t)
<1>1. /\ i \in Busy
      /\ Busy' = Busy \ {i}
      /\ \A j \in Busy' : fn'[j] = fn[j]
  BY DEF SkipNull, Return, Busy, IInv, TypeOK
<1>2. fn[i] \in Range(taken) /\ fn[i] \in Tasks
  <2>1. Range(taken) \subseteq Tasks
    BY RangeOfSeq DEF IInv, TypeOK
  <2> QED
    BY <1>1, <2>1 DEF IInv, Whereabouts
<1>3. running' = running \ {fn[i]}
  BY <1>1 DEF running, IInv, RunOnce
<1>4. UNCHANGED <<callbacks, taken, isRunning>>
  BY DEF SkipNull, Return
<1>5. fn[i] \in running
  BY <1>1 DEF running
<1>6. (Range(taken) \ running)' = (Range(taken) \ running) \cup {fn[i]}
  BY <1>2, <1>3, <1>4
<1>7. Queue!End(fn[i])
  BY <1>3, <1>4, <1>5, <1>6 DEF Queue!End
<1> QED
  BY <1>2, <1>7

LEMMA OthersStutter ==
  ASSUME IInv, NEW i \in Workers,
         StartThread(i) \/ Exit(i) \/ Call(i)
  PROVE  UNCHANGED <<callbacks, running, Range(taken) \ running, isRunning>>
<1>1. UNCHANGED <<callbacks, taken, isRunning, fn>>
  BY DEF StartThread, Exit, Call
<1>2. Busy' = Busy
  <2>1. CASE StartThread(i)
    BY <2>1, NumThreadsAssumption
       DEF StartThread, Busy, IInv, TypeOK, Phases, Workers
  <2>2. CASE Exit(i) \/ Call(i)
    BY <2>2 DEF Exit, Call, Busy, IInv, TypeOK
  <2> QED
    BY <2>1, <2>2
<1>3. running' = running
  BY <1>1, <1>2 DEF running
<1> QED
  BY <1>1, <1>3

(* The pool implements the safety part of TaskQueue: the initial state     *)
(* maps to an initial state, every step to a step or to a stutter.         *)
THEOREM Refinement == SafeSpec => ImplementsTaskQueueSafely
<1>1. Init => Queue!Init
  <2>1. Init => Busy = {} /\ Range(taken) = {}
    BY DEF Init, Busy, Range
  <2> QED
    BY <2>1 DEF Init, Queue!Init, running
<1>2. IInv /\ [Next]_vars => [Queue!Next]_(Queue!qvars)
  <2> SUFFICES ASSUME IInv, [Next]_vars
               PROVE  Queue!Next \/ UNCHANGED Queue!qvars
    OBVIOUS
  <2>1. ASSUME NEW i \in Workers, StartThread(i) \/ Worker(i)
        PROVE  Queue!Next \/ UNCHANGED Queue!qvars
    BY <2>1, TakeBegins, ReturnEnds, OthersStutter
       DEF Worker, Queue!Next, Queue!qvars
  <2>2. ASSUME NEW t \in Tasks,
               Schedule(t) \/ \E i \in Workers : ScheduleFromCallback(i, t)
        PROVE  Queue!Next
    BY <2>2, PushSubmits DEF Schedule, ScheduleFromCallback, Queue!Next
  <2>3. CASE CloseEmpty
    <3>1. running' = running
      BY <2>3 DEF CloseEmpty, running, Busy
    <3>2. Queue!Close
      BY <2>3, <3>1 DEF CloseEmpty, Queue!Close, IInv, Phases
    <3> QED
      BY <3>2 DEF Queue!Next
  <2>4. CASE Destroy \/ Join \/ DestroyReturn \/ UNCHANGED vars
    <3>1. UNCHANGED <<callbacks, taken, isRunning, fn, pc>>
      BY <2>4 DEF Destroy, Join, DestroyReturn, vars
    <3>2. running' = running
      BY <3>1 DEF running, Busy
    <3> QED
      BY <3>1, <3>2 DEF Queue!qvars
  <2> QED
    BY <2>1, <2>2, <2>3, <2>4 DEF Next, Destructor, Gone
<1> QED
  BY <1>1, <1>2, Invariance, PTL
     DEF SafeSpec, ImplementsTaskQueueSafely, Queue!SafeSpec
=============================================================================
