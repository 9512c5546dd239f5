----------------------------- MODULE ThreadPool -----------------------------
(***************************************************************************)
(* Tesses::Framework::Threading::ThreadPool (ThreadPool.cpp).              *)
(*                                                                         *)
(* Every access to callbacks and isRunning in the code lies between        *)
(* mtx.Lock() and mtx.Unlock() with no blocking call in between, so each   *)
(* critical section is one action here.  The calls fn(i), the constructor  *)
(* loop and the joins of the destructor happen outside the lock and are    *)
(* steps of their own.  Two loops of the code spin: a worker that finds    *)
(* the queue empty and a destructor that finds it non-empty both unlock    *)
(* and try again, which changes no state and is a stuttering step.         *)
(*                                                                         *)
(* A callback may be scheduled again and again, by clients and by running  *)
(* callbacks, itself included.  An element of Tasks names one round of it; *)
(* when that round has ended the name may stand for a new one, so there is *)
(* no end to what can be scheduled, and the histories keep the last round. *)
(***************************************************************************)
EXTENDS Integers, SequencesExt

CONSTANTS
  NumThreads,  \* argument of the constructor
  Tasks,       \* names of the rounds of callbacks that are not over
  NullTasks,   \* those that hold an empty std::function
  NoTask       \* value of fn before a callback was popped

ASSUME NumThreadsAssumption == NumThreads \in Nat
ASSUME TasksAssumption == NullTasks \subseteq Tasks /\ NoTask \notin Tasks

VARIABLES
  callbacks,   \* std::queue<std::function<void(size_t)>> callbacks
  isRunning,   \* volatile bool isRunning
  threads,     \* how many Thread objects the constructor has created
  pc,          \* where each worker's loop stands
  fn,          \* the worker's local fn
  dtor,        \* the destructor: not called, draining, joining, gone
  joined,      \* workers joined and deleted so far, in index order
  scheduled,   \* history: the callbacks pushed (last rounds), in order
  taken,       \* history: those of them that were popped, in order
  finished,    \* history: those of them whose call returned
  late         \* history: those of them pushed after isRunning became false

poolVars == <<callbacks, isRunning, threads, pc, fn, dtor, joined>>
vars == <<callbacks, isRunning, threads, pc, fn, dtor, joined,
          scheduled, taken, finished, late>>

Workers == 0 .. NumThreads - 1

Init ==
  /\ callbacks = <<>>
  /\ isRunning = TRUE
  /\ threads = 0
  /\ pc = [i \in Workers |-> "absent"]
  /\ fn = [i \in Workers |-> NoTask]
  /\ dtor = "alive"
  /\ joined = 0
  /\ scheduled = <<>>
  /\ taken = <<>>
  /\ finished = {}
  /\ late = {}

-----------------------------------------------------------------------------
(* Faulty forms of some actions below.  No specification here uses them:   *)
(* each one breaks a property, which shows that the property can fail.     *)
PushFront(t) ==                       \* mutant: newest first
  /\ t \notin Range(scheduled)
  /\ callbacks' = <<t>> \o callbacks
  /\ scheduled' = Append(scheduled, t)
  /\ late' = IF isRunning THEN late ELSE late \cup {t}
  /\ UNCHANGED <<taken, finished>>

CloseAnyway ==                        \* mutant: the queue is not looked at
  /\ dtor = "draining"
  /\ isRunning' = FALSE
  /\ dtor' = "joining"
  /\ UNCHANGED <<callbacks, threads, pc, fn, joined,
                 scheduled, taken, finished, late>>

CloseKeepRunning ==                   \* mutant: the flag is not cleared
  /\ dtor = "draining"
  /\ callbacks = <<>>
  /\ dtor' = "joining"
  /\ UNCHANGED <<callbacks, isRunning, threads, pc, fn, joined,
                 scheduled, taken, finished, late>>

JoinAny ==                            \* mutant: does not wait for the thread
  /\ dtor = "joining"
  /\ joined < NumThreads
  /\ joined' = joined + 1
  /\ UNCHANGED <<callbacks, isRunning, threads, pc, fn, dtor,
                 scheduled, taken, finished, late>>

TakeFrontOnly(i) ==                   \* mutant: front() without pop()
  /\ pc[i] = "loop"
  /\ isRunning
  /\ callbacks # <<>>
  /\ fn' = [fn EXCEPT ![i] = Head(callbacks)]
  /\ taken' = Append(taken, Head(callbacks))
  /\ pc' = [pc EXCEPT ![i] = "call"]
  /\ Len(taken) < 4
  /\ UNCHANGED <<callbacks, isRunning, threads, dtor, joined, scheduled,
                 finished, late>>

-----------------------------------------------------------------------------
(* The constructor: one Thread after another; worker 0 may already be      *)
(* looping while worker 1 does not exist yet.                              *)
StartThread(i) ==
  /\ threads = i
  /\ threads' = i + 1
  /\ pc' = [pc EXCEPT ![i] = "loop"]
  /\ UNCHANGED <<callbacks, isRunning, fn, dtor, joined,
                 scheduled, taken, finished, late>>

(* The histories before a push of t: a round of t that ended is forgotten. *)
FirstRound(t) ==
  /\ t \notin Range(scheduled)
  /\ scheduled' = Append(scheduled, t)
  /\ UNCHANGED <<taken, finished>>

NextRound(t) ==
  /\ t \in finished
  /\ \E k \in DOMAIN taken :
        /\ taken[k] = t
        /\ taken' = RemoveAt(taken, k)
        /\ scheduled' = Append(RemoveAt(scheduled, k), t)
  /\ finished' = finished \ {t}

(* mtx.Lock(); callbacks.push(cb); mtx.Unlock()                            *)
Push(t) ==
  /\ callbacks' = Append(callbacks, t)
  /\ late' = IF isRunning THEN late ELSE late \cup {t}
  /\ FirstRound(t) \/ NextRound(t)

(* A client calls Schedule.  It may not once the pool is being destroyed.  *)
Schedule(t) ==
  /\ threads = NumThreads
  /\ dtor = "alive"
  /\ Push(t)
  /\ UNCHANGED <<isRunning, threads, pc, fn, dtor, joined>>

(* The worker's critical section when there is work: pop the oldest.       *)
Take(i) ==
  /\ pc[i] = "loop"
  /\ isRunning
  /\ callbacks # <<>>
  /\ fn' = [fn EXCEPT ![i] = Head(callbacks)]
  /\ callbacks' = Tail(callbacks)
  /\ taken' = Append(taken, Head(callbacks))
  /\ pc' = [pc EXCEPT ![i] = "call"]
  /\ UNCHANGED <<isRunning, threads, dtor, joined, scheduled, finished, late>>

(* The worker's critical section after the pool was closed.                *)
Exit(i) ==
  /\ pc[i] = "loop"
  /\ ~isRunning
  /\ pc' = [pc EXCEPT ![i] = "done"]
  /\ UNCHANGED <<callbacks, isRunning, threads, fn, dtor, joined,
                 scheduled, taken, finished, late>>

(* if (fn) fn(i): an empty function is skipped.                            *)
Call(i) ==
  /\ pc[i] = "call"
  /\ fn[i] \notin NullTasks
  /\ pc' = [pc EXCEPT ![i] = "run"]
  /\ UNCHANGED <<callbacks, isRunning, threads, fn, dtor, joined,
                 scheduled, taken, finished, late>>

SkipNull(i) ==
  /\ pc[i] = "call"
  /\ fn[i] \in NullTasks
  /\ pc' = [pc EXCEPT ![i] = "loop"]
  /\ fn' = [fn EXCEPT ![i] = NoTask]
  /\ UNCHANGED <<callbacks, isRunning, threads, dtor, joined,
                 scheduled, taken, finished, late>>

(* A running callback schedules another one (its own next round goes by    *)
(* another name), at any time, even while the destructor already drains or *)
(* joins.                                                                  *)
ScheduleFromCallback(i, t) ==
  /\ pc[i] = "run"
  /\ Push(t)
  /\ UNCHANGED <<isRunning, threads, pc, fn, dtor, joined>>

(* The callback returns.  (One that throws ends the process.)              *)
Return(i) ==
  /\ pc[i] = "run"
  /\ finished' = finished \cup {fn[i]}
  /\ pc' = [pc EXCEPT ![i] = "loop"]
  /\ fn' = [fn EXCEPT ![i] = NoTask]
  /\ UNCHANGED <<callbacks, isRunning, threads, dtor, joined,
                 scheduled, taken, late>>

(* The owner starts ~ThreadPool; only after the constructor returned.      *)
Destroy ==
  /\ dtor = "alive"
  /\ threads = NumThreads
  /\ dtor' = "draining"
  /\ UNCHANGED <<callbacks, isRunning, threads, pc, fn, joined,
                 scheduled, taken, finished, late>>

(* The destructor's critical section that finds the queue empty: isRunning *)
(* is cleared under the same lock.                                         *)
CloseEmpty ==
  /\ dtor = "draining"
  /\ callbacks = <<>>
  /\ isRunning' = FALSE
  /\ dtor' = "joining"
  /\ UNCHANGED <<callbacks, threads, pc, fn, joined,
                 scheduled, taken, finished, late>>

(* item->Join(); delete item;                                              *)
Join ==
  /\ dtor = "joining"
  /\ joined < NumThreads
  /\ pc[joined] = "done"
  /\ joined' = joined + 1
  /\ UNCHANGED <<callbacks, isRunning, threads, pc, fn, dtor,
                 scheduled, taken, finished, late>>

DestroyReturn ==
  /\ dtor = "joining"
  /\ joined = NumThreads
  /\ dtor' = "gone"
  /\ UNCHANGED <<callbacks, isRunning, threads, pc, fn, joined,
                 scheduled, taken, finished, late>>

Gone == dtor = "gone" /\ UNCHANGED vars

Worker(i) == Take(i) \/ Exit(i) \/ Call(i) \/ SkipNull(i) \/ Return(i)
Destructor == CloseEmpty \/ Join \/ DestroyReturn

Next ==
  \/ \E i \in Workers : StartThread(i) \/ Worker(i)
  \/ \E i \in Workers, t \in Tasks : ScheduleFromCallback(i, t)
  \/ \E t \in Tasks : Schedule(t)
  \/ Destroy
  \/ Destructor
  \/ Gone

(* Each worker and the thread in the destructor are scheduled fairly and   *)
(* get the mutex when they keep asking; callbacks return.  Nobody has to   *)
(* schedule anything or to destroy the pool.                               *)
Fairness ==
  /\ \A i \in Workers : WF_vars(StartThread(i)) /\ WF_vars(Worker(i))
  /\ WF_vars(Destructor)

SafeSpec == Init /\ [][Next]_vars
Spec == SafeSpec /\ Fairness

-----------------------------------------------------------------------------
(* The types of the variables.                                             *)
TypeOK ==
  /\ callbacks \in Seq(Tasks)
  /\ isRunning \in BOOLEAN
  /\ threads \in 0 .. NumThreads
  /\ pc \in [Workers -> {"absent", "loop", "call", "run", "done"}]
  /\ fn \in [Workers -> Tasks \cup {NoTask}]
  /\ dtor \in {"alive", "draining", "joining", "gone"}
  /\ joined \in 0 .. NumThreads
  /\ scheduled \in Seq(Tasks)
  /\ taken \in Seq(Tasks)
  /\ finished \subseteq Tasks
  /\ late \subseteq Tasks

(* No callback is lost, duplicated or overtaken: what the workers popped,  *)
(* followed by what still waits, is exactly what was pushed, in order.     *)
FIFO == taken \o callbacks = scheduled

(* Two workers never hold the same callback, and a callback that returned  *)
(* is not held any more: with FIFO, each one is called at most once.       *)
Busy == {i \in Workers : pc[i] \in {"call", "run"}}

RunOnce ==
  /\ \A i \in Busy : fn[i] \notin finished
  /\ \A i, j \in Busy : fn[i] = fn[j] => i = j

(* The destructor closes the pool only when everything was popped: a       *)
(* callback that waits in a closed pool was scheduled after the close, by  *)
(* a callback that was still running then.                                 *)
CloseDrains == ~isRunning => Range(callbacks) \subseteq late

(* When the destructor has returned no worker runs, and every callback     *)
(* that was scheduled before the close was called to its end.  (The pool's *)
(* members are destroyed at this point: a worker still looping would use   *)
(* freed memory.)                                                          *)
DestroyedIsQuiet ==
  dtor = "gone" =>
    /\ \A i \in Workers : pc[i] = "done"
    /\ Range(scheduled) \ (late \cup NullTasks) = finished

(* No callback begins once the pool was closed, and a closed pool is never *)
(* opened again.                                                           *)
NothingBeginsAfterClose ==
  [][~isRunning => Range(taken') \subseteq Range(taken) /\ ~isRunning']_vars

(* The destructor returns, whatever callbacks do, as long as they return,  *)
(* there is at least one worker, and they do not schedule further          *)
(* callbacks for ever: then the queue may be found non-empty every time    *)
(* and the destructor's first loop spins on.                               *)
CallbackSchedules ==
  \E i \in Workers, t \in Tasks : ScheduleFromCallback(i, t)

DestroyEnds ==
  <>[][~CallbackSchedules]_vars => (dtor = "draining" ~> dtor = "gone")

(* The refinement: a callback runs from the moment it is popped.           *)
running == {fn[i] : i \in Busy}

Queue == INSTANCE TaskQueue WITH
  queue <- callbacks,
  ended <- Range(taken) \ running,
  open <- isRunning

(* The pool keeps the promises of TaskQueue, its liveness included.        *)
ImplementsTaskQueue == Queue!Spec
ImplementsTaskQueueSafely == Queue!SafeSpec
=============================================================================
