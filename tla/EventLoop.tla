------------------------------ MODULE EventLoop ------------------------------
(***************************************************************************)
(* The event loop of TF_Init.cpp: TF_Invoke, TF_Quit, TF_SetIsRunning, the *)
(* signal handler, TF_RunEventLoop and the timers.                         *)
(*                                                                         *)
(* One thread runs the loop; any thread (and any callback the loop calls)  *)
(* may invoke, quit or undo a quit, and create, change or release timers;  *)
(* the two flags are read and written without a lock.  invokings is        *)
(* guarded by invokings_mtx and the timers by timers_mtx, so every critical*)
(* section is one action; callbacks are called outside both locks.         *)
(*                                                                         *)
(* Time is relative: a timer has an age, the milliseconds since its last,  *)
(* and ages stop growing at MaxAge, past which no interval tells them      *)
(* apart.  A new handle has last = 0, the clock's epoch, so its age is     *)
(* MaxAge.  interval and enabled of a new handle are not initialised.      *)
(***************************************************************************)
EXTENDS Integers, SequencesExt

CONSTANTS
  Invocations,   \* identities of the callbacks given to TF_Invoke
  Timers,        \* identities of the timer handles
  Intervals,     \* intervals a timer may be given, in milliseconds
  MaxAge,        \* an age at which every interval has passed
  NoTimer

ASSUME IntervalsAssumption ==
  /\ MaxAge \in Nat
  /\ Intervals \subseteq 0 .. MaxAge
  /\ Intervals # {}
ASSUME TimersAssumption == NoTimer \notin Timers

VARIABLES
  isRunningSig,  \* cleared by the signal handler
  isRunning,     \* what TF_IsRunning returns
  invokings,     \* the queue TF_Invoke pushes to
  invokes,       \* the loop's copy of it that is being run
  loop,          \* where the loop stands
  handles,       \* TF_Timer_Handler::handles
  built,         \* per timer: how far TF_Timer has come
  cbSet,         \* per timer: does cb hold a function?
  interval,      \* per timer
  enabled,       \* per timer
  age,           \* per timer: now - last (cur - last while Update waits)
  lag,           \* while Update waits for the lock: now - cur
  cbs,           \* the due callbacks Update collected, not yet called
  calling,       \* the timer whose callback runs now
  invoked,       \* history: what was given to TF_Invoke, in order
  ran,           \* history: the invocations that ran at least once, in order
  owed           \* history: per timer, calls since it was last switched off

loopVars == <<isRunningSig, isRunning, invokings, invokes, loop>>
timerVars == <<handles, built, cbSet, interval, enabled, age>>
updateVars == <<lag, cbs, calling>>
history == <<invoked, ran, owed>>
vars == <<loopVars, timerVars, updateVars, history>>

Init ==
  /\ isRunningSig = TRUE
  /\ isRunning = TRUE                        \* TF_Init has run
  /\ invokings = <<>>
  /\ invokes = <<>>
  /\ loop = "check"
  /\ handles = <<>>
  /\ built = [t \in Timers |-> "none"]
  /\ cbSet = [t \in Timers |-> FALSE]
  /\ interval = [t \in Timers |-> MaxAge]
  /\ enabled = [t \in Timers |-> FALSE]
  /\ age = [t \in Timers |-> MaxAge]
  /\ lag = 0
  /\ cbs = <<>>
  /\ calling = NoTimer
  /\ invoked = <<>>
  /\ ran = <<>>
  /\ owed = [t \in Timers |-> 0]

Alive(t) == built[t] \notin {"none", "released"}

-----------------------------------------------------------------------------
(* Faulty forms of some definitions below.  No specification here uses     *)
(* them: each one breaks a property, which shows that it can fail.         *)
InvokeInFront(i) ==           \* the newest invocation is put in front
  /\ i \notin ToSet(invoked)
  /\ invokings' = <<i>> \o invokings
  /\ invoked' = Append(invoked, i)
  /\ UNCHANGED <<isRunningSig, isRunning, invokes, loop, timerVars,
                 updateVars, ran, owed>>

CopyLast ==                   \* only the newest invocation is copied
  /\ loop = "copy"
  /\ invokes' = IF invokings = <<>> THEN <<>> ELSE <<Last(invokings)>>
  /\ loop' = "invoke"
  /\ UNCHANGED <<isRunningSig, isRunning, invokings, timerVars, updateVars,
                 history>>

IgnoreSignal ==               \* isRunningSig is not looked at
  /\ loop = "invoke"
  /\ invokes = <<>>
  /\ lag' = 0
  /\ loop' = "collect"
  /\ UNCHANGED <<isRunningSig, isRunning, invokings, invokes, timerVars, cbs,
                 calling, history>>

DueWhenOff(t) ==              \* enabled is not looked at
  /\ Alive(t)
  /\ cbSet[t]
  /\ age[t] >= interval[t]

DueExactly(t) ==              \* a deadline that was missed stays missed
  /\ Alive(t)
  /\ enabled[t]
  /\ cbSet[t]
  /\ age[t] = interval[t]

KeptIfOn(t) == Alive(t) /\ enabled[t]     \* a timer switched off is erased

-----------------------------------------------------------------------------
(* What any thread, and any callback, may do.                              *)

TF_Invoke(i) ==
  /\ i \notin ToSet(invoked)
  /\ invokings' = Append(invokings, i)
  /\ invoked' = Append(invoked, i)
  /\ UNCHANGED <<isRunningSig, isRunning, invokes, loop, timerVars,
                 updateVars, ran, owed>>

TF_Quit ==
  /\ isRunning
  /\ isRunning' = FALSE
  /\ UNCHANGED <<isRunningSig, invokings, invokes, loop, timerVars,
                 updateVars, history>>

(* TF_SetIsRunning(on), open to everybody: TRUE undoes a quit, or a signal *)
(* that the loop has already noticed.                                      *)
TF_SetIsRunning(on) ==
  /\ isRunning # on
  /\ isRunning' = on
  /\ UNCHANGED <<isRunningSig, invokings, invokes, loop, timerVars,
                 updateVars, history>>

_sigInt ==
  /\ isRunningSig
  /\ isRunningSig' = FALSE
  /\ UNCHANGED <<isRunning, invokings, invokes, loop, timerVars,
                 updateVars, history>>

(* TF_Timer(cb, interval, enabled): four critical sections, one after the  *)
(* other, between any two of which the loop may run an Update.  The new    *)
(* handle's interval and enabled are not initialised.                      *)
Make(t) ==
  /\ built[t] = "none"
  /\ handles' = Append(handles, t)
  /\ built' = [built EXCEPT ![t] = "made"]
  /\ interval' \in {[interval EXCEPT ![t] = ms] : ms \in Intervals}
  /\ enabled' \in {[enabled EXCEPT ![t] = on] : on \in BOOLEAN}
  /\ UNCHANGED <<loopVars, cbSet, age, updateVars, history>>

BuildCallback(t) ==
  /\ built[t] = "made"
  /\ cbSet' = [cbSet EXCEPT ![t] = TRUE]
  /\ built' = [built EXCEPT ![t] = "cb"]
  /\ UNCHANGED <<loopVars, handles, interval, enabled, age, updateVars, history>>

BuildInterval(t, ms) ==
  /\ built[t] = "cb"
  /\ interval' = [interval EXCEPT ![t] = ms]
  /\ built' = [built EXCEPT ![t] = "interval"]
  /\ UNCHANGED <<loopVars, handles, cbSet, enabled, age, updateVars, history>>

(* SetEnabled, called by TF_Timer and later by anyone who has the handle.  *)
SetEnabled(t, on) ==
  /\ built[t] \in {"interval", "ready"}
  /\ enabled' = [enabled EXCEPT ![t] = on]
  /\ built' = [built EXCEPT ![t] = "ready"]
  /\ owed' = [owed EXCEPT ![t] = 0]
  /\ UNCHANGED <<loopVars, handles, cbSet, interval, age, updateVars,
                 invoked, ran>>

SetInterval(t, ms) ==
  /\ built[t] = "ready"
  /\ interval' = [interval EXCEPT ![t] = ms]
  /\ UNCHANGED <<loopVars, handles, built, cbSet, enabled, age, updateVars,
                 history>>

(* The last shared_ptr to the handle goes: the weak_ptr in handles expires.*)
Release(t) ==
  /\ built[t] = "ready"
  /\ built' = [built EXCEPT ![t] = "released"]
  /\ owed' = [owed EXCEPT ![t] = 0]
  /\ UNCHANGED <<loopVars, handles, cbSet, interval, enabled, age, updateVars,
                 invoked, ran>>

(* A millisecond passes.                                                   *)
Plus(a, ms) == IF a + ms < MaxAge THEN a + ms ELSE MaxAge

Tick ==
  /\ IF loop = "collect"
       THEN /\ lag < MaxAge
            /\ lag' = lag + 1
            /\ UNCHANGED age
       ELSE /\ \E t \in Timers : age[t] < MaxAge
            /\ age' = [t \in Timers |-> Plus(age[t], 1)]
            /\ UNCHANGED lag
  /\ UNCHANGED <<loopVars, handles, built, cbSet, interval, enabled, cbs,
                 calling, history>>

-----------------------------------------------------------------------------
(* The loop.                                                               *)

(* while (isRunning)                                                       *)
CheckRunning ==
  /\ loop = "check"
  /\ loop' = IF isRunning THEN "copy" ELSE "ended"
  /\ UNCHANGED <<isRunningSig, isRunning, invokings, invokes, timerVars,
                 updateVars, history>>

(* auto invokes = invokings; the queue itself keeps its elements.          *)
CopyInvokings ==
  /\ loop = "copy"
  /\ invokes' = invokings
  /\ loop' = "invoke"
  /\ UNCHANGED <<isRunningSig, isRunning, invokings, timerVars, updateVars,
                 history>>

(* invokes.front()(); invokes.pop();                                       *)
RunInvoke ==
  /\ loop = "invoke"
  /\ invokes # <<>>
  /\ invokes' = Tail(invokes)
  /\ ran' = IF Head(invokes) \in ToSet(ran) THEN ran
                                            ELSE Append(ran, Head(invokes))
  /\ UNCHANGED <<isRunningSig, isRunning, invokings, loop, timerVars,
                 updateVars, invoked, owed>>

(* if (!isRunningSig) isRunning = false; then Update reads the clock.      *)
CheckSignal ==
  /\ loop = "invoke"
  /\ invokes = <<>>
  /\ isRunning' = (isRunning /\ isRunningSig)
  /\ lag' = 0
  /\ loop' = "collect"
  /\ UNCHANGED <<isRunningSig, invokings, invokes, timerVars, cbs, calling,
                 history>>

(* Update's critical section: expired handles are erased, due timers get   *)
(* last = cur and their callback is collected.                             *)
Due(t) ==
  /\ Alive(t)
  /\ enabled[t]
  /\ cbSet[t]
  /\ age[t] >= interval[t]

Kept(t) == Alive(t)

Only(list, S) ==              \* the timers in S, in the order of list
  LET kept[k \in 0 .. Len(list)] ==
        IF k = 0 THEN <<>>
        ELSE IF list[k] \in S THEN Append(kept[k - 1], list[k]) ELSE kept[k - 1]
  IN kept[Len(list)]

Collect ==
  /\ loop = "collect"
  /\ handles' = Only(handles, {t \in Timers : Kept(t)})
  /\ cbs' = Only(handles, {t \in Timers : Due(t)})
  /\ age' = [t \in Timers |-> IF t \in ToSet(cbs') THEN lag
                            ELSE Plus(age[t], lag)]
  /\ lag' = 0
  /\ loop' = "call"
  /\ UNCHANGED <<isRunningSig, isRunning, invokings, invokes, built, cbSet,
                 interval, enabled, calling, history>>

(* for (auto item : cbs) item();                                           *)
CallTimer ==
  /\ loop = "call"
  /\ calling = NoTimer
  /\ cbs # <<>>
  /\ calling' = Head(cbs)
  /\ cbs' = Tail(cbs)
  /\ owed' = IF enabled[Head(cbs)] /\ Alive(Head(cbs)) THEN owed
             ELSE [owed EXCEPT ![Head(cbs)] = @ + 1]
  /\ UNCHANGED <<loopVars, timerVars, lag, invoked, ran>>

TimerReturns ==
  /\ calling # NoTimer
  /\ calling' = NoTimer
  /\ UNCHANGED <<loopVars, timerVars, lag, cbs, history>>

(* TF_Sleep(1): at least a millisecond passes before the next round.       *)
SleepOne ==
  /\ loop = "call"
  /\ calling = NoTimer
  /\ cbs = <<>>
  /\ age' = [t \in Timers |-> Plus(age[t], 1)]
  /\ loop' = "check"
  /\ UNCHANGED <<isRunningSig, isRunning, invokings, invokes, handles, built,
                 cbSet, interval, enabled, updateVars, history>>

Loop == \/ CheckRunning \/ CopyInvokings \/ RunInvoke \/ CheckSignal
        \/ Collect \/ CallTimer \/ TimerReturns \/ SleepOne

Build(t) == \/ Make(t) \/ BuildCallback(t)
            \/ \E ms \in Intervals : BuildInterval(t, ms)

Others ==
  \/ \E i \in Invocations : TF_Invoke(i)
  \/ TF_Quit
  \/ \E on \in BOOLEAN : TF_SetIsRunning(on)
  \/ _sigInt
  \/ \E t \in Timers : Build(t) \/ Release(t)
  \/ \E t \in Timers, on \in BOOLEAN : SetEnabled(t, on)
  \/ \E t \in Timers, ms \in Intervals : SetInterval(t, ms)

Ended == loop = "ended" /\ UNCHANGED vars

Next == Loop \/ Others \/ Tick \/ Ended

(* The thread of the loop is scheduled fairly and every callback returns.  *)
(* Nothing is assumed of the other threads.                                *)
Spec == Init /\ [][Next]_vars /\ WF_vars(Loop)

-----------------------------------------------------------------------------
(* The types of the variables.                                             *)
TypeOK ==
  /\ isRunningSig \in BOOLEAN /\ isRunning \in BOOLEAN
  /\ invokings \in Seq(Invocations) /\ invokes \in Seq(Invocations)
  /\ loop \in {"check", "copy", "invoke", "collect", "call", "ended"}
  /\ handles \in Seq(Timers)
  /\ built \in [Timers -> {"none", "made", "cb", "interval", "ready", "released"}]
  /\ cbSet \in [Timers -> BOOLEAN]
  /\ interval \in [Timers -> 0 .. MaxAge]
  /\ enabled \in [Timers -> BOOLEAN]
  /\ age \in [Timers -> 0 .. MaxAge]
  /\ lag \in 0 .. MaxAge
  /\ cbs \in Seq(Timers)
  /\ calling \in Timers \cup {NoTimer}
  /\ invoked \in Seq(Invocations) /\ ran \in Seq(Invocations)
  /\ owed \in [Timers -> Nat]

(* Invocations run for the first time in the order they were given to      *)
(* TF_Invoke, whichever threads gave them, and none is passed over.        *)
InvokeOrder == IsPrefix(ran, invoked)

(* Update's erasing walk keeps exactly one entry for every timer somebody  *)
(* still holds.                                                            *)
HandlesComplete ==
  /\ \A t \in Timers : Alive(t) => t \in ToSet(handles)
  /\ IsInjective(handles)

(* Callbacks are called after timers_mtx was released, so one may start    *)
(* after SetEnabled(false) or the release of the handle has returned: one, *)
(* and never a second.                                                     *)
OneCallAfterOff == \A t \in Timers : owed[t] <= 1

(* The variables have their types, the list of handles is complete, and a  *)
(* timer that was switched off is called at most once more.                *)
Inv == TypeOK /\ HandlesComplete /\ OneCallAfterOff

(* What is given to TF_Invoke runs, unless the loop ends.                  *)
InvokedRuns ==
  \A i \in Invocations :
    i \in ToSet(invoked) ~> (i \in ToSet(ran) \/ loop = "ended")

(* TF_Quit ends the loop, unless TF_SetIsRunning undoes it before the loop *)
(* looks.  A signal cannot be undone for good: every round clears isRunning*)
(* again, so the loop ends unless TF_SetIsRunning(true) goes on for ever.  *)
StopEndsLoop ==
  /\ ~isRunning ~> (loop = "ended" \/ isRunning)
  /\ <>[][~TF_SetIsRunning(TRUE)]_vars => (~isRunningSig ~> loop = "ended")

(* While the loop runs, a timer that is left switched on is called again   *)
(* and again, also when rounds take longer than its interval.              *)
TimerKeepsFiring ==
  \A t \in Timers :
    <>[](built[t] = "ready" /\ enabled[t] /\ loop # "ended")
      => []<>(calling = t)
=============================================================================
