--------------------------- MODULE EventLoopProofs ---------------------------
(***************************************************************************)
(* InvokeOrder and Inv of EventLoop, for any number of invocations, timers *)
(* and intervals.                                                          *)
(*                                                                         *)
(* Invocations: the copy the loop runs is a window of what was given to    *)
(* TF_Invoke, and the window never starts past those that already ran.     *)
(*                                                                         *)
(* Timers: the list of handles has every held timer once (Handles), and a  *)
(* timer still to be called in the round was not called since it was       *)
(* switched off (Calls): the call it is owed is the one it can still get.  *)
(***************************************************************************)
EXTENDS EventLoop, QueueLemmas

QueueTypes ==
  /\ invokings \in Seq(Invocations)
  /\ invokes \in Seq(Invocations)
  /\ invoked \in Seq(Invocations)
  /\ ran \in Seq(Invocations)

(* The queue is never emptied, and no callback is given twice. *)
QueueIsHistory ==
  /\ invokings = invoked
  /\ \A i, j \in 1 .. Len(invoked) : invoked[i] = invoked[j] => i = j

RanFirst ==
  /\ Len(ran) <= Len(invoked)
  /\ \A i \in 1 .. Len(ran) : ran[i] = invoked[i]

(* The copy holds the invocations after the first k, and those k have run. *)
WindowAt(k) ==
  /\ k <= Len(ran)
  /\ k + Len(invokes) <= Len(invoked)
  /\ \A i \in 1 .. Len(invokes) : invokes[i] = invoked[k + i]

Window == \E k \in Nat : WindowAt(k)

IInv == QueueTypes /\ QueueIsHistory /\ RanFirst /\ Window

(* The variables the invariant is about. *)
queueVars == <<invokings, invokes, invoked, ran>>

LEMMA InitIInv == Init => IInv
<1> SUFFICES ASSUME Init
             PROVE  IInv
  OBVIOUS
<1>1. QueueTypes /\ QueueIsHistory /\ RanFirst
  BY DEF Init, QueueTypes, QueueIsHistory, RanFirst
<1>2. WindowAt(0)
  BY DEF Init, WindowAt
<1> QED
  BY <1>1, <1>2 DEF IInv, Window

LEMMA QueueUnchanged == IInv /\ UNCHANGED queueVars => IInv'
  BY DEF IInv, QueueTypes, QueueIsHistory, RanFirst, Window, WindowAt,
         queueVars

LEMMA InvokeStep ==
  ASSUME NEW i \in Invocations, IInv, TF_Invoke(i)
  PROVE  IInv'
<1> USE DEF TF_Invoke
<1>1. /\ QueueTypes
      /\ QueueIsHistory
      /\ RanFirst
  BY DEF IInv
<1>2. QueueTypes'
  BY <1>1 DEF QueueTypes
<1>3. /\ Len(invoked') = Len(invoked) + 1
      /\ \A n \in 1 .. Len(invoked) : invoked'[n] = invoked[n]
      /\ invoked'[Len(invoked) + 1] = i
      /\ Len(invoked) \in Nat
  BY <1>1 DEF QueueTypes
<1>4. \A n \in 1 .. Len(invoked) : invoked[n] # i
  BY <1>1 DEF ToSet, QueueTypes
<1>5. QueueIsHistory'
  <2>1. invokings' = invoked'
    BY <1>1 DEF QueueIsHistory
  <2>2. ASSUME NEW m \in 1 .. Len(invoked'), NEW n \in 1 .. Len(invoked'),
               invoked'[m] = invoked'[n]
        PROVE  m = n
    BY <1>1, <1>3, <1>4, <2>2 DEF QueueIsHistory
  <2> QED
    BY <2>1, <2>2 DEF QueueIsHistory
<1>6. RanFirst'
  BY <1>1, <1>3 DEF RanFirst, QueueTypes
<1>7. Window'
  <2>1. PICK k \in Nat : WindowAt(k)
    BY DEF IInv, Window
  <2>2. WindowAt(k)'
    BY <1>1, <1>3, <2>1 DEF WindowAt, QueueTypes
  <2> QED
    BY <2>2 DEF Window
<1> QED
  BY <1>2, <1>5, <1>6, <1>7 DEF IInv

LEMMA CopyStep == IInv /\ CopyInvokings => IInv'
<1> SUFFICES ASSUME IInv, CopyInvokings
             PROVE  IInv'
  OBVIOUS
<1>1. /\ invokes' = invoked
      /\ UNCHANGED <<invokings, invoked, ran>>
  BY DEF IInv, QueueIsHistory, CopyInvokings, history
<1>2. QueueTypes' /\ QueueIsHistory' /\ RanFirst'
  BY <1>1 DEF IInv, QueueTypes, QueueIsHistory, RanFirst
<1>3. WindowAt(0)'
  BY <1>1 DEF IInv, QueueTypes, WindowAt
<1> QED
  BY <1>2, <1>3 DEF IInv, Window

LEMMA RunStep == IInv /\ RunInvoke => IInv'
<1> SUFFICES ASSUME IInv, RunInvoke
             PROVE  IInv'
  OBVIOUS
<1> DEFINE head == Head(invokes)
<1>1. /\ QueueTypes
      /\ QueueIsHistory
      /\ RanFirst
  BY DEF IInv
<1>2. PICK k \in Nat : WindowAt(k)
  BY DEF IInv, Window
<1>3. /\ UNCHANGED <<invokings, invoked>>
      /\ invokes # <<>>
      /\ invokes' = Tail(invokes)
      /\ ran' = IF head \in ToSet(ran) THEN ran ELSE Append(ran, head)
  BY DEF RunInvoke
<1>4. /\ Len(invokes) \in Nat \ {0}
      /\ Len(invokes') = Len(invokes) - 1
      /\ \A n \in 1 .. Len(invokes') : invokes'[n] = invokes[n + 1]
      /\ head = invokes[1]
      /\ head \in Invocations
      /\ invokes' \in Seq(Invocations)
  BY <1>1, <1>3 DEF QueueTypes
<1>5. /\ Len(ran) \in Nat /\ Len(invoked) \in Nat
      /\ k + 1 <= Len(invoked)
      /\ head = invoked[k + 1]
  BY <1>1, <1>2, <1>4 DEF WindowAt, QueueTypes
<1>6. /\ ran' \in Seq(Invocations)
      /\ k + 1 <= Len(ran')
      /\ RanFirst'
  <2>1. CASE k < Len(ran)
    <3>1. ran[k + 1] = head
      BY <1>1, <1>5, <2>1 DEF RanFirst
    <3>2. head \in ToSet(ran)
      BY <1>1, <1>5, <2>1, <3>1 DEF ToSet, QueueTypes
    <3> QED
      BY <1>1, <1>3, <1>5, <2>1, <3>2 DEF RanFirst, QueueTypes
  <2>2. CASE k = Len(ran)
    <3>1. \A n \in 1 .. Len(ran) : ran[n] # head
      BY <1>1, <1>5, <2>2 DEF RanFirst, QueueIsHistory
    <3>2. head \notin ToSet(ran)
      BY <1>1, <3>1 DEF ToSet, QueueTypes
    <3>3. ran' = Append(ran, head)
      BY <1>3, <3>2
    <3>4. /\ Len(ran') = Len(ran) + 1
          /\ ran'[Len(ran) + 1] = head
          /\ \A n \in 1 .. Len(ran) : ran'[n] = ran[n]
          /\ ran' \in Seq(Invocations)
      BY <1>1, <1>4, <3>3 DEF QueueTypes
    <3> QED
      BY <1>1, <1>3, <1>5, <2>2, <3>4 DEF RanFirst
  <2> QED
    BY <1>2, <1>5, <2>1, <2>2 DEF WindowAt
<1>7. WindowAt(k + 1)'
  BY <1>2, <1>3, <1>4, <1>5, <1>6 DEF WindowAt
<1>8. QueueTypes' /\ QueueIsHistory'
  BY <1>1, <1>3, <1>4, <1>6 DEF QueueTypes, QueueIsHistory
<1> QED
  BY <1>6, <1>7, <1>8 DEF IInv, Window

LEMMA NextIInv == IInv /\ [Next]_vars => IInv'
<1> SUFFICES ASSUME IInv, [Next]_vars
             PROVE  IInv'
  OBVIOUS
<1> USE DEF queueVars, loopVars, timerVars, updateVars, history
<1>1. ASSUME NEW i \in Invocations, TF_Invoke(i)
      PROVE  IInv'
  BY <1>1, InvokeStep
<1>2. CASE CopyInvokings
  BY <1>2, CopyStep
<1>3. CASE RunInvoke
  BY <1>3, RunStep
<1>4. CASE CheckRunning \/ CheckSignal \/ Collect
  BY <1>4, QueueUnchanged DEF CheckRunning, CheckSignal, Collect
<1>5. CASE CallTimer \/ TimerReturns \/ SleepOne
  BY <1>5, QueueUnchanged DEF CallTimer, TimerReturns, SleepOne
<1>6. CASE TF_Quit \/ _sigInt \/ Tick \/ UNCHANGED vars
  BY <1>6, QueueUnchanged DEF TF_Quit, _sigInt, Tick, vars
<1>10. ASSUME NEW on \in BOOLEAN, TF_SetIsRunning(on)
       PROVE  IInv'
  BY <1>10, QueueUnchanged DEF TF_SetIsRunning
<1>7. ASSUME NEW t \in Timers, Build(t) \/ Release(t)
      PROVE  IInv'
  BY <1>7, QueueUnchanged
     DEF Build, Make, BuildCallback, BuildInterval, Release
<1>8. ASSUME NEW t \in Timers, NEW on \in BOOLEAN, SetEnabled(t, on)
      PROVE  IInv'
  BY <1>8, QueueUnchanged DEF SetEnabled
<1>9. ASSUME NEW t \in Timers, NEW ms \in Intervals, SetInterval(t, ms)
      PROVE  IInv'
  BY <1>9, QueueUnchanged DEF SetInterval
<1> QED
  BY <1>1, <1>2, <1>3, <1>4, <1>5, <1>6, <1>7, <1>8, <1>9, <1>10
     DEF Next, Loop, Others, Ended

LEMMA IInvImpliesOrder == IInv => InvokeOrder
<1> SUFFICES ASSUME IInv
             PROVE  InvokeOrder
  OBVIOUS
<1>1. /\ ran \in Seq(Invocations)
      /\ invoked \in Seq(Invocations)
      /\ Len(ran) <= Len(invoked)
      /\ \A i \in 1 .. Len(ran) : ran[i] = invoked[i]
  BY DEF IInv, QueueTypes, RanFirst
<1>2. SubSeq(ran, 1, Len(ran)) = SubSeq(invoked, 1, Len(ran))
  BY <1>1
<1> QED
  BY <1>1, <1>2 DEF InvokeOrder, IsPrefix

(* Whatever the threads, the callbacks and the timers do, invocations run  *)
(* for the first time in the order in which they were given to TF_Invoke,  *)
(* although the loop runs the whole queue again in every round.            *)
THEOREM InvokeOrderCorrect == Spec => []InvokeOrder
<1>1. Init => IInv
  BY InitIInv
<1>2. IInv /\ [Next]_vars => IInv'
  BY NextIInv
<1>3. IInv => InvokeOrder
  BY IInvImpliesOrder
<1> QED
  BY <1>1, <1>2, <1>3, PTL DEF Spec

-----------------------------------------------------------------------------
(* The timers.  Only, a recursive function, takes from a list of different *)
(* timers those in S.                                                      *)
LEMMA OnlyIs ==
  ASSUME NEW T, NEW list \in Seq(T), NEW S, Distinct(list)
  PROVE  /\ Only(list, S) \in Seq(T) /\ Distinct(Only(list, S))
         /\ Range(Only(list, S)) = Range(list) \cap S
<1> DEFINE N == Len(list)
           Q == Seq(T)
           Next1(q, e) == IF e \in S THEN Append(q, e) ELSE q
           step == [q \in Q |-> [k \in 1 .. N |-> Next1(q, list[k])]]
           IsKept(f) == f = [k \in 0 .. N |-> IF k = 0 THEN <<>>
                               ELSE IF list[k] \in S THEN Append(f[k - 1], list[k])
                               ELSE f[k - 1]]
           kept == CHOOSE f : IsKept(f)
<1>1. N \in Nat /\ DOMAIN list = 1 .. N /\ \A k \in 1 .. N : list[k] \in T
  BY LenProperties, ElementOfSeq
<1>2. \A q \in Q : \A e \in T : Next1(q, e) \in Q
  BY AppendProperties
<1>3. step \in [Q -> [1 .. N -> Q]]
  <2> HIDE DEF Next1, Q, N
  <2> QED BY <1>1, <1>2
<1>4. \A q \in Q : \A k \in 1 .. N : step[q][k] = Next1(q, list[k])
  <2> HIDE DEF Next1, Q, N
  <2> QED OBVIOUS
<1>5. <<>> \in Q
  BY EmptySeq
<1> HIDE DEF step
<1>6. PICK f \in [0 .. N -> Q] : Recurs(f, <<>>, N, step)
  <2> HIDE DEF Q, N, IsKept, kept, Next1
  <2> QED BY <1>1, <1>3, <1>5, Recursion
<1>7. IsKept(f)
  <2>1. ASSUME NEW k \in 0 .. N, k # 0
        PROVE  step[f[k - 1]][k] = IF list[k] \in S THEN Append(f[k - 1], list[k]) ELSE f[k - 1]
    <3>1. k \in 1 .. N /\ k - 1 \in 0 .. N
      BY <1>1, <2>1
    <3>2. f[k - 1] \in Q
      BY <3>1
    <3> QED BY <1>4, <3>1, <3>2
  <2> QED BY <1>6, <2>1 DEF Recurs
<1>8. IsKept(kept)
  <2> HIDE DEF IsKept
  <2> QED BY <1>7
<1> HIDE DEF kept
<1>9. kept[0] = <<>> /\ \A k \in 1 .. N : kept[k] = Next1(kept[k - 1], list[k])
  <2>1. 0 \in 0 .. N /\ \A k \in 1 .. N : k \in 0 .. N /\ k # 0
    BY <1>1
  <2> HIDE DEF N
  <2> QED BY <1>8, <2>1
<1> DEFINE Before(k) == {list[i] : i \in 1 .. k} \cap S
           Good(k) == kept[k] \in Q /\ Distinct(kept[k]) /\ Range(kept[k]) = Before(k)
           G == {k \in Nat : k <= N => Good(k)}
<1>10. 0 \in G
  <2>1. Before(0) = {}
    OBVIOUS
  <2> HIDE DEF Before
  <2>2. Good(0)
    BY <1>5, <1>9, <2>1, EmptyQueue
  <2> QED BY <2>2
<1>11. ASSUME NEW k \in Nat, k \in G PROVE k + 1 \in G
  <2> SUFFICES ASSUME k + 1 <= N PROVE Good(k + 1)
    OBVIOUS
  <2>1. Good(k)
    BY <1>1, <1>11
  <2>2. k + 1 \in 1 .. N /\ (k + 1) - 1 = k
    BY <1>1
  <2> DEFINE e == list[k + 1]
  <2>3. e \in T /\ kept[k + 1] = Next1(kept[k], e)
    BY <1>1, <1>9, <2>2
  <2>4. Before(k + 1) = IF e \in S THEN Before(k) \cup {e} ELSE Before(k)
    <3>1. 1 .. k + 1 = (1 .. k) \cup {k + 1}
      OBVIOUS
    <3> QED BY <3>1
  <2>5. e \notin Before(k)
    <3>1. \A i \in 1 .. k : i \in 1 .. N /\ i # k + 1
      BY <1>1
    <3> QED BY <1>1, <2>2, <3>1 DEF Distinct
  <2> HIDE DEF e, Before
  <2>6. CASE e \in S
    <3>1. kept[k + 1] = Append(kept[k], e)
      BY <2>3, <2>6
    <3>2. kept[k] \in Seq(T) /\ Distinct(kept[k]) /\ e \notin Range(kept[k])
      BY <2>1, <2>5
    <3>3. /\ Append(kept[k], e) \in Q /\ Distinct(Append(kept[k], e))
          /\ Range(Append(kept[k], e)) = Range(kept[k]) \cup {e}
      BY <2>3, <3>2, AppendProperties, DistinctAppend, RangeAppend
    <3> QED BY <2>1, <2>4, <2>6, <3>1, <3>3
  <2>7. CASE e \notin S
    <3>1. kept[k + 1] = kept[k]
      BY <2>3, <2>7
    <3> QED BY <2>1, <2>4, <2>7, <3>1
  <2> QED BY <2>6, <2>7
<1> HIDE DEF G
<1>12. N \in G
  BY <1>1, <1>10, <1>11, SetInduction
<1>13. Good(N)
  BY <1>1, <1>12 DEF G
<1>14. Only(list, S) = kept[N]
  BY DEF Only, kept
<1>15. Before(N) = Range(list) \cap S
  BY <1>1 DEF Range
<1> QED BY <1>13, <1>14, <1>15

(* Every timer that somebody holds is in the list of handles once, and     *)
(* none that was never made.                                               *)
Handles ==
  /\ Distinct(handles)
  /\ \A t \in Timers : Alive(t) => t \in Range(handles)
  /\ \A t \in Range(handles) : built[t] # "none"

(* A timer that Update found due waits in cbs once, and has not been       *)
(* called since it was switched off; one that is on owes nothing, since    *)
(* the call that is counted is one after it was switched off.              *)
Calls ==
  /\ Distinct(cbs)
  /\ \A t \in Range(cbs) : built[t] # "none" /\ owed[t] = 0
  /\ \A t \in Timers : /\ owed[t] \in 0 .. 1
                       /\ built[t] = "none" \/ (Alive(t) /\ enabled[t]) => owed[t] = 0

(* The inductive invariant of the timers.                                  *)
TimersIInv == TypeOK /\ Handles /\ Calls

(* It is more than Inv.                                                    *)
LEMMA TimersImply == TimersIInv => Inv
<1>1. \A s : ToSet(s) = Range(s)
  BY DEF ToSet, Range
<1> QED BY <1>1 DEF TimersIInv, Handles, Calls, Inv, HandlesComplete, OneCallAfterOff,
           IsInjective, Distinct

LEMMA TimersInit == Init => TimersIInv
<1> SUFFICES ASSUME Init PROVE TimersIInv
  OBVIOUS
<1>1. TypeOK
  <2>1. /\ invokings \in Seq(Invocations) /\ invokes \in Seq(Invocations)
        /\ handles \in Seq(Timers) /\ cbs \in Seq(Timers)
        /\ invoked \in Seq(Invocations) /\ ran \in Seq(Invocations)
    BY DEF Init
  <2>2. MaxAge \in 0 .. MaxAge /\ 0 \in 0 .. MaxAge
    BY IntervalsAssumption
  <2> QED BY <2>1, <2>2 DEF Init, TypeOK
<1>2. Handles /\ Calls
  BY EmptyQueue DEF Init, Handles, Calls, Alive
<1> QED BY <1>1, <1>2 DEF TimersIInv

(* What is listed is a timer.                                              *)
LEMMA ListedTimers ==
  ASSUME TypeOK
  PROVE  Range(handles) \subseteq Timers /\ Range(cbs) \subseteq Timers
<1>1. ASSUME NEW s \in Seq(Timers) PROVE Range(s) \subseteq Timers
  <2>1. DOMAIN s = 1 .. Len(s) /\ \A i \in 1 .. Len(s) : s[i] \in Timers
    BY LenProperties, ElementOfSeq
  <2> QED BY <2>1 DEF Range
<1> QED BY <1>1 DEF TypeOK

(* The steps that leave handles and what is due alone.                     *)
LEMMA TimersSame ==
  ASSUME TimersIInv, UNCHANGED <<handles, built, cbs, enabled, owed>>, TypeOK'
  PROVE  TimersIInv'
BY DEF TimersIInv, Handles, Calls, Alive

(* Time does not pass what MaxAge can tell.                                *)
LEMMA PlusIs ==
  ASSUME NEW x \in 0 .. MaxAge, NEW y \in 0 .. MaxAge
  PROVE  Plus(x, y) \in 0 .. MaxAge
BY IntervalsAssumption DEF Plus

(* The steps that are not about timers.                                    *)
LEMMA OtherSteps ==
  ASSUME TimersIInv,
         \/ \E i \in Invocations : TF_Invoke(i)
         \/ \E on \in BOOLEAN : TF_SetIsRunning(on)
         \/ TF_Quit \/ _sigInt \/ CheckRunning \/ CopyInvokings \/ RunInvoke
         \/ CheckSignal \/ UNCHANGED vars
  PROVE  TimersIInv'
<1>1. UNCHANGED <<handles, built, cbSet, interval, enabled, age, cbs, calling, owed>>
  BY DEF TF_Invoke, TF_Quit, TF_SetIsRunning, _sigInt, CheckRunning, CopyInvokings, RunInvoke,
         CheckSignal, vars, loopVars, timerVars, updateVars, history
<1>2. /\ isRunningSig' \in BOOLEAN /\ isRunning' \in BOOLEAN
      /\ loop' \in {"check", "copy", "invoke", "collect", "call", "ended"}
      /\ lag' \in 0 .. MaxAge
  <2>1. /\ isRunningSig \in BOOLEAN /\ isRunning \in BOOLEAN
        /\ loop \in {"check", "copy", "invoke", "collect", "call", "ended"}
        /\ lag \in 0 .. MaxAge /\ 0 \in 0 .. MaxAge
    BY IntervalsAssumption DEF TimersIInv, TypeOK
  <2>2. lag' \in {lag, 0}
    BY DEF TF_Invoke, TF_Quit, TF_SetIsRunning, _sigInt, CheckRunning, CopyInvokings, RunInvoke,
           CheckSignal, vars, updateVars
  <2>3. isRunningSig' \in {isRunningSig, FALSE}
    BY DEF TF_Invoke, TF_Quit, TF_SetIsRunning, _sigInt, CheckRunning, CopyInvokings, RunInvoke,
           CheckSignal, vars, loopVars
  <2>4. isRunning' \in {isRunning, TRUE, FALSE, isRunning /\ isRunningSig}
    BY DEF TF_Invoke, TF_Quit, TF_SetIsRunning, _sigInt, CheckRunning, CopyInvokings, RunInvoke,
           CheckSignal, vars, loopVars
  <2>5. loop' \in {loop, "copy", "ended", "invoke", "collect"}
    BY DEF TF_Invoke, TF_Quit, TF_SetIsRunning, _sigInt, CheckRunning, CopyInvokings, RunInvoke,
           CheckSignal, vars, loopVars
  <2> QED BY <2>1, <2>2, <2>3, <2>4, <2>5
<1>3. /\ invokings' \in Seq(Invocations) /\ invokes' \in Seq(Invocations)
      /\ invoked' \in Seq(Invocations) /\ ran' \in Seq(Invocations)
  <2>0. /\ invokings \in Seq(Invocations) /\ invokes \in Seq(Invocations)
        /\ invoked \in Seq(Invocations) /\ ran \in Seq(Invocations)
    BY DEF TimersIInv, TypeOK
  <2> DEFINE Goal == /\ invokings' \in Seq(Invocations) /\ invokes' \in Seq(Invocations)
                     /\ invoked' \in Seq(Invocations) /\ ran' \in Seq(Invocations)
  <2>1. ASSUME NEW i \in Invocations, TF_Invoke(i) PROVE Goal
    <3>1. /\ invokings' = Append(invokings, i) /\ invoked' = Append(invoked, i)
          /\ UNCHANGED <<invokes, ran>>
      BY <2>1 DEF TF_Invoke
    <3> QED BY <2>0, <3>1, AppendProperties
  <2>2. CASE RunInvoke
    <3>1. invokes # <<>> /\ invokes' = Tail(invokes) /\ UNCHANGED <<invokings, invoked>>
          /\ ran' \in {ran, Append(ran, Head(invokes))}
      BY <2>2 DEF RunInvoke
    <3>2. Tail(invokes) \in Seq(Invocations) /\ Head(invokes) \in Invocations
      BY <2>0, <3>1, HeadTailProperties
    <3>3. Append(ran, Head(invokes)) \in Seq(Invocations)
      BY <2>0, <3>2, AppendProperties
    <3> QED BY <2>0, <3>1, <3>2, <3>3
  <2>3. CASE CopyInvokings
    BY <2>0, <2>3 DEF CopyInvokings, history
  <2>4. CASE \/ \E on \in BOOLEAN : TF_SetIsRunning(on)
             \/ TF_Quit \/ _sigInt \/ CheckRunning \/ CheckSignal \/ UNCHANGED vars
    <3>1. UNCHANGED <<invokings, invoked, ran>> /\ invokes' \in {invokes}
      BY <2>4 DEF TF_Quit, TF_SetIsRunning, _sigInt, CheckRunning, CheckSignal, vars, loopVars, history
    <3> QED BY <2>0, <3>1
  <2> QED BY <2>1, <2>2, <2>3, <2>4
<1>4. TypeOK'
  BY <1>1, <1>2, <1>3 DEF TimersIInv, TypeOK
<1> QED BY <1>1, <1>4, TimersSame

(* The construction of a timer, and the calls of who holds it.             *)
LEMMA BuildSteps ==
  ASSUME TimersIInv, NEW t \in Timers,
         \/ Build(t) \/ Release(t)
         \/ \E on \in BOOLEAN : SetEnabled(t, on)
         \/ \E ms \in Intervals : SetInterval(t, ms)
  PROVE  TimersIInv'
<1>0. TypeOK /\ Handles /\ Calls /\ Intervals \subseteq 0 .. MaxAge
  BY IntervalsAssumption DEF TimersIInv
<1>1. CASE Make(t)
  <2>1. /\ built[t] = "none" /\ handles' = Append(handles, t)
        /\ built' = [built EXCEPT ![t] = "made"]
        /\ UNCHANGED <<loopVars, cbSet, age, updateVars, history>>
    BY <1>1 DEF Make
  <2>2. PICK ms \in Intervals : interval' = [interval EXCEPT ![t] = ms]
    BY <1>1 DEF Make
  <2>3. PICK on \in BOOLEAN : enabled' = [enabled EXCEPT ![t] = on]
    BY <1>1 DEF Make
  <2>4. handles \in Seq(Timers) /\ t \notin Range(handles)
    BY <1>0, <2>1 DEF TypeOK, Handles
  <2>5. handles' \in Seq(Timers) /\ Distinct(handles') /\ Range(handles') = Range(handles) \cup {t}
    BY <1>0, <2>1, <2>4, AppendProperties, RangeAppend, DistinctAppend DEF Handles
  <2>6. TypeOK'
    BY <1>0, <2>1, <2>2, <2>3, <2>5 DEF TypeOK, loopVars, updateVars, history
  <2>7. \A s \in Timers : built'[s] = IF s = t THEN "made" ELSE built[s]
    BY <1>0, <2>1 DEF TypeOK
  <2>8. \A s \in Timers : s # t => enabled'[s] = enabled[s]
    BY <1>0, <2>3 DEF TypeOK
  <2>9. owed[t] = 0 /\ UNCHANGED <<cbs, owed>>
    BY <1>0, <2>1 DEF Calls, updateVars, history
  <2>10. Range(handles) \subseteq Timers /\ Range(cbs) \subseteq Timers
    BY <1>0, ListedTimers
  <2>11. Handles'
    BY <1>0, <2>5, <2>7, <2>10 DEF Handles, Alive
  <2>12. Calls'
    BY <1>0, <2>7, <2>8, <2>9, <2>10 DEF Calls, Alive
  <2> QED BY <2>6, <2>11, <2>12 DEF TimersIInv
<1>2. CASE BuildCallback(t)
  <2>1. /\ built[t] = "made" /\ built' = [built EXCEPT ![t] = "cb"]
        /\ cbSet' = [cbSet EXCEPT ![t] = TRUE]
        /\ UNCHANGED <<loopVars, handles, interval, enabled, age, updateVars, history>>
    BY <1>2 DEF BuildCallback
  <2>2. TypeOK'
    BY <1>0, <2>1 DEF TypeOK, loopVars, updateVars, history
  <2>3. \A s \in Timers : built'[s] = IF s = t THEN "cb" ELSE built[s]
    BY <1>0, <2>1 DEF TypeOK
  <2>4. Range(handles) \subseteq Timers /\ Range(cbs) \subseteq Timers
    BY <1>0, ListedTimers
  <2>5. UNCHANGED <<handles, cbs, enabled, owed>>
    BY <2>1 DEF updateVars, history
  <2>6. Handles' /\ Calls'
    BY <1>0, <2>1, <2>3, <2>4, <2>5 DEF Handles, Calls, Alive
  <2> QED BY <2>2, <2>6 DEF TimersIInv
<1>3. ASSUME NEW ms \in Intervals, BuildInterval(t, ms) PROVE TimersIInv'
  <2>1. /\ built[t] = "cb" /\ built' = [built EXCEPT ![t] = "interval"]
        /\ interval' = [interval EXCEPT ![t] = ms]
        /\ UNCHANGED <<loopVars, handles, cbSet, enabled, age, updateVars, history>>
    BY <1>3 DEF BuildInterval
  <2>2. TypeOK'
    BY <1>0, <2>1 DEF TypeOK, loopVars, updateVars, history
  <2>3. \A s \in Timers : built'[s] = IF s = t THEN "interval" ELSE built[s]
    BY <1>0, <2>1 DEF TypeOK
  <2>4. Range(handles) \subseteq Timers /\ Range(cbs) \subseteq Timers
    BY <1>0, ListedTimers
  <2>5. UNCHANGED <<handles, cbs, enabled, owed>>
    BY <2>1 DEF updateVars, history
  <2>6. Handles' /\ Calls'
    BY <1>0, <2>1, <2>3, <2>4, <2>5 DEF Handles, Calls, Alive
  <2> QED BY <2>2, <2>6 DEF TimersIInv
<1>4. ASSUME NEW on \in BOOLEAN, SetEnabled(t, on) PROVE TimersIInv'
  <2>1. /\ built[t] \in {"interval", "ready"} /\ built' = [built EXCEPT ![t] = "ready"]
        /\ enabled' = [enabled EXCEPT ![t] = on] /\ owed' = [owed EXCEPT ![t] = 0]
        /\ UNCHANGED <<loopVars, handles, cbSet, interval, age, updateVars, invoked, ran>>
    BY <1>4 DEF SetEnabled
  <2>2. TypeOK'
    BY <1>0, <2>1 DEF TypeOK, loopVars, updateVars
  <2>3. \A s \in Timers : /\ built'[s] = IF s = t THEN "ready" ELSE built[s]
                          /\ enabled'[s] = IF s = t THEN on ELSE enabled[s]
                          /\ owed'[s] = IF s = t THEN 0 ELSE owed[s]
    BY <1>0, <2>1 DEF TypeOK
  <2>4. Range(handles) \subseteq Timers /\ Range(cbs) \subseteq Timers
    BY <1>0, ListedTimers
  <2>5. UNCHANGED <<handles, cbs>>
    BY <2>1 DEF updateVars
  <2>6. Handles' /\ Calls'
    BY <1>0, <2>1, <2>3, <2>4, <2>5 DEF Handles, Calls, Alive
  <2> QED BY <2>2, <2>6 DEF TimersIInv
<1>5. CASE Release(t)
  <2>1. /\ built[t] = "ready" /\ built' = [built EXCEPT ![t] = "released"]
        /\ owed' = [owed EXCEPT ![t] = 0]
        /\ UNCHANGED <<loopVars, handles, cbSet, interval, enabled, age, updateVars, invoked, ran>>
    BY <1>5 DEF Release
  <2>2. TypeOK'
    BY <1>0, <2>1 DEF TypeOK, loopVars, updateVars
  <2>3. \A s \in Timers : /\ built'[s] = IF s = t THEN "released" ELSE built[s]
                          /\ owed'[s] = IF s = t THEN 0 ELSE owed[s]
    BY <1>0, <2>1 DEF TypeOK
  <2>4. Range(handles) \subseteq Timers /\ Range(cbs) \subseteq Timers
    BY <1>0, ListedTimers
  <2>5. UNCHANGED <<handles, cbs, enabled>>
    BY <2>1 DEF updateVars
  <2>6. Handles' /\ Calls'
    BY <1>0, <2>1, <2>3, <2>4, <2>5 DEF Handles, Calls, Alive
  <2> QED BY <2>2, <2>6 DEF TimersIInv
<1>6. ASSUME NEW ms \in Intervals, SetInterval(t, ms) PROVE TimersIInv'
  <2>1. /\ interval' = [interval EXCEPT ![t] = ms]
        /\ UNCHANGED <<loopVars, handles, built, cbSet, enabled, age, updateVars, history>>
    BY <1>6 DEF SetInterval
  <2>2. TypeOK'
    BY <1>0, <2>1 DEF TypeOK, loopVars, updateVars, history
  <2> QED BY <2>1, <2>2, TimersSame DEF updateVars, history
<1> QED BY <1>1, <1>2, <1>3, <1>4, <1>5, <1>6 DEF Build

(* Time passes, in the loop and outside.                                   *)
LEMMA TimeSteps ==
  ASSUME TimersIInv, Tick \/ SleepOne
  PROVE  TimersIInv'
<1>0. TypeOK
  BY DEF TimersIInv
<1>1. ASSUME NEW x \in 0 .. MaxAge PROVE Plus(x, 1) \in 0 .. MaxAge
  BY IntervalsAssumption DEF Plus
<1>2. [t \in Timers |-> Plus(age[t], 1)] \in [Timers -> 0 .. MaxAge]
  <2>1. \A t \in Timers : age[t] \in 0 .. MaxAge
    BY <1>0 DEF TypeOK
  <2> QED BY <1>1, <2>1
<1>3. lag' \in 0 .. MaxAge /\ age' \in [Timers -> 0 .. MaxAge]
  <2>1. lag \in 0 .. MaxAge /\ age \in [Timers -> 0 .. MaxAge] /\ MaxAge \in Nat
    BY <1>0, IntervalsAssumption DEF TypeOK
  <2>2. age' \in {age, [t \in Timers |-> Plus(age[t], 1)]}
    BY DEF Tick, SleepOne
  <2>3. (lag' = lag) \/ (lag < MaxAge /\ lag' = lag + 1)
    BY DEF Tick, SleepOne, updateVars
  <2> QED BY <1>2, <2>1, <2>2, <2>3
<1>4. /\ UNCHANGED <<isRunningSig, isRunning, invokings, invokes, handles, built, cbSet,
                     interval, enabled, cbs, calling, invoked, ran, owed>>
      /\ loop' \in {loop, "check"}
  BY DEF Tick, SleepOne, loopVars, updateVars, history
<1>5. TypeOK'
  BY <1>0, <1>3, <1>4 DEF TypeOK
<1> QED BY <1>4, <1>5, TimersSame

(* Update: every handle that is held is kept, and what is due owes         *)
(* nothing.                                                                *)
LEMMA CollectStep ==
  ASSUME TimersIInv, Collect
  PROVE  TimersIInv'
<1> DEFINE K == {t \in Timers : Kept(t)}
           D == {t \in Timers : Due(t)}
<1>0. TypeOK /\ Handles /\ Calls
  BY DEF TimersIInv
<1>1. /\ handles' = Only(handles, K) /\ cbs' = Only(handles, D)
      /\ age' = [t \in Timers |-> IF t \in ToSet(cbs') THEN lag ELSE Plus(age[t], lag)]
      /\ lag' = 0 /\ loop' = "call"
      /\ UNCHANGED <<isRunningSig, isRunning, invokings, invokes, built, cbSet,
                     interval, enabled, calling, history>>
  BY DEF Collect
<1>2. handles \in Seq(Timers) /\ Distinct(handles)
  BY <1>0 DEF TypeOK, Handles
<1>3. /\ handles' \in Seq(Timers) /\ Distinct(handles') /\ Range(handles') = Range(handles) \cap K
      /\ cbs' \in Seq(Timers) /\ Distinct(cbs') /\ Range(cbs') = Range(handles) \cap D
  <2> HIDE DEF K, D
  <2> QED BY <1>1, <1>2, OnlyIs
<1>4. age' \in [Timers -> 0 .. MaxAge] /\ lag' \in 0 .. MaxAge
  <2>1. \A t \in Timers : age[t] \in 0 .. MaxAge /\ lag \in 0 .. MaxAge
    BY <1>0 DEF TypeOK
  <2>2. \A t \in Timers : Plus(age[t], lag) \in 0 .. MaxAge
    BY <2>1, PlusIs
  <2>3. 0 \in 0 .. MaxAge
    BY IntervalsAssumption
  <2> QED BY <1>1, <2>1, <2>2, <2>3
<1>5. TypeOK'
  BY <1>0, <1>1, <1>3, <1>4 DEF TypeOK, history
<1>6. Handles'
  BY <1>0, <1>1, <1>3 DEF Handles, Kept, Alive
<1>7. Calls'
  BY <1>0, <1>1, <1>3 DEF Calls, Handles, Due, Alive, history
<1> QED BY <1>5, <1>6, <1>7 DEF TimersIInv

(* A timer is called, and owes that call if it was switched off meanwhile. *)
LEMMA CallStep ==
  ASSUME TimersIInv, CallTimer \/ TimerReturns
  PROVE  TimersIInv'
<1>0. TypeOK /\ Handles /\ Calls
  BY DEF TimersIInv
<1>1. CASE TimerReturns
  <2>1. /\ calling' = NoTimer /\ UNCHANGED <<loopVars, timerVars, lag, cbs, history>>
    BY <1>1 DEF TimerReturns
  <2>2. TypeOK'
    BY <1>0, <2>1 DEF TypeOK, loopVars, timerVars, history
  <2> QED BY <2>1, <2>2, TimersSame DEF timerVars, history
<1>2. CASE CallTimer
  <2> DEFINE h == Head(cbs)
  <2>1. /\ cbs # <<>> /\ calling' = h /\ cbs' = Tail(cbs)
        /\ owed' = IF enabled[h] /\ Alive(h) THEN owed ELSE [owed EXCEPT ![h] = @ + 1]
        /\ UNCHANGED <<loopVars, timerVars, lag, invoked, ran>>
    BY <1>2 DEF CallTimer
  <2>2. cbs \in Seq(Timers) /\ Distinct(cbs)
    BY <1>0 DEF TypeOK, Calls
  <2>3. /\ Tail(cbs) \in Seq(Timers) /\ h \in Timers /\ Distinct(Tail(cbs))
        /\ h \notin Range(Tail(cbs)) /\ Range(cbs) = {h} \cup Range(Tail(cbs))
    BY <2>1, <2>2, DistinctTail
  <2> HIDE DEF h
  <2>4. owed[h] = 0 /\ owed \in [Timers -> Nat]
    BY <1>0, <2>3 DEF Calls, TypeOK
  <2>5. /\ owed' \in [Timers -> Nat]
        /\ \A t \in Timers : t # h => owed'[t] = owed[t]
        /\ owed'[h] \in 0 .. 1 /\ (enabled[h] /\ Alive(h) => owed'[h] = 0)
    BY <2>1, <2>3, <2>4
  <2>6. TypeOK'
    BY <1>0, <2>1, <2>3, <2>5 DEF TypeOK, loopVars, timerVars
  <2>7. Handles'
    BY <1>0, <2>1 DEF Handles, Alive, timerVars
  <2>8. UNCHANGED <<built, enabled>> /\ built[h] # "none" /\ Range(cbs) \subseteq Timers
    <3>1. Range(cbs) \subseteq Timers
      BY <2>2 DEF Range
    <3> QED BY <1>0, <2>1, <2>3, <3>1 DEF timerVars, Calls
  <2>9. Calls'
    BY <1>0, <2>1, <2>3, <2>5, <2>8 DEF Calls, Alive
  <2> QED BY <2>6, <2>7, <2>9 DEF TimersIInv
<1> QED BY <1>1, <1>2

(* The handler keeps exactly the handles somebody holds, and a timer that  *)
(* was switched off or released is called once more at most, for any       *)
(* number of timers, intervals and threads that change them while the loop *)
(* is in the middle of a round (TF_Init.cpp:155-255).                      *)
THEOREM TimersCorrect == Spec => []Inv
<1>1. TimersIInv /\ [Next]_vars => TimersIInv'
  <2> SUFFICES ASSUME TimersIInv, [Next]_vars PROVE TimersIInv'
    OBVIOUS
  <2>1. CASE \/ \E i \in Invocations : TF_Invoke(i)
             \/ \E on \in BOOLEAN : TF_SetIsRunning(on)
             \/ TF_Quit \/ _sigInt \/ CheckRunning \/ CopyInvokings \/ RunInvoke
             \/ CheckSignal \/ UNCHANGED vars
    BY <2>1, OtherSteps
  <2>2. CASE \E t \in Timers : \/ Build(t) \/ Release(t)
                               \/ \E on \in BOOLEAN : SetEnabled(t, on)
                               \/ \E ms \in Intervals : SetInterval(t, ms)
    BY <2>2, BuildSteps
  <2>3. CASE Tick \/ SleepOne
    BY <2>3, TimeSteps
  <2>4. CASE Collect
    BY <2>4, CollectStep
  <2>5. CASE CallTimer \/ TimerReturns
    BY <2>5, CallStep
  <2>6. CASE Next
    BY <2>1, <2>2, <2>3, <2>4, <2>5, <2>6 DEF Next, Loop, Others, Ended
  <2> QED BY <2>1, <2>6
<1> QED BY <1>1, TimersInit, TimersImply, PTL DEF Spec
=============================================================================
