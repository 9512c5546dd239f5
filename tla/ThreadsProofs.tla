--------------------------- MODULE ThreadsProofs ---------------------------
(***************************************************************************)
(* Theorems about the parts of MCThreads whose state is small and shared   *)
(* by several threads: the start of a thread, for any number of Thread     *)
(* objects that use the same memory one after another, and Lazy, for any   *)
(* number of threads and calls.  (EventLoopProofs has the event loop.)     *)
(***************************************************************************)
EXTENDS MCThreads, TLAPS

-----------------------------------------------------------------------------
(* ThreadStart                                                             *)
(* While the owner is between allocation and destruction the cell belongs  *)
(* to the current object; the owner gets past the spin, and so to the next *)
(* object, only when the thread is past its last access to the cell.       *)
Past(k) == child[k] \in {"ready", "run", "done"}

Handshake ==
  /\ owner # "idle" => live /\ fnField = current /\ current # None
  /\ \A k \in Objects : k > current => child[k] = "unborn"
  /\ \A k \in Objects : k < current => Past(k)
  /\ owner = "create" => child[current] = "unborn" /\ ~hasInvoked
  /\ owner = "spin" => (hasInvoked <=> Past(current))
  /\ owner \in {"own", "idle"} /\ current # None => Past(current)
  /\ \A k \in Objects : child[k] = "copied" \/ Past(k) => fn[k] = k

IInv == TypeOK /\ Handshake /\ CallsOwnFunction

LEMMA InitIInv == Init => IInv
<1> SUFFICES ASSUME Init PROVE IInv
  OBVIOUS
<1> USE NumObjectsAssumption DEF Init, Objects, None
<1>1. TypeOK
  BY DEF TypeOK
<1>2. Handshake
  BY DEF Handshake, Past
<1>3. CallsOwnFunction
  BY DEF CallsOwnFunction
<1> QED
  BY <1>1, <1>2, <1>3 DEF IInv

LEMMA OwnerIInv ==
  ASSUME IInv, Owner \/ DetachAndDestroy \/ JoinAndDestroy
  PROVE  IInv'
<1> USE NumObjectsAssumption DEF IInv, Objects, None
<1>1. CASE Allocate
  <2> USE <1>1 DEF Allocate
  <2>1. TypeOK'
    <3>1. current \in Nat /\ current + 1 \in 1 .. NumObjects
      BY DEF TypeOK
    <3> QED
      BY <3>1 DEF TypeOK
  <2>2. Handshake'
    BY DEF TypeOK, Handshake, Past
  <2>3. CallsOwnFunction'
    BY DEF TypeOK, Handshake, Past, CallsOwnFunction
  <2> QED
    BY <2>1, <2>2, <2>3
<1>2. CASE Create
  <2> USE <1>2 DEF Create
  <2>1. TypeOK'
    BY DEF TypeOK
  <2>2. Handshake'
    BY DEF TypeOK, Handshake, Past
  <2>3. CallsOwnFunction'
    BY DEF TypeOK, Handshake, Past, CallsOwnFunction
  <2> QED
    BY <2>1, <2>2, <2>3
<1>3. CASE ConstructorReturns
  <2> USE <1>3 DEF ConstructorReturns
  <2>1. TypeOK'
    BY DEF TypeOK
  <2>2. Handshake'
    BY DEF TypeOK, Handshake, Past
  <2>3. CallsOwnFunction'
    BY DEF TypeOK, Handshake, Past, CallsOwnFunction
  <2> QED
    BY <2>1, <2>2, <2>3
<1>4. CASE DetachAndDestroy \/ JoinAndDestroy
  <2> USE <1>4 DEF DetachAndDestroy, JoinAndDestroy
  <2>1. TypeOK'
    BY DEF TypeOK
  <2>2. Handshake'
    BY DEF TypeOK, Handshake, Past
  <2>3. CallsOwnFunction'
    BY DEF TypeOK, Handshake, Past, CallsOwnFunction
  <2> QED
    BY <2>1, <2>2, <2>3
<1> QED
  BY <1>1, <1>2, <1>3, <1>4 DEF Owner

LEMMA ChildIInv ==
  ASSUME IInv, NEW k \in Objects, Child(k)
  PROVE  IInv'
<1> USE NumObjectsAssumption DEF IInv, Objects, None
<1>1. CASE CopyFn(k)
  <2> USE <1>1 DEF CopyFn
  <2>1. TypeOK'
    BY DEF TypeOK
  <2>2. Handshake'
    BY DEF TypeOK, Handshake, Past
  <2>3. CallsOwnFunction'
    BY DEF TypeOK, Handshake, Past, CallsOwnFunction
  <2> QED
    BY <2>1, <2>2, <2>3
<1>2. CASE Signal(k)
  <2> USE <1>2 DEF Signal
  <2>1. TypeOK'
    BY DEF TypeOK
  <2>2. Handshake'
    BY DEF TypeOK, Handshake, Past
  <2>3. CallsOwnFunction'
    BY DEF TypeOK, Handshake, Past, CallsOwnFunction
  <2> QED
    BY <2>1, <2>2, <2>3
<1>3. CASE CallFn(k)
  <2> USE <1>3 DEF CallFn
  <2>1. TypeOK'
    <3>1. called[k] + fn[k] \in Nat
      <4>1. called[k] \in Nat /\ fn[k] \in Objects \cup {None}
        BY Zenon DEF TypeOK
      <4> QED
        BY <4>1
    <3>2. called' \in [Objects -> Nat]
      BY <3>1 DEF TypeOK
    <3> QED
      BY <3>2 DEF TypeOK
  <2>2. Handshake'
    BY DEF TypeOK, Handshake, Past
  <2>3. CallsOwnFunction'
    BY DEF TypeOK, Handshake, Past, CallsOwnFunction
  <2> QED
    BY <2>1, <2>2, <2>3
<1>4. CASE FnReturns(k)
  <2> USE <1>4 DEF FnReturns
  <2>1. TypeOK'
    BY DEF TypeOK
  <2>2. Handshake'
    BY DEF TypeOK, Handshake, Past
  <2>3. CallsOwnFunction'
    BY DEF TypeOK, Handshake, Past, CallsOwnFunction
  <2> QED
    BY <2>1, <2>2, <2>3
<1> QED
  BY <1>1, <1>2, <1>3, <1>4 DEF Child

LEMMA NextKeepsIInv == IInv /\ [Next]_vars => IInv'
<1>1. IInv /\ UNCHANGED vars => IInv'
  BY DEF vars, IInv, TypeOK, Handshake, Past, CallsOwnFunction
<1> QED
  BY <1>1, OwnerIInv, ChildIInv DEF Next, SpinsForEver, Finished

LEMMA IInvImpliesNoUseAfterFree == IInv => NoUseAfterFree
  BY DEF IInv, TypeOK, Handshake, Past, NoUseAfterFree, Objects, None

(* IInv holds in every reachable state.                                    *)
THEOREM Invariance == Spec => []IInv
  BY InitIInv, NextKeepsIInv, PTL DEF Spec

(* The state of the handshake is always well typed.                        *)
THEOREM TypeCorrect == Spec => []TypeOK
  BY Invariance, PTL DEF IInv

(* A started thread never touches memory that was freed or that belongs to *)
(* the next Thread object.                                                 *)
THEOREM NoUseAfterFreeCorrect == Spec => []NoUseAfterFree
  BY Invariance, IInvImpliesNoUseAfterFree, PTL

(* Every started thread calls the function it was constructed with, once.  *)
THEOREM CallsOwnFunctionCorrect == Spec => []CallsOwnFunction
  BY Invariance, PTL DEF IInv

-----------------------------------------------------------------------------
(* Lazy.  OneValue is not inductive: that only one initialiser runs rests  *)
(* on who holds the mutex, and on it being held from the check of hasInit  *)
(* to its assignment, which LazyIInv adds.                                 *)
LazyInside == {"check", "answer", "init"}       \* places under the mutex

LazyHeld == \A t \in Objects : zAt[t] \in LazyInside => zMtx = {t}

LazyMade ==
  /\ zHasInit => zMade = <<zValue>>
  /\ ~zHasInit => zMade = <<>>

LazySeen ==
  /\ \A t \in Objects : zAt[t] = "init" => ~zHasInit
  /\ \A t \in Objects : zAt[t] = "reference" => zHasInit
  /\ \A t \in Objects : zGot[t] # Z!NoValue => zHasInit /\ zGot[t] = zValue
  /\ zTold # {} => zHasInit

LazyGone ==
  ~zAlive => /\ \A t \in Objects : zAt[t] = "idle"
            /\ zFreed = IF zHasInit THEN <<zValue>> ELSE <<>>

LazyIInv == Z!TypeOK /\ LazyHeld /\ LazyMade /\ LazySeen /\ LazyGone

(* The strengthened invariant holds before the first call.                 *)
LEMMA LazyInitInvariant == Z!Init => LazyIInv
<1> SUFFICES ASSUME Z!Init PROVE LazyIInv
  OBVIOUS
<1>1. Z!TypeOK
  <2>1. zAt \in [Objects -> {"idle", "GetValue", "HasInit", "check", "answer", "init", "reference"}]
    BY DEF Z!Init
  <2>2. zGot \in [Objects -> Nat] /\ zValue \in Nat /\ zCalls \in Nat
    BY DEF Z!Init, Z!NoValue
  <2>3. zMade \in Seq(Nat) /\ zFreed \in Seq(Nat)
    BY DEF Z!Init
  <2> QED BY <2>1, <2>2, <2>3 DEF Z!Init, Z!TypeOK
<1>2. LazyHeld /\ LazyMade /\ LazySeen /\ LazyGone
  BY DEF Z!Init, LazyHeld, LazyMade, LazySeen, LazyGone, LazyInside, Z!NoValue
<1> QED BY <1>1, <1>2 DEF LazyIInv

(* It implies what the run checks.                                         *)
LEMMA LazyInvariantImpliesOneValue == LazyIInv => Z!OneValue
<1> SUFFICES ASSUME LazyIInv PROVE Z!OneValue
  OBVIOUS
<1>1. zMade = IF zHasInit THEN <<zValue>> ELSE <<>>
  BY DEF LazyIInv, Z!TypeOK, LazyMade
<1>2. Len(zMade) <= 1
  BY <1>1
<1>3. zHasInit => zMade = <<zValue>>
  BY <1>1
<1>4. ~zAlive => zFreed = zMade
  BY <1>1 DEF LazyIInv, LazyGone
<1> QED BY <1>2, <1>3, <1>4 DEF LazyIInv, LazySeen, Z!OneValue

(* A step of one thread keeps it.                                          *)
LEMMA LazyStepKeepsInvariant ==
  ASSUME LazyIInv, NEW t \in Objects, Z!Call(t) \/ Z!Step(t)
  PROVE  LazyIInv'
<1> USE DEF LazyIInv, LazyInside
<1>1. CASE Z!Call(t)
  <2>1. Z!TypeOK'
    BY <1>1 DEF Z!Call, Z!TypeOK
  <2>2. LazyHeld' /\ LazyMade' /\ LazySeen' /\ LazyGone'
    BY <1>1 DEF Z!Call, Z!TypeOK, LazyHeld, LazyMade, LazySeen, LazyGone
  <2> QED BY <2>1, <2>2
<1>2. CASE Z!Lock(t)
  <2>1. Z!TypeOK'
    BY <1>2 DEF Z!Lock, Z!TypeOK
  <2>2. LazyHeld'
    BY <1>2 DEF Z!Lock, Z!TypeOK, LazyHeld
  <2>3. LazyMade' /\ LazySeen' /\ LazyGone'
    BY <1>2 DEF Z!Lock, Z!TypeOK, LazyMade, LazySeen, LazyGone
  <2> QED BY <2>1, <2>2, <2>3
<1>3. CASE Z!HasInit(t)
  <2>1. Z!TypeOK'
    BY <1>3 DEF Z!HasInit, Z!Unlocked, Z!TypeOK
  <2>2. LazyHeld'
    BY <1>3 DEF Z!HasInit, Z!Unlocked, Z!TypeOK, LazyHeld
  <2>3. LazyMade' /\ LazySeen' /\ LazyGone'
    BY <1>3 DEF Z!HasInit, Z!TypeOK, LazyMade, LazySeen, LazyGone
  <2> QED BY <2>1, <2>2, <2>3
<1>4. CASE Z!Found(t)
  <2>1. Z!TypeOK'
    BY <1>4 DEF Z!Found, Z!Unlocked, Z!TypeOK
  <2>2. LazyHeld'
    BY <1>4 DEF Z!Found, Z!Unlocked, Z!TypeOK, LazyHeld
  <2>3. LazyMade' /\ LazySeen' /\ LazyGone'
    BY <1>4 DEF Z!Found, Z!TypeOK, LazyMade, LazySeen, LazyGone
  <2> QED BY <2>1, <2>2, <2>3
<1>5. CASE Z!RunInit(t)
  <2>1. Z!TypeOK'
    BY <1>5 DEF Z!RunInit, Z!TypeOK
  <2>2. LazyHeld' /\ LazyMade' /\ LazySeen' /\ LazyGone'
    BY <1>5 DEF Z!RunInit, Z!TypeOK, LazyHeld, LazyMade, LazySeen, LazyGone
  <2> QED BY <2>1, <2>2
<1>6. CASE Z!InitReturns(t)
  <2>1. zMade = <<>> /\ ~zHasInit /\ zAlive /\ zMtx = {t}
    BY <1>6 DEF Z!InitReturns, Z!TypeOK, LazyHeld, LazyMade, LazySeen, LazyGone
  <2>2. zValue' = 1 /\ zMade' = <<1>> /\ zHasInit'
    BY <1>6, <2>1 DEF Z!InitReturns
  <2>3. Z!TypeOK'
    BY <1>6, <2>2 DEF Z!InitReturns, Z!Unlocked, Z!TypeOK
  <2>4. \A u \in Objects : u # t => zAt[u] \notin LazyInside
    BY <2>1 DEF LazyHeld
  <2>5. LazyHeld'
    BY <1>6, <2>4 DEF Z!InitReturns, Z!TypeOK, LazyHeld
  <2>6. LazySeen'
    BY <1>6, <2>1, <2>2, <2>4 DEF Z!InitReturns, Z!TypeOK, LazySeen
  <2>7. LazyMade' /\ LazyGone'
    BY <1>6, <2>1, <2>2 DEF Z!InitReturns, LazyMade, LazyGone
  <2> QED BY <2>3, <2>5, <2>6, <2>7
<1>7. CASE Z!InitThrows(t)
  <2>1. Z!TypeOK'
    BY <1>7 DEF Z!InitThrows, Z!TypeOK
  <2>2. LazyHeld' /\ LazyMade' /\ LazySeen' /\ LazyGone'
    BY <1>7 DEF Z!InitThrows, Z!TypeOK, LazyHeld, LazyMade, LazySeen, LazyGone
  <2> QED BY <2>1, <2>2
<1>8. CASE Z!UseReference(t)
  <2>1. Z!TypeOK'
    BY <1>8 DEF Z!UseReference, Z!TypeOK
  <2>2. LazyHeld' /\ LazyMade' /\ LazySeen' /\ LazyGone'
    BY <1>8 DEF Z!UseReference, Z!TypeOK, LazyHeld, LazyMade, LazySeen, LazyGone
  <2> QED BY <2>1, <2>2
<1> QED BY <1>1, <1>2, <1>3, <1>4, <1>5, <1>6, <1>7, <1>8 DEF Z!Step

(* Every step keeps it, the destructor and stuttering too.                 *)
LEMMA LazyNextKeepsInvariant == LazyIInv /\ (Z!Next \/ UNCHANGED lazyVars) => LazyIInv'
<1> SUFFICES ASSUME LazyIInv, Z!Next \/ UNCHANGED lazyVars PROVE LazyIInv'
  OBVIOUS
<1>1. ASSUME NEW t \in Objects, Z!Call(t) \/ Z!Step(t) PROVE LazyIInv'
  BY <1>1, LazyStepKeepsInvariant
<1>2. CASE Z!Destroy
  <2>1. Z!TypeOK'
    <3>1. zFreed' = <<zValue>> \/ zFreed' = <<>>
      BY <1>2 DEF Z!Destroy
    <3>2. zValue \in Nat
      BY DEF LazyIInv, Z!TypeOK
    <3>3. <<zValue>> \in Seq(Nat) /\ <<>> \in Seq(Nat)
      BY <3>2
    <3>4. zFreed' \in Seq(Nat)
      BY <3>1, <3>3
    <3> QED BY <1>2, <3>4 DEF Z!Destroy, LazyIInv, Z!TypeOK
  <2>2. LazyHeld' /\ LazyMade' /\ LazySeen' /\ LazyGone'
    BY <1>2 DEF Z!Destroy, LazyIInv, LazyHeld, LazyMade, LazySeen, LazyGone
  <2> QED BY <2>1, <2>2 DEF LazyIInv
<1>3. CASE UNCHANGED lazyVars
  BY <1>3 DEF lazyVars, LazyIInv, Z!TypeOK, LazyHeld, LazyMade, LazySeen, LazyGone
<1> QED BY <1>1, <1>2, <1>3 DEF Z!Next

-----------------------------------------------------------------------------
(* The composition.  A step of another part leaves the variables of a part *)
(* alone.                                                                  *)
LEMMA PartsStepIsLazyStep == [PartsNext]_allVars => Z!Next \/ UNCHANGED lazyVars
  BY DEF PartsNext, allVars, StartPart, LazyPart, LoopPart

(* For any number of threads and calls, one value is made, every reference *)
(* reads it, and the destructor frees it (Lazy.hpp:46-62).                 *)
THEOREM OneValueCorrect == PartsSpec => []OneValue
<1>1. PartsInit => LazyIInv
  BY LazyInitInvariant DEF PartsInit
<1>2. LazyIInv /\ [PartsNext]_allVars => LazyIInv'
  BY LazyNextKeepsInvariant, PartsStepIsLazyStep
<1>3. LazyIInv => OneValue
  BY LazyInvariantImpliesOneValue DEF OneValue
<1> QED BY <1>1, <1>2, <1>3, PTL DEF PartsSpec
=============================================================================
