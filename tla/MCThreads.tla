------------------------------ MODULE MCThreads ------------------------------
(***************************************************************************)
(* One instance for the components that several threads share and that     *)
(* have no state in common: the start of a thread (ThreadStart), a value   *)
(* made at its first use (Lazy) and the event loop with one timer          *)
(* (EventLoop, whose larger instance is MCEventLoop).  The initial state   *)
(* says which of them runs; the others stay where they are.                *)
(***************************************************************************)
EXTENDS ThreadStart, Sequences

CONSTANTS Nobody, Invocations, Timers, MaxCalls

VARIABLES
  part,
  zAt, zMtx, zValue, zHasInit, zGot, zTold, zCalls, zMade, zThrew, zFreed, zAlive,
  eSig, eRunning, eInvokings, eInvokes, eLoop, eHandles, eBuilt, eCbSet, eInterval,
  eEnabled, eAge, eLag, eCbs, eCalling, eInvoked, eRan, eOwed

lazyVars == <<zAt, zMtx, zValue, zHasInit, zGot, zTold, zCalls, zMade, zThrew,
              zFreed, zAlive>>
loopVars == <<eSig, eRunning, eInvokings, eInvokes, eLoop, eHandles, eBuilt, eCbSet,
              eInterval, eEnabled, eAge, eLag, eCbs, eCalling, eInvoked, eRan, eOwed>>
allVars == <<part, vars, lazyVars, loopVars>>

Z == INSTANCE Lazy WITH
  Users <- Objects, MaxCalls <- MaxCalls,
  at <- zAt, mtx <- zMtx, value <- zValue, hasInit <- zHasInit, got <- zGot,
  told <- zTold, calls <- zCalls, made <- zMade, threw <- zThrew, freed <- zFreed,
  alive <- zAlive

E == INSTANCE EventLoop WITH
  Invocations <- Invocations, Timers <- Timers, Intervals <- {1, 2}, MaxAge <- 2,
  NoTimer <- Nobody,
  isRunningSig <- eSig, isRunning <- eRunning, invokings <- eInvokings,
  invokes <- eInvokes, loop <- eLoop, handles <- eHandles, built <- eBuilt,
  cbSet <- eCbSet, interval <- eInterval, enabled <- eEnabled, age <- eAge,
  lag <- eLag, cbs <- eCbs, calling <- eCalling, invoked <- eInvoked, ran <- eRan,
  owed <- eOwed

StartPart == part = "start" /\ Next /\ UNCHANGED <<part, lazyVars, loopVars>>
LazyPart == part = "lazy" /\ Z!Next /\ UNCHANGED <<part, vars, loopVars>>
LoopPart == part = "loop" /\ E!Next /\ UNCHANGED <<part, vars, lazyVars>>

PartsInit ==
  /\ part \in {"start", "lazy", "loop"}
  /\ Init /\ Z!Init /\ E!Init

PartsNext == StartPart \/ LazyPart \/ LoopPart

(* The fairness of the three specifications.  Only one of them runs, so one *)
(* action stands for the k-th thread of each.                              *)
Only(p) == part = p /\ UNCHANGED part

Thread(k) ==
  \/ Only("start") /\ Child(k) /\ UNCHANGED <<lazyVars, loopVars>>
  \/ Only("lazy") /\ Z!Step(k) /\ UNCHANGED <<vars, loopVars>>

MainThread ==
  \/ Only("start") /\ ConstructorReturns /\ UNCHANGED <<lazyVars, loopVars>>
  \/ Only("loop") /\ E!Loop /\ UNCHANGED <<vars, lazyVars>>

PartsSpec ==
  /\ PartsInit /\ [][PartsNext]_allVars
  /\ \A k \in Objects : WF_allVars(Thread(k))
  /\ WF_allVars(MainThread)

-----------------------------------------------------------------------------
OneValue == Z!OneValue
CallsReturn == Z!CallsReturn
InvokedRuns == E!InvokedRuns
StopEndsLoop == E!StopEndsLoop
TimerKeepsFiring == E!TimerKeepsFiring
=============================================================================
