----------------------------- MODULE ThreadStart -----------------------------
(***************************************************************************)
(* Tesses::Framework::Threading::Thread (Thread.cpp): the handshake between *)
(* the thread that constructs a Thread object and the thread it starts.    *)
(*                                                                         *)
(* The new thread reads its function from memory owned by the Thread       *)
(* object.  The owner may detach and destroy the object as soon as the     *)
(* constructor returned, as HttpServer does for every connection           *)
(* (HttpServer.cpp:687-695), and the next Thread it constructs may get the *)
(* same memory.  The model therefore has one memory cell that every Thread *)
(* object of the owner uses in turn.                                       *)
(***************************************************************************)
EXTENDS Integers

CONSTANT NumObjects      \* how many Thread objects the owner constructs

ASSUME NumObjectsAssumption == NumObjects \in Nat \ {0}

Objects == 1 .. NumObjects
None == 0

VARIABLES
  live,        \* is the cell allocated to a Thread object?
  fnField,     \* ThreadHiddenFieldData::fn, named by the object it belongs to
  hasInvoked,  \* ThreadHiddenFieldData::hasInvoked
  current,     \* the object under construction or owned last
  owner,       \* where the owner stands
  child,       \* where each started thread stands
  fn,          \* each started thread's local copy of fn
  called       \* history: the sum of the functions each thread called

vars == <<live, fnField, hasInvoked, current, owner, child, fn, called>>

Init ==
  /\ live = FALSE
  /\ fnField = None
  /\ hasInvoked = FALSE
  /\ current = None
  /\ owner = "idle"
  /\ child = [k \in Objects |-> "unborn"]
  /\ fn = [k \in Objects |-> None]
  /\ called = [k \in Objects |-> None]

-----------------------------------------------------------------------------
(* Faulty forms of some actions below.  No specification here uses them:   *)
(* each one breaks a property, which shows that the property can fail.     *)
ReturnAtOnce ==               \* the constructor does not wait
  /\ owner = "spin"
  /\ owner' = "own"
  /\ UNCHANGED <<live, fnField, hasInvoked, current, child, fn, called>>

AllocateStale ==              \* hasInvoked keeps the value of the last object
  /\ owner = "idle"
  /\ current < NumObjects
  /\ current' = current + 1
  /\ live' = TRUE
  /\ fnField' = current + 1
  /\ owner' = "create"
  /\ UNCHANGED <<hasInvoked, child, fn, called>>

NeverSignal(k) ==             \* the thread does not set hasInvoked
  /\ child[k] = "copied"
  /\ child' = [child EXCEPT ![k] = "ready"]
  /\ UNCHANGED <<live, fnField, hasInvoked, current, owner, fn, called>>

-----------------------------------------------------------------------------
(* data = AllocField(); data->hasInvoked = false; data->fn = fn;           *)
Allocate ==
  /\ owner = "idle"
  /\ current < NumObjects
  /\ current' = current + 1
  /\ live' = TRUE
  /\ fnField' = current + 1
  /\ hasInvoked' = FALSE
  /\ owner' = "create"
  /\ UNCHANGED <<child, fn, called>>

(* pthread_create: its result is not looked at, so a failure goes on to    *)
(* the same loop.                                                          *)
Create ==
  /\ owner = "create"
  /\ \/ child' = [child EXCEPT ![current] = "start"]
     \/ UNCHANGED child
  /\ owner' = "spin"
  /\ UNCHANGED <<live, fnField, hasInvoked, current, fn, called>>

(* while (!data->hasInvoked) ;                                             *)
ConstructorReturns ==
  /\ owner = "spin"
  /\ hasInvoked
  /\ owner' = "own"
  /\ UNCHANGED <<live, fnField, hasInvoked, current, child, fn, called>>

(* The thread was not created: nobody will ever set hasInvoked.            *)
SpinsForEver ==
  /\ owner = "spin"
  /\ child[current] = "unborn"
  /\ UNCHANGED vars

(* Detach, then the object and its fields are destroyed.                   *)
DetachAndDestroy ==
  /\ owner = "own"
  /\ live' = FALSE
  /\ fnField' = None
  /\ owner' = "idle"
  /\ UNCHANGED <<hasInvoked, current, child, fn, called>>

(* Join, then the object and its fields are destroyed.                     *)
JoinAndDestroy ==
  /\ owner = "own"
  /\ child[current] = "done"
  /\ live' = FALSE
  /\ fnField' = None
  /\ owner' = "idle"
  /\ UNCHANGED <<hasInvoked, current, child, fn, called>>

(* The started thread: auto fn = thrd->fn;                                 *)
CopyFn(k) ==
  /\ child[k] = "start"
  /\ fn' = [fn EXCEPT ![k] = fnField]
  /\ child' = [child EXCEPT ![k] = "copied"]
  /\ UNCHANGED <<live, fnField, hasInvoked, current, owner, called>>

(* thrd->hasInvoked = true;                                                *)
Signal(k) ==
  /\ child[k] = "copied"
  /\ hasInvoked' = TRUE
  /\ child' = [child EXCEPT ![k] = "ready"]
  /\ UNCHANGED <<live, fnField, current, owner, fn, called>>

(* fn();                                                                   *)
CallFn(k) ==
  /\ child[k] = "ready"
  /\ called' = [called EXCEPT ![k] = @ + fn[k]]
  /\ child' = [child EXCEPT ![k] = "run"]
  /\ UNCHANGED <<live, fnField, hasInvoked, current, owner, fn>>

FnReturns(k) ==
  /\ child[k] = "run"
  /\ child' = [child EXCEPT ![k] = "done"]
  /\ UNCHANGED <<live, fnField, hasInvoked, current, owner, fn, called>>

AllStarted == owner = "idle" /\ current = NumObjects
Finished == AllStarted /\ (\A k \in Objects : child[k] = "done") /\ UNCHANGED vars

Owner == Allocate \/ Create \/ ConstructorReturns
Child(k) == CopyFn(k) \/ Signal(k) \/ CallFn(k) \/ FnReturns(k)

Next ==
  \/ Owner \/ SpinsForEver \/ DetachAndDestroy \/ JoinAndDestroy
  \/ \E k \in Objects : Child(k)
  \/ Finished

(* The owner's constructor and the started threads are scheduled fairly.   *)
Spec ==
  /\ Init /\ [][Next]_vars
  /\ WF_vars(ConstructorReturns)
  /\ \A k \in Objects : WF_vars(Child(k))

-----------------------------------------------------------------------------
(* The types of the variables.                                             *)
TypeOK ==
  /\ live \in BOOLEAN
  /\ fnField \in Objects \cup {None}
  /\ hasInvoked \in BOOLEAN
  /\ current \in Objects \cup {None}
  /\ owner \in {"idle", "create", "spin", "own"}
  /\ child \in [Objects -> {"unborn", "start", "copied", "ready", "run", "done"}]
  /\ fn \in [Objects -> Objects \cup {None}]
  /\ called \in [Objects -> Nat]

(* A started thread that still has to use the memory of its Thread object  *)
(* (to copy fn or to set hasInvoked) finds it allocated, and allocated to  *)
(* that object.                                                            *)
NoUseAfterFree ==
  \A k \in Objects : child[k] \in {"start", "copied"} => live /\ fnField = k

(* Every started thread calls the function of its own Thread object, and   *)
(* calls it once, however soon that object is destroyed and replaced.      *)
CallsOwnFunction ==
  \A k \in Objects :
    called[k] = IF child[k] \in {"run", "done"} THEN k ELSE None

(* The constructor returns if the thread could be created.                 *)
ConstructorEnds ==
  \A k \in Objects :
    (owner = "spin" /\ current = k /\ child[k] # "unborn") ~> (owner = "own")
=============================================================================
