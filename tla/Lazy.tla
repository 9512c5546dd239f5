--------------------------------- MODULE Lazy ---------------------------------
(***************************************************************************)
(* Tesses::Framework::Lazy (Lazy.hpp): a value made by an initialiser at   *)
(* the first GetValue and freed by the destructor.                         *)
(*                                                                         *)
(* The mutex is recursive (Mutex.cpp:78) and locked by hand: an            *)
(* initialiser that throws leaves it locked, so that thread may try again  *)
(* and all others wait for ever.  GetValue returns a reference: the value  *)
(* is read after the mutex was released.  Not modelled: an initialiser     *)
(* that calls GetValue of its own object.                                  *)
(***************************************************************************)
EXTENDS Naturals, Sequences

CONSTANTS
  Users,        \* threads that use the object
  MaxCalls      \* bound: calls of GetValue and HasInit

VARIABLES
  at,           \* where each thread is
  mtx,          \* the thread that holds mtx, as a set
  value,        \* value, a number for each run of init that returned
  hasInit,      \* hasInit
  got,          \* what each thread read through its last reference
  told,         \* threads HasInit said yes to
  calls,        \* history: calls so far
  made,         \* history: values that init returned
  threw,        \* history: threads an initialiser threw in
  freed,        \* history: values the destructor freed
  alive         \* the object exists

vars == <<at, mtx, value, hasInit, got, told, calls, made, threw, freed, alive>>

NoValue == 0

Init ==
  /\ at = [t \in Users |-> "idle"]
  /\ mtx = {}
  /\ value = NoValue
  /\ hasInit = FALSE
  /\ got = [t \in Users |-> NoValue]
  /\ told = {}
  /\ calls = 0
  /\ made = <<>>
  /\ threw = {}
  /\ freed = <<>>
  /\ alive = TRUE

(* A thread that once left GetValue by an exception has locked the mutex   *)
(* once more than it unlocks it.                                           *)
Unlocked(t) == IF t \in threw THEN {t} ELSE {}

-----------------------------------------------------------------------------
(* Faulty forms of some definitions below.  No specification here uses     *)
(* them: each one breaks a property, which shows that it can fail.         *)
LockForSetOnly(t) ==            \* the check of hasInit is not under the mutex
  /\ at[t] \in {"GetValue", "HasInit"}
  /\ at' = [at EXCEPT ![t] = IF @ = "GetValue" THEN "check" ELSE "answer"]
  /\ mtx' = {t}
  /\ UNCHANGED <<value, hasInit, got, told, calls, made, threw, freed, alive>>

InitReturnsLocked(t) ==         \* the mutex stays locked
  /\ at[t] = "init"
  /\ value' = Len(made) + 1
  /\ made' = Append(made, value')
  /\ hasInit' = TRUE
  /\ at' = [at EXCEPT ![t] = "reference"]
  /\ UNCHANGED <<mtx, got, told, calls, threw, freed, alive>>

-----------------------------------------------------------------------------
Call(t) ==
  /\ alive /\ at[t] = "idle"
  /\ calls < MaxCalls
  /\ calls' = calls + 1
  /\ \E f \in {"GetValue", "HasInit"} : at' = [at EXCEPT ![t] = f]
  /\ UNCHANGED <<mtx, value, hasInit, got, told, made, threw, freed, alive>>

Lock(t) ==
  /\ at[t] \in {"GetValue", "HasInit"}
  /\ mtx \subseteq {t}
  /\ at' = [at EXCEPT ![t] = IF @ = "GetValue" THEN "check" ELSE "answer"]
  /\ mtx' = {t}
  /\ UNCHANGED <<value, hasInit, got, told, calls, made, threw, freed, alive>>

HasInit(t) ==
  /\ at[t] = "answer"
  /\ told' = IF hasInit THEN told \cup {t} ELSE told \ {t}
  /\ at' = [at EXCEPT ![t] = "idle"]
  /\ mtx' = Unlocked(t)
  /\ UNCHANGED <<value, hasInit, got, calls, made, threw, freed, alive>>

(* GetValue finds a value.                                                 *)
Found(t) ==
  /\ at[t] = "check" /\ hasInit
  /\ at' = [at EXCEPT ![t] = "reference"]
  /\ mtx' = Unlocked(t)
  /\ UNCHANGED <<value, hasInit, got, told, calls, made, threw, freed, alive>>

RunInit(t) ==
  /\ at[t] = "check" /\ ~hasInit
  /\ at' = [at EXCEPT ![t] = "init"]
  /\ UNCHANGED <<mtx, value, hasInit, got, told, calls, made, threw, freed, alive>>

InitReturns(t) ==
  /\ at[t] = "init"
  /\ value' = Len(made) + 1
  /\ made' = Append(made, value')
  /\ hasInit' = TRUE
  /\ at' = [at EXCEPT ![t] = "reference"]
  /\ mtx' = Unlocked(t)
  /\ UNCHANGED <<got, told, calls, threw, freed, alive>>

InitThrows(t) ==
  /\ at[t] = "init"
  /\ threw' = threw \cup {t}
  /\ at' = [at EXCEPT ![t] = "idle"]
  /\ UNCHANGED <<mtx, value, hasInit, got, told, calls, made, freed, alive>>

(* The caller reads the value it was given a reference to.                 *)
UseReference(t) ==
  /\ at[t] = "reference"
  /\ got' = [got EXCEPT ![t] = value]
  /\ at' = [at EXCEPT ![t] = "idle"]
  /\ UNCHANGED <<mtx, value, hasInit, told, calls, made, threw, freed, alive>>

(* The destructor; its caller sees to it that nobody uses the object.      *)
Destroy ==
  /\ alive
  /\ \A t \in Users : at[t] = "idle"
  /\ alive' = FALSE
  /\ freed' = IF hasInit THEN <<value>> ELSE <<>>
  /\ UNCHANGED <<at, mtx, value, hasInit, got, told, calls, made, threw>>

Step(t) ==
  \/ Lock(t) \/ HasInit(t) \/ Found(t) \/ RunInit(t)
  \/ InitReturns(t) \/ InitThrows(t) \/ UseReference(t)

Next == (\E t \in Users : Call(t) \/ Step(t)) \/ Destroy

(* A call that can go on does so, and initialisers end.                    *)
Spec == Init /\ [][Next]_vars /\ \A t \in Users : WF_vars(Step(t))

-----------------------------------------------------------------------------
TypeOK ==
  /\ at \in [Users -> {"idle", "GetValue", "HasInit", "check", "answer", "init", "reference"}]
  /\ mtx \subseteq Users
  /\ value \in Nat
  /\ hasInit \in BOOLEAN /\ alive \in BOOLEAN
  /\ got \in [Users -> Nat]
  /\ told \subseteq Users /\ threw \subseteq Users
  /\ calls \in Nat
  /\ made \in Seq(Nat) /\ freed \in Seq(Nat)

(* However many threads come first, and however often an initialiser       *)
(* throws, one value is made, every reference reads that value, whom       *)
(* HasInit told yes can count on it, and the destructor frees it and       *)
(* nothing else (Lazy.hpp:46-62).                                          *)
OneValue ==
  /\ Len(made) <= 1
  /\ \A t \in Users : got[t] # NoValue => made = <<got[t]>>
  /\ \A t \in Users : at[t] = "reference" => made = <<value>>
  /\ \A t \in told : made = <<value>>
  /\ ~alive => freed = made

(* A call returns, to its caller or by an exception, unless the            *)
(* initialiser threw in another thread: that one left the mutex locked     *)
(* (Lazy.hpp:52).                                                          *)
CallsReturn ==
  \A t \in Users : (at[t] # "idle") ~> (at[t] = "idle" \/ threw \ {t} # {})
=============================================================================
