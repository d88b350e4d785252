--------------------------- MODULE ThreadBarrier ---------------------------
(***************************************************************************)
(* The ThreadBarrier class (CAMlib/stage2/ThreadBarrier++.XC): a counter   *)
(* behind a read/write lock, a manual-reset event that the last thread     *)
(* sets, and a flag, read and written outside the lock, that asks the next *)
(* caller of wait() to re-arm the barrier.                                 *)
(*                                                                         *)
(* One action is one statement, under the lock too: the simulator zeroes   *)
(* the queue the barrier lives in, lock and all, without asking who is     *)
(* inside (ResetInterface).  The lock class is not in the repository: a    *)
(* zeroed lock is a free one, and an unlock() by a thread it was taken     *)
(* from frees it or leaves it to its new holder.  getCount() changes       *)
(* nothing and is the set of values curCount has while the lock is free    *)
(* (see ReadableCount).                                                    *)
(***************************************************************************)
EXTENDS Integers, FiniteSets

CONSTANTS
  Threads,  (* the threads that call wait()                                *)
  Count,    (* the argument of the constructor                             *)
  Counts,   (* the arguments setCount() may be called with                 *)
  Rounds,   (* bound: the number of times each thread calls wait()         *)
  Resets,   (* whether Cam8SimInterface::ResetInterface may run            *)
  NoThread  (* nobody holds the lock                                       *)

N == Cardinality(Threads)

(* The constructor replaces a count that is not positive by 2.             *)
CtorCount(cnt) == IF cnt <= 0 THEN 2 ELSE cnt

(* The uses in the repository count every participant: NUM_MODULES modules *)
(* on glueBarrier(NUM_MODULES), five threads on tb(5).                     *)
ASSUME ThreadBarrierAssumption ==
  /\ IsFiniteSet(Threads) /\ Threads # {}
  /\ Count \in Int /\ CtorCount(Count) = N
  /\ Counts \subseteq {N}
  /\ Rounds \in Nat
  /\ Resets \in BOOLEAN
  /\ NoThread \notin Threads

VARIABLES
  count, curCount, needsReset,  (* the fields of the object                *)
  cntLock,                      (* the writer holding the RWLock           *)
  unlockEvent,                  (* whether the event is set                *)
  pc,                           (* where each thread is                    *)
  arrived, passed,              (* history: wait()s counted and returned   *)
  arrivals, completed,          (* history: decrements, and rounds ended   *)
  intact                        (* history: no reset zeroed a held lock    *)

object == <<count, curCount, needsReset, cntLock, unlockEvent>>
history == <<arrived, passed, arrivals, completed, intact>>
vars == <<object, pc, history>>

(* Steps that hold the lock, and all program points.                       *)
Locked == {"decrement", "test", "refill", "set", "unlockLast", "unlock",
           "resetCount", "resetEvent", "clearFlag", "resetUnlock",
           "setCount", "setCurCount", "setCountUnlock"}
Points == Locked \cup {"idle", "reset", "lock", "flag", "blocked", "setCountFlag"}

Goto(t, to) == pc' = [pc EXCEPT ![t] = to]

Acquire(t, from, to) ==
  /\ pc[t] = from
  /\ cntLock = NoThread
  /\ cntLock' = t
  /\ Goto(t, to)
  /\ UNCHANGED <<count, curCount, needsReset, unlockEvent, history>>

Release(t, from, to) ==
  /\ pc[t] = from
  /\ IF cntLock = t THEN cntLock' = NoThread ELSE cntLock' \in {cntLock, NoThread}
  /\ Goto(t, to)
  /\ UNCHANGED <<count, curCount, needsReset, unlockEvent, history>>

Init ==
  /\ count = CtorCount(Count)
  /\ curCount = CtorCount(Count)
  /\ needsReset = FALSE
  /\ cntLock = NoThread
  /\ unlockEvent = FALSE
  /\ pc = [t \in Threads |-> "idle"]
  /\ arrived = [t \in Threads |-> 0]
  /\ passed = [t \in Threads |-> 0]
  /\ arrivals = 0
  /\ completed = 0
  /\ intact = TRUE
-----------------------------------------------------------------------------
(* Faulty variants, each a plausible slip in the definition it stands for. *)
TestOffByOne(t) ==
  /\ pc[t] = "test"
  /\ Goto(t, IF curCount <= 1 THEN "refill" ELSE "unlock")
  /\ UNCHANGED <<object, history>>

RefillForgotten(t) ==
  /\ pc[t] = "refill"
  /\ completed' = completed + 1
  /\ Goto(t, "set")
  /\ UNCHANGED <<object, arrived, passed, arrivals, intact>>

LockIgnored(t) ==
  /\ pc[t] = "lock"
  /\ cntLock' = t
  /\ Goto(t, "decrement")
  /\ UNCHANGED <<count, curCount, needsReset, unlockEvent, history>>

WakeSpuriously(t) ==
  /\ pc[t] = "blocked"
  /\ passed' = [passed EXCEPT ![t] = @ + 1]
  /\ Goto(t, "idle")
  /\ UNCHANGED <<object, arrived, arrivals, completed, intact>>

UnlockWithoutSet(t) ==
  /\ pc[t] = "set"
  /\ Goto(t, "unlockLast")
  /\ UNCHANGED <<object, history>>

SetCountOthers(t) ==
  /\ pc[t] = "setCount"
  /\ \E cnt \in Counts : count' = cnt - 1
  /\ Goto(t, "setCurCount")
  /\ UNCHANGED <<curCount, needsReset, cntLock, unlockEvent, history>>

ResetCountsDown(t) ==
  /\ pc[t] = "resetCount"
  /\ curCount' = curCount - 1
  /\ Goto(t, "resetEvent")
  /\ UNCHANGED <<count, needsReset, cntLock, unlockEvent, history>>
-----------------------------------------------------------------------------
(* wait(): the unlocked test of needsReset that decides about reset().     *)
Wait(t) ==
  /\ pc[t] = "idle"
  /\ passed[t] < Rounds
  /\ Goto(t, IF needsReset THEN "reset" ELSE "lock")
  /\ UNCHANGED <<object, history>>

(* reset(): re-arm the counter, the event and the flag under the lock.     *)
ResetLock(t) == Acquire(t, "reset", "resetCount")

ResetCount(t) ==
  /\ pc[t] = "resetCount"
  /\ curCount' = count
  /\ Goto(t, "resetEvent")
  /\ UNCHANGED <<count, needsReset, cntLock, unlockEvent, history>>

ResetEvent(t) ==
  /\ pc[t] = "resetEvent"
  /\ unlockEvent' = FALSE
  /\ Goto(t, "clearFlag")
  /\ UNCHANGED <<count, curCount, needsReset, cntLock, history>>

ClearFlag(t) ==
  /\ pc[t] = "clearFlag"
  /\ needsReset' = FALSE
  /\ Goto(t, "resetUnlock")
  /\ UNCHANGED <<count, curCount, cntLock, unlockEvent, history>>

ResetUnlock(t) == Release(t, "resetUnlock", "lock")

(* wait(): take the lock and count down; the last thread refills curCount. *)
WaitLock(t) == Acquire(t, "lock", "decrement")

Decrement(t) ==
  /\ pc[t] = "decrement"
  /\ curCount' = curCount - 1
  /\ arrived' = [arrived EXCEPT ![t] = @ + 1]
  /\ arrivals' = arrivals + 1
  /\ Goto(t, "test")
  /\ UNCHANGED <<count, needsReset, cntLock, unlockEvent, passed, completed, intact>>

TestCount(t) ==
  /\ pc[t] = "test"
  /\ Goto(t, IF curCount = 0 THEN "refill" ELSE "unlock")
  /\ UNCHANGED <<object, history>>

Refill(t) ==
  /\ pc[t] = "refill"
  /\ curCount' = count
  /\ completed' = completed + 1
  /\ Goto(t, "set")
  /\ UNCHANGED <<count, needsReset, cntLock, unlockEvent, arrived, passed, arrivals, intact>>

SetEvent(t) ==
  /\ pc[t] = "set"
  /\ unlockEvent' = TRUE
  /\ Goto(t, "unlockLast")
  /\ UNCHANGED <<count, curCount, needsReset, cntLock, history>>

UnlockLast(t) == Release(t, "unlockLast", "flag")

(* The last thread sets needsReset after it has let go of the lock.        *)
SetFlag(t) ==
  /\ pc[t] = "flag"
  /\ needsReset' = TRUE
  /\ passed' = [passed EXCEPT ![t] = @ + 1]
  /\ Goto(t, "idle")
  /\ UNCHANGED <<count, curCount, cntLock, unlockEvent, arrived, arrivals, completed, intact>>

Unlock(t) == Release(t, "unlock", "blocked")

(* The others wait on the event, which stays set until reset().            *)
Wake(t) ==
  /\ pc[t] = "blocked"
  /\ unlockEvent
  /\ passed' = [passed EXCEPT ![t] = @ + 1]
  /\ Goto(t, "idle")
  /\ UNCHANGED <<object, arrived, arrivals, completed, intact>>
-----------------------------------------------------------------------------
(* setCount(): both counters under the lock, the flag after it.            *)
SetCountLock(t) == Acquire(t, "idle", "setCount")

SetCount(t) ==
  /\ pc[t] = "setCount"
  /\ \E cnt \in Counts : count' = cnt
  /\ Goto(t, "setCurCount")
  /\ UNCHANGED <<curCount, needsReset, cntLock, unlockEvent, history>>

SetCurCount(t) ==
  /\ pc[t] = "setCurCount"
  /\ \E cnt \in Counts : curCount' = cnt
  /\ Goto(t, "setCountUnlock")
  /\ UNCHANGED <<count, needsReset, cntLock, unlockEvent, history>>

SetCountUnlock(t) == Release(t, "setCountUnlock", "setCountFlag")

SetCountFlag(t) ==
  /\ pc[t] = "setCountFlag"
  /\ needsReset' = FALSE
  /\ Goto(t, "idle")
  /\ UNCHANGED <<count, curCount, cntLock, unlockEvent, history>>

(* Cam8SimInterface::ResetInterface zeroes the whole instruction queue,    *)
(* the barrier and its lock included, wherever the modules are in wait().  *)
ResetInterface ==
  /\ Resets
  /\ count' = 0
  /\ curCount' = 0
  /\ needsReset' = FALSE
  /\ cntLock' = NoThread
  /\ unlockEvent' = FALSE
  /\ intact' = (intact /\ cntLock = NoThread)
  /\ UNCHANGED <<pc, arrived, passed, arrivals, completed>>
-----------------------------------------------------------------------------
ResetStep(t) ==
  ResetLock(t) \/ ResetCount(t) \/ ResetEvent(t) \/ ClearFlag(t) \/ ResetUnlock(t)

ArriveStep(t) ==
  \/ WaitLock(t) \/ Decrement(t) \/ TestCount(t)
  \/ Refill(t) \/ SetEvent(t) \/ UnlockLast(t) \/ SetFlag(t)

WaitStep(t) == Wait(t) \/ ResetStep(t) \/ ArriveStep(t) \/ Unlock(t) \/ Wake(t)

SetCountStep(t) ==
  \/ Counts # {} /\ SetCountLock(t)
  \/ SetCount(t) \/ SetCurCount(t) \/ SetCountUnlock(t) \/ SetCountFlag(t)

(* Every thread has made all its calls: the only place to stop.            *)
Finished ==
  /\ \A t \in Threads : passed[t] = Rounds
  /\ UNCHANGED vars

Next ==
  \/ \E t \in Threads : WaitStep(t) \/ SetCountStep(t)
  \/ ResetInterface
  \/ Finished

Spec == Init /\ [][Next]_vars

(* The operating system runs every thread that can run, and nobody calls   *)
(* wait() more than Rounds times, so a lock is always free again.          *)
FairSpec == Spec /\ \A t \in Threads : WF_vars(WaitStep(t))
-----------------------------------------------------------------------------
(* Every variable keeps its type, whatever reset(), setCount(), wait() and *)
(* a reset of the interface do to each other.                              *)
TypeOK ==
  /\ count \in {0, N}
  /\ curCount \in Int
  /\ needsReset \in BOOLEAN
  /\ unlockEvent \in BOOLEAN
  /\ cntLock \in Threads \cup {NoThread}
  /\ pc \in [Threads -> Points]
  /\ arrived \in [Threads -> Nat]
  /\ passed \in [Threads -> Nat]
  /\ arrivals \in Nat
  /\ completed \in Nat
  /\ intact \in BOOLEAN

(* The lock protects the counters until an interface reset zeroes it under *)
(* its holder: till then exactly the thread inside a locked section of     *)
(* wait(), reset() or setCount() holds cntLock, resets of a free lock and  *)
(* the threads they catch elsewhere in wait() included.                    *)
LockInv ==
  intact => \A t \in Threads : pc[t] \in Locked <=> cntLock = t

(* What getCount() can return while no reset took a held lock: a barrier   *)
(* that still has its count reads between 1 and count; no interleaving of  *)
(* wait() with a late reset() leaves it at 0 or below.                     *)
ReadableCount ==
  intact /\ cntLock = NoThread /\ count > 0 => curCount \in 1..count

(* A round never ends on fewer arrivals than the count, unless a reset of  *)
(* the interface took the lock from a thread inside: reset() may throw     *)
(* arrivals away (the reuse hazard), but no race between reset() and       *)
(* wait() counts one thread twice.                                         *)
ArrivalAccounting ==
  intact /\ cntLock = NoThread => N * completed + (count - curCount) <= arrivals

(* Before anybody returns from a first wait(), everybody has called it: the*)
(* first use of the barrier is sound however often it is used later, and   *)
(* whenever the interface is reset outside the locked sections.            *)
FirstRendezvous ==
  intact => \A t, u \in Threads : passed[t] > 0 => arrived[u] > 0

(* No thread returns from its n-th wait() before every thread has counted  *)
(* its n-th wait(): "Wait for all thread to hit this point".               *)
Rendezvous ==
  \A t, u \in Threads : passed[t] <= arrived[u]

(* Every call of wait() returns, so every thread gets through its rounds.  *)
EveryWaitReturns == <>(\A t \in Threads : passed[t] = Rounds)

(* Used for one round, the class implements the abstract barrier.          *)
B == INSTANCE Barrier WITH arrived <- arrived, passed <- passed

ImplementsBarrier == B!Spec
=============================================================================
