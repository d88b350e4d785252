------------------------ MODULE ThreadBarrierProofs ------------------------
(***************************************************************************)
(* What ThreadBarrier keeps for every number of threads, every number of   *)
(* rounds and every interleaving of wait(), reset(), setCount() and        *)
(* ResetInterface; and that a single round implements the module Barrier.  *)
(***************************************************************************)
EXTENDS ThreadBarrier, FiniteSetTheorems, TLAPS

(* A thread between counting itself and returning from wait().             *)
Counted == {"test", "refill", "set", "unlockLast", "flag", "unlock", "blocked"}

(* A thread inside wait().                                                 *)
Waiting == Counted \cup
  {"reset", "resetCount", "resetEvent", "clearFlag", "resetUnlock", "lock", "decrement"}

(* How the history follows the program points: who has counted itself and  *)
(* not returned is one round ahead of its returns.                         *)
HistoryInv ==
  \A t \in Threads :
    /\ arrived[t] = IF pc[t] \in Counted THEN passed[t] + 1 ELSE passed[t]
    /\ passed[t] <= Rounds
    /\ pc[t] \in Waiting => passed[t] < Rounds

(* Nobody is between the statements of a locked section that leave the     *)
(* counter out of step with the count.                                     *)
Settled == \A t \in Threads : pc[t] \notin {"test", "refill", "setCurCount"}

(* What the statements under the lock find in the counters.                *)
SectionInv ==
  /\ Settled => curCount <= count /\ (count > 0 => curCount > 0)
  /\ \A t \in Threads :
       /\ pc[t] = "test" => IF count > 0 THEN curCount \in 0..count ELSE curCount < 0
       /\ pc[t] = "refill" => count = N /\ curCount = 0
       /\ pc[t] = "setCurCount" => count = N

(* Where an arrival is counted, and what it leaves to be accounted for.    *)
BooksInv ==
  /\ N * completed <= arrivals
  /\ (\A t \in Threads : pc[t] # "setCurCount") =>
       N * completed + (count - curCount) <= arrivals

Present == {t \in Threads : arrived[t] > 0}

(* Until a round is completed the event and the flag are clear, so nobody  *)
(* is in reset() or past the barrier, and every count that is missing from *)
(* curCount is a thread that is waiting.                                   *)
Early == {"idle", "lock", "decrement", "test", "refill", "unlock", "blocked",
          "setCount", "setCurCount", "setCountUnlock", "setCountFlag"}

Fresh ==
  /\ ~unlockEvent /\ ~needsReset
  /\ \A t \in Threads : passed[t] = 0 /\ pc[t] \in Early
  /\ (\A t \in Threads : pc[t] # "setCurCount") => count - curCount <= Cardinality(Present)

FirstInv ==
  /\ completed = 0 => Fresh
  /\ completed > 0 => \A t \in Threads : arrived[t] > 0

(* What is true of the barrier as long as no reset took a held lock.       *)
CounterInv == intact => SectionInv /\ BooksInv

IInv ==
  /\ TypeOK /\ LockInv /\ HistoryInv /\ CounterInv
  /\ intact => FirstInv
-----------------------------------------------------------------------------
LEMMA CountFact == N \in Nat /\ N > 0
<1>1. IsFiniteSet(Threads) /\ Threads # {}
  BY ThreadBarrierAssumption
<1>. QED
  BY <1>1, FS_CardinalityType, FS_EmptySet DEF N

(* The parts of TypeOK: what needs arithmetic apart from what does not.    *)
CountersOK == count \in {0, N} /\ curCount \in Int

ControlOK ==
  /\ cntLock \in Threads \cup {NoThread}
  /\ pc \in [Threads -> Points]

EventOK == needsReset \in BOOLEAN /\ unlockEvent \in BOOLEAN /\ intact \in BOOLEAN

HistoryOK ==
  /\ arrived \in [Threads -> Nat]
  /\ passed \in [Threads -> Nat]
  /\ arrivals \in Nat
  /\ completed \in Nat

LEMMA TypeParts == TypeOK <=> CountersOK /\ ControlOK /\ EventOK /\ HistoryOK
BY DEF TypeOK, CountersOK, ControlOK, EventOK, HistoryOK

LEMMA TypeInit == Init => TypeOK
<1>. SUFFICES ASSUME Init PROVE TypeOK
  OBVIOUS
<1>1. CountersOK
  BY CountFact, ThreadBarrierAssumption DEF Init, CountersOK
<1>2. ControlOK /\ HistoryOK
  BY DEF Init, ControlOK, HistoryOK, Points
<1>3. EventOK
  BY DEF Init, EventOK
<1>. QED
  BY <1>1, <1>2, <1>3, TypeParts

LEMMA TypeStep == TypeOK /\ [Next]_vars => TypeOK'
<1>. SUFFICES ASSUME TypeOK, [Next]_vars PROVE TypeOK'
  OBVIOUS
<1>1. CountersOK /\ ControlOK /\ EventOK /\ HistoryOK
  BY TypeParts
<1>. DEFINE Typed == CountersOK /\ ControlOK /\ HistoryOK
<1>2. Typed
  BY <1>1
<1>. HIDE DEF Typed
<1>. USE DEF Goto, object, history
<1>3. ASSUME NEW t \in Threads, Wait(t) \/ ResetStep(t) PROVE Typed'
  BY <1>2, <1>3, CountFact DEF Typed, CountersOK, ControlOK, HistoryOK, Points, Locked, Wait,
    ResetStep, ResetLock, ResetCount, ResetEvent, ClearFlag, ResetUnlock, Acquire, Release
<1>4. ASSUME NEW t \in Threads, ArriveStep(t) PROVE Typed'
  <2>1. CASE WaitLock(t) \/ TestCount(t) \/ SetEvent(t) \/ UnlockLast(t) \/ SetFlag(t)
    BY <1>2, <2>1 DEF Typed, CountersOK, ControlOK, HistoryOK, Points, Locked,
      WaitLock, TestCount, SetEvent, UnlockLast, SetFlag, Acquire, Release
  <2>2. CASE Decrement(t) \/ Refill(t)
    BY <1>2, <2>2, CountFact DEF Typed, CountersOK, ControlOK, HistoryOK, Points, Locked,
      Decrement, Refill
  <2>. QED
    BY <1>4, <2>1, <2>2 DEF ArriveStep
<1>5. ASSUME NEW t \in Threads, Unlock(t) \/ Wake(t) PROVE Typed'
  BY <1>2, <1>5 DEF Typed, CountersOK, ControlOK, HistoryOK, Points, Locked, Unlock, Wake, Release
<1>6. ASSUME NEW t \in Threads, SetCountStep(t) PROVE Typed'
  <2>1. CountersOK'
    BY <1>1, <1>6, CountFact, ThreadBarrierAssumption DEF CountersOK, SetCountStep,
      SetCountLock, SetCount, SetCurCount, SetCountUnlock, SetCountFlag, Acquire, Release
  <2>2. ControlOK' /\ HistoryOK'
    BY <1>1, <1>6 DEF ControlOK, HistoryOK, Points, Locked, SetCountStep,
      SetCountLock, SetCount, SetCurCount, SetCountUnlock, SetCountFlag, Acquire, Release
  <2>. QED
    BY <2>1, <2>2 DEF Typed
<1>7. ASSUME ResetInterface PROVE Typed'
  <2>1. CountersOK'
    BY <1>7 DEF CountersOK, ResetInterface
  <2>2. ControlOK' /\ HistoryOK'
    BY <1>1, <1>7 DEF ControlOK, HistoryOK, ResetInterface
  <2>. QED
    BY <2>1, <2>2 DEF Typed
<1>8. ASSUME Finished \/ UNCHANGED vars PROVE Typed'
  BY <1>2, <1>8 DEF Typed, CountersOK, ControlOK, HistoryOK, Finished, vars
<1>9. Typed'
  BY <1>3, <1>4, <1>5, <1>6, <1>7, <1>8 DEF Next, WaitStep
<1>10. EventOK'
  BY <1>1 DEF EventOK, Next, WaitStep, ResetStep, ArriveStep, SetCountStep, Wait, ResetLock,
    ResetCount, ResetEvent, ClearFlag, ResetUnlock, WaitLock, Decrement, TestCount, Refill,
    SetEvent, UnlockLast, SetFlag, Unlock, Wake, SetCountLock, SetCount, SetCurCount,
    SetCountUnlock, SetCountFlag, ResetInterface, Finished, Acquire, Release, vars
<1>. QED
  BY <1>9, <1>10 DEF Typed, TypeOK, CountersOK, ControlOK, EventOK, HistoryOK

(* The type invariant of the barrier, for any number of threads.           *)
THEOREM TypeCorrect == Spec => []TypeOK
BY TypeInit, TypeStep, PTL DEF Spec
-----------------------------------------------------------------------------
LEMMA LockInit == Init => LockInv
BY ThreadBarrierAssumption DEF Init, LockInv, Locked

LEMMA LockStep == TypeOK /\ LockInv /\ [Next]_vars => LockInv'
<1>. SUFFICES ASSUME TypeOK, LockInv, [Next]_vars, intact'
              PROVE  \A t \in Threads : pc'[t] \in Locked <=> cntLock' = t
  BY DEF LockInv
<1>1. pc \in [Threads -> Points] /\ NoThread \notin Threads
  BY ThreadBarrierAssumption DEF TypeOK
<1>2. intact
  BY DEF Next, WaitStep, ResetStep, ArriveStep, SetCountStep, Wait, ResetLock, ResetCount,
    ResetEvent, ClearFlag, ResetUnlock, WaitLock, Decrement, TestCount, Refill, SetEvent,
    UnlockLast, SetFlag, Unlock, Wake, SetCountLock, SetCount, SetCurCount, SetCountUnlock,
    SetCountFlag, ResetInterface, Finished, Acquire, Release, vars, history
<1>3. \A t \in Threads : pc[t] \in Locked <=> cntLock = t
  BY <1>2 DEF LockInv
<1>. DEFINE Held == \A t \in Threads : pc[t] \in Locked <=> cntLock = t
<1>. USE <1>1, <1>3 DEF Locked, Goto
<1>4. ASSUME NEW t \in Threads, WaitStep(t) PROVE Held'
  <2>1. CASE Wait(t) \/ Wake(t)
    BY <2>1 DEF Wait, Wake, object
  <2>2. CASE ResetStep(t)
    BY <2>2 DEF ResetStep, ResetLock, ResetCount, ResetEvent, ClearFlag, ResetUnlock,
      Acquire, Release
  <2>3. CASE WaitLock(t)
    BY <2>3 DEF WaitLock, Acquire
  <2>4. CASE SetEvent(t) \/ UnlockLast(t) \/ SetFlag(t) \/ Unlock(t)
    BY <2>4 DEF SetEvent, UnlockLast, SetFlag, Unlock, Release
  <2>5. CASE TestCount(t)
    BY <2>5 DEF TestCount, object
  <2>6. CASE Decrement(t) \/ Refill(t)
    <3>1. /\ pc[t] \in {"decrement", "refill"} /\ cntLock' = cntLock
          /\ pc' = [pc EXCEPT ![t] = "test"] \/ pc' = [pc EXCEPT ![t] = "set"]
      BY <2>6 DEF Decrement, Refill
    <3>. QED
      BY <3>1
  <2>. QED
    BY <1>4, <2>1, <2>2, <2>3, <2>4, <2>5, <2>6 DEF WaitStep, ArriveStep
<1>5. ASSUME NEW t \in Threads, SetCountStep(t) PROVE Held'
  BY <1>5 DEF SetCountStep, SetCountLock, SetCount, SetCurCount, SetCountUnlock, SetCountFlag,
    Acquire, Release
<1>6. CASE ResetInterface
  BY <1>6 DEF ResetInterface
<1>7. CASE Finished \/ UNCHANGED vars
  BY <1>7 DEF Finished, vars, object
<1>. QED
  BY <1>4, <1>5, <1>6, <1>7 DEF Next

(* Mutual exclusion of wait(), reset() and setCount() on the counters, for *)
(* as long as ResetInterface has not zeroed the lock under its holder.     *)
THEOREM LockDiscipline == Spec => []LockInv
<1>1. Init => TypeOK /\ LockInv
  BY TypeInit, LockInit
<1>2. TypeOK /\ LockInv /\ [Next]_vars => (TypeOK /\ LockInv)'
  BY TypeStep, LockStep
<1>. QED
  BY <1>1, <1>2, PTL DEF Spec
-----------------------------------------------------------------------------
(* Once a reset has taken a held lock, nothing makes the barrier intact.   *)
LEMMA IntactBefore == [Next]_vars /\ intact' => intact
BY DEF Next, WaitStep, ResetStep, ArriveStep, SetCountStep, Wait, ResetLock, ResetCount,
  ResetEvent, ClearFlag, ResetUnlock, WaitLock, Decrement, TestCount, Refill, SetEvent,
  UnlockLast, SetFlag, Unlock, Wake, SetCountLock, SetCount, SetCurCount, SetCountUnlock,
  SetCountFlag, ResetInterface, Finished, Acquire, Release, vars, history

(* The points between which a locked section's view of the counter changes.*)
Turning == {"test", "refill", "setCurCount"}

Quiet ==
  /\ UNCHANGED <<count, curCount, arrivals, completed>>
  /\ \A t \in Threads : pc[t] \in Turning \/ pc'[t] \in Turning => pc'[t] = pc[t]

CounterStep(t) ==
  \/ Decrement(t) \/ TestCount(t) \/ Refill(t) \/ ResetCount(t) \/ SetCount(t)
  \/ SetCurCount(t)

(* The only steps that touch the counters or turn on them.                 *)
LEMMA CounterSteps ==
  ASSUME TypeOK, [Next]_vars
  PROVE  Quiet \/ ResetInterface \/ \E t \in Threads : CounterStep(t)
<1>1. pc \in [Threads -> Points]
  BY DEF TypeOK
<1>. USE <1>1 DEF Quiet, Turning, Goto, history
<1>2. ASSUME NEW t \in Threads, WaitStep(t), ~CounterStep(t) PROVE Quiet
  <2>1. CASE Wait(t) \/ Unlock(t) \/ Wake(t)
    BY <2>1 DEF Wait, Unlock, Wake, Release, object
  <2>2. CASE ResetLock(t) \/ ResetEvent(t) \/ ClearFlag(t) \/ ResetUnlock(t)
    BY <2>2 DEF ResetLock, ResetEvent, ClearFlag, ResetUnlock, Acquire, Release
  <2>3. CASE WaitLock(t) \/ SetEvent(t) \/ UnlockLast(t) \/ SetFlag(t)
    BY <2>3 DEF WaitLock, SetEvent, UnlockLast, SetFlag, Acquire, Release
  <2>. QED
    BY <1>2, <2>1, <2>2, <2>3 DEF WaitStep, ResetStep, ArriveStep, CounterStep
<1>3. ASSUME NEW t \in Threads, SetCountStep(t), ~CounterStep(t) PROVE Quiet
  BY <1>3 DEF SetCountStep, CounterStep, SetCountLock, SetCountUnlock, SetCountFlag,
    Acquire, Release
<1>4. CASE Finished \/ UNCHANGED vars
  BY <1>4 DEF Finished, vars, object
<1>. QED
  BY <1>2, <1>3, <1>4 DEF Next

(* Whoever is in a locked section of an intact barrier is alone in one.    *)
LEMMA Alone ==
  ASSUME LockInv, intact, NEW t \in Threads, pc[t] \in Locked,
         NEW u \in Threads, u # t
  PROVE  pc[u] \notin Locked
BY DEF LockInv

LEMMA CounterStepInv ==
  ASSUME TypeOK, LockInv, intact, SectionInv, BooksInv, NEW t \in Threads, CounterStep(t)
  PROVE  SectionInv' /\ BooksInv'
<1>1. /\ pc \in [Threads -> Points] /\ count \in {0, N} /\ curCount \in Int
      /\ N \in Nat /\ N > 0 /\ arrivals \in Nat /\ completed \in Nat
  BY CountFact DEF TypeOK
<1>2. N * completed \in Nat /\ N * (completed + 1) = N * completed + N
  BY <1>1
<1>3. pc[t] \in Locked /\ pc' = [pc EXCEPT ![t] = pc'[t]]
  BY <1>1 DEF CounterStep, Locked, Goto, Decrement, TestCount, Refill, ResetCount, SetCount,
    SetCurCount
<1>4. \A u \in Threads : u # t => pc[u] \notin Locked /\ pc'[u] = pc[u]
  BY <1>1, <1>3, Alone
<1>5. \A u \in Threads : u # t => pc[u] \notin Turning /\ pc'[u] \notin Turning
  BY <1>4 DEF Turning, Locked
<1>6. /\ Settled <=> pc[t] \notin Turning
      /\ (\A u \in Threads : pc[u] # "setCurCount") <=> pc[t] # "setCurCount"
  BY <1>5 DEF Settled, Turning
<1>7. /\ Settled' <=> pc'[t] \notin Turning
      /\ (\A u \in Threads : pc'[u] # "setCurCount") <=> pc'[t] # "setCurCount"
  BY <1>5 DEF Settled, Turning
<1>8. SectionInv' <=>
        /\ pc'[t] \notin Turning => curCount' <= count' /\ (count' > 0 => curCount' > 0)
        /\ pc'[t] = "test" => IF count' > 0 THEN curCount' \in 0..count' ELSE curCount' < 0
        /\ pc'[t] = "refill" => count' = N /\ curCount' = 0
        /\ pc'[t] = "setCurCount" => count' = N
  BY <1>5, <1>7 DEF SectionInv, Turning
<1>9. BooksInv' <=>
        /\ N * completed' <= arrivals'
        /\ pc'[t] # "setCurCount" => N * completed' + (count' - curCount') <= arrivals'
  BY <1>7 DEF BooksInv
<1>10. CASE Decrement(t)
  <2>1. pc'[t] = "test" /\ pc[t] = "decrement" /\ curCount' = curCount - 1 /\ count' = count
    BY <1>1, <1>10 DEF Decrement, Goto
  <2>2. curCount <= count /\ (count > 0 => curCount > 0)
    BY <1>6, <2>1 DEF SectionInv, Turning
  <2>3. SectionInv'
    BY <1>1, <1>8, <2>1, <2>2 DEF Turning
  <2>4. arrivals' = arrivals + 1 /\ completed' = completed
    BY <1>10 DEF Decrement
  <2>5. BooksInv'
    BY <1>1, <1>2, <1>6, <1>9, <2>1, <2>4 DEF BooksInv
  <2>. QED
    BY <2>3, <2>5
<1>11. CASE TestCount(t)
  <2>1. /\ pc[t] = "test" /\ UNCHANGED <<count, curCount, arrivals, completed>>
        /\ pc'[t] = IF curCount = 0 THEN "refill" ELSE "unlock"
    BY <1>1, <1>11 DEF TestCount, Goto, object, history
  <2>2. IF count > 0 THEN curCount \in 0..count ELSE curCount < 0
    BY <2>1 DEF SectionInv
  <2>3. SectionInv'
    BY <1>1, <1>8, <2>1, <2>2 DEF Turning
  <2>4. BooksInv'
    BY <1>6, <1>9, <2>1 DEF BooksInv
  <2>. QED
    BY <2>3, <2>4
<1>12. CASE Refill(t)
  <2>1. /\ pc[t] = "refill" /\ pc'[t] = "set" /\ curCount' = count /\ count' = count
        /\ completed' = completed + 1 /\ arrivals' = arrivals
    BY <1>1, <1>12 DEF Refill, Goto
  <2>2. count = N /\ curCount = 0
    BY <2>1 DEF SectionInv
  <2>3. SectionInv'
    BY <1>1, <1>8, <2>1, <2>2 DEF Turning
  <2>4. N * completed + (count - curCount) <= arrivals
    BY <1>6, <2>1 DEF BooksInv
  <2>5. BooksInv'
    BY <1>1, <1>2, <1>9, <2>1, <2>2, <2>4
  <2>. QED
    BY <2>3, <2>5
<1>13. CASE ResetCount(t)
  <2>1. /\ pc[t] = "resetCount" /\ pc'[t] = "resetEvent" /\ curCount' = count
        /\ count' = count /\ completed' = completed /\ arrivals' = arrivals
    BY <1>1, <1>13 DEF ResetCount, Goto, history
  <2>2. SectionInv'
    BY <1>1, <1>8, <2>1 DEF Turning
  <2>3. BooksInv'
    BY <1>1, <1>2, <1>9, <2>1 DEF BooksInv
  <2>. QED
    BY <2>2, <2>3
<1>14. CASE SetCount(t)
  <2>1. /\ pc[t] = "setCount" /\ pc'[t] = "setCurCount" /\ count' = N
        /\ completed' = completed /\ arrivals' = arrivals
    BY <1>1, <1>14, ThreadBarrierAssumption DEF SetCount, Goto, history
  <2>2. SectionInv'
    BY <1>8, <2>1 DEF Turning
  <2>3. BooksInv'
    BY <1>1, <1>2, <1>9, <2>1 DEF BooksInv
  <2>. QED
    BY <2>2, <2>3
<1>15. CASE SetCurCount(t)
  <2>1. /\ pc[t] = "setCurCount" /\ pc'[t] = "setCountUnlock" /\ curCount' = N
        /\ count' = count /\ completed' = completed /\ arrivals' = arrivals
    BY <1>1, <1>15, ThreadBarrierAssumption DEF SetCurCount, Goto, history
  <2>2. count = N
    BY <2>1 DEF SectionInv
  <2>3. SectionInv'
    BY <1>1, <1>8, <2>1, <2>2 DEF Turning
  <2>4. BooksInv'
    BY <1>1, <1>2, <1>9, <2>1, <2>2 DEF BooksInv
  <2>. QED
    BY <2>3, <2>4
<1>. QED
  BY <1>10, <1>11, <1>12, <1>13, <1>14, <1>15 DEF CounterStep

LEMMA CounterInvStep == TypeOK /\ LockInv /\ CounterInv /\ [Next]_vars => CounterInv'
<1>. SUFFICES ASSUME TypeOK, LockInv, CounterInv, [Next]_vars, intact'
              PROVE  SectionInv' /\ BooksInv'
  BY DEF CounterInv
<1>1. intact /\ SectionInv /\ BooksInv
  BY IntactBefore DEF CounterInv
<1>2. CASE Quiet
  <2>1. \A t \in Threads : pc[t] \in Turning \/ pc'[t] \in Turning => pc'[t] = pc[t]
    BY <1>2 DEF Quiet
  <2>2. Settled' <=> Settled
    BY <2>1 DEF Settled, Turning
  <2>3. (\A t \in Threads : pc'[t] # "setCurCount") <=> (\A t \in Threads : pc[t] # "setCurCount")
    BY <2>1 DEF Turning
  <2>4. SectionInv'
    BY <1>1, <1>2, <2>1, <2>2 DEF SectionInv, Quiet, Turning
  <2>5. BooksInv'
    BY <1>1, <1>2, <2>3 DEF BooksInv, Quiet
  <2>. QED
    BY <2>4, <2>5
<1>3. CASE ResetInterface
  <2>1. cntLock = NoThread /\ UNCHANGED <<pc, arrivals, completed>> /\ count' = 0 /\ curCount' = 0
    BY <1>3 DEF ResetInterface
  <2>2. \A t \in Threads : pc[t] \notin Locked
    BY <1>1, <2>1, ThreadBarrierAssumption DEF LockInv
  <2>3. SectionInv'
    BY <2>1, <2>2 DEF SectionInv, Locked
  <2>4. BooksInv'
    BY <1>1, <2>1, CountFact DEF BooksInv, TypeOK
  <2>. QED
    BY <2>3, <2>4
<1>4. ASSUME NEW t \in Threads, CounterStep(t) PROVE SectionInv' /\ BooksInv'
  BY <1>1, <1>4, CounterStepInv
<1>. QED
  BY <1>2, <1>3, <1>4, CounterSteps

LEMMA CounterInit == Init => CounterInv
<1>. SUFFICES ASSUME Init PROVE SectionInv /\ BooksInv
  BY DEF CounterInv
<1>1. count = N /\ curCount = N /\ completed = 0 /\ arrivals = 0
  BY ThreadBarrierAssumption DEF Init
<1>2. SectionInv
  BY <1>1, CountFact DEF Init, SectionInv
<1>3. BooksInv
  BY <1>1, CountFact DEF BooksInv
<1>. QED
  BY <1>2, <1>3

CoreInv == TypeOK /\ LockInv /\ CounterInv

LEMMA CoreAlways == Spec => []CoreInv
<1>1. Init => CoreInv
  BY TypeInit, LockInit, CounterInit DEF CoreInv
<1>2. CoreInv /\ [Next]_vars => CoreInv'
  BY TypeStep, LockStep, CounterInvStep DEF CoreInv
<1>. QED
  BY <1>1, <1>2, PTL DEF Spec

(* Nobody is in a locked section of an intact barrier whose lock is free.  *)
LEMMA FreeLock ==
  ASSUME LockInv, intact, cntLock = NoThread
  PROVE  \A t \in Threads : pc[t] \notin Locked
BY ThreadBarrierAssumption DEF LockInv

(* Whatever the interleaving, a counter that has its count is never read   *)
(* at zero or below: no arrival can be counted past the last one.          *)
THEOREM CountReadable == Spec => []ReadableCount
<1>1. CoreInv => ReadableCount
  <2>. SUFFICES ASSUME CoreInv, intact, cntLock = NoThread, count > 0
                PROVE  curCount \in 1..count
    BY DEF ReadableCount
  <2>1. Settled
    BY FreeLock DEF CoreInv, Settled, Locked
  <2>. QED
    BY <2>1, CountFact DEF CoreInv, CounterInv, SectionInv, TypeOK
<1>. QED
  BY <1>1, CoreAlways, PTL

(* Every completed round consumed N calls of wait(), for every N.          *)
THEOREM Accounting == Spec => []ArrivalAccounting
<1>1. CoreInv => ArrivalAccounting
  <2>. SUFFICES ASSUME CoreInv, intact, cntLock = NoThread
                PROVE  N * completed + (count - curCount) <= arrivals
    BY DEF ArrivalAccounting
  <2>1. \A t \in Threads : pc[t] # "setCurCount"
    BY FreeLock DEF CoreInv, Locked
  <2>. QED
    BY <2>1 DEF CoreInv, CounterInv, BooksInv
<1>. QED
  BY <1>1, CoreAlways, PTL
-----------------------------------------------------------------------------
LEMMA HistoryStep == TypeOK /\ HistoryInv /\ [Next]_vars => HistoryInv'
<1>. SUFFICES ASSUME TypeOK, HistoryInv, [Next]_vars PROVE HistoryInv'
  OBVIOUS
<1>1. /\ pc \in [Threads -> Points] /\ Rounds \in Nat
      /\ arrived \in [Threads -> Nat] /\ passed \in [Threads -> Nat]
  BY ThreadBarrierAssumption DEF TypeOK
<1>. USE <1>1 DEF HistoryInv, Counted, Waiting, Goto, history
<1>2. ASSUME NEW t \in Threads, WaitStep(t) PROVE HistoryInv'
  <2>1. CASE Wait(t)
    BY <2>1 DEF Wait
  <2>2. CASE ResetStep(t)
    BY <2>2 DEF ResetStep, ResetLock, ResetCount, ResetEvent, ClearFlag, ResetUnlock,
      Acquire, Release
  <2>3. CASE Decrement(t)
    BY <2>3 DEF Decrement
  <2>4. CASE WaitLock(t) \/ TestCount(t) \/ Refill(t) \/ SetEvent(t)
    BY <2>4 DEF WaitLock, TestCount, Refill, SetEvent, Acquire
  <2>5. CASE UnlockLast(t) \/ Unlock(t)
    BY <2>5 DEF UnlockLast, Unlock, Release
  <2>6. CASE SetFlag(t) \/ Wake(t)
    BY <2>6 DEF SetFlag, Wake
  <2>. QED
    BY <1>2, <2>1, <2>2, <2>3, <2>4, <2>5, <2>6 DEF WaitStep, ArriveStep
<1>3. ASSUME NEW t \in Threads, SetCountStep(t) PROVE HistoryInv'
  BY <1>3 DEF SetCountStep, SetCountLock, SetCount, SetCurCount, SetCountUnlock, SetCountFlag,
    Acquire, Release
<1>4. CASE ResetInterface
  BY <1>4 DEF ResetInterface
<1>5. CASE Finished \/ UNCHANGED vars
  BY <1>5 DEF Finished, vars
<1>. QED
  BY <1>2, <1>3, <1>4, <1>5 DEF Next

(* A thread that counts itself for the first time is one more Present.     *)
LEMMA PresentGrows ==
  ASSUME TypeOK, NEW t \in Threads, arrived[t] = 0,
         arrived' = [arrived EXCEPT ![t] = @ + 1]
  PROVE  Cardinality(Present)' = Cardinality(Present) + 1
<1>1. IsFiniteSet(Present) /\ t \notin Present
  BY ThreadBarrierAssumption, FS_Subset DEF Present
<1>2. Present' = Present \cup {t}
  BY DEF Present, TypeOK
<1>. QED
  BY <1>1, <1>2, FS_AddElement

(* A set of threads as large as Threads is Threads.                        *)
LEMMA FullSubset ==
  ASSUME NEW S \in SUBSET Threads, N <= Cardinality(S)
  PROVE  S = Threads
<1>1. IsFiniteSet(Threads) /\ IsFiniteSet(S)
  BY ThreadBarrierAssumption, FS_Subset
<1>2. Cardinality(S) <= N /\ Cardinality(S) \in Nat /\ N \in Nat
  BY <1>1, FS_Subset, FS_CardinalityType DEF N
<1>3. Cardinality(S) = Cardinality(Threads)
  BY <1>2 DEF N
<1>. QED
  BY <1>1, <1>3, FS_Subset

LEMMA PresentFinite == IsFiniteSet(Present) /\ Cardinality(Present) \in Nat
BY ThreadBarrierAssumption, FS_Subset, FS_CardinalityType DEF Present

(* The thread that ends the first round finds everybody else present.      *)
LEMMA FirstRefill ==
  ASSUME IInv, intact, NEW t \in Threads, Refill(t)
  PROVE  FirstInv'
<1>1. /\ UNCHANGED <<arrived, passed>> /\ completed' = completed + 1 /\ completed \in Nat
      /\ pc[t] = "refill"
  BY DEF Refill, IInv, TypeOK
<1>2. \A u \in Threads : arrived[u] > 0
  <2>1. CASE completed > 0
    BY <2>1 DEF IInv, FirstInv
  <2>2. CASE completed = 0
    <3>1. count = N /\ curCount = 0
      BY <1>1 DEF IInv, CounterInv, SectionInv
    <3>2. \A u \in Threads : pc[u] # "setCurCount"
      BY <1>1, Alone DEF IInv, Locked
    <3>3. count - curCount <= Cardinality(Present)
      BY <2>2, <3>2 DEF IInv, FirstInv, Fresh
    <3>4. N <= Cardinality(Present)
      BY <3>1, <3>3, CountFact
    <3>5. Present = Threads
      BY <3>4, FullSubset DEF Present
    <3>. QED
      BY <3>5 DEF Present
  <2>. QED
    BY <1>1, <2>1, <2>2
<1>3. completed' > 0 /\ \A u \in Threads : arrived'[u] > 0
  BY <1>1, <1>2
<1>. QED
  BY <1>3 DEF FirstInv

(* A first arrival is one less to wait for and one more present.           *)
LEMMA FirstDecrement ==
  ASSUME IInv, intact, NEW t \in Threads, Decrement(t)
  PROVE  FirstInv'
<1>1. /\ arrived' = [arrived EXCEPT ![t] = @ + 1] /\ pc[t] = "decrement"
      /\ UNCHANGED <<count, needsReset, unlockEvent, passed, completed>>
      /\ curCount' = curCount - 1 /\ pc' = [pc EXCEPT ![t] = "test"]
      /\ pc \in [Threads -> Points] /\ arrived \in [Threads -> Nat]
      /\ count \in {0, N} /\ curCount \in Int /\ completed \in Nat /\ N \in Nat
  BY CountFact DEF Decrement, Goto, IInv, TypeOK
<1>2. CASE completed > 0
  <2>1. \A u \in Threads : arrived'[u] > 0
    BY <1>1, <1>2 DEF IInv, FirstInv
  <2>. QED
    BY <1>1, <1>2, <2>1 DEF FirstInv
<1>3. CASE completed = 0
  <2>1. Fresh
    BY <1>3 DEF IInv, FirstInv
  <2>2. arrived[t] = 0
    BY <1>1, <2>1 DEF Fresh, IInv, HistoryInv, Counted
  <2>3. Cardinality(Present)' = Cardinality(Present) + 1
    BY <1>1, <2>2, PresentGrows DEF IInv
  <2>4. \A u \in Threads : pc[u] # "setCurCount"
    BY <1>1, Alone DEF IInv, Locked
  <2>5. (count - curCount <= Cardinality(Present))'
    BY <1>1, <2>1, <2>3, <2>4, PresentFinite DEF Fresh
  <2>6. ~unlockEvent' /\ ~needsReset' /\ \A u \in Threads : passed'[u] = 0 /\ pc'[u] \in Early
    BY <1>1, <2>1 DEF Fresh, Early
  <2>. QED
    BY <1>1, <1>3, <2>5, <2>6 DEF FirstInv, Fresh
<1>. QED
  BY <1>1, <1>2, <1>3

LEMMA FirstStep == IInv /\ intact /\ intact' /\ [Next]_vars => FirstInv'
<1>. SUFFICES ASSUME IInv, intact, intact', [Next]_vars PROVE FirstInv'
  OBVIOUS
<1>1. /\ FirstInv /\ pc \in [Threads -> Points] /\ count \in {0, N} /\ curCount \in Int
      /\ N \in Nat /\ Cardinality(Present) \in Nat
  BY CountFact, PresentFinite DEF IInv, TypeOK
<1>2. ASSUME NEW t \in Threads, Refill(t) PROVE FirstInv'
  BY <1>2, FirstRefill
<1>3. ASSUME NEW t \in Threads, Decrement(t) PROVE FirstInv'
  BY <1>3, FirstDecrement
<1>4. ASSUME UNCHANGED <<arrived, completed>>, completed = 0 => Fresh' PROVE FirstInv'
  BY <1>1, <1>4 DEF FirstInv
<1>5. ASSUME UNCHANGED <<count, curCount, needsReset, unlockEvent, passed, arrived>>,
             Fresh, NEW t \in Threads, NEW to \in Early \ {"setCurCount"},
             pc[t] # "setCurCount", Goto(t, to)
      PROVE  Fresh'
  <2>1. \A u \in Threads : passed'[u] = 0 /\ pc'[u] \in Early
    BY <1>1, <1>5 DEF Fresh, Goto
  <2>2. (\A u \in Threads : pc'[u] # "setCurCount") => \A u \in Threads : pc[u] # "setCurCount"
    BY <1>1, <1>5 DEF Goto
  <2>3. Present' = Present
    BY <1>5 DEF Present
  <2>. QED
    BY <1>5, <2>1, <2>2, <2>3 DEF Fresh
<1>6. ASSUME NEW t \in Threads,
             \/ Wait(t) \/ WaitLock(t) \/ TestCount(t) \/ Unlock(t)
             \/ SetCountLock(t) \/ SetCountUnlock(t)
      PROVE  FirstInv'
  <2>1. UNCHANGED <<count, curCount, needsReset, unlockEvent, history>> /\ pc[t] # "setCurCount"
    BY <1>6 DEF Wait, WaitLock, TestCount, Unlock, SetCountLock, SetCountUnlock, Acquire,
      Release, object
  <2>2. Fresh => \E to \in Early \ {"setCurCount"} : Goto(t, to)
    BY <1>6 DEF Wait, WaitLock, TestCount, Unlock, SetCountLock, SetCountUnlock, Acquire,
      Release, Fresh, Early
  <2>. QED
    BY <1>1, <1>4, <1>5, <2>1, <2>2 DEF FirstInv, history
<1>7. ASSUME NEW t \in Threads, SetCountFlag(t) PROVE FirstInv'
  <2>1. ASSUME Fresh PROVE Fresh'
    <3>1. (\A u \in Threads : pc'[u] # "setCurCount") => \A u \in Threads : pc[u] # "setCurCount"
      BY <1>1, <1>7 DEF SetCountFlag, Goto
    <3>2. \A u \in Threads : pc'[u] \in Early
      BY <1>1, <1>7, <2>1 DEF SetCountFlag, Goto, Fresh, Early
    <3>3. Present' = Present /\ UNCHANGED <<count, curCount, unlockEvent, passed>> /\ ~needsReset'
      BY <1>7 DEF SetCountFlag, history, Present
    <3>. QED
      BY <2>1, <3>1, <3>2, <3>3 DEF Fresh
  <2>. QED
    BY <1>1, <1>4, <1>7, <2>1 DEF FirstInv, SetCountFlag, history
<1>8. ASSUME NEW t \in Threads, SetCount(t) PROVE FirstInv'
  <2>1. ASSUME Fresh PROVE Fresh'
    <3>1. pc'[t] = "setCurCount" /\ UNCHANGED <<needsReset, unlockEvent, passed, arrived>>
      BY <1>1, <1>8 DEF SetCount, Goto, history
    <3>2. \A u \in Threads : pc'[u] \in Early
      BY <1>1, <1>8, <2>1 DEF SetCount, Goto, Fresh, Early
    <3>. QED
      BY <2>1, <3>1, <3>2 DEF Fresh
  <2>. QED
    BY <1>1, <1>4, <1>8, <2>1 DEF FirstInv, SetCount, history
<1>9. ASSUME NEW t \in Threads, SetCurCount(t) PROVE FirstInv'
  <2>1. count = N /\ curCount' = N /\ count' = count
    BY <1>9, ThreadBarrierAssumption DEF SetCurCount, IInv, CounterInv, SectionInv
  <2>2. ASSUME Fresh PROVE Fresh'
    <3>1. Present' = Present /\ UNCHANGED <<needsReset, unlockEvent, passed>>
      BY <1>9 DEF SetCurCount, history, Present
    <3>2. \A u \in Threads : pc'[u] \in Early
      BY <1>1, <1>9, <2>2 DEF SetCurCount, Goto, Fresh, Early
    <3>3. (count - curCount <= Cardinality(Present))'
      BY <1>1, <2>1, <3>1
    <3>. QED
      BY <2>2, <3>1, <3>2, <3>3 DEF Fresh
  <2>. QED
    BY <1>1, <1>4, <1>9, <2>2 DEF FirstInv, SetCurCount, history
<1>10. CASE ResetInterface
  <2>1. ASSUME Fresh PROVE Fresh'
    <3>1. Present' = Present /\ count' = 0 /\ curCount' = 0
      BY <1>10 DEF ResetInterface, Present
    <3>2. (count - curCount <= Cardinality(Present))'
      BY <1>1, <3>1
    <3>. QED
      BY <1>10, <2>1, <3>2 DEF Fresh, ResetInterface
  <2>. QED
    BY <1>1, <1>4, <1>10, <2>1 DEF FirstInv, ResetInterface
<1>11. ASSUME NEW t \in Threads,
             \/ ResetStep(t) \/ SetEvent(t) \/ UnlockLast(t) \/ SetFlag(t) \/ Wake(t)
      PROVE  FirstInv'
  <2>1. ~Fresh
    BY <1>11 DEF Fresh, Early, ResetStep, ResetLock, ResetCount, ResetEvent, ClearFlag,
      ResetUnlock, Acquire, Release, SetEvent, UnlockLast, SetFlag, Wake
  <2>2. UNCHANGED <<arrived, completed>>
    BY <1>11 DEF ResetStep, ResetLock, ResetCount, ResetEvent, ClearFlag, ResetUnlock, Acquire,
      Release, SetEvent, UnlockLast, SetFlag, Wake, history
  <2>. QED
    BY <1>1, <2>1, <2>2 DEF FirstInv
<1>12. CASE Finished \/ UNCHANGED vars
  <2>1. UNCHANGED <<count, curCount, needsReset, unlockEvent, pc, arrived, passed, completed>>
    BY <1>12 DEF Finished, vars, object, history
  <2>2. Present' = Present
    BY <2>1 DEF Present
  <2>3. Fresh' <=> Fresh
    BY <2>1, <2>2 DEF Fresh
  <2>. QED
    BY <1>1, <2>1, <2>3 DEF FirstInv
<1>. QED
  BY <1>2, <1>3, <1>6, <1>7, <1>8, <1>9, <1>10, <1>11, <1>12
     DEF Next, WaitStep, ArriveStep, SetCountStep

LEMMA InductiveInv == Spec => []IInv
<1>1. Init => IInv
  <2>1. Init => HistoryInv
    BY ThreadBarrierAssumption DEF Init, HistoryInv, Counted, Waiting
  <2>2. ASSUME Init PROVE FirstInv
    <3>1. count - curCount <= Cardinality(Present)
      BY <2>2, CountFact, ThreadBarrierAssumption, PresentFinite DEF Init
    <3>. QED
      BY <2>2, <3>1 DEF Init, FirstInv, Fresh, Early
  <2>. QED
    BY <2>1, <2>2, TypeInit, LockInit, CounterInit DEF IInv
<1>2. IInv /\ [Next]_vars => IInv'
  <2>. SUFFICES ASSUME IInv, [Next]_vars PROVE IInv'
    OBVIOUS
  <2>1. TypeOK' /\ LockInv' /\ HistoryInv' /\ CounterInv'
    BY TypeStep, LockStep, HistoryStep, CounterInvStep DEF IInv
  <2>2. intact' => FirstInv'
    BY FirstStep, IntactBefore
  <2>. QED
    BY <2>1, <2>2 DEF IInv
<1>. QED
  BY <1>1, <1>2, PTL DEF Spec

(* The first use of the barrier is a rendezvous for every number of        *)
(* threads, whatever resizing, re-arming and reuse follow or interleave,   *)
(* until a reset of the interface takes the lock from its holder.          *)
THEOREM FirstUse == Spec => []FirstRendezvous
<1>1. IInv => FirstRendezvous
  <2>. SUFFICES ASSUME IInv, intact, NEW t \in Threads, NEW u \in Threads, passed[t] > 0
                PROVE  arrived[u] > 0
    BY DEF FirstRendezvous
  <2>1. completed > 0
    BY DEF IInv, FirstInv, Fresh, TypeOK
  <2>. QED
    BY <2>1 DEF IInv, FirstInv
<1>. QED
  BY <1>1, InductiveInv, PTL

LEMMA IntactInv == ~Resets => (Spec => []intact)
<1>. SUFFICES ASSUME ~Resets PROVE Spec => []intact
  OBVIOUS
<1>1. Init => intact
  BY DEF Init
<1>2. intact /\ [Next]_vars => intact'
  BY DEF Next, WaitStep, ResetStep, ArriveStep, SetCountStep, Wait, ResetLock, ResetCount,
    ResetEvent, ClearFlag, ResetUnlock, WaitLock, Decrement, TestCount, Refill, SetEvent,
    UnlockLast, SetFlag, Unlock, Wake, SetCountLock, SetCount, SetCurCount, SetCountUnlock,
    SetCountFlag, ResetInterface, Finished, Acquire, Release, vars, history
<1>. QED
  BY <1>1, <1>2, PTL DEF Spec

(* What the invariant says of a barrier that is used once.                 *)
LEMMA OneShotInv == Rounds = 1 /\ intact /\ IInv => Rendezvous
<1>. SUFFICES ASSUME Rounds = 1, intact, IInv, NEW t \in Threads, NEW u \in Threads
              PROVE  passed[t] <= arrived[u]
  BY DEF Rendezvous
<1>1. passed[t] \in Nat /\ arrived[u] \in Nat /\ passed[t] <= 1
  BY DEF IInv, TypeOK, HistoryInv
<1>2. CASE passed[t] = 0
  BY <1>1, <1>2
<1>3. CASE passed[t] = 1
  <2>1. completed > 0
    BY <1>3 DEF IInv, FirstInv, Fresh, TypeOK
  <2>. QED
    BY <1>1, <2>1 DEF IInv, FirstInv
<1>. QED
  BY <1>1, <1>2, <1>3

(* A barrier every thread uses once and no interface resets, as in         *)
(* threadbarrier_test.C, is a rendezvous: nobody returns from wait()       *)
(* before everybody has called it.                                         *)
THEOREM OneShot ==
  ASSUME Rounds = 1, ~Resets
  PROVE  Spec => []Rendezvous
<1>1. intact /\ IInv => Rendezvous
  BY OneShotInv
<1>. QED
  BY <1>1, InductiveInv, IntactInv, PTL
-----------------------------------------------------------------------------
(* With one round, counting oneself is arriving, and a thread that returns *)
(* finds the whole round present.                                          *)
LEMMA OneShotStep ==
  ASSUME Rounds = 1
  PROVE  intact /\ IInv /\ [Next]_vars => [B!Next]_(B!barrierVars)
<1>. SUFFICES ASSUME intact, IInv, [Next]_vars PROVE [B!Next]_(B!barrierVars)
  OBVIOUS
<1>1. ASSUME NEW t \in Threads, Decrement(t) PROVE B!Arrive(t)
  BY <1>1 DEF IInv, HistoryInv, Counted, Waiting, Decrement, B!Arrive
<1>2. ASSUME NEW t \in Threads, SetFlag(t) \/ Wake(t) PROVE B!Pass(t)
  <2>1. passed[t] + 1 = arrived[t] /\ passed[t] < 1
    BY <1>2 DEF IInv, HistoryInv, Counted, Waiting, SetFlag, Wake
  <2>2. completed > 0
    <3>1. ~Fresh
      BY <1>2 DEF Fresh, Early, SetFlag, Wake
    <3>. QED
      BY <3>1 DEF IInv, FirstInv, TypeOK
  <2>3. passed \in [Threads -> Nat] /\ arrived \in [Threads -> Nat]
    BY DEF IInv, TypeOK
  <2>4. \A u \in Threads : arrived[t] <= arrived[u]
    BY <2>1, <2>2, <2>3 DEF IInv, FirstInv
  <2>5. passed' = [passed EXCEPT ![t] = @ + 1] /\ arrived' = arrived
    BY <1>2 DEF SetFlag, Wake
  <2>. QED
    BY <2>1, <2>3, <2>4, <2>5 DEF B!Pass
<1>3. ASSUME NEW t \in Threads,
             \/ Wait(t) \/ ResetStep(t) \/ WaitLock(t) \/ TestCount(t) \/ Refill(t)
             \/ SetEvent(t) \/ UnlockLast(t) \/ Unlock(t) \/ SetCountStep(t)
      PROVE  UNCHANGED <<arrived, passed>>
  BY <1>3 DEF Wait, ResetStep, ResetLock, ResetCount, ResetEvent, ClearFlag, ResetUnlock,
    WaitLock, TestCount, Refill, SetEvent, UnlockLast, Unlock, SetCountStep, SetCountLock,
    SetCount, SetCurCount, SetCountUnlock, SetCountFlag, Acquire, Release, history
<1>4. CASE ResetInterface \/ Finished \/ UNCHANGED vars
  BY <1>4 DEF ResetInterface, Finished, vars, history, B!barrierVars
<1>. QED
  BY <1>1, <1>2, <1>3, <1>4 DEF Next, WaitStep, ArriveStep, B!Next, B!barrierVars

(* A barrier used for one round implements the abstract barrier (safety;   *)
(* that every wait() also returns is left to the model checker).           *)
THEOREM OneShotImplements ==
  ASSUME Rounds = 1, ~Resets
  PROVE  Spec => B!SafeSpec
<1>1. Init => B!Init
  BY DEF Init, B!Init
<1>2. intact /\ IInv /\ [Next]_vars => [B!Next]_(B!barrierVars)
  BY OneShotStep
<1>. QED
  BY <1>1, <1>2, InductiveInv, IntactInv, PTL DEF Spec, B!SafeSpec
=============================================================================
