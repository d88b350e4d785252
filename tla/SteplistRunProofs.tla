------------------------- MODULE SteplistRunProofs -------------------------
(***************************************************************************)
(* What the tasks of the simulator can and cannot read from the shared     *)
(* instruction queue, and what NEWLIST means, for any number of modules    *)
(* and of instructions.                                                    *)
(***************************************************************************)
EXTENDS SteplistRun, FiniteSetTheorems, TLAPS

(* How far the host is with the instruction it is at: the parts it has     *)
(* written are of instruction n, the others of the one before, and nothing *)
(* is started before all are written.                                      *)
QueueInv ==
  /\ op = IF "op" \in todo THEN n - 1 ELSE n
  /\ adr = IF "adr" \in todo THEN n - 1 ELSE n
  /\ flags = IF "flags" \in todo THEN n - 1 ELSE n
  /\ pc \in {"issue", "raised"} => n > 0
  /\ todo # {} => pc = "issue" /\ next = 1

(* The host takes a next instruction only when there is one.               *)
LengthInv ==
  pc = "test" \/ (pc = "issue" /\ "flags" \notin todo) => done \/ n < MaxInstrs

(* What a task has read lies between the instruction it was started for    *)
(* and what the queue holds now.                                           *)
Between(i, part, now) == part = 0 \/ (i <= part /\ part <= now)

Bounded(t, nowOp, nowAdr, nowFlags) ==
  /\ 0 < t.inst /\ t.inst <= nowOp /\ t.inst <= nowAdr /\ t.inst <= nowFlags
  /\ Between(t.inst, t.op, nowOp)
  /\ Between(t.inst, t.adr, nowAdr)
  /\ Between(t.inst, t.mode, nowOp)
  /\ Between(t.inst, t.flags, nowFlags)

TaskInv == \A t \in tasks : Bounded(t, op, adr, flags)

(* What a task has not read yet, by its stage.                             *)
Unread(t) ==
  /\ t.stage = "op" => t.op = 0 /\ t.adr = 0 /\ t.mode = 0 /\ t.flags = 0
  /\ t.stage = "adr" => t.adr = 0 /\ t.mode = 0 /\ t.flags = 0
  /\ t.stage = "mode" => t.mode = 0 /\ t.flags = 0
  /\ t.stage = "flags" => t.flags = 0

Torn(t) ==
  /\ t.adr # 0 => t.adr >= t.op - 1
  /\ t.mode # 0 => t.mode >= t.op
  /\ t.flags # 0 => t.flags >= t.mode - 1 /\ t.flags >= t.adr - 1

TornInv == \A t \in tasks : Unread(t) /\ Torn(t)

(* Everything before instruction n was started on every module, and of     *)
(* instruction n the modules before the next one, or all.                  *)
StartedInv ==
  /\ \A m \in Modules, i \in 1..n - 1 : <<m, i>> \in started
  /\ pc \in {"idle", "test", "newlist"} => \A m \in Modules : n > 0 => <<m, n>> \in started
  /\ pc = "issue" => \A m \in Modules : m < next => <<m, n>> \in started
  /\ pc \notin {"issue", "raised"} => next = 1

(* The pool: at most one task per module and instruction, and of the       *)
(* instruction being started only the modules before the next one.         *)
PoolInv ==
  /\ IsFiniteSet(tasks)
  /\ \A t, u \in tasks : t.inst = u.inst /\ t.module = u.module => t = u
  /\ pc \in {"issue", "raised"} => \A t \in tasks : t.inst = n => t.module < next
  /\ pc = "raised" => PoolFull

IInv ==
  /\ TypeOK /\ LengthInv /\ QueueInv
  /\ TaskInv /\ TornInv
  /\ StartedInv /\ AnnouncedStarted /\ PoolInv
-----------------------------------------------------------------------------
(* The parts of TypeOK: the counters apart from the flag of the loop.      *)
Points == {"idle", "test", "issue", "newlist", "raised"}
Stages == {"op", "adr", "mode", "flags", "end"}
TaskType == [module : Modules, inst : Numbers, stage : Stages,
             op : Numbers, adr : Numbers, mode : Numbers, flags : Numbers]

HostOK ==
  /\ op \in Numbers /\ adr \in Numbers /\ flags \in Numbers /\ n \in Numbers
  /\ next \in Modules /\ pc \in Points /\ todo \subseteq Parts
  /\ announced \in Numbers

LEMMA TypeParts ==
  TypeOK <=> HostOK /\ done \in BOOLEAN /\ tasks \subseteq TaskType /\ started \subseteq Modules \X Numbers
BY DEF TypeOK, HostOK, Points, TaskType, Stages

(* One turn of the host with what it does to the task set and the history  *)
(* left out: its own steps are deterministic but for bDone.                *)
LEMMA HostKeepsTasks ==
  Schedule \/ Test \/ WriteOp \/ WriteAdr \/ WriteFlags \/ NewList => UNCHANGED <<tasks, started>>
BY DEF Schedule, Test, WriteOp, WriteAdr, WriteFlags, NewList

LEMMA TaskKeepsHost == TaskStep => UNCHANGED <<op, adr, flags, n, done, next, pc, todo, started, announced>>
BY DEF TaskStep, Task, ReadOp, ReadAdr, ReadMode, ReadFlags, Finish, queue, host
-----------------------------------------------------------------------------
LEMMA HostTypeStep ==
  ASSUME TypeOK, LengthInv, Host
  PROVE  TypeOK'
<1>1. HostOK /\ done \in BOOLEAN /\ tasks \subseteq TaskType /\ started \subseteq Modules \X Numbers
  BY TypeParts
<1>. USE SteplistRunAssumption DEF Host, Schedule, Test, WriteOp, WriteAdr, WriteFlags, NewList,
       StartTask, queue, Numbers, Modules
<1>2. HostOK'
  <2>1. CASE Test
    <3>1. done \/ n < MaxInstrs
      BY <2>1 DEF LengthInv
    <3>2. n' \in Numbers
      BY <1>1, <2>1, <3>1 DEF HostOK
    <3>. QED
      BY <1>1, <2>1, <3>2 DEF HostOK, Points
  <2>2. CASE StartTask
    BY <1>1, <2>2 DEF HostOK, Points
  <2>3. CASE Schedule \/ WriteOp \/ WriteAdr \/ WriteFlags \/ NewList
    BY <1>1, <2>3 DEF HostOK, Points
  <2>. QED
    BY <2>1, <2>2, <2>3
<1>3. (done \in BOOLEAN)'
  BY <1>1
<1>4. (tasks \subseteq TaskType)'
  <2>1. CASE StartTask
    <3>1. NewTask(next) \in TaskType
      BY <1>1 DEF NewTask, TaskType, Stages, HostOK
    <3>. QED
      BY <1>1, <2>1, <3>1
  <2>. QED
    BY <1>1, <2>1
<1>5. (started \subseteq Modules \X Numbers)'
  <2>1. CASE StartTask
    <3>1. <<next, n>> \in Modules \X Numbers
      BY <1>1 DEF HostOK
    <3>. QED
      BY <1>1, <2>1, <3>1
  <2>. QED
    BY <1>1, <2>1
<1>. QED
  BY <1>2, <1>3, <1>4, <1>5 DEF TypeOK, HostOK, Points, TaskType, Stages

(* A task's step replaces it by one that differs in its stage and in what  *)
(* it has read, or removes it.                                             *)
OpRead(t) == [t EXCEPT !.stage = "adr", !.op = op]
AdrRead(t) == [t EXCEPT !.stage = "mode", !.adr = adr]
ModeRead(t, s, word) == [t EXCEPT !.stage = s, !.mode = word]
ModesRead(t) == {ModeRead(t, s, word) : s \in {"end", "flags"}, word \in {t.op, op}}
FlagsRead(t) == [t EXCEPT !.stage = "end", !.flags = flags]

LEMMA TaskChange ==
  ASSUME NEW t \in tasks, Task(t)
  PROVE  \E u : /\ \/ t.stage = "op" /\ u = OpRead(t)
                   \/ t.stage = "adr" /\ u = AdrRead(t)
                   \/ t.stage = "mode" /\ u \in ModesRead(t)
                   \/ t.stage = "flags" /\ u = FlagsRead(t)
                   \/ t.stage = "end" /\ u = t
                /\ tasks' \subseteq (tasks \ {t}) \cup {u}
<1>1. CASE ReadOp(t)
  BY <1>1 DEF ReadOp, Replace, OpRead
<1>2. CASE ReadAdr(t)
  BY <1>2 DEF ReadAdr, Replace, AdrRead
<1>3. CASE ReadMode(t)
  <2>1. PICK word \in {t.op, op} :
          tasks' = (tasks \ {t}) \cup {ModeRead(t, IF word \in Noops THEN "end" ELSE "flags", word)}
    BY <1>3 DEF ReadMode, Replace, ModeRead
  <2>2. ModeRead(t, IF word \in Noops THEN "end" ELSE "flags", word) \in ModesRead(t)
    BY DEF ModesRead
  <2>3. t.stage = "mode"
    BY <1>3 DEF ReadMode
  <2>. QED
    BY <2>1, <2>2, <2>3
<1>4. CASE ReadFlags(t)
  BY <1>4 DEF ReadFlags, Replace, FlagsRead
<1>5. CASE Finish(t)
  BY <1>5 DEF Finish
<1>. QED
  BY <1>1, <1>2, <1>3, <1>4, <1>5 DEF Task

LEMMA TaskTypeStep ==
  ASSUME TypeOK, TaskStep
  PROVE  TypeOK'
<1>1. HostOK /\ done \in BOOLEAN /\ tasks \subseteq TaskType /\ started \subseteq Modules \X Numbers
  BY TypeParts
<1>2. PICK t \in tasks : Task(t)
  BY DEF TaskStep
<1>3. t \in TaskType
  BY <1>1
<1>4. OpRead(t) \in TaskType /\ AdrRead(t) \in TaskType /\ FlagsRead(t) \in TaskType
  BY <1>1, <1>3 DEF HostOK, TaskType, Stages, OpRead, AdrRead, FlagsRead
<1>6. ModesRead(t) \subseteq TaskType
  <2>1. SUFFICES ASSUME NEW s \in {"end", "flags"}, NEW word \in {t.op, op}
                 PROVE  ModeRead(t, s, word) \in TaskType
    BY DEF ModesRead
  <2>2. word \in Numbers
    BY <1>1, <1>3 DEF HostOK, TaskType
  <2>. QED
    BY <1>3, <2>2 DEF TaskType, Stages, ModeRead
<1>5. (tasks \subseteq TaskType)'
  BY <1>1, <1>2, <1>3, <1>4, <1>6, TaskChange
<1>. QED
  BY <1>1, <1>5, TaskKeepsHost DEF TypeOK, HostOK, Points, TaskType, Stages

LEMMA TypeStep == TypeOK /\ LengthInv /\ [Next]_vars => TypeOK'
<1>. SUFFICES ASSUME TypeOK, LengthInv, [Next]_vars PROVE TypeOK'
  OBVIOUS
<1>1. CASE Stop \/ UNCHANGED vars
  BY <1>1 DEF Stop, vars, queue, host, TypeOK
<1>. QED
  BY <1>1, HostTypeStep, TaskTypeStep DEF Next

LEMMA LengthStep == TypeOK /\ LengthInv /\ [Next]_vars => LengthInv'
<1>. SUFFICES ASSUME TypeOK, LengthInv, [Next]_vars PROVE LengthInv'
  OBVIOUS
<1>1. CASE TaskStep
  BY <1>1, TaskKeepsHost DEF LengthInv
<1>2. CASE WriteFlags
  <2>1. n = MaxInstrs => done'
    BY <1>2 DEF WriteFlags
  <2>2. n < MaxInstrs \/ n = MaxInstrs
    BY SteplistRunAssumption DEF TypeOK, Numbers
  <2>. QED
    BY <1>2, <2>1, <2>2 DEF LengthInv, WriteFlags
<1>4. CASE StartTask
  BY <1>4 DEF LengthInv, StartTask
<1>5. CASE Schedule \/ Test \/ WriteOp \/ WriteAdr \/ NewList
  BY <1>5 DEF LengthInv, Schedule, Test, WriteOp, WriteAdr, NewList, Parts
<1>3. CASE Stop \/ UNCHANGED vars
  BY <1>3 DEF Stop, vars, host, LengthInv
<1>. QED
  BY <1>1, <1>2, <1>3, <1>4, <1>5 DEF Next, Host

LEMMA QueueStep == TypeOK /\ QueueInv /\ StartedInv /\ [Next]_vars => QueueInv'
<1>. SUFFICES ASSUME TypeOK, QueueInv, StartedInv, [Next]_vars PROVE QueueInv'
  OBVIOUS
<1>1. CASE TaskStep
  BY <1>1, TaskKeepsHost DEF QueueInv
<1>2. n \in Nat
  BY SteplistRunAssumption DEF TypeOK, Numbers
<1>4. CASE Schedule \/ NewList
  BY <1>4 DEF QueueInv, Schedule, NewList, queue
<1>5. CASE Test
  <2>1. todo = {} /\ op = n /\ adr = n /\ flags = n
    BY <1>5 DEF QueueInv, Test
  <2>2. CASE done
    BY <1>5, <2>1, <2>2 DEF QueueInv, Test, queue
  <2>3. CASE ~done
    <3>1. n' = n + 1 /\ pc' = "issue" /\ todo' = Parts /\ UNCHANGED queue
      BY <1>5, <2>3 DEF Test
    <3>2. next = 1 /\ next' = 1
      BY <1>5 DEF Test, StartedInv
    <3>. QED
      BY <1>2, <2>1, <3>1, <3>2 DEF QueueInv, Parts, queue
  <2>. QED
    BY <2>2, <2>3
<1>6. CASE WriteOp
  BY <1>6 DEF QueueInv, WriteOp
<1>7. CASE WriteAdr
  BY <1>7 DEF QueueInv, WriteAdr
<1>8. CASE WriteFlags
  BY <1>8 DEF QueueInv, WriteFlags
<1>9. CASE StartTask
  BY <1>9 DEF QueueInv, StartTask, queue
<1>3. CASE Stop \/ UNCHANGED vars
  BY <1>3 DEF Stop, vars, host, queue, QueueInv
<1>. QED
  BY <1>1, <1>3, <1>4, <1>5, <1>6, <1>7, <1>8, <1>9 DEF Next, Host
-----------------------------------------------------------------------------
(* What the queue holds never gets older, and its parts are at most one    *)
(* instruction apart.                                                      *)
LEMMA QueueGrows ==
  ASSUME TypeOK, QueueInv, [Next]_vars
  PROVE  /\ op \in Nat /\ adr \in Nat /\ flags \in Nat /\ n \in Nat
         /\ op' \in Nat /\ adr' \in Nat /\ flags' \in Nat
         /\ op <= op' /\ adr <= adr' /\ flags <= flags'
<1>1. op \in Nat /\ adr \in Nat /\ flags \in Nat /\ n \in Nat
  BY SteplistRunAssumption DEF TypeOK, Numbers
<1>2. CASE WriteOp
  BY <1>1, <1>2 DEF WriteOp, QueueInv
<1>3. CASE WriteAdr
  BY <1>1, <1>3 DEF WriteAdr, QueueInv
<1>4. CASE WriteFlags
  BY <1>1, <1>4 DEF WriteFlags, QueueInv
<1>5. CASE UNCHANGED queue
  BY <1>1, <1>5 DEF queue
<1>6. Schedule \/ Test \/ StartTask \/ NewList \/ TaskStep \/ Stop \/ UNCHANGED vars => UNCHANGED queue
  BY TaskKeepsHost DEF Schedule, Test, StartTask, NewList, Stop, vars, queue
<1>. QED
  BY <1>2, <1>3, <1>4, <1>5, <1>6 DEF Next, Host

LEMMA BoundGrows ==
  ASSUME NEW t \in TaskType, NEW a \in Nat, NEW b \in Nat, NEW c \in Nat,
         NEW x \in Nat, NEW y \in Nat, NEW z \in Nat,
         a <= x, b <= y, c <= z, Bounded(t, a, b, c)
  PROVE  Bounded(t, x, y, z)
BY DEF TaskType, Numbers, Bounded, Between

Good(t) == Bounded(t, op, adr, flags) /\ Unread(t) /\ Torn(t)

(* Each of a task's own steps keeps what it has read within its bounds,    *)
(* whole or torn by no more than one instruction.                          *)
LEMMA OneTask ==
  ASSUME NEW t \in TaskType, Good(t),
         op \in Nat, adr \in Nat, flags \in Nat,
         op - 1 <= adr, op - 1 <= flags, adr - 1 <= flags
  PROVE  /\ t.stage = "op" => Good(OpRead(t))
         /\ t.stage = "adr" => Good(AdrRead(t))
         /\ t.stage = "mode" => \A u \in ModesRead(t) : Good(u)
         /\ t.stage = "flags" => Good(FlagsRead(t))
<1>. USE SteplistRunAssumption DEF TaskType, Stages, Numbers, Good, Bounded, Between, Unread, Torn
<1>1. t.stage = "op" => Good(OpRead(t))
  BY DEF OpRead
<1>2. t.stage = "adr" => Good(AdrRead(t))
  BY DEF AdrRead
<1>3. ASSUME t.stage = "mode", NEW u \in ModesRead(t) PROVE Good(u)
  <2>1. PICK s \in {"end", "flags"}, word \in {t.op, op} : u = ModeRead(t, s, word)
    BY <1>3 DEF ModesRead
  <2>. QED
    BY <1>3, <2>1 DEF ModeRead
<1>4. t.stage = "flags" => Good(FlagsRead(t))
  BY DEF FlagsRead
<1>. QED
  BY <1>1, <1>2, <1>3, <1>4

LEMMA TaskInvStep == TypeOK /\ QueueInv /\ TaskInv /\ TornInv /\ [Next]_vars => (TaskInv /\ TornInv)'
<1>. SUFFICES ASSUME TypeOK, QueueInv, TaskInv, TornInv, [Next]_vars
             PROVE  (TaskInv /\ TornInv)'
  OBVIOUS
<1>1. tasks \subseteq TaskType
  BY TypeParts
<1>2. /\ op \in Nat /\ adr \in Nat /\ flags \in Nat /\ n \in Nat
      /\ op' \in Nat /\ adr' \in Nat /\ flags' \in Nat
      /\ op <= op' /\ adr <= adr' /\ flags <= flags'
  BY QueueGrows
<1>3. CASE UNCHANGED tasks
  <2>1. \A t \in tasks : Bounded(t, op', adr', flags')
    BY <1>1, <1>2, BoundGrows DEF TaskInv
  <2>. QED
    BY <1>3, <2>1 DEF TaskInv, TornInv
<1>4. CASE StartTask
  <2>1. op = n /\ adr = n /\ flags = n /\ n > 0
    BY <1>4 DEF StartTask, QueueInv
  <2>2. Bounded(NewTask(next), op, adr, flags) /\ Unread(NewTask(next)) /\ Torn(NewTask(next))
    BY <1>2, <2>1 DEF NewTask, Bounded, Between, Unread, Torn
  <2>3. UNCHANGED <<op, adr, flags>> /\ tasks' \subseteq tasks \cup {NewTask(next)}
    BY <1>4 DEF StartTask, queue
  <2>. QED
    BY <2>2, <2>3 DEF TaskInv, TornInv
<1>5. CASE TaskStep
  <2>1. PICK t \in tasks : Task(t)
    BY <1>5 DEF TaskStep
  <2>2. \A u \in tasks : u \in TaskType /\ Good(u)
    BY <1>1 DEF TaskInv, TornInv, Good
  <2>3. op - 1 <= adr /\ op - 1 <= flags /\ adr - 1 <= flags
    BY <1>2 DEF QueueInv
  <2>4. \A u \in tasks' : Good(u)
    BY <1>2, <2>1, <2>2, <2>3, TaskChange, OneTask
  <2>5. UNCHANGED <<op, adr, flags>>
    BY <1>5, TaskKeepsHost
  <2>. QED
    BY <2>4, <2>5 DEF TaskInv, TornInv, Good
<1>6. CASE Stop \/ UNCHANGED vars
  BY <1>3, <1>6 DEF Stop, vars
<1>. QED
  BY <1>3, <1>4, <1>5, <1>6, HostKeepsTasks DEF Next, Host
-----------------------------------------------------------------------------
LEMMA StartedStep == TypeOK /\ StartedInv /\ [Next]_vars => StartedInv'
<1>. SUFFICES ASSUME TypeOK, StartedInv, [Next]_vars PROVE StartedInv'
  OBVIOUS
<1>. n \in Nat /\ next \in Modules /\ NumModules \in Nat /\ NumModules > 0
  BY SteplistRunAssumption DEF TypeOK, Numbers
<1>. USE DEF StartedInv
<1>1. CASE Test
  <2>1. CASE done
    BY <1>1, <2>1 DEF Test
  <2>2. CASE ~done
    <3>1. n' = n + 1 /\ pc' = "issue" /\ next = 1 /\ UNCHANGED <<next, started>>
      BY <1>1, <2>2 DEF Test
    <3>2. \A m \in Modules, i \in 1..n : <<m, i>> \in started
      <4>1. \A i \in 1..n : i \in 1..n - 1 \/ (i = n /\ n > 0)
        OBVIOUS
      <4>. QED
        BY <1>1, <4>1 DEF Test
    <3>. QED
      BY <3>1, <3>2 DEF Modules
  <2>. QED
    BY <2>1, <2>2
<1>2. CASE StartTask
  <2>1. CASE PoolFull
    BY <1>2, <2>1 DEF StartTask
  <2>2. CASE ~PoolFull /\ next = NumModules
    BY <1>2, <2>2 DEF StartTask, Modules
  <2>3. CASE ~PoolFull /\ next # NumModules
    BY <1>2, <2>3 DEF StartTask, Modules
  <2>. QED
    BY <2>1, <2>2, <2>3
<1>3. CASE WriteFlags
  BY <1>3 DEF WriteFlags, Modules
<1>4. CASE Schedule \/ WriteOp \/ WriteAdr \/ NewList
  BY <1>4 DEF Schedule, WriteOp, WriteAdr, NewList
<1>5. CASE TaskStep
  BY <1>5, TaskKeepsHost
<1>6. CASE Stop \/ UNCHANGED vars
  BY <1>6 DEF Stop, vars, host
<1>. QED
  BY <1>1, <1>2, <1>3, <1>4, <1>5, <1>6 DEF Next, Host

LEMMA AnnouncedStep ==
  TypeOK /\ StartedInv /\ AnnouncedStarted /\ [Next]_vars => AnnouncedStarted'
<1>. SUFFICES ASSUME TypeOK, StartedInv, AnnouncedStarted, [Next]_vars PROVE AnnouncedStarted'
  OBVIOUS
<1>1. CASE NewList
  <2>1. n \in Nat
    BY SteplistRunAssumption DEF TypeOK, Numbers
  <2>2. \A m \in Modules, i \in 1..n : <<m, i>> \in started
    <3>1. SUFFICES ASSUME NEW m \in Modules, NEW i \in 1..n PROVE <<m, i>> \in started
      OBVIOUS
    <3>2. i \in 1..n - 1 \/ (i = n /\ n > 0)
      BY <2>1
    <3>. QED
      BY <1>1, <3>2 DEF NewList, StartedInv
  <2>. QED
    BY <1>1, <2>2 DEF NewList, AnnouncedStarted
<1>2. CASE UNCHANGED announced /\ started \subseteq started'
  BY <1>2 DEF AnnouncedStarted
<1>3. Schedule \/ Test \/ WriteOp \/ WriteAdr \/ WriteFlags \/ StartTask \/ TaskStep \/ Stop \/ UNCHANGED vars
        => UNCHANGED announced /\ started \subseteq started'
  BY TaskKeepsHost DEF Schedule, Test, WriteOp, WriteAdr, WriteFlags, StartTask, Stop, vars
<1>. QED
  BY <1>1, <1>2, <1>3 DEF Next, Host
-----------------------------------------------------------------------------
LEMMA PoolStep == TypeOK /\ QueueInv /\ TaskInv /\ PoolInv /\ [Next]_vars => PoolInv'
<1>. SUFFICES ASSUME TypeOK, QueueInv, TaskInv, PoolInv, [Next]_vars PROVE PoolInv'
  OBVIOUS
<1>1. tasks \subseteq TaskType /\ n \in Nat /\ next \in Modules /\ op \in Nat
  BY TypeParts, SteplistRunAssumption DEF HostOK, Numbers
<1>2. \A t \in tasks : t.inst \in Nat /\ t.module \in Modules /\ t.inst <= op
  BY <1>1 DEF TaskInv, Bounded, TaskType, Numbers
<1>3. CASE StartTask
  <2>1. CASE PoolFull
    BY <1>3, <2>1 DEF PoolInv, StartTask, PoolFull
  <2>2. CASE ~PoolFull
    <3>. DEFINE new == NewTask(next)
    <3>1. tasks' = tasks \cup {new} /\ new.inst = n /\ new.module = next
      BY <1>3, <2>2 DEF StartTask, NewTask
    <3>2. \A t \in tasks : t.inst = n => t.module < next
      BY <1>3 DEF StartTask, PoolInv
    <3>. HIDE DEF new
    <3>3. IsFiniteSet(tasks')
      BY <3>1, FS_AddElement DEF PoolInv
    <3>4. \A t, u \in tasks' : t.inst = u.inst /\ t.module = u.module => t = u
      BY <1>1, <1>2, <3>1, <3>2 DEF PoolInv, Modules
    <3>5. pc' = "issue" => \A t \in tasks' : t.inst = n' => t.module < next'
      <4>1. pc' = "issue" => next' = next + 1 /\ n' = n
        BY <1>3, <2>2 DEF StartTask
      <4>. QED
        BY <1>1, <1>2, <3>1, <3>2, <4>1 DEF Modules
    <3>6. pc' # "raised"
      BY <1>3, <2>2 DEF StartTask
    <3>. QED
      BY <3>3, <3>4, <3>5, <3>6 DEF PoolInv
  <2>. QED
    BY <2>1, <2>2
<1>4. CASE TaskStep
  <2>1. PICK t \in tasks : Task(t)
    BY <1>4 DEF TaskStep
  <2>2. PICK u : /\ tasks' \subseteq (tasks \ {t}) \cup {u}
                 /\ u \in {t, OpRead(t), AdrRead(t), FlagsRead(t)} \cup ModesRead(t)
    BY <2>1, TaskChange
  <2>3. u.inst = t.inst /\ u.module = t.module
    <3>1. CASE u \in {t, OpRead(t), AdrRead(t), FlagsRead(t)}
      BY <1>1, <3>1 DEF TaskType, OpRead, AdrRead, FlagsRead
    <3>2. CASE u \in ModesRead(t)
      <4>1. PICK s \in {"end", "flags"}, word \in {t.op, op} : u = ModeRead(t, s, word)
        BY <3>2 DEF ModesRead
      <4>. QED
        BY <1>1, <4>1 DEF TaskType, ModeRead
    <3>. QED
      BY <2>2, <3>1, <3>2
  <2>4. IsFiniteSet(tasks')
    <3>1. IsFiniteSet(tasks \ {t})
      BY FS_RemoveElement DEF PoolInv
    <3>2. IsFiniteSet((tasks \ {t}) \cup {u})
      BY <3>1, FS_AddElement
    <3>. QED
      BY <2>2, <3>2, FS_Subset
  <2>5. \A v, w \in tasks' : v.inst = w.inst /\ v.module = w.module => v = w
    BY <2>2, <2>3 DEF PoolInv
  <2>6. pc # "raised" /\ UNCHANGED <<pc, n, next>>
    BY <1>4, TaskKeepsHost DEF TaskStep
  <2>7. pc' \in {"issue", "raised"} => \A v \in tasks' : v.inst = n' => v.module < next'
    BY <2>2, <2>3, <2>6 DEF PoolInv
  <2>. QED
    BY <2>4, <2>5, <2>6, <2>7 DEF PoolInv
<1>5. CASE Test
  <2>1. \A t \in tasks : t.inst # n + 1
    BY <1>1, <1>2, <1>5 DEF Test, QueueInv
  <2>. QED
    BY <1>5, <2>1 DEF PoolInv, Test
<1>6. CASE Schedule \/ WriteOp \/ WriteAdr \/ WriteFlags \/ NewList
  <2>1. UNCHANGED <<tasks, n, next>> /\ pc # "raised" /\ (pc' = "issue" => pc = "issue") /\ pc' # "raised"
    BY <1>6 DEF QueueInv, Schedule, WriteOp, WriteAdr, WriteFlags, NewList
  <2>. QED
    BY <2>1 DEF PoolInv
<1>7. CASE Stop \/ UNCHANGED vars
  BY <1>7 DEF Stop, vars, host, PoolInv, PoolFull
<1>. QED
  BY <1>3, <1>4, <1>5, <1>6, <1>7 DEF Next, Host
-----------------------------------------------------------------------------
LEMMA InductiveInv == Spec => []IInv
<1>1. Init => IInv
  <2>. SUFFICES ASSUME Init PROVE IInv
    OBVIOUS
  <2>1. TypeOK
    <3>1. HostOK /\ tasks \subseteq TaskType /\ started \subseteq Modules \X Numbers
      BY SteplistRunAssumption DEF Init, HostOK, Points, Numbers, Modules
    <3>2. done \in BOOLEAN
      BY DEF Init
    <3>. QED
      BY <3>1, <3>2, TypeParts
  <2>2. LengthInv /\ QueueInv /\ TaskInv /\ TornInv
    BY DEF Init, LengthInv, QueueInv, TaskInv, TornInv
  <2>3. StartedInv /\ AnnouncedStarted
    BY DEF Init, StartedInv, AnnouncedStarted
  <2>4. PoolInv
    BY FS_EmptySet DEF Init, PoolInv
  <2>. QED
    BY <2>1, <2>2, <2>3, <2>4 DEF IInv
<1>2. IInv /\ [Next]_vars => IInv'
  BY TypeStep, LengthStep, QueueStep, TaskInvStep, StartedStep, AnnouncedStep, PoolStep DEF IInv
<1>. QED
  BY <1>1, <1>2, PTL DEF Spec

(* Every variable keeps its type, whatever a task reads and however long   *)
(* the pool is full.                                                       *)
THEOREM TypeCorrect == Spec => []TypeOK
<1>1. IInv => TypeOK
  BY DEF IInv
<1>. QED
  BY <1>1, InductiveInv, PTL

(* No module executes a part of an instruction older than its own.         *)
THEOREM TasksNeverStale == Spec => []NeverStale
<1>1. IInv => NeverStale
  <2>. SUFFICES ASSUME IInv, NEW t \in tasks, NEW i \in Seen(t) PROVE t.inst <= i
    BY DEF NeverStale
  <2>. QED
    BY DEF IInv, TaskInv, Bounded, Between, Seen
<1>. QED
  BY <1>1, InductiveInv, PTL

(* A module mixes parts of different instructions only in the way TornByOne*)
(* says: what it reads later is at most one instruction behind.            *)
THEOREM TasksTornByOne == Spec => []TornByOne
<1>1. IInv => TornByOne
  BY DEF IInv, TornInv, Torn, TornByOne
<1>. QED
  BY <1>1, InductiveInv, PTL

(* NEWLIST means that every module was started on every instruction.       *)
THEOREM NewListMeansStarted == Spec => []AnnouncedStarted
<1>1. IInv => AnnouncedStarted
  BY DEF IInv
<1>. QED
  BY <1>1, InductiveInv, PTL

(* The thread pool overflows only if tasks of an earlier instruction are   *)
(* still running: one instruction never needs more threads than there are. *)
THEOREM OverrunOnly == Spec => []RaisedByOverrun
<1>1. IInv => RaisedByOverrun
  <2>. SUFFICES ASSUME IInv, pc = "raised", \A t \in tasks : ~(t.inst < n)
               PROVE  FALSE
    BY DEF RaisedByOverrun
  <2>1. tasks \subseteq TaskType /\ n \in Nat /\ next \in Modules /\ NumModules \in Nat
    BY TypeParts, SteplistRunAssumption DEF IInv, HostOK, Numbers
  <2>2. \A t \in tasks : t.inst = n /\ t.module \in Modules /\ t.module < next
    <3>1. \A t \in tasks : t.inst <= n /\ t.inst \in Nat /\ t.module \in Modules
      BY <2>1 DEF IInv, QueueInv, TaskInv, Bounded, TaskType, Numbers
    <3>. QED
      BY <2>1, <3>1 DEF IInv, PoolInv
  <2>. DEFINE module == [t \in tasks |-> t.module]
  <2>3. module \in [tasks -> 1..next - 1]
    BY <2>1, <2>2 DEF Modules
  <2>4. IsFiniteSet(1..next - 1) /\ Cardinality(1..next - 1) < Cardinality(tasks)
    <3>1. IsFiniteSet(tasks) /\ Cardinality(tasks) >= NumModules
      BY DEF IInv, PoolInv, PoolFull
    <3>2. IsFiniteSet(1..next - 1) /\ Cardinality(1..next - 1) = next - 1
      BY <2>1, FS_Interval DEF Modules
    <3>3. Cardinality(tasks) \in Nat
      BY <3>1, FS_CardinalityType
    <3>. QED
      BY <2>1, <3>1, <3>2, <3>3 DEF Modules
  <2>5. IsFiniteSet(tasks)
    BY DEF IInv, PoolInv
  <2>6. \A t \in tasks : module[t] = t.module
    OBVIOUS
  <2>. HIDE DEF module
  <2>7. PICK t, u \in tasks : t # u /\ module[t] = module[u]
    BY <2>3, <2>4, <2>5, FS_PigeonHole
  <2>. QED
    BY <2>2, <2>6, <2>7 DEF IInv, PoolInv
<1>. QED
  BY <1>1, InductiveInv, PTL
=============================================================================
