---------------------------- MODULE SteplistRun ----------------------------
(***************************************************************************)
(* The simulator executing step lists: the host thread runs                *)
(* Cam8SimInterface::ExecuteSteplist, which copies one instruction after   *)
(* another into the shared Cam8SimInstrQueue and has Cam8SimBox start a    *)
(* task per module for each; the tasks run Cam8InterpModule::runTask, which*)
(* reads the queue while the host goes on.  Nothing waits for a task.      *)
(*                                                                         *)
(* Instructions are numbered in the order they are issued.  What is stored *)
(* in the queue is which instruction each part of it belongs to: the word  *)
(* with the opcode, the words with address and length, and the flags kept  *)
(* beside the instruction.  The list itself is the module Steplist's.      *)
(***************************************************************************)
EXTENDS Integers, FiniteSets

CONSTANTS
  NumModules,  (* Cam8Box::NUM_MODULES                                     *)
  MaxInstrs,   (* bound: the instructions issued, over all lists           *)
  Noops        (* the instructions with both ReadMode and ImmedMode        *)

ASSUME SteplistRunAssumption ==
  /\ NumModules \in Nat \ {0}
  /\ MaxInstrs \in Nat
  /\ Noops \subseteq 1..MaxInstrs

Modules == 1..NumModules
Numbers == 0..MaxInstrs

Parts == {"op", "adr", "flags"}

VARIABLES
  op, adr, flags,  (* whose opcode, address and flags the queue holds      *)
  n,               (* the instruction the host is at                       *)
  done,            (* bDone                                                *)
  next,            (* the module executeInstruction starts next            *)
  pc,              (* where the host is                                    *)
  todo,            (* the parts of the queue it still has to write         *)
  tasks,           (* the tasks the thread pool is running                 *)
  started,         (* history: which module was started on what            *)
  announced        (* history: n when NEWLIST was last set in the ISR      *)

queue == <<op, adr, flags>>
host == <<n, done, next, pc, todo>>
vars == <<queue, host, tasks, started, announced>>

(* A task remembers, for each part of the queue, whose it has read; 0 is   *)
(* not read yet.  "mode" is runTask's second look at the opcode word.      *)
NewTask(m) == [module |-> m, inst |-> n, stage |-> "op", op |-> 0, adr |-> 0, mode |-> 0, flags |-> 0]

Init ==
  /\ op = 0 /\ adr = 0 /\ flags = 0
  /\ n = 0
  /\ done = FALSE
  /\ next = 1
  /\ pc = "idle"
  /\ todo = {}
  /\ tasks = {}
  /\ started = {}
  /\ announced = 0
-----------------------------------------------------------------------------
(* Faulty: one thread too few.                                             *)
PoolTooSmall == Cardinality(tasks) >= NumModules - 1

(* The thread pool and the task manager are Poco's: start() hands the task *)
(* to an idle thread at once, or throws when there is none.                *)
PoolFull == Cardinality(tasks) >= NumModules
-----------------------------------------------------------------------------
(* Faulty variants, each a plausible slip in the definition it stands for. *)
NoFlagsForNoops ==
  /\ "flags" \in todo
  /\ flags' = IF n \in Noops THEN flags ELSE n
  /\ done' \in (IF n = MaxInstrs THEN {TRUE} ELSE BOOLEAN)
  /\ todo' = todo \ {"flags"}
  /\ UNCHANGED <<op, adr, n, next, pc, tasks, started, announced>>

StartBeforeFlags ==
  /\ pc = "issue" /\ todo = {"flags"} /\ ~PoolFull
  /\ tasks' = tasks \cup {NewTask(next)}
  /\ started' = started \cup {<<next, n>>}
  /\ next' = IF next = NumModules THEN 1 ELSE next + 1
  /\ pc' = IF next = NumModules THEN "test" ELSE "issue"
  /\ UNCHANGED <<queue, n, done, todo, announced>>

StartSkippingLast ==
  /\ pc = "issue" /\ todo = {} /\ ~PoolFull
  /\ tasks' = tasks \cup {NewTask(next)}
  /\ started' = started \cup {<<next, n>>}
  /\ next' = 1
  /\ pc' = "test"
  /\ UNCHANGED <<queue, n, done, todo, announced>>

StartOneTooMany ==
  /\ pc = "issue" /\ todo = {} /\ ~PoolFull
  /\ tasks' = tasks \cup {NewTask(next)}
  /\ started' = started \cup {<<next, n>>}
  /\ next' = IF next > NumModules THEN 1 ELSE next + 1
  /\ pc' = IF next > NumModules THEN "test" ELSE "issue"
  /\ UNCHANGED <<queue, n, done, todo, announced>>

StartBlocking ==
  /\ pc = "issue" /\ todo = {} /\ ~PoolFull
  /\ tasks' = tasks \cup {NewTask(next)}
  /\ started' = started \cup {<<next, n>>}
  /\ next' = IF next = NumModules THEN 1 ELSE next + 1
  /\ pc' = IF next = NumModules THEN "test" ELSE "issue"
  /\ UNCHANGED <<queue, n, done, todo, announced>>
-----------------------------------------------------------------------------
(* schedule_list calls ExecuteSteplist, whose bDone is not initialised.    *)
Schedule ==
  /\ pc = "idle" /\ n < MaxInstrs
  /\ done' \in BOOLEAN
  /\ pc' = "test"
  /\ UNCHANGED <<queue, n, next, todo, tasks, started, announced>>

(* The loop's test, with the next instruction in hand.                     *)
Test ==
  /\ pc = "test"
  /\ IF done
       THEN pc' = "newlist" /\ UNCHANGED <<n, todo>>
       ELSE pc' = "issue" /\ n' = n + 1 /\ todo' = Parts
  /\ UNCHANGED <<queue, done, next, tasks, started, announced>>

(* iq->c8i = *curi and the flags, plain stores in the order the build      *)
(* chooses, but all of them before executeInstruction is called.           *)
WriteOp ==
  /\ "op" \in todo
  /\ op' = n
  /\ todo' = todo \ {"op"}
  /\ UNCHANGED <<adr, flags, n, done, next, pc, tasks, started, announced>>

WriteAdr ==
  /\ "adr" \in todo
  /\ adr' = n
  /\ todo' = todo \ {"adr"}
  /\ UNCHANGED <<op, flags, n, done, next, pc, tasks, started, announced>>

(* bDone is two of the flags.                                              *)
WriteFlags ==
  /\ "flags" \in todo
  /\ flags' = n
  /\ done' \in (IF n = MaxInstrs THEN {TRUE} ELSE BOOLEAN)
  /\ todo' = todo \ {"flags"}
  /\ UNCHANGED <<op, adr, n, next, pc, tasks, started, announced>>

(* executeInstruction, one module: nobody catches what start() throws.     *)
StartTask ==
  /\ pc = "issue" /\ todo = {}
  /\ IF PoolFull
       THEN /\ pc' = "raised"
            /\ UNCHANGED <<next, tasks, started>>
       ELSE /\ tasks' = tasks \cup {NewTask(next)}
            /\ started' = started \cup {<<next, n>>}
            /\ next' = IF next = NumModules THEN 1 ELSE next + 1
            /\ pc' = IF next = NumModules THEN "test" ELSE "issue"
  /\ UNCHANGED <<queue, n, done, todo, announced>>

(* NEWLIST is set in the ISR, wait_for_nlp sees it and the caller goes on. *)
NewList ==
  /\ pc = "newlist"
  /\ announced' = n
  /\ pc' = "idle"
  /\ UNCHANGED <<queue, n, done, next, todo, tasks, started>>
-----------------------------------------------------------------------------
Replace(t, u) == tasks' = (tasks \ {t}) \cup {u}

(* runTask: opcode, then address and length, then both modes, then flags.  *)
ReadOp(t) ==
  /\ t.stage = "op"
  /\ Replace(t, [t EXCEPT !.stage = "adr", !.op = op])
  /\ UNCHANGED <<queue, host, started, announced>>

ReadAdr(t) ==
  /\ t.stage = "adr"
  /\ Replace(t, [t EXCEPT !.stage = "mode", !.adr = adr])
  /\ UNCHANGED <<queue, host, started, announced>>

(* A no-operation returns before it looks at the flags.  The build may use *)
(* the opcode word it has, or read the word again.                         *)
ReadMode(t) ==
  /\ t.stage = "mode"
  /\ \E word \in {t.op, op} :
       Replace(t, [t EXCEPT !.stage = IF word \in Noops THEN "end" ELSE "flags", !.mode = word])
  /\ UNCHANGED <<queue, host, started, announced>>

ReadFlags(t) ==
  /\ t.stage = "flags"
  /\ Replace(t, [t EXCEPT !.stage = "end", !.flags = flags])
  /\ UNCHANGED <<queue, host, started, announced>>

(* The register is written or the scan is run; the thread is idle again.   *)
Finish(t) ==
  /\ t.stage = "end"
  /\ tasks' = tasks \ {t}
  /\ UNCHANGED <<queue, host, started, announced>>

Host == Schedule \/ Test \/ WriteOp \/ WriteAdr \/ WriteFlags \/ StartTask \/ NewList

Task(t) == ReadOp(t) \/ ReadAdr(t) \/ ReadMode(t) \/ ReadFlags(t) \/ Finish(t)

(* An uncaught exception ends the program, its tasks included.             *)
TaskStep == pc # "raised" /\ \E t \in tasks : Task(t)

(* No list left to run, or the program ended by the exception.             *)
Stop ==
  /\ pc = "raised" \/ (pc = "idle" /\ n = MaxInstrs /\ tasks = {})
  /\ UNCHANGED vars

Next == Host \/ TaskStep \/ Stop

Spec == Init /\ [][Next]_vars
FairSpec == Spec /\ WF_vars(Host)
-----------------------------------------------------------------------------
(* Every variable keeps its type: the host numbers no instruction and      *)
(* starts no module that is not there.                                     *)
TypeOK ==
  /\ op \in Numbers /\ adr \in Numbers /\ flags \in Numbers /\ n \in Numbers
  /\ done \in BOOLEAN
  /\ next \in Modules
  /\ pc \in {"idle", "test", "issue", "newlist", "raised"}
  /\ todo \subseteq Parts
  /\ tasks \subseteq [module : Modules, inst : Numbers, stage : {"op", "adr", "mode", "flags", "end"},
                      op : Numbers, adr : Numbers, mode : Numbers, flags : Numbers]
  /\ started \subseteq Modules \X Numbers
  /\ announced \in Numbers

(* Whose parts a task has read so far.                                     *)
Seen(t) == {t.op, t.adr, t.mode, t.flags} \ {0}

(* A task never acts on an instruction older than the one it was started   *)
(* for: the queue is complete before executeInstruction is called.         *)
NeverStale == \A t \in tasks : \A i \in Seen(t) : t.inst <= i

(* A task may mix instructions, but what it reads later is at most one     *)
(* instruction behind what it read before.                                 *)
TornByOne ==
  \A t \in tasks :
    /\ t.adr # 0 => t.adr >= t.op - 1
    /\ t.mode # 0 => t.mode >= t.op
    /\ t.flags # 0 => t.flags >= t.mode - 1 /\ t.flags >= t.adr - 1

(* When NEWLIST is announced every module has been started on every        *)
(* instruction issued so far, although it need not have finished one.      *)
AnnouncedStarted ==
  Modules \X (1..announced) \subseteq started

(* The pool runs out of threads only because a task of an earlier          *)
(* instruction is still running; one instruction alone always fits.        *)
RaisedByOverrun == pc = "raised" => \E t \in tasks : t.inst < n

(* The host always gets to the end of a list, or ends by the exception.    *)
ListEnds == (pc # "idle") ~> (pc \in {"idle", "raised"})
=============================================================================
