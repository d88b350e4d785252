# CAM-8 support library: TLA+ models, model checks and proofs

This directory specifies in TLA+ the parts of this repository that decide
something: the second-generation CAM-8 library (`CAMlib/stage2`), namely how an
experiment assembles instructions and builds step lists, how the simulated
machine executes them on a pool of threads, how interrupts come back, the thread
barrier the simulated modules meet at, and how a simulated module kicks and
scans its planes; the life examples of `CAMlib/stage0`, as a program that runs
on such a machine; and the database of C `#define`s that STEP (`step`) builds,
installs and reads. TLC checks the models on small instances, TLAPS proves the
safety properties that matter most for every value of the constants. Every
definition is translated from the source; `PROJECT.json` records, definition by
definition, the lines it stands for.

## 1. The system

A CAM-8 is a cellular-automata machine: *modules* hold the cells, a *host*
drives them with lists of *instructions* (register reads and writes, scans,
delays). The library runs on the real machine (through a device driver that is
not in the repository), on a stub, and on a simulator in the same process.

```
 experiment ──link──▶ Cam8 ──chunk──▶ Cam8Steplist          (host thread)
     │ step(), stop()                     │
     ▼                                    ▼
 Cam8Experiment::schedule_list ─▶ Cam8SimInterface::ExecuteSteplist
     ▲                                    │ copies one instruction
     │ wait_for_nlp / handle_ints         ▼
     └──────── ISR, RER, NLP ───── Cam8SimInstrQueue (shared, no lock)
                    ▲                     ▲
                    │ Generate_Interrupt  │ runTask reads it
                    └── Cam8InterpModule × NUM_MODULES  (thread pool)
                                 └── glueBarrier: ThreadBarrier
```

| Component (of stage2, unless named) | State it keeps | Operations | What is hard | What makes it correct |
|---|---|---|---|---|
| `ThreadBarrier` | `count`, `curCount`, lock, event, `needsReset` | `wait`, `reset`, `setCount`, `getCount` | `needsReset` is read before the lock and set after it; a setter may run in mid-round; the object is zeroed from outside | nobody passes before everybody has arrived; every wait returns; the counter stays in its range |
| `Cam8Steplist`, chunks | `head`, `tail`, cursor; `next_ptr` and the host flags in each chunk | `link`, `begin`, `next`, `last`, `empty` | chunks are freed under a list that keeps its pointers; flags stay on chunks that are no longer last | a list that was never freed is the chain of what was linked, touches only its own chunks, and is issued once and in order |
| `Cam8` | the instruction being assembled, layer mask, kick arrays, register defaults, chunk counters | `reg`, `assemble`, `define`, field and register stores, kicks, `finish_instr`, `link`, `create_instr`, `free_steplist` | fields are packed into words that hold a bit of all planes; masks survive from one instruction to the next; a delay must follow some instructions | a field holds what it was told last, in the planes it was told for; a kick means its distance |
| register table (`utils/genhashcode.c`, `Cam8Lib++.XH`) | the table `gs`, kept by hand, and the macros that index it | printing the calls of `add()` | the index of a macro and the place of its entry are in different files | every macro finds its own entry; fields tile their register |
| `Cam8SimInterface` | `iq` (the queue), box | `ExecuteSteplist`, `executeInstruction`, `Read_ISR`, `Write_RER`, `ResetInterface` | it overwrites the queue while tasks read it; `bDone` is not initialised | a task acts on the instruction it was started for; NEWLIST means the list was executed |
| `Cam8SimBox` | modules, thread pool of `NUM_MODULES` threads, task manager | `executeInstruction`, constructor | `start()` throws when no thread is idle and nobody catches it | every module is started on every instruction |
| `Cam8InterpModule` | `mregs`, lookup tables, cell memory | `runTask`, register reads and writes, scans, kicks, `Generate_Interrupt` | non-atomic `|=` on shared registers; two tasks of one module at once; sweeps that start inside a word and wrap around a row; borrows and carries between dimensions | no interrupt is lost without another to wake the host; a scan does to every site what the rule says and nothing else; a kick moves each dimension by itself |
| `Cam8Experiment` | step list `sl`, `last_ints`, allowed and seen flags | `newx`, `step`, `stop`, `step_stop`, `schedule_list`, `handle_ints`, `wait_for_nlp`, `clear_exception`, `new_machine` | late interrupts, flags that are assigned by every poll, a member list used after it was freed | a schedule returns; an interrupt is reported once |
| `Cam8HardwareInterface`, `Cam8HardwareBox` | step-list buffers mapped from the driver, offsets | the same interface over `ioctl` | buffer allocation; a full buffer | not modelled (section 8) |
| `Cam8FakeInterface` | none | stubs | none | not modelled |
| `Pipecomm`, `Tube`, `XCam*` | a pipe to a child process; X11 windows | messages, drawing | partial reads, a dead child | not modelled |
| `CaLib*` | logging streams | formatting | an abort ends the program | the models' end states |
| life examples (`stage0/examples`) | step lists built once, two tables, a buffer | `main`, `einit`, `sendlut`, `lifekick`, `run_scan` and the display calls | the host patches a list it has built and runs one list ahead of the machine; tables are double-buffered | every scan is a generation of the game of life |
| C `#define`s (`step/link-Cdefines.c`, `db.c`, `build_hash_database.c`, `Makefile`) | the hash table in memory, the file in the build directory and the installed one | `hash_add`, `hash_search`, write, read, `make`, `make install` | the builder reads the installed file first; errors of writing are ignored; a file may end anywhere | a name that is in the table gets the first value it was given; a whole build has every name |
| `stage1`, `stage0` (library), `step` (Forth) | the earlier generations | as above | explicit heap | read as intent, not modelled |
| `step/link-*.c` | none between calls | wrappers of the C library | none | not modelled |

### Interactions

* *Host to modules.* `ExecuteSteplist` copies an instruction and its flags into
  the one `Cam8SimInstrQueue` and starts one task per module; the tasks read the
  queue by reference. There is no lock and no acknowledgement.
* *Modules to host.* `Generate_Interrupt` sets bits of the same queue's `ISR` and
  `NLP` by a read and a write; the host polls them with `Read_ISR` and clears
  them, also by a read and a write.
* *Modules to modules.* `SimUpdateSite` meets the other modules at
  `iq->glueBarrier` once per site update.
* *Assembly to lists.* `finish_instr` hands what was assembled to `link`, which
  copies it into a chunk, or keeps it as the default of its register, from which
  later instructions start.
* *Experiment to lists.* `step()` schedules and then frees the list of the
  experiment, and goes on using the same object.
* *Life to the interface.* A call schedules its list by writing the next-list
  pointer and returns when the list has *begun*; the interface takes the next
  list when the one before has ended, so the host is one list ahead.
* *Builder to readers.* `build_hash_database` writes a file, `make install` copies
  it, and every process that looks a name up, the next builder too, reads it.

## 2. Modules of this project

| TLA+ module | Models | Role |
|---|---|---|
| `Barrier` | what a reusable barrier promises | abstract specification |
| `ThreadBarrier` | `ThreadBarrier++.XC/.XH`, and `ResetInterface` zeroing the object | detailed specification, implements `Barrier` for one round |
| `ThreadBarrierProofs` | | theorems on `ThreadBarrier` |
| `Steplist` | `Cam8::link`, `Cam8Steplist`, `schedule_list`, `ExecuteSteplist`'s walk, `free_steplist` | one host thread over a heap of chunks |
| `SteplistProofs` | | theorems on `Steplist` |
| `SteplistRun` | `ExecuteSteplist`, `Cam8SimBox::executeInstruction`, `runTask` | host and module tasks over the shared queue |
| `SteplistRunProofs` | | theorems on `SteplistRun` |
| `Interrupts` | `handle_ints`, `wait_for_nlp`, `clear_exception`, `allow_*`, `stop`, `Read_ISR`, `Write_RER`, `Generate_Interrupt` | host and module tasks over the status registers |
| `InterruptsProofs` | | theorems on `Interrupts` |
| `SiteAddress` | `AddSiteAddress`, `DoKick`, `DCMRLowBit` | address arithmetic, next to what it should compute |
| `Scan` | `Cam8InterpModule`: register writes, kicks, tables, scan I/O, `SimExecScan` and both scans | one module executing instructions, for one plane |
| `ScanProofs` | | theorems on `Scan` |
| `RegisterSpecs` | the macros of `Cam8Lib++.XH`, the table and output of `genhashcode.c`, `Cam8_Reg_Fld_Specs` | the register layout, checked by its assumptions |
| `Assembler` | `Cam8::reg`, `assemble`, `define`, operands, `PackBits`, `UnpackBits`, `kick_twiddle`, `finish_kick` | one instruction after another being assembled |
| `AssemblerProofs` | | theorems on `Assembler` |
| `DefineBook` | what a table of names and values promises when it is copied and cut off | abstract specification |
| `DefineNames` | the names of `db.c` in the order of `main()` | a constant of `Defines` |
| `Defines` | `link-Cdefines.c`, `build_hash_database.c`, the rules of `step/Makefile` | detailed specification, implements `DefineBook` |
| `DefinesProofs` | | theorems on `Defines`, the refinement among them |
| `Life` | the game of life | abstract specification |
| `LifeExample` | `life-no-forth.c`, `life-c.c` with `life-c.exp` | host, interface and machine; implements `Life` |
| `LifeProofs` | | theorems on `LifeExample`, the refinement among them |
| `MC*` | | constant definitions for TLC |

The section "Faulty variants" of a module, and the definitions marked "Faulty"
elsewhere, are mutated forms of some of its definitions, plausible slips that no
specification uses. For every property of a passing run `PROJECT.json` names a
variant that breaks it, which shows that the property depends on the code and not
on the shape of the model.

### ThreadBarrier

One process per thread that uses the object, `pc[t]` being its place inside
`wait()`, `reset()` or `setCount()`; one action is one statement of them, the
ones under the lock too. `CtorCount` is the rule that replaces a count that is
not positive. `ResetInterface` zeroes the barrier with the queue that contains
it. The code calls it from `newx` and waits for nobody, so it has no guard: it
may come between any two statements, and may zero the lock while a thread is in
a locked section. The lock and event classes come from outside the repository
(Poco): the lock excludes, the event stays set until it is reset, a lock of
zeroes is a free one, and `unlock()` by a thread that lost the lock frees it or
leaves it to the thread that has it now (`Release`).

`arrived`, `passed`, `arrivals`, `completed` and `intact` are history: the code
has no such variables. `intact` is true until a reset finds the lock held.

### Steplist

The heap is `live` (allocated chunks), `next` and `flagged`; a `Cam8Steplist` is
`head` and `tail`. `Finish` is `Cam8::link`: allocate, copy, append. It has three
callers. `LinkOnce` is `reg(sl, ...)` and `link(sl)`. `LinkTwice` is every
`fname(sl, ...)`, which first finishes the instruction in a chunk of its own that
nobody links or frees (the macro at `Cam8++.XC:358`). `LinkDelay` is the delay
that `link` adds after an immediate write to the scan I/O register, by another
such `fname`. It passes no `END_ARGS`, so the rest of its operands is what lies
on the stack: the instruction may be anything, such a write again included, or
the assembler may abort, store through a pointer that is none or not come back
(`DelayAborts`). Which instruction a chunk holds is not modelled.

The two walks go chunk by chunk (`Issue`, `FreeInstr`), reading the next pointer
before the chunk is freed, as `next()` does. `free_steplist` leaves `head` and
`tail`, and a list may be linked to, scheduled and freed again, as
`Cam8Experiment` does with `sl` in every step. A step that touches a chunk that
is not `live` leads to `pc = "wild"`: from there the program's behaviour is
undefined and the model stops. A chunk that was freed *and handed out again* is
touched silently, as in the build. `HostWait` and `HostJump` are always set
together, hence one `flagged`. `done' \in BOOLEAN` in `Schedule` is the
uninitialised `bDone`.

`sound`, `content`, `lost` and `issued` are history. A list is sound until it has
been freed with something in it, or until a list that is not sound writes to or
frees one of its chunks; `content` is what was linked to each sound list, and
`lost` the allocated chunks that no sound list will free.

### SteplistRun

Instructions are numbered in the order in which they are issued, and each part
of the queue stores the number of the instruction it belongs to: `op` (the
opcode word), `adr` (address and length words), `flags` (the booleans kept
beside the instruction). The host's stores are plain stores to shared memory
with no order between them, except that all precede the call of
`executeInstruction`: the set `todo` and the three `Write` actions. A task
(`NewTask`) reads opcode, address, the two modes and then the flags; between
the reads it may be preempted. The second look at the opcode word may be a new
read or the value already in a register, since a compiler may do either with
a data race: `word \in {t.op, op}`. The pool (Poco's) runs a task on an idle
thread at once or throws; nobody catches, so `pc = "raised"` ends the program
with all its tasks.

### Interrupts

`status` is the set of interrupt status bits of the ISR, `exc` the exception
status of the NLP, `rer` the exceptions the RER enables. `iq->ISR |= x` is two
actions (`LoadISR`/`Announce` on the host, `Generate`/`StoreISR` in a module).
`iq->ISR &= 0x1F00` clears all the status bits whatever it had loaded, so its
load cannot be told apart from none, and it is one action (`ClearISR`) after
`ReadISR`, the load of the value `Read_ISR` returns; what a module stores
between the two is lost, as in the code. `HandleInts` is the body of
`handle_ints`: it records, aborts, or polls again. Enable bits of the ISR are
left out: `handle_ints` ORs them all on before it tests. `stored` counts the
interrupts that modules have put into the ISR and `reported` the polls that found
one. `Init` is the state
after `ResetInterface` with every exception enabled; the constructor of
`Cam8Experiment` zeroes the object, so no exception is allowed or seen.

### SiteAddress and Scan

One simulated module, and one of its sixteen bit planes: planes share the scan
index and the loops, and each has its own offset, word and rule. Words have
`2^WordLog` sites (32 in the code); a register is the set of its one bits, so
that masks are set operators; a word is a function from sites to bits with the
top bit first. Byte addresses are left out: `addr` is the set of bits of a site
address above those inside a word.

`SimExecScan` chooses as the code does (`NoPerm`). A sweep is `BeginSweep`
(find the word, rotate it), one `UpdateSite` per site with what
`SimGetNextWord` does at a word boundary, and `SaveLastWord`; a round of the
general scan is `GeneralSite`. Each `UpdateSite` is a step because the code
waits at the glue barrier in it. `SiteSources`, `OtherSources` and `PlaneUsed`
are the source and destination matrix; a source that is not needed is not
fetched, so `unglue`, `tbus` and `disp` keep what they had. `Sar` is the
right shift of the signed `PLANE_WORD`: it copies the top bit down, and
`smeared` records that it brought a one in. `start` remembers the state a scan
started from; `ideal` is the offset computed dimension by dimension.

### RegisterSpecs and Assembler

`gs` is written as the source has it, row by row, with the columns that are
NULL left out; `AddCalls` is the program's output in its order. That a macro
meets its own entry (`EveryMacroHasItsEntry`) and that fields tile their
register (`FieldsTile`) are facts about constants, so they are assumptions that
TLC evaluates in the runs of `MCAssembler`, whose layout is shown there to be
what the table says (`LaidOutByTheTable`).

An instruction's data is one word for each bit of its register, and a word is
the set of the planes in which the bit is one: `Packed` is the loops of
`PackBits` and `PackConstantPlanes` at once. `told` and `asked` are history:
what each field was told in each plane, and how far each plane was asked to be
kicked. `Begin` keeps or resets the masks, as `reg()` and `assemble()` with a
list differ; it may also give up an unfinished instruction. `RegStoreSixteen` is
the call that passes the address of its values as a flag (section 7).

### Defines

A value is the edition of the headers it was compiled from, which is what tells
a stale one from a new one; 0 is what `CAM_Calloc` leaves where the file ended
before a value. A file is the chains it was written from and the place where it
ends, each entry in two pieces, as `hash_write_database` writes header and data;
buckets without a chain, one NULL word each, are left out. `hash_read_database`
keeps what is in front of the end; an entry whose successor was cut off keeps
the next pointer of the process that wrote it (`wild`). `hash_search` is as
written: the only entry of a chain is the answer to every name of its bucket,
and a walk along a wild chain that does not find its name does not return
(`Lost`). `HashAdd` is one call of
`hash_add`, with the read of the installed file in the first, and a walk into a
wild pointer loses the process. `WriteDatabase` may stop at any piece, and exits
with 0 all the same, so the rules go on; a file that could not be opened leaves
`make install` nothing to copy after it has removed what was installed. `Compile`
is bounded to once for each edition: a build over its own output only makes the
chains longer. `Hash` is a constant: the properties
hold for any function, and `MCDefines` chooses the collisions
`hash_function` has, which only sees the last three characters.

`DefineBook` has no chains, files or rules: a draft that collects names, a copy
on a shelf and a published copy, each of which may lose names and read 0 in one
place. It also has readers: `told` is what each name is answered. A name that is
in the published book is answered with its value. One that is not is answered
with nothing, or it is taken for another: names in `Alike` are not kept apart, so
if the book holds exactly one name like it, the value of that one may come back,
and if it holds any, the reader may not return. Names that are alike and not
there get the same answer, and readers are lost in one bucket at most. The
refinement maps the three books to what is filed under each name (`BookOf`: its
first entry, in the builder's table, in the table read from the local file and in
that read from the installed file), `Alike` to the pairs that hash to the same
bucket, and `told` to what `c_define_value` returns for each name in a process
that starts now (`Told`).

### Life and LifeExample

The host is `program`, a sequence of calls, and `pc`; `PatchList`, `Schedule` and
`Return` are a call's writes into its list, `CAM_schedule_list` up to its wait
(`CAM_step.xc:155`), and the end of `wait_for_nlp` (`CAM_step.xc:396`). The lists
are the instructions the functions build, those on which no site depends being
"other". The interface takes a list (`TakeList`, which raises the interrupt the
host waits for) and executes an instruction at a time. An instruction is named by
its register and what is written to it (`"SDSR_lut"`: the site data come from the
lookup table). The machine's part is external, modelled from how the examples use
it: a kick moves whole planes, a scan looks all sites up in the active table, a
table load goes to the other one. `Alive` is the refinement mapping to `Life`.

## 3. Runs

Twelve runs; "P" passes, "V" finds the violation named (section 7).

| Run | Module, bounds | Question |
|---|---|---|
| `BarrierOneShot` P | `ThreadBarrier`, 5 threads, 1 round, no zeroing | does one use of the barrier, the one `threadbarrier_test.C` makes, rendezvous, let everybody through and implement `Barrier`? |
| `BarrierReuse` P | 3 threads, 3 rounds, resizing, zeroing at any statement | mutual exclusion, the counter's range, no arrival counted twice, a sound first round: what holds in arbitrary reuse until a reset zeroes a held lock |
| `BarrierReuseSkips` V | 2 threads, 2 rounds | `Rendezvous` fails on the second round |
| `SteplistLife` P | `Steplist`, 3 chunks, 2 lists, used again after they are freed | how far leaks, garbled delays and dangling lists reach: a sound list stays whole, keeps its chunks, is issued whole, and its walks end |
| `SteplistRun` P | 2 modules, 3 instructions, one a no-op | how stale and how torn a task's reads can be, what NEWLIST guarantees, when the pool overflows, that the host ends |
| `InterruptsPolled` P | 2 modules, 2 lists, 2 interrupts | the host notices, returns, and reports no interrupt twice |
| `ScanSweeps` P | `Scan`, 4 words of 8 sites, masks for rows of 4, 2 and 1 words, 2 kicks, 1 scan | does an optimized scan do exactly what the rule says, whatever the offsets? |
| `ScanRevisits` V | the same, no kicks | `GeneralExact` fails in a scan that starts inside a row |
| `AssemblerStores` P | `Assembler`, registers MSR and KR, 2 planes, 2 dimensions, 2 operands | does every field of every instruction and default hold what it was told, and does a kick mean its distance? |
| `AssemblerSixteen` V | the same | `SixteenStored` fails for a value for each plane |
| `DefinesRebuilt` P | `Defines`, 7 names in 5 buckets, 2 editions | what readers are told after builds over old, new and cut-off databases, for names that are there and names that are not |
| `LifeSteps` P | `LifeExample`, a torus of 5 by 4, 2 generations, 85 patterns | do both examples compute the game of life, all of it? |

The properties, by hazard:

* **Barrier.** `Rendezvous` and `FirstRendezvous` relate each thread's number of
  returns to every other thread's number of arrivals. `ArrivalAccounting` says
  that rounds ended, times the number of threads, plus what the counter has
  counted of the current one never exceed the arrivals: a late `reset()` may
  discard an arrival but none is counted twice. `ReadableCount` bounds what
  `getCount()` returns. `LockInv` ties the lock to the sections it guards. These
  four hold while `intact`: threads may have been anywhere in `wait()` outside
  the locked sections when the barrier was zeroed. `ImplementsBarrier` is
  refinement: `arrived` and `passed` map to themselves.
* **Step lists.** `WildOnlyOnceFreed` (the host touches memory that is not its
  own only through a list that is not sound), `ChainInv` (a sound list is the
  chain of what was linked to it), `OwnershipInv` (every allocated chunk is in
  exactly one sound list or lost, a sound list keeps its chunks, and freeing it
  loses none), `IssuedWhole` (of a sound list all is issued, in order, or nothing
  because of `bDone`, or a prefix ended by a flag left from an earlier schedule).
  The last tolerates what the code does there and says that no more than that
  goes wrong.
* **Execution.** `NeverStale` (what a task reads is never older than the
  instruction it was started for), `TornByOne` (each part read later is at most
  one instruction behind those read before), `AnnouncedStarted` (NEWLIST means
  started on every module, not finished), `RaisedByOverrun` (the pool overflows
  only because of tasks of *earlier* instructions).
* **Interrupts.** `ListNoticed` (when the host polls there is something to find,
  although its NEWLIST bit may have been overwritten), `ReportedOnce` (there are
  never more polls that find an exception than interrupts stored, although a
  module's late store can bring back a bit the host has cleared: it then brings
  one of its own).
* **Scans.** `KickInv` (offsets after any kicks, dimension by dimension),
  `TablesApart`, `RowKept` (a sweep's words stay in its row), `SweepExact` (the
  plane after an optimized scan, against a site-by-site definition that knows
  nothing of words), `SweepCounts` (event counter and scan index),
  `ReadInOrder` (what a scan I/O read returns). The last four are about scans
  through `SimScanNoPerm` in which no sign was smeared; `SweepExact` also asks
  that the rule's sources are there (`Provided`).
* **Assembly.** `FieldsHold` (every field of every instruction and default holds,
  in every plane, what it was told last, whatever was stored in other fields,
  other planes or the whole register), `KickEncoded` (the distance the machine
  decodes from a finished kick is the one asked for last, in each plane and
  dimension; modulo the sector where it is not glued or more than the whole
  sector was asked for).
* **Defines.** `ImplementsBook` (a reader is told the first value a name was
  given, 0 for at most one name; for a name that is not there -1, the value of
  the only other name of its bucket, or nothing ever; through builds, cut-off
  writes, installs and upgrades), `WritesWholeTable` (a builder at its write met
  no wild pointer and has every name under its own entry), `TornDatabaseSticks`
  (a builder is only lost over an installed file that ends inside a chain, and
  over such a file none reaches its write).
* **Life.** `ImplementsLife` (each scan through the rule is one generation of the
  live bits, nothing else changes them, and as many generations happen as were
  asked for although the program exits with the last scan still running),
  `KicksCopies` (when the machine kicks, planes 8 to 15 of every site are copies of
  its live bit). Planes 0 to 6 are not asked about: the rule does not use them.
* **Progress.** The fair half of `ImplementsLife`, and `EveryWaitReturns`,
  `WalksEnd`, `ListEnds`, `ScheduleReturns`.

### Bounds, and why they are enough

* *Barrier*: the repository's own test uses five threads for one round, so does
  `BarrierOneShot`. The reuse races need one thread that runs ahead, one that is
  late and one that is between the unlocked test and the lock: three threads; a
  reset left over from one round meets the next and the one after: three rounds.
  `Counts` holds the number of threads: no caller passes another. Threads are
  interchangeable in this run, which checks invariants only, so it is symmetric
  in them.
* *Step lists*: three chunks are a list of one next to a list of two, a list of
  one with its leaked chunk and one to spare, or an instruction and its delay
  with the chunk that one leaks; with two lists a chunk freed by one is handed
  out to the other, and the first still points at it. TLC reaches every kind of
  damage: a list that writes, flags, issues or frees the other's chunk, and one
  that runs wild.
* *Execution*: a task is overtaken by at most the instructions issued after it;
  with three instructions and two modules a task of the first can be running
  while those of the second are and the third is being written, and the pool
  overflows. The proofs cover all bounds.
* *Interrupts*: two modules race with each other and with the host; the second
  list sees what was left by the first; `MaxRaises` = 2 lets both modules raise
  or one raise twice.
* *Scans*: with four words of eight sites a row is one word (`SimGetNextWord`
  stores and does not load), two, or the whole plane; a scan is part of a row, a
  row, or several rows; two kicks by 10 and by -1, repeated or not, give aligned
  and unaligned offsets of both signs. One scan is enough for the loops, since
  the plane, the offsets and the index it starts from are arbitrary; sources
  that an earlier scan left behind are excluded by `Provided`. `Lengths` leaves out
  the length that is half a word (section 7), `Rules` the lookup by site
  address and the sources that are never loaded, and the scan index is not
  permuted. The address is five bits and its mask ends at the top, so a plane
  is exactly as large as the space.

* *Assembly*: MSR has two adjacent fields that a wrong shift would mix; KR has
  the fields kicks are encoded in. Two operands are a store over another, a kick
  after a kick, or one of each, in one instruction or in two, a definition and
  what starts from it. The kick by 2 is the whole sector, that by 3 is more than
  it, that by -1 has a sign and magnitude; one dimension is glued, the other is
  not. The proof covers all layouts, planes and values.
* *Defines*: the names of `shm.h`, two of which share a bucket, with one name
  before them in file order whose bucket a name that is looked up and never added
  hashes to: a chain can be cut at any of its pieces. Two editions are a
  database that is older than its builder; the number of builds and installs is
  not bounded. The proofs cover all names, functions and editions.
* *Life*: the first generation follows the tables' set-up and `propagate`, the
  second follows a generation, so that every list is taken after every list it
  can follow. Every pattern of three sites in a square shows births, survival and
  deaths; the glider wraps around the shorter side.

`CHECK_DEADLOCK FALSE` is said only where the code can really stop: a barrier
that has been reused, resized or zeroed can leave all its threads blocked, and
the life examples exit. In `Assembler` it is the bound on operands that stops.
Elsewhere the end states have a step of their own (`Stop`, `Finished`; a
module can always be sent another instruction) and TLC
reports any other state without a successor.

## 4. Fairness

* `ThreadBarrier!FairSpec`: weak fairness of `WaitStep(t)` for each thread. A
  runnable thread runs eventually, and a lock that is free for good is taken.
  Weak fairness is enough since no thread calls `wait()` more than `Rounds`
  times; calls of `setCount()` get no fairness, nobody has to make one.
* `Steplist!FairSpec`: weak fairness of the host's loops once entered. What the
  experiment calls next is its own choice.
* `SteplistRun!FairSpec` and `Interrupts!FairSpec`: weak fairness of the host
  thread only. Nothing is assumed of the modules: `ListEnds` and
  `ScheduleReturns` hold even if no task ever runs again, because the host waits
  for none.
* `LifeExample!FairSpec`: weak fairness of the host, which the system schedules,
  and of the interface, which its clock drives. Each has at most one thing to
  do at a time.

## 5. What is proved

| Module | Theorem | For every |
|---|---|---|
| `ThreadBarrierProofs` | types, `LockInv`, `ReadableCount`, `ArrivalAccounting`, `FirstRendezvous` under `Spec`; `Rendezvous` and the refinement of `Barrier`'s safety part for one round | finite nonempty set of threads, number of rounds, with or without zeroing |
| `SteplistProofs` | types, `WildOnlyOnceFreed`, `ChainInv`, `OwnershipInv`, `IssuedWhole`, lists used again after their free included | set of chunks, set of lists |
| `SteplistRunProofs` | types, `NeverStale`, `TornByOne`, `AnnouncedStarted`, `RaisedByOverrun` | number of modules and of instructions, set of no-operations |
| `InterruptsProofs` | types, `ListNoticed`, `ReportedOnce` | set of modules, number of lists and of interrupts |
| `ScanProofs` | types, `KickInv`, `RowKept`, `TablesApart`, `SweepExact`, `SweepCounts`, `ReadInOrder` | size of plane and word, masks, rules, kicks, lengths, number of scans |
| `AssemblerProofs` | `FieldsHold`, `KickEncoded` | registers with fields that do not overlap, planes, masks, values, sector, distances |
| `DefinesProofs` | types, `WritesWholeTable`, `TornDatabaseSticks`, `ImplementsBook` | set of names, hash function, calls of `hash_add`, number of editions |
| `LifeProofs` | `KicksCopies`, the safety part of `ImplementsLife` | torus, patterns, numbers of generations |

The named assumptions are those the models state (`ThreadBarrierAssumption`,
`SteplistRunAssumption`, `InterruptsAssumption`, `AssemblerAssumption`,
`KickAssumption`, `DefinesAssumption` and so on), which TLC evaluates in the
passing runs. The arguments:

* **Barrier, lock and counter.** `LockInv` is inductive with `TypeOK`: a reset
  that leaves the barrier `intact` found nobody in a locked section, and released
  nothing. The counters need `CounterInv`, which says what the statements under
  the lock find: `SectionInv` the values they test and write, `BooksInv` where an
  arrival is accounted for while the section that counts it is under way.
  `ReadableCount` and `ArrivalAccounting` are what remains of it when the lock is
  free.
* **Barrier, first use.** `FirstRendezvous` needs `IInv`: `HistoryInv` ties the
  history to the program points, and `FirstInv` says that until a round is
  completed event and flag are clear, nobody has passed, and `count - curCount`
  is at most the number of threads that have arrived. When the counter reaches
  zero that number is `N`, and the lemma `FullSubset` (a subset with as many
  members as a finite set is that set) gives that everybody is there. With
  `Rounds = 1` the same invariant gives `Rendezvous` (`OneShot`), and each step
  maps to a step of `Barrier` or a stutter (`OneShotImplements`).
* **Step lists.** `IInv` adds to the properties what makes them inductive:
  `ContentInv` (the sequence a list stands for repeats nothing and shares nothing
  with another list or with what is lost, and a list that is not sound has none),
  `ChainsInv` (a sound list's head, `next` pointers and tail follow that
  sequence), `LiveInv` (what is allocated is in a list or lost, except what
  `free_steplist` has freed of a sound list up to its cursor) and `WalkInv`
  (`ExecuteSteplist` has issued a sound list up to its cursor, and the list's
  last instruction is flagged). Every step that touches a chunk is split by
  whether its list is sound. A sound list touches its own chunks, which are
  nobody else's (`TouchesNone`), so the step extends or shortens one chain
  (`FinishSound`, `FreeInstrSound`) and disturbs no other (`RelinkChain`). A list
  that is not sound may touch any chunk: the lists that own it leave `sound`,
  what they held is `lost`, and the rest is as before (`HarmStep`, `HarmChains`).
* **Execution.** `IInv` of `SteplistRunProofs`: `QueueInv` says that each part
  of the queue belongs to instruction `n` or, while in `todo`, to `n - 1`;
  `TaskInv` keeps what a task read between its own instruction and what the
  queue holds now, which is why an older value can never appear; `TornInv` adds
  what a task has not read yet, without which `TornByOne` is not inductive;
  `StartedInv` counts the tasks started so far, and `PoolInv` that there is at
  most one task per module and instruction: if no task of an earlier
  instruction runs, the tasks inject into the modules before `next`, so the pool
  is not full (`FS_Injection`-style counting on finite sets).
* **Interrupts.** `PollInv` says that once the host has announced its list the
  status is not empty until it is cleared, and what was read was not empty.
  `ReportInv` sets against what was stored not only what was reported but what is
  still to be: an exception the host has taken, and one that waits in the register
  or in what the host has loaded of it. A module's store that brings an old bit back
  counts as one that waits, and pays for it with the interrupt it stores.
* **Tables.** `TablesApart` is inductive once `als` is known to be a bit: only
  `WriteHER` and `WriteRMR` change the tables.
* **Kicks and rows.** A register is a set of bits and the code adds numbers, so the
  proofs need that a number is the sum of its bits. `Num` is a recursive fold
  underneath: `SumsExist` and `SumsAgree` show that the recursion defines one
  function, `NumRemove` that a bit can be taken off, `NumUnion`, `NumBound` and
  `NumBit` the rest. The induction runs over sets of numbers and of subsets
  (`Inductive`, `InductiveSubsets`), on the library's facts that the naturals and
  the subsets of a finite set are well founded; `PowDouble` counts subsets to get
  powers of two. `DoKickSubtracts` is then the sign-bit argument of the comment in
  the code: with the top bit of each field set first nothing is borrowed, and the
  bit that is put right afterwards is the one that a subtraction in the field
  alone gives; `AddSiteAddressAdds` is the same for sums. `KickInv` follows from
  it. For `RowKept`, `NextWordStays` says that the carry of the next word's address
  ends at the top of X. `IInv` adds to the types `ShapeInv`: word addresses are
  aligned, a scan under way has words and sites left, `numXBits` is the lowest
  cut, and a sweep fits in the row.
* **Optimized scans.** `SweepInv` says at every step of `SimScanNoPerm` what has
  become of the scan so far. `CountInv`: the sites swept and the sweeps left make
  up the scan, and each sweep is a whole row or an aligned part of one. `PlaceInv`:
  the bit of the word that is updated next is the next site's cell (`RowCell`: m
  sites on are m cells on, modulo the row; `FirstWord` and `NextNum`: what the
  first word and the next one are; `BeginPlace` and `UpdatePlace`). `UpdateInv`:
  a cell is right (`Right`) when it has the new value if one of the sites updated
  so far is in it and the old one otherwise; all cells outside the word are right,
  and so are the bits of the word where the rotation has taken them. `LeftInv` is
  the same for a plane that is only read, of which a word holds the rest alone.
  `SourceInv` counts what was taken from the host's data, counted and returned.
  A site updates its own cell and no other, since the cells of a scan's sites are
  all different (`CellsApart`, which needs that the scan ends at a multiple of its
  length), and finds the value it had before the scan (`TopSite`). The rotations
  are turns of the word (`RotatedAt`) unless a sign smears, which is what
  `~smeared` excludes, and `UpdatedAt` and `NewValueIs` are the site update. When
  the scan is done nothing is left to sweep, and the three properties follow
  (`AllSwept`, `DoneExact`, `DoneSources`).
* **Assembly.** `IInv` says of the instruction being assembled and of each default
  that its data and its history have their types and agree field by field. The
  lemma `StoresKeep` is the heart: a store to a field, or to the register over
  all its fields, changes exactly what it tells, because spans do not overlap.
  `TwiddledFits` keeps the kick's bits within `ka`, without which `finish_kick`
  would spill into the next field. For `KickEncoded`, `EncodedInv` says of the kick
  being assembled that each plane's fields encode what was asked so far, and
  `FinishedInv` that a finished one holds just these fields. A new distance
  overwrites its own bits, sign and flag (`TwiddledEncodes`) and no other
  dimension's (`TwiddledLeaves`), because `process_dimensions` lays the dimensions
  out one after the other (`KickAssumption`). What the machine decodes is unique
  since numbers with the same bits are equal (`BitsOfUnique`).
* **Defines.** `IInv` adds to the types `FilesInv` and `BuilderInv` (entries are in
  the bucket their name hashes to, in both files and in memory), `OrderInv` (while
  a build runs or after it was lost there is no local file) and
  `ProgressInv` (the table of a build is the installed one with the entries of
  the calls so far, none of which met a wild pointer).
  The refinement rests on `SearchIs` (what the search returns, for a name whose
  entry is there), `SearchMissing` (for one that is not), `ToldAnswers` (which with
  `LoadedOneWild`, that a file leaves one wild bucket at most, gives what readers
  are told), `LoadedBook` (what a cut-off file says: chains in front of the end, one
  torn chain, nothing after it) and `Copies` (reading a file back, whole or cut
  off, is a copy in `DefineBook`'s sense). Each action then maps to one action of
  the book or a stutter (`BookStart` to `BookCopy`).

* **Life.** `LifeInv` follows a list from the call that builds it to the machine:
  `HostInv` and `QueueInv` say which list is being written, scheduled, queued and
  executed at each program point, so that the order in which the machine takes
  lists is that of the calls (`TakeStep`); `PointerInv` and `SourceInv` say what
  the instruction registers and the two tables hold when a list of each kind
  begins, and `CellInv` and `AgeInv` what the planes are between table, kick and
  scan. The planes that were kicked count the live cells around each site once
  because the eight directions are their own opposites (`Opposites`,
  `CountsAround`). Each action then maps to a generation of `Life` or a stutter,
  which is its safety part (`LifeIsPlayed`).

What stays with TLC: every liveness property, since the prover has no ENABLED,
and so `WalksEnd` and the fairness part of both refinements (`BarrierOneShot`
and `LifeSteps` check them).

## 6. Undefined behaviour and races, as modelled

* The queue's words are plain memory written by the host and read by tasks: the
  stores come in any order, and a word may be read once or twice.
* `ISR |=` and `NLP |=` are a load and a store that others can interleave with.
* `needsReset` is a plain boolean outside the lock: reads see the last write.
* `bDone` is uninitialised: either value.
* A shift by the word's length takes the count modulo the word, as the
  processors the library is built for do.
* A next pointer from another process's memory: a builder that follows it is
  lost, and its output file, removed by the rule before, is not there; a reader
  that follows it is lost too (`Lost`).
* A lock zeroed under its holder: it is free; the `unlock()` of the thread that
  lost it frees it or does nothing.
* The delay without `END_ARGS`: any instruction, an abort, or no return.
* An argument that was not passed (`va_arg` past the end): any of the values.
* A freed chunk: an end state (`wild`), unless the allocator handed it out again.

## 7. Findings

| Run | The code | What is said |
|---|---|---|
| `BarrierReuseSkips` | `ThreadBarrier++.XC:57` sets `needsReset` after the lock is released, and the event stays set: a fast thread passes the next round alone | `Cam8InterpModule++.XC:1181` "Wait for all thread to hit this point", once per site |
| `ScanRevisits` | the increment of the scan index in `SimGeneralScan` is inside the comment at `Cam8InterpModule++.XC:1041`: all rounds update one site | `Cam8InterpModule++.XC:2186` "the number of sites that will be updated in the current scan"; the recovered original increments (`in/recovered_code.XC:3619`) |
| `AssemblerSixteen` | `Cam8++.XC:3265` passes the address of sixteen values as the flag for a single argument; an argument nobody passed is stored in the planes of the layer mask | `Cam8++.XC:3255` "This is a simple register store operation." |

More divergences are part of the models and have no run of their own; each can be
seen by changing a constant or checking a property named here:

* `Cam8SimInterface++.XC:53` zeroes the queue with the barrier in it; the count
  goes to -1 and never back to 0. With `Resets = TRUE`, `EveryWaitReturns` fails.
  It does so at any time, the lock included. Without `intact`, TLC violates all
  four invariants of `BarrierReuse` (`FirstRendezvous` in ten states).
* `Cam8++.XC:3021` frees the chunks of a list and leaves its `head` and `tail`, and
  `step()` uses the list again, with nothing linked to it in between or with
  chunks that others hold by now. `pc # "wild"` fails in `SteplistLife`;
  `WildOnlyOnceFreed` and the rest say how far the damage reaches.
* Every instruction linked by `fname(sl, ...)` leaks a chunk (`Cam8++.XC:380` and
  295), and the delay after a write to the scan I/O register has no `END_ARGS`
  (`Cam8++.XC:321`). `lost = {}` fails in `SteplistLife`.
* `Cam8SimInterface++.XC:451` overwrites the queue while tasks read it, where
  `Cam8SimInterface++.XC:22` says "one at a time": `TornByOne` is as much as holds.
* `handle_ints` assigns the seen flags on every poll, so the stop list's poll
  forgets what the step's saw, against `step-list.fth:14` "record whether or not
  the indicated exceptions actually happened since they were allowed". No property
  about these flags is left that the code keeps and that says more than one
  assignment; `Cam8Experiment++.XC:875` and 236 are hazards without one.
* `link-Cdefines.c:192` returns the only entry of a chain without comparing its
  name, so a name that was never added (`SHM_STAT`: `db.c` leaves it out) has the
  value of another and the abort of `explore.fth:315` is not reached. `told` shows
  it, and `ImplementsBook` allows it within a bucket and nowhere else.
* A build over an installed database appends to its chains: lookups go on finding
  the values of the older edition. `ImplementsBook` says precisely this.
* `life-no-forth.c:228` says the lookup tables leave bits 0 to 6 "unchanged"; they
  write 0 or 0xFFFF. The rule does not depend on them, so no property does.

The model of the scans shows three more. `SimExecScan` compares `ESC + 1` with 5
where the comment above wants "at least 32 sites", and the scan of sixteen sites
that gets through has no words to sweep. `PLANE_WORD` is signed, so rotating a
word to an unaligned offset copies its top bit over others. And a site that is
its own source is not loaded for itself (`Provided`): its complement is never
written, and a map that also takes the glue uses what an earlier scan left.

Two of the passing properties are statements about what remains true in spite of
these: `TornByOne` bounds how badly a task can mix instructions, and
`FirstRendezvous` what a resized or reused barrier, or one that was zeroed while
its lock was free, still guarantees.

## 8. What is not modelled, and why

* `Cam8HardwareInterface`, `Cam8HardwareBox`: each call is an `ioctl` on a driver
  that is not in the repository. The buffer allocator is planned.
* `Cam8FakeInterface`: stubs without state. `InterpSimCam8`: builds and destroys
  the objects above.
* `Pipecomm`: planned. `Tube`, `XCam`, `XCamWidget`: X11 drawing. `CaLib*`:
  logging. `c8cpp`: text rewriting. `hashvals.c`, `printvals.c`, `regdetails.c`:
  they print the table `RegisterSpecs` models, or the values of its macros.
* The libraries of `stage1` and `stage0`: earlier generations of the same one. Only
  the scheduling of a list in `stage0/CAM_step.xc` is in `LifeExample`.
  `step` (Forth) is quoted where stage2 names its words; of its C files
  `link-math.c` and the other `link-*.c` wrap the C library and keep nothing.
* Of the assembler: operands that read, or that set the buffer, its length or
  flags, module selection by `M_MODULE`, and switching to another register inside
  an operand list. `KICK_N` below the fourth dimension writes through a null
  pointer (`Cam8++.XH:386`) and is not called in the model.
* Of the defines: `explore.fth`'s own use of what it looked up, and the file's byte
  layout: a value that was read in part reads as 0.
* Of execution: the task manager deletes a task that has finished, so the pointers
  in `modules` dangle when the tasks are started again (`Cam8SimBox++.XC:77`). The
  model starts them as if they lived.
* Of the scans: event-counter capture (`RMR`'s `ECT`,
  `Cam8InterpModule++.XC:133`) and the immediate forms of the scan I/O register
  (314-318, 1136-1147). `Scan`'s runs have one scan each, whose counter starts at
  0, and no property is about what these leave. `bForceGeneralScan` (1525) is
  false: the queue is zeroed and nothing in the library sets it. `IsSrcNeeded`
  and `IsDestUpdated` ask about all sixteen planes in the code, so another
  plane's rule can make a source be fetched that this one does not need; with one
  plane they are as modelled.
* Of the life examples: `run_kick`, `read_dimension`, the printing of lists, and
  the extents `calc_space` computes from a register it reads. `wait_for_nlp` also
  returns on an allowed interrupt and aborts on one that is not
  (`CAM_step.xc:413`); the examples allow none, and the model assumes that the
  machine raises none. `run_scan` stores `FLD_STM`, a field of another register,
  outside the buffer of its `RMR` (`life-c.c:228`); the register's default starts
  the scan all the same, and what the store hits is not modelled. The display's
  last scan selects module 0 only (`life-no-forth.c:593`) and sets the scan
  format, and `run_scan` sets neither: that the scans after it are of the whole
  machine rests on `select_sector_src`, which is not in the repository, leaving
  all modules selected and the format whole.
* Of the modelled components: the wording of error messages, `print()`
  functions, and the interrupt enable bits (only ever all on).

## 9. Plan

Order of work, the most important behaviour first.

Done:

1. `Barrier`, `ThreadBarrier` and their proofs: rendezvous of the modules.
2. `Steplist` and proofs: the life of chunks and lists on the host.
3. `SteplistRun` and proofs: host against module tasks.
4. `Interrupts` and proofs: host against raising modules.
5. `SiteAddress`, `Scan` and proofs: a module's kicks and scans.
6. `RegisterSpecs`, `Assembler` and proofs: what an instruction holds.
7. `DefineBook`, `Defines` and proofs: what survives a build.
8. `Life`, `LifeExample` and proofs: a program on the machine, against what it
   computes.

Left:

9. `Scan`, the rest of the instructions: loading the lookup tables through LIR
   and LIPR, lookup by site address (SABSR), permuted scan indices (SIPR), the
   reset and what it leaves, verify-write (`vwecheck`), event-counter capture.
10. Two `Scan`s at the glue barrier: a composition with `Barrier` in which the
    modules' rules and alignments may differ, and the deadlock when one makes
    fewer site updates than another. The condition under which they stay in step
    is the property worth stating.
11. `Steplist` with `SteplistRun`: the data of register reads, `mid1` and
    `new_machine` reading a chunk that was freed, or that a task has not written.
12. `Pipecomm`: messages with partial reads and a child that dies. The
    hardware interface's buffer allocator.

New questions join the run of their module where its bounds allow, so that there
is one passing run per module.
