---------------------------- MODULE LifeExample ----------------------------
(***************************************************************************)
(* The life examples of CAMlib/stage0 as three actors: the host, which     *)
(* builds step lists once, patches them and schedules them; the interface, *)
(* which executes the scheduled list while the host runs on; and the       *)
(* machine, sixteen bit planes and two lookup tables of which one is       *)
(* active while the other is loaded.                                       *)
(*                                                                         *)
(* Plane 7 of a site is the live bit and planes 8 to 15 carry it to the    *)
(* eight neighbours.  Lists keep what the rule depends on: instructions    *)
(* that select modules or scan formats are one "other".                    *)
(***************************************************************************)
EXTENDS Integers, Sequences, FiniteSets

CONSTANTS
  Width, Height,   (* of the space (512 by 512 in the code)                *)
  Generations,     (* bound: argv[1], the number of steps                  *)
  Seeds,           (* the sets of live sites in the buffer that is loaded  *)
  None             (* no list, no table                                    *)

VARIABLES
  program,          (* which example runs                                  *)
  pc, phase, done,  (* the host: its call, where in it, scans of the loop  *)
  pointer,          (* BUFPTR of the LIOR instruction in sendlut's list    *)
  nlp, newlist,     (* the next-list pointer, the new-list interrupt       *)
  list, at,         (* the call whose list is executed, the next of it     *)
  tables, active,   (* the lookup tables, and which of them is looked up   *)
  siteSource,       (* SDSR: what a scan writes back to the sites          *)
  cells,            (* the planes that are set, for each site              *)
  seed, loaded,     (* the buffer for the planes, whether it was written   *)
  age               (* history: scans through the rule                     *)

host == <<program, pc, phase, done>>
interface == <<nlp, newlist, list, at>>
machine == <<tables, active, siteSource, cells, loaded, age>>
vars == <<host, pointer, interface, machine, seed>>

Sites == (0 .. Width - 1) \X (0 .. Height - 1)
Planes == 0 .. 15
LiveBit == 7
-----------------------------------------------------------------------------
(* The lists the calls build on their first use, or at every call.         *)

SendLutList == <<"LIR", "LIOR", "ALT">>

(* Select all modules, the connections of the modules, what calc_space     *)
(* reads: nothing the sites depend on.                                     *)
SelectAllList == <<"other">>
MultiList == <<"other">>
SpaceList == <<"other">>

ClearKickList == <<"KR_0">>
LifeKickList == <<"KR">>
RunScanList == <<"SDSR_lut", "RMR_run">>

(* Scans that only show something: the sites are their own source.  The    *)
(* kicks of mod0123synch_scan go once around the modules.                  *)
DisplayAllList == <<"SDSR_site", "RMR_run">>
DisplayFirstList == <<"SDSR_site", "RMR_run">>
PaletteList == <<"SDSR_site", "RMR_run">>

(* mod0write_scan.                                                         *)
WriteList == <<"SIOR">>

Instructions(name) ==
  CASE name = "sendlut"    -> SendLutList
    [] name = "select"     -> SelectAllList
    [] name = "multi"      -> MultiList
    [] name = "calc_space" -> SpaceList
    [] name = "clearkick"  -> ClearKickList
    [] name = "lifekick"   -> LifeKickList
    [] name = "run_scan"   -> RunScanList
    [] name = "danvds"     -> DisplayAllList
    [] name = "dvds"       -> DisplayFirstList
    [] name = "palette"    -> PaletteList
    [] name = "write"      -> WriteList
-----------------------------------------------------------------------------
(* The calls of the host.                                                  *)

sendlut(lut) == [name |-> "sendlut", lut |-> lut]
Calling(name) == [name |-> name, lut |-> None]

(* newlifeluts: all modules are selected, then both tables are sent.       *)
newlifeluts == <<Calling("select"), sendlut("lifelut"), sendlut("proplut")>>

(* The state is copied to the propagate planes by a scan without a kick.   *)
propagate == <<sendlut("proplut"), Calling("clearkick"), Calling("run_scan"),
               sendlut("lifelut")>>

(* main() of life-no-forth.c: the tables, a picture, its colours and the   *)
(* display, then a kick, a scan and the display for each step.             *)
LifeNoForth ==
  [start |-> <<Calling("multi")>> \o newlifeluts
               \o <<Calling("write"), Calling("palette"), Calling("dvds")>>
               \o propagate,
   loop |-> <<Calling("lifekick"), Calling("run_scan"), Calling("danvds")>>]

(* einit() of life-c.c, the pattern life-c.exp loads, and its steps.       *)
LifeC ==
  [start |-> newlifeluts \o <<Calling("calc_space"), Calling("write")>> \o propagate,
   loop |-> <<Calling("lifekick"), Calling("run_scan")>>]

Programs == {LifeNoForth, LifeC}

(* A buffer holds the sites of the space; None is none of the calls.       *)
ASSUME LifeAssumption ==
  /\ Width \in Nat \ {0} /\ Height \in Nat \ {0} /\ Generations \in Nat
  /\ Seeds \subseteq SUBSET Sites
  /\ \A p \in Programs : /\ \A n \in DOMAIN p.start : p.start[n] # None
                         /\ \A n \in DOMAIN p.loop : p.loop[n] # None
-----------------------------------------------------------------------------
(* The tables and the kick.                                                *)

(* countbits(j & 0xFF00).                                                  *)
countbits(planes) == Cardinality(planes \cap (8 .. 15))

(* Faulty: the tables set the live bit and leave the neighbour planes out. *)
LookupLiveBitOnly(lut, planes) ==
  IF \/ lut = "proplut" /\ LiveBit \in planes
     \/ lut = "lifelut" /\ countbits(planes) = 3
     \/ lut = "lifelut" /\ countbits(planes) = 2 /\ LiveBit \in planes
  THEN {LiveBit} ELSE {}

(* newlifeluts: what the tables answer for the planes of a site.           *)
Lookup(lut, planes) ==
  IF \/ lut = "proplut" /\ LiveBit \in planes
     \/ lut = "lifelut" /\ countbits(planes) = 3
     \/ lut = "lifelut" /\ countbits(planes) = 2 /\ LiveBit \in planes
  THEN Planes ELSE {}

(* Faulty: the last plane is kicked in one dimension only.                 *)
KickOfAdded == [p \in 8 .. 15 |->
  CASE p = 8  -> <<1, 0>>  [] p = 9  -> <<-1, 0>> [] p = 10 -> <<0, 1>>  [] p = 11 -> <<0, -1>>
    [] p = 12 -> <<1, 1>>  [] p = 13 -> <<1, -1>> [] p = 14 -> <<-1, 1>> [] p = 15 -> <<-1, 0>>]

(* lifekick: one plane in each of the eight directions.                    *)
KickOf == [p \in 8 .. 15 |->
  CASE p = 8  -> <<1, 0>>  [] p = 9  -> <<-1, 0>> [] p = 10 -> <<0, 1>>  [] p = 11 -> <<0, -1>>
    [] p = 12 -> <<1, 1>>  [] p = 13 -> <<1, -1>> [] p = 14 -> <<-1, 1>> [] p = 15 -> <<-1, -1>>]

(* The site whose bit a kick moves to s.                                   *)
From(s, d) == <<(s[1] - d[1]) % Width, (s[2] - d[2]) % Height>>

Kicked(planes) ==
  [s \in Sites |-> {p \in Planes :
     IF p < 8 THEN p \in planes[s] ELSE p \in planes[From(s, KickOf[p])]}]

(* The buffer that is loaded: it has bits in other planes too.             *)
Buffer(others) == [s \in Sites |-> others \cup (IF s \in seed THEN {LiveBit} ELSE {})]
-----------------------------------------------------------------------------
Init ==
  /\ program \in Programs
  /\ pc = 1 /\ phase = "call" /\ done = 0
  /\ pointer = None
  /\ nlp = None /\ newlist = FALSE /\ list = None /\ at = 1
  /\ tables = [t \in {0, 1} |-> None] /\ active = 0
  /\ siteSource = "site"
  /\ cells = [s \in Sites |-> {}] /\ seed \in Seeds /\ loaded = FALSE
  /\ age = 0

Call == IF pc <= Len(program.start) THEN program.start[pc]
        ELSE program.loop[pc - Len(program.start)]

(* sendlut: the list exists and is only given another buffer.              *)
PatchList ==
  /\ phase = "call" /\ Call.name = "sendlut"
  /\ pointer' = Call.lut
  /\ phase' = "schedule"
  /\ UNCHANGED <<program, pc, done, interface, machine, seed>>

(* CAM_schedule_list, up to its wait.                                      *)
Schedule ==
  /\ phase = IF Call.name = "sendlut" THEN "schedule" ELSE "call"
  /\ nlp' = Call
  /\ phase' = "wait"
  /\ UNCHANGED <<program, pc, done, pointer, newlist, list, at, machine, seed>>

(* wait_for_nlp returns when the list has begun.  main() goes on to its    *)
(* next call, and exits after the last scan was scheduled.                 *)
Return ==
  LET begin == Len(program.start)
      end == begin + Len(program.loop)
      scans == IF pc = end THEN done + 1 ELSE done
  IN  /\ phase = "wait" /\ newlist
      /\ newlist' = FALSE
      /\ done' = scans
      /\ IF pc \notin {begin, end}
         THEN pc' = pc + 1 /\ phase' = "call"
         ELSE IF scans < Generations
         THEN pc' = begin + 1 /\ phase' = "call"
         ELSE pc' = pc /\ phase' = "exit"
      /\ UNCHANGED <<program, pointer, nlp, list, at, machine, seed>>

Host == PatchList \/ Schedule \/ Return
-----------------------------------------------------------------------------
(* The last instruction of a list waits for an address from the host.      *)
TakeList ==
  /\ list = None /\ nlp # None
  /\ list' = nlp /\ at' = 1 /\ nlp' = None
  /\ newlist' = TRUE
  /\ UNCHANGED <<host, pointer, machine, seed>>

Executing(instr) == list # None /\ Instructions(list.name)[at] = instr

Executed ==
  /\ IF at < Len(Instructions(list.name)) THEN list' = list /\ at' = at + 1
     ELSE list' = None /\ at' = 1
  /\ UNCHANGED <<host, pointer, nlp, newlist, seed>>

(* Register writes that the sites do not depend on.                        *)
Skip ==
  /\ \E instr \in {"LIR", "KR_0", "other"} : Executing(instr)
  /\ Executed
  /\ UNCHANGED machine

(* LIOR: the table that is not active, from wherever the list points now.  *)
LoadTable ==
  /\ Executing("LIOR")
  /\ tables' = [tables EXCEPT ![1 - active] = pointer]
  /\ Executed
  /\ UNCHANGED <<active, siteSource, cells, loaded, age>>

(* switch_luts.                                                            *)
SwitchTables ==
  /\ Executing("ALT")
  /\ active' = 1 - active
  /\ Executed
  /\ UNCHANGED <<tables, siteSource, cells, loaded, age>>

SelectSource ==
  /\ \/ Executing("SDSR_lut") /\ siteSource' = "lut"
     \/ Executing("SDSR_site") /\ siteSource' = "site"
  /\ Executed
  /\ UNCHANGED <<tables, active, cells, loaded, age>>

LoadCells ==
  /\ Executing("SIOR")
  /\ \E others \in {{}, {0, 9}} : cells' = Buffer(others)
  /\ loaded' = TRUE
  /\ Executed
  /\ UNCHANGED <<tables, active, siteSource, age>>

Kick ==
  /\ Executing("KR")
  /\ cells' = Kicked(cells)
  /\ Executed
  /\ UNCHANGED <<tables, active, siteSource, loaded, age>>

(* A scan that looks the sites up, or writes them back as they are.        *)
Scan ==
  /\ Executing("RMR_run")
  /\ IF siteSource = "lut"
     THEN /\ cells' = [s \in Sites |-> Lookup(tables[active], cells[s])]
          /\ age' = age + (IF tables[active] = "lifelut" THEN 1 ELSE 0)
     ELSE UNCHANGED <<cells, age>>
  /\ Executed
  /\ UNCHANGED <<tables, active, siteSource, loaded>>

Interface ==
  \/ TakeList \/ Skip \/ LoadTable \/ SwitchTables \/ SelectSource
  \/ LoadCells \/ Kick \/ Scan

Next == Host \/ Interface

Spec == Init /\ [][Next]_vars

(* The program is scheduled by its system, the interface by its clock.     *)
FairSpec == Spec /\ WF_vars(Host) /\ WF_vars(Interface)
-----------------------------------------------------------------------------
Alive == IF loaded THEN {s \in Sites : LiveBit \in cells[s]} ELSE seed

(* The examples compute the game of life: every scan through the rule is   *)
(* one generation of the live bits, nothing else changes them, and every   *)
(* step that was asked for is computed (life-no-forth.c main, lifekick).   *)
Rule == INSTANCE Life WITH grid <- Alive

ImplementsLife == Rule!Spec

(* Whenever the planes are kicked, the neighbour planes of a site are      *)
(* copies of its live bit of the same generation: what the rule counts     *)
(* afterwards are the neighbours (life-no-forth.c newlifeluts, lifekick).  *)
KicksCopies ==
  Executing("KR") => \A s \in Sites : \A p \in 8 .. 15 :
    p \in cells[s] <=> LiveBit \in cells[s]
=============================================================================
