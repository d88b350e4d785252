----------------------------- MODULE LifeProofs -----------------------------
(***************************************************************************)
(* Proofs about LifeExample, for every size of the torus, every number of  *)
(* generations and every pattern.                                          *)
(***************************************************************************)
EXTENDS LifeExample, FiniteSetTheorems, TLAPS

-----------------------------------------------------------------------------
(* Where host and interface are.  The n-th call of the program; the last   *)
(* one of its start and of its loop.                                       *)
At(n) == IF n <= Len(program.start) THEN program.start[n] ELSE program.loop[n - Len(program.start)]
begin == Len(program.start)
end == begin + Len(program.loop)

(* The call whose list the interface executes, or executed last.           *)
turn ==
  IF phase = "exit" \/ (phase = "wait" /\ newlist) THEN pc
  ELSE IF pc = begin + 1 /\ done > 0 THEN end ELSE pc - 1

(* How many rounds of the loop were over before the one the interface is in.*)
round == IF turn = end /\ (phase = "exit" \/ pc = begin + 1) THEN done - 1 ELSE done

(* The host is at a call of its program, in a loop it should be in.        *)
HostInv ==
  /\ program \in Programs
  /\ pc \in 1 .. end /\ done \in Nat
  /\ phase \in {"call", "schedule", "wait", "exit"}
  /\ phase = "schedule" => At(pc).name = "sendlut"
  /\ phase = "exit" => pc \in {begin, end}
  /\ pc <= begin => done = 0
  /\ pc > begin => IF phase = "exit" THEN done >= 1 /\ done - 1 < Generations ELSE done < Generations

(* The call that waits is scheduled and not yet taken; a list that is      *)
(* executed is that of the call the interface is at.                       *)
QueueInv ==
  /\ newlist \in BOOLEAN
  /\ newlist => phase = "wait"
  /\ IF phase = "wait" /\ ~newlist THEN nlp = At(pc) ELSE nlp = None
  /\ IF list = None THEN at = 1
     ELSE /\ turn >= 1
          /\ list = At(turn)
          /\ at \in 1 .. Len(Instructions(list.name))

(* The LIOR instruction points at the right table from where sendlut       *)
(* patches its list until it is patched again.                             *)
PointerInv ==
  /\ pointer \in {None, "lifelut", "proplut"}
  /\ \/ pc = begin - 3 /\ phase \in {"schedule", "wait"}
     \/ pc \in {begin - 2, begin - 1}
     \/ pc = begin /\ phase = "call"
     => pointer = "proplut"
  /\ \/ pc = begin /\ phase # "call"
     \/ pc > begin
     => pointer = "lifelut"

(* The active table, through the two calls of sendlut that matter.         *)
TableInv ==
  /\ active \in {0, 1} /\ tables \in [{0, 1} -> {None, "lifelut", "proplut"}]
  /\ turn = begin - 3 /\ list # None /\ at = 3 => tables[1 - active] = "proplut"
  /\ \/ turn = begin - 3 /\ list = None
     \/ turn \in {begin - 2, begin - 1}
     \/ turn = begin /\ list # None
     => tables[active] = "proplut"
  /\ turn = begin /\ list # None /\ at = 3 => tables[1 - active] = "lifelut"
  /\ \/ turn = begin /\ list = None
     \/ turn > begin
     => tables[active] = "lifelut"

(* A scan is preceded by the selection of its source.                      *)
SourceInv ==
  list # None /\ at = 2 =>
    /\ list.name = "run_scan" => siteSource = "lut"
    /\ list.name \in {"danvds", "dvds", "palette"} => siteSource = "site"

(* Before a kick: all planes of a site agree.                              *)
Uniform == \A s \in Sites : cells[s] \in {{}, Planes}

(* After the kick: every neighbour plane holds a neighbour's live bit.     *)
Around ==
  \A s \in Sites : \A p \in 8 .. 15 :
    p \in cells[s] <=> LiveBit \in cells[From(s, KickOf[p])]

(* The planes are loaded by the fifth call, agree from the first scan      *)
(* through a table on, and hold the neighbours between kick and scan.      *)
CellInv ==
  /\ cells \in [Sites -> SUBSET Planes]
  /\ seed \in Seeds
  /\ loaded <=> turn > 5 \/ (turn = 5 /\ list = None)
  /\ \/ turn = begin - 1 /\ list = None
     \/ turn = begin
     \/ turn = begin + 1 /\ list # None
     \/ turn = begin + 2 /\ list = None
     \/ turn = begin + 3
     => Uniform
  /\ \/ turn = begin + 1 /\ list = None
     \/ turn = begin + 2 /\ list # None
     => Around

(* Every round is one generation.                                          *)
AgeInv ==
  /\ turn <= begin + 1 => age = round
  /\ turn = begin + 2 => age = round + (IF list = None THEN 1 ELSE 0)
  /\ turn = begin + 3 => age = round + 1

(* The inductive invariant.                                                *)
LifeInv ==
  HostInv /\ QueueInv /\ PointerInv /\ TableInv /\ SourceInv /\ CellInv /\ AgeInv

(* The calls of life-no-forth.c in their order.                            *)
LEMMA NoForthScript ==
  ASSUME program = LifeNoForth
  PROVE  /\ begin = 11 /\ end = 14
         /\ At(1) = Calling("multi") /\ At(2) = Calling("select")
         /\ At(3) = sendlut("lifelut") /\ At(4) = sendlut("proplut")
         /\ At(5) = Calling("write") /\ At(6) = Calling("palette") /\ At(7) = Calling("dvds")
         /\ At(8) = sendlut("proplut") /\ At(9) = Calling("clearkick")
         /\ At(10) = Calling("run_scan") /\ At(11) = sendlut("lifelut")
         /\ At(12) = Calling("lifekick") /\ At(13) = Calling("run_scan") /\ At(14) = Calling("danvds")
<1>1. begin = 11 /\ end = 14
  BY DEF begin, end, LifeNoForth, newlifeluts, propagate
<1> QED
  BY <1>1 DEF begin, At, LifeNoForth, newlifeluts, propagate

(* The calls of life-c.c and life-c.exp in their order.                    *)
LEMMA LifeCScript ==
  ASSUME program = LifeC
  PROVE  /\ begin = 9 /\ end = 11
         /\ At(1) = Calling("select")
         /\ At(2) = sendlut("lifelut") /\ At(3) = sendlut("proplut")
         /\ At(4) = Calling("calc_space") /\ At(5) = Calling("write")
         /\ At(6) = sendlut("proplut") /\ At(7) = Calling("clearkick")
         /\ At(8) = Calling("run_scan") /\ At(9) = sendlut("lifelut")
         /\ At(10) = Calling("lifekick") /\ At(11) = Calling("run_scan")
<1>1. begin = 9 /\ end = 11
  BY DEF begin, end, LifeC, newlifeluts, propagate
<1> QED
  BY <1>1 DEF begin, At, LifeC, newlifeluts, propagate

(* The calls the programs make.                                            *)
Names == {"multi", "select", "calc_space", "sendlut", "write", "palette", "dvds", "danvds",
          "clearkick", "run_scan", "lifekick"}

(* The place in a program of a call with this name.                        *)
Fits(n) ==
  /\ At(n) # None /\ At(n).name \in Names
  /\ At(n).name = "write" <=> n = 5
  /\ At(n).name = "run_scan" <=> n \in {begin - 1, begin + 2}
  /\ At(n).name = "lifekick" <=> n = begin + 1
  /\ At(n).name = "danvds" <=> n = begin + 3
  /\ At(n).name = "sendlut" => /\ n < 5 \/ n \in {begin - 3, begin}
                              /\ At(n).lut \in {"lifelut", "proplut"}

(* What both programs have in common.                                      *)
LEMMA Script ==
  ASSUME program \in Programs
  PROVE  /\ begin \in {9, 11} /\ end \in {begin + 2, begin + 3}
         /\ \A n \in 1 .. end : Fits(n)
         /\ At(begin - 3).name = "sendlut" /\ At(begin - 3).lut = "proplut"
         /\ At(begin).name = "sendlut" /\ At(begin).lut = "lifelut"
<1>1. \A n \in 1 .. end : At(n) # None
  <2>1. \A n \in DOMAIN program.start : program.start[n] # None
    BY LifeAssumption
  <2>2. \A n \in DOMAIN program.loop : program.loop[n] # None
    BY LifeAssumption
  <2>3. /\ DOMAIN program.start = 1 .. Len(program.start) /\ Len(program.start) \in Nat
        /\ DOMAIN program.loop = 1 .. Len(program.loop) /\ Len(program.loop) \in Nat
    BY DEF Programs, LifeNoForth, LifeC, newlifeluts, propagate
  <2>4. \A n \in 1 .. Len(program.start) + Len(program.loop) :
          IF n <= Len(program.start) THEN program.start[n] # None
          ELSE program.loop[n - Len(program.start)] # None
    <3> DEFINE l == Len(program.start)
               m == Len(program.loop)
               s == program.start
               r == program.loop
    <3>1. (\A n \in 1 .. l : s[n] # None) /\ (\A n \in 1 .. m : r[n] # None) /\ l \in Nat /\ m \in Nat
      BY <2>1, <2>2, <2>3
    <3> HIDE DEF l, m, s, r
    <3>2. \A n \in 1 .. l + m : IF n <= l THEN s[n] # None ELSE r[n - l] # None
      BY <3>1
    <3> QED
      BY <3>2 DEF l, m, s, r
  <2> QED
    BY <2>4 DEF At, begin, end
<1>2. \A name : /\ Calling(name).name = name
                /\ sendlut(name).name = "sendlut" /\ sendlut(name).lut = name
  BY DEF Calling, sendlut
<1>3. CASE program = LifeNoForth
  <2>1. begin = 11 /\ end = 14
    BY <1>3, NoForthScript
  <2>2. Fits(1)
    BY <1>1, <1>2, <1>3, <2>1, NoForthScript DEF Fits, Names
  <2>3. Fits(2)
    BY <1>1, <1>2, <1>3, <2>1, NoForthScript DEF Fits, Names
  <2>4. Fits(3)
    BY <1>1, <1>2, <1>3, <2>1, NoForthScript DEF Fits, Names
  <2>5. Fits(4)
    BY <1>1, <1>2, <1>3, <2>1, NoForthScript DEF Fits, Names
  <2>6. Fits(5)
    BY <1>1, <1>2, <1>3, <2>1, NoForthScript DEF Fits, Names
  <2>7. Fits(6)
    BY <1>1, <1>2, <1>3, <2>1, NoForthScript DEF Fits, Names
  <2>8. Fits(7)
    BY <1>1, <1>2, <1>3, <2>1, NoForthScript DEF Fits, Names
  <2>9. Fits(8)
    BY <1>1, <1>2, <1>3, <2>1, NoForthScript DEF Fits, Names
  <2>10. Fits(9)
    BY <1>1, <1>2, <1>3, <2>1, NoForthScript DEF Fits, Names
  <2>11. Fits(10)
    BY <1>1, <1>2, <1>3, <2>1, NoForthScript DEF Fits, Names
  <2>12. Fits(11)
    BY <1>1, <1>2, <1>3, <2>1, NoForthScript DEF Fits, Names
  <2>13. Fits(12)
    BY <1>1, <1>2, <1>3, <2>1, NoForthScript DEF Fits, Names
  <2>14. Fits(13)
    BY <1>1, <1>2, <1>3, <2>1, NoForthScript DEF Fits, Names
  <2>15. Fits(14)
    BY <1>1, <1>2, <1>3, <2>1, NoForthScript DEF Fits, Names
  <2>16. \A n \in 1 .. end : n \in {1, 2, 3, 4, 5, 6, 7, 8, 9, 10, 11, 12, 13, 14}
    BY <2>1
  <2>17. \A n \in 1 .. end : Fits(n)
    BY <2>2, <2>3, <2>4, <2>5, <2>6, <2>7, <2>8, <2>9, <2>10, <2>11, <2>12, <2>13, <2>14, <2>15, <2>16
  <2> QED
    BY <1>2, <1>3, <2>1, <2>17, NoForthScript
<1>4. CASE program = LifeC
  <2>1. begin = 9 /\ end = 11
    BY <1>4, LifeCScript
  <2>2. Fits(1)
    BY <1>1, <1>2, <1>4, <2>1, LifeCScript DEF Fits, Names
  <2>3. Fits(2)
    BY <1>1, <1>2, <1>4, <2>1, LifeCScript DEF Fits, Names
  <2>4. Fits(3)
    BY <1>1, <1>2, <1>4, <2>1, LifeCScript DEF Fits, Names
  <2>5. Fits(4)
    BY <1>1, <1>2, <1>4, <2>1, LifeCScript DEF Fits, Names
  <2>6. Fits(5)
    BY <1>1, <1>2, <1>4, <2>1, LifeCScript DEF Fits, Names
  <2>7. Fits(6)
    BY <1>1, <1>2, <1>4, <2>1, LifeCScript DEF Fits, Names
  <2>8. Fits(7)
    BY <1>1, <1>2, <1>4, <2>1, LifeCScript DEF Fits, Names
  <2>9. Fits(8)
    BY <1>1, <1>2, <1>4, <2>1, LifeCScript DEF Fits, Names
  <2>10. Fits(9)
    BY <1>1, <1>2, <1>4, <2>1, LifeCScript DEF Fits, Names
  <2>11. Fits(10)
    BY <1>1, <1>2, <1>4, <2>1, LifeCScript DEF Fits, Names
  <2>12. Fits(11)
    BY <1>1, <1>2, <1>4, <2>1, LifeCScript DEF Fits, Names
  <2>13. \A n \in 1 .. end : n \in {1, 2, 3, 4, 5, 6, 7, 8, 9, 10, 11}
    BY <2>1
  <2>14. \A n \in 1 .. end : Fits(n)
    BY <2>2, <2>3, <2>4, <2>5, <2>6, <2>7, <2>8, <2>9, <2>10, <2>11, <2>12, <2>13
  <2> QED
    BY <1>2, <1>4, <2>1, <2>14, LifeCScript
<1> QED
  BY <1>3, <1>4 DEF Programs

(* The lists of the calls.                                                 *)
LEMMA Lists ==
  /\ Instructions("sendlut") = <<"LIR", "LIOR", "ALT">>
  /\ Instructions("clearkick") = <<"KR_0">> /\ Instructions("lifekick") = <<"KR">>
  /\ Instructions("write") = <<"SIOR">>
  /\ Instructions("run_scan") = <<"SDSR_lut", "RMR_run">>
  /\ \A name \in {"danvds", "dvds", "palette"} : Instructions(name) = <<"SDSR_site", "RMR_run">>
  /\ \A name \in {"multi", "select", "calc_space"} : Instructions(name) = <<"other">>
BY DEF Instructions, SendLutList, ClearKickList, LifeKickList, WriteList, RunScanList,
   DisplayAllList, DisplayFirstList, PaletteList, SelectAllList, MultiList, SpaceList

(* Where in which list an instruction can be.                              *)
Placed(name, k, instr) ==
  CASE instr = "LIR"  -> name = "sendlut" /\ k = 1
    [] instr = "LIOR" -> name = "sendlut" /\ k = 2
    [] instr = "ALT"  -> name = "sendlut" /\ k = 3
    [] instr = "SDSR_lut" -> name = "run_scan" /\ k = 1
    [] instr = "SDSR_site" -> name \in {"danvds", "dvds", "palette"} /\ k = 1
    [] instr = "RMR_run" -> name \in {"run_scan", "danvds", "dvds", "palette"} /\ k = 2
    [] instr = "SIOR" -> name = "write" /\ k = 1
    [] instr = "KR" -> name = "lifekick" /\ k = 1
    [] instr = "KR_0" -> name = "clearkick" /\ k = 1
    [] instr = "other" -> name \in {"multi", "select", "calc_space"} /\ k = 1

(* The lengths of the lists.                                               *)
Length(name) ==
  IF name = "sendlut" THEN 3
  ELSE IF name \in {"run_scan", "danvds", "dvds", "palette"} THEN 2 ELSE 1

(* The instructions of every list, by their place.                         *)
LEMMA Places ==
  ASSUME NEW name \in Names
  PROVE  /\ Len(Instructions(name)) = Length(name)
         /\ \A k \in 1 .. Length(name) : Placed(name, k, Instructions(name)[k])
<1>1. ASSUME Instructions(name) = <<"LIR", "LIOR", "ALT">>, name = "sendlut"
      PROVE  Len(Instructions(name)) = 3 /\ \A k \in 1 .. 3 : Placed(name, k, Instructions(name)[k])
  <2>1. \A k \in 1 .. 3 : k \in {1, 2, 3}
    OBVIOUS
  <2> QED
    BY <1>1, <2>1 DEF Placed
<1>2. ASSUME NEW l \in {"KR_0", "KR", "SIOR", "other"}, Instructions(name) = <<l>>, Placed(name, 1, l)
      PROVE  Len(Instructions(name)) = 1 /\ \A k \in 1 .. 1 : Placed(name, k, Instructions(name)[k])
  BY <1>2
<1>3. ASSUME NEW l \in {"SDSR_lut", "SDSR_site"}, Instructions(name) = <<l, "RMR_run">>,
             Placed(name, 1, l), Placed(name, 2, "RMR_run")
      PROVE  Len(Instructions(name)) = 2 /\ \A k \in 1 .. 2 : Placed(name, k, Instructions(name)[k])
  <2>1. \A k \in 1 .. 2 : k \in {1, 2}
    OBVIOUS
  <2> QED
    BY <1>3, <2>1
<1>4. CASE name = "sendlut"
  BY <1>1, <1>4, Lists DEF Length
<1>5. CASE name = "clearkick"
  BY <1>2, <1>5, Lists DEF Length, Placed
<1>6. CASE name = "lifekick"
  BY <1>2, <1>6, Lists DEF Length, Placed
<1>7. CASE name = "write"
  BY <1>2, <1>7, Lists DEF Length, Placed
<1>8. CASE name = "run_scan"
  BY <1>3, <1>8, Lists DEF Length, Placed
<1>9. CASE name \in {"danvds", "dvds", "palette"}
  BY <1>3, <1>9, Lists DEF Length, Placed
<1>10. CASE name \in {"multi", "select", "calc_space"}
  BY <1>2, <1>10, Lists DEF Length, Placed
<1> QED
  BY <1>4, <1>5, <1>6, <1>7, <1>8, <1>9, <1>10 DEF Names
-----------------------------------------------------------------------------
(* The program does not change, and nor do its calls.                      *)
LEMMA Fixed ==
  ASSUME program' = program
  PROVE  begin' = begin /\ end' = end /\ \A n : At(n)' = At(n)
BY DEF begin, end, At

(* The host has not begun, and nothing is loaded.                          *)
LEMMA InitLife == Init => LifeInv
<1> SUFFICES ASSUME Init PROVE LifeInv
  OBVIOUS
<1>1. begin \in {9, 11} /\ end \in {begin + 2, begin + 3}
  BY Script DEF Init
<1>2. turn = 0 /\ round = 0
  BY <1>1 DEF Init, turn, round
<1>3. HostInv
  BY <1>1 DEF Init, HostInv
<1>4. QueueInv /\ SourceInv
  BY <1>2 DEF Init, QueueInv, SourceInv
<1>5. PointerInv /\ AgeInv
  BY <1>1, <1>2 DEF Init, PointerInv, AgeInv
<1>6. TableInv
  BY <1>1, <1>2 DEF Init, TableInv
<1>7. CellInv
  BY <1>1, <1>2 DEF Init, CellInv
<1> QED
  BY <1>3, <1>4, <1>5, <1>6, <1>7 DEF LifeInv

(* What the host does changes no list and no machine, and the interface    *)
(* stays where it is in the program.                                       *)
LEMMA HostStep ==
  ASSUME LifeInv, Host
  PROVE  LifeInv' /\ UNCHANGED <<cells, seed, loaded, age>>
<1>1. HostInv /\ QueueInv /\ PointerInv /\ TableInv /\ SourceInv /\ CellInv /\ AgeInv
  BY DEF LifeInv
<1>2. /\ program' = program /\ program \in Programs
      /\ UNCHANGED <<list, at, tables, active, siteSource, cells, loaded, age, seed>>
  BY <1>1 DEF Host, PatchList, Schedule, Return, interface, machine, HostInv
<1>3. begin' = begin /\ end' = end /\ (\A n : At(n)' = At(n)) /\ At(pc) = Call
  BY <1>2, Fixed DEF At, Call
<1>4. begin \in {9, 11} /\ end \in {begin + 2, begin + 3}
  BY <1>2, Script
<1>5. Fits(pc) /\ At(begin - 3).lut = "proplut" /\ At(begin).lut = "lifelut"
      /\ At(begin - 3).name = "sendlut" /\ At(begin).name = "sendlut"
  BY <1>1, <1>2, Script DEF HostInv
<1>6. HostInv' /\ PointerInv' /\ turn' = turn /\ round' = round
      /\ newlist' \in BOOLEAN /\ (newlist' => phase' = "wait")
      /\ IF phase' = "wait" /\ ~newlist' THEN nlp' = At(pc') ELSE nlp' = None
  <2>1. CASE PatchList
    <3>1. phase = "call" /\ phase' = "schedule" /\ pointer' = At(pc).lut /\ At(pc).name = "sendlut"
          /\ UNCHANGED <<pc, done, nlp, newlist>>
      BY <1>3, <2>1 DEF PatchList, interface
    <3>2. HostInv'
      BY <1>1, <1>2, <1>3, <3>1 DEF HostInv
    <3>3. PointerInv'
      BY <1>1, <1>3, <1>4, <1>5, <3>1 DEF PointerInv, HostInv, Fits
    <3>4. turn' = turn /\ round' = round
      BY <1>1, <1>3, <3>1 DEF turn, round, QueueInv
    <3> QED
      BY <1>1, <3>1, <3>2, <3>3, <3>4 DEF QueueInv
  <2>2. CASE Schedule
    <3>1. phase = (IF At(pc).name = "sendlut" THEN "schedule" ELSE "call") /\ phase' = "wait" /\ nlp' = At(pc)
          /\ UNCHANGED <<pc, done, pointer, newlist>>
      BY <1>3, <2>2 DEF Schedule
    <3>2. ~newlist
      BY <1>1, <3>1 DEF QueueInv
    <3>3. HostInv'
      BY <1>1, <1>2, <1>3, <3>1 DEF HostInv
    <3>4. PointerInv'
      BY <1>1, <1>3, <1>4, <1>5, <3>1 DEF PointerInv, HostInv
    <3>5. turn' = turn /\ round' = round
      BY <1>1, <1>3, <3>1, <3>2 DEF turn, round
    <3> QED
      BY <1>1, <1>3, <3>1, <3>2, <3>3, <3>4, <3>5 DEF QueueInv
  <2>3. CASE Return
    <3>1. phase = "wait" /\ newlist /\ newlist' = FALSE /\ UNCHANGED <<pointer, nlp>>
          /\ done' = (IF pc = end THEN done + 1 ELSE done)
          /\ IF pc \notin {begin, end} THEN pc' = pc + 1 /\ phase' = "call"
             ELSE IF done' < Generations THEN pc' = begin + 1 /\ phase' = "call"
             ELSE pc' = pc /\ phase' = "exit"
      BY <2>3 DEF Return, begin, end
    <3>2. HostInv'
      BY <1>1, <1>2, <1>3, <1>4, <3>1 DEF HostInv
    <3>3. PointerInv'
      BY <1>1, <1>3, <1>4, <3>1 DEF PointerInv, HostInv
    <3>4. turn' = turn
      BY <1>1, <1>3, <1>4, <3>1 DEF turn, HostInv
    <3>5. round' = round
      BY <1>1, <1>3, <1>4, <3>1, <3>4 DEF turn, round, HostInv
    <3> QED
      BY <1>1, <3>1, <3>2, <3>3, <3>4, <3>5 DEF QueueInv
  <2> QED
    BY <2>1, <2>2, <2>3 DEF Host
<1>7. QueueInv'
  BY <1>1, <1>2, <1>3, <1>6 DEF QueueInv
<1>8. TableInv' /\ SourceInv' /\ AgeInv'
  BY <1>1, <1>2, <1>3, <1>6 DEF TableInv, SourceInv, AgeInv
<1>9. CellInv'
  BY <1>1, <1>2, <1>3, <1>6 DEF CellInv, Uniform, Around
<1> QED
  BY <1>2, <1>6, <1>7, <1>8, <1>9 DEF LifeInv

(* The interface takes the list that was scheduled.                        *)
LEMMA TakeStep ==
  ASSUME LifeInv, TakeList
  PROVE  LifeInv' /\ UNCHANGED <<cells, seed, loaded, age>>
<1>1. HostInv /\ QueueInv /\ PointerInv /\ TableInv /\ SourceInv /\ CellInv /\ AgeInv
  BY DEF LifeInv
<1>2. /\ program \in Programs /\ list = None /\ nlp # None
      /\ list' = nlp /\ at' = 1 /\ nlp' = None /\ newlist' = TRUE
      /\ UNCHANGED <<program, pc, phase, done, pointer, tables, active, siteSource, cells, loaded, age, seed>>
  BY <1>1 DEF TakeList, host, machine, HostInv
<1>3. begin' = begin /\ end' = end /\ (\A n : At(n)' = At(n))
  BY <1>2, Fixed
<1>4. begin \in {9, 11} /\ end \in {begin + 2, begin + 3}
  BY <1>2, Script
<1>5. phase = "wait" /\ ~newlist /\ nlp = At(pc) /\ Fits(pc) /\ pc \in 1 .. end
  BY <1>1, <1>2, Script DEF QueueInv, HostInv
<1>6. list' = At(pc) /\ list' # None /\ Len(Instructions(list'.name)) \in 1 .. 3
  BY <1>2, <1>5, Places DEF Fits, Length
<1>7. turn' = pc /\ turn = (IF pc = begin + 1 /\ done > 0 THEN end ELSE pc - 1)
  BY <1>2, <1>3, <1>5 DEF turn
<1>8. round' = done /\ round = (IF pc = begin + 1 /\ done > 0 THEN done - 1 ELSE done)
  BY <1>1, <1>2, <1>3, <1>4, <1>5, <1>7 DEF round, HostInv
<1>9. HostInv' /\ PointerInv'
  BY <1>1, <1>2, <1>3 DEF HostInv, PointerInv
<1>10. QueueInv'
  <2>1. newlist' \in BOOLEAN /\ phase' = "wait" /\ nlp' = None /\ newlist'
    BY <1>2, <1>5
  <2>2. turn' >= 1 /\ list' = At(turn') /\ list' # None
    <3>1. turn' = pc /\ pc >= 1
      BY <1>4, <1>5, <1>7
    <3> QED
      BY <1>6, <3>1
  <2>3. at' \in 1 .. Len(Instructions(list'.name))
    BY <1>2, <1>6
  <2> QED
    BY <1>3, <2>1, <2>2, <2>3 DEF QueueInv
<1>11. SourceInv'
  BY <1>2 DEF SourceInv
<1>12. TableInv'
  BY <1>1, <1>2, <1>3, <1>4, <1>5, <1>6, <1>7 DEF TableInv
<1>13. AgeInv'
  BY <1>1, <1>2, <1>3, <1>4, <1>5, <1>6, <1>7, <1>8 DEF AgeInv, HostInv
<1>14. Uniform' = Uniform /\ Around' = Around
  BY <1>2 DEF Uniform, Around
<1>15. CellInv'
  BY <1>1, <1>2, <1>3, <1>4, <1>5, <1>6, <1>7, <1>14 DEF CellInv
<1> QED
  BY <1>2, <1>9, <1>10, <1>11, <1>12, <1>13, <1>15 DEF LifeInv

(* An instruction of the list leaves the host where it is, and the list at *)
(* its next instruction or finished.                                       *)
LEMMA ExecuteStep ==
  ASSUME LifeInv, NEW instr, Executing(instr), Executed
  PROVE  /\ list.name \in Names /\ Placed(list.name, at, instr) /\ list = At(turn) /\ list # None
         /\ turn \in 1 .. end /\ Fits(turn) /\ turn' = turn /\ round' = round /\ begin' = begin
         /\ at \in 1 .. Length(list.name)
         /\ IF at < Length(list.name) THEN list' = list /\ at' = at + 1 ELSE list' = None /\ at' = 1
         /\ HostInv' /\ QueueInv' /\ PointerInv'
         /\ UNCHANGED <<seed, pointer>>
<1>1. HostInv /\ QueueInv /\ PointerInv
  BY DEF LifeInv
<1>2. /\ program \in Programs /\ UNCHANGED <<program, pc, phase, done, pointer, nlp, newlist, seed>>
      /\ list # None /\ Instructions(list.name)[at] = instr
      /\ IF at < Len(Instructions(list.name)) THEN list' = list /\ at' = at + 1 ELSE list' = None /\ at' = 1
  BY <1>1 DEF Executed, Executing, host, HostInv
<1>3. begin' = begin /\ end' = end /\ (\A n : At(n)' = At(n))
  BY <1>2, Fixed
<1>4. begin \in {9, 11} /\ end \in {begin + 2, begin + 3}
  BY <1>2, Script
<1>5. turn' = turn /\ round' = round
  BY <1>2, <1>3 DEF turn, round
<1>6. list = At(turn) /\ turn \in 1 .. end /\ at \in 1 .. Len(Instructions(list.name))
  BY <1>1, <1>2, <1>4 DEF QueueInv, turn, HostInv
<1>7. Fits(turn)
  BY <1>2, <1>6, Script
<1>8. list.name \in Names /\ Len(Instructions(list.name)) = Length(list.name) /\ Length(list.name) \in 1 .. 3
      /\ Placed(list.name, at, instr)
  <2> DEFINE name == list.name
  <2>1. name \in Names
    BY <1>6, <1>7 DEF Fits
  <2> HIDE DEF name
  <2>2. /\ Len(Instructions(name)) = Length(name)
        /\ \A k \in 1 .. Length(name) : Placed(name, k, Instructions(name)[k])
    BY <2>1, Places
  <2>3. Length(name) \in 1 .. 3
    BY DEF Length
  <2>4. at \in 1 .. Length(name) /\ Instructions(name)[at] = instr
    BY <1>2, <1>6, <2>2 DEF name
  <2>5. Placed(name, at, instr)
    BY <2>2, <2>4
  <2> QED
    BY <2>1, <2>2, <2>3, <2>5 DEF name
<1>9. HostInv' /\ PointerInv'
  BY <1>1, <1>2, <1>3 DEF HostInv, PointerInv
<1>10. QueueInv'
  <2>1. newlist' \in BOOLEAN /\ (newlist' => phase' = "wait")
        /\ IF phase' = "wait" /\ ~newlist' THEN nlp' = At(pc') ELSE nlp' = None
    BY <1>1, <1>2, <1>3 DEF QueueInv
  <2>2. IF list' = None THEN at' = 1
        ELSE turn' >= 1 /\ list' = At(turn') /\ at' \in 1 .. Len(Instructions(list'.name))
    BY <1>2, <1>5, <1>6, <1>8
  <2> QED
    BY <1>3, <2>1, <2>2 DEF QueueInv
<1> QED
  BY <1>2, <1>3, <1>5, <1>6, <1>7, <1>8, <1>9, <1>10

(* What a list is at an instruction.                                       *)
LEMMA PlaceOf ==
  ASSUME NEW name, NEW k, NEW instr, Placed(name, k, instr)
  PROVE  /\ instr = "LIR"  => name = "sendlut" /\ k = 1 /\ Length(name) = 3
         /\ instr = "LIOR" => name = "sendlut" /\ k = 2 /\ Length(name) = 3
         /\ instr = "ALT"  => name = "sendlut" /\ k = 3 /\ Length(name) = 3
         /\ instr = "SDSR_lut" => name = "run_scan" /\ k = 1 /\ Length(name) = 2
         /\ instr = "SDSR_site" => name \in {"danvds", "dvds", "palette"} /\ k = 1 /\ Length(name) = 2
         /\ instr = "RMR_run" => name \in {"run_scan", "danvds", "dvds", "palette"} /\ k = 2 /\ Length(name) = 2
         /\ instr = "SIOR" => name = "write" /\ k = 1 /\ Length(name) = 1
         /\ instr = "KR" => name = "lifekick" /\ k = 1 /\ Length(name) = 1
         /\ instr = "KR_0" => name = "clearkick" /\ k = 1 /\ Length(name) = 1
         /\ instr = "other" => name \in {"multi", "select", "calc_space"} /\ k = 1 /\ Length(name) = 1
<1>1. CASE instr \in {"LIR", "LIOR", "ALT"}
  BY <1>1 DEF Placed, Length
<1>2. CASE instr \in {"SDSR_lut", "SDSR_site", "RMR_run"}
  BY <1>2 DEF Placed, Length
<1>3. CASE instr \in {"SIOR", "KR", "KR_0", "other"}
  BY <1>3 DEF Placed, Length
<1> QED
  BY <1>1, <1>2, <1>3

(* Where an instruction that does not touch the tables and the sites leads.*)
LEMMA SkipStep ==
  ASSUME LifeInv, Skip
  PROVE  LifeInv' /\ UNCHANGED <<cells, seed, loaded, age>>
<1>1. TableInv /\ SourceInv /\ CellInv /\ AgeInv /\ HostInv
  BY DEF LifeInv
<1>2. PICK instr \in {"LIR", "KR_0", "other"} : Executing(instr) /\ Executed
  BY DEF Skip
<1>3. /\ list.name \in Names /\ Placed(list.name, at, instr) /\ list = At(turn) /\ list # None
      /\ turn \in 1 .. end /\ Fits(turn) /\ turn' = turn /\ round' = round /\ begin' = begin
      /\ at \in 1 .. Length(list.name)
      /\ IF at < Length(list.name) THEN list' = list /\ at' = at + 1 ELSE list' = None /\ at' = 1
      /\ HostInv' /\ QueueInv' /\ PointerInv' /\ UNCHANGED <<seed, pointer>>
  BY <1>2, ExecuteStep
<1>4. UNCHANGED <<tables, active, siteSource, cells, loaded, age>>
  BY DEF Skip, machine
<1>5. begin \in {9, 11} /\ end \in {begin + 2, begin + 3}
  BY <1>1, Script DEF HostInv
<1>6. \/ list.name = "sendlut" /\ at = 1 /\ list' = list /\ at' = 2
      \/ list.name \in {"clearkick", "multi", "select", "calc_space"} /\ list' = None /\ at' = 1
  BY <1>2, <1>3, PlaceOf
<1>7. turn # 5 /\ turn \notin {begin - 1, begin + 1, begin + 2, begin + 3}
  BY <1>3, <1>6 DEF Fits
<1>8. list' = None => turn \notin {begin - 3, begin}
  <2>1. At(begin - 3).name = "sendlut" /\ At(begin).name = "sendlut"
    BY <1>1, Script DEF HostInv
  <2> QED
    BY <1>3, <1>6, <2>1
<1>9. TableInv'
  BY <1>1, <1>3, <1>4, <1>5, <1>6, <1>7, <1>8 DEF TableInv
<1>10. SourceInv'
  BY <1>3, <1>6 DEF SourceInv
<1>11. Uniform' = Uniform /\ Around' = Around
  BY <1>4 DEF Uniform, Around
<1>12. CellInv'
  BY <1>1, <1>3, <1>4, <1>5, <1>6, <1>7, <1>11 DEF CellInv
<1>13. AgeInv'
  BY <1>1, <1>3, <1>4, <1>5, <1>7 DEF AgeInv
<1> QED
  BY <1>3, <1>4, <1>9, <1>10, <1>12, <1>13 DEF LifeInv

(* Loading and switching the tables.                                       *)
LEMMA TableStep ==
  ASSUME LifeInv, LoadTable \/ SwitchTables
  PROVE  LifeInv' /\ UNCHANGED <<cells, seed, loaded, age>>
<1>1. TableInv /\ SourceInv /\ CellInv /\ AgeInv /\ HostInv /\ PointerInv /\ QueueInv
  BY DEF LifeInv
<1>2. PICK instr \in {"LIOR", "ALT"} : Executing(instr) /\ Executed
         /\ (instr = "LIOR" => tables' = [tables EXCEPT ![1 - active] = pointer] /\ active' = active)
         /\ (instr = "ALT" => tables' = tables /\ active' = 1 - active)
  <2>1. CASE LoadTable
    BY <2>1, Zenon DEF LoadTable
  <2>2. CASE SwitchTables
    BY <2>2, Zenon DEF SwitchTables
  <2> QED
    BY <2>1, <2>2
<1>3. /\ list.name \in Names /\ Placed(list.name, at, instr) /\ list = At(turn) /\ list # None
      /\ turn \in 1 .. end /\ Fits(turn) /\ turn' = turn /\ round' = round /\ begin' = begin
      /\ at \in 1 .. Length(list.name)
      /\ IF at < Length(list.name) THEN list' = list /\ at' = at + 1 ELSE list' = None /\ at' = 1
      /\ HostInv' /\ QueueInv' /\ PointerInv' /\ UNCHANGED <<seed, pointer>>
  BY <1>2, ExecuteStep
<1>4. UNCHANGED <<siteSource, cells, loaded, age>>
  BY DEF LoadTable, SwitchTables
<1>5. begin \in {9, 11} /\ end \in {begin + 2, begin + 3}
  BY <1>1, Script DEF HostInv
<1>6. /\ list.name = "sendlut"
      /\ instr = "LIOR" => at = 2 /\ list' = list /\ at' = 3
      /\ instr = "ALT" => at = 3 /\ list' = None /\ at' = 1
  BY <1>2, <1>3, PlaceOf
<1>7. turn # 5 /\ (turn < 5 \/ turn \in {begin - 3, begin})
  BY <1>3, <1>6 DEF Fits
<1>8. (turn = begin - 3 => pointer = "proplut" \/ at # 2) /\ (turn = begin => pointer = "lifelut")
  <2>1. turn = begin => pc > begin \/ (pc = begin /\ phase # "call")
    BY <1>1, <1>5 DEF turn, HostInv
  <2>2. turn = begin - 3 => pc = begin - 2 \/ (pc = begin - 3 /\ phase = "wait")
    BY <1>1, <1>5 DEF turn, HostInv
  <2> QED
    BY <1>1, <2>1, <2>2 DEF PointerInv
<1>9. TableInv'
  <2>1. active \in {0, 1} /\ tables \in [{0, 1} -> {None, "lifelut", "proplut"}]
        /\ pointer \in {None, "lifelut", "proplut"}
    BY <1>1 DEF TableInv, PointerInv
  <2>2. CASE instr = "LIOR"
    <3>1. /\ active' \in {0, 1} /\ tables' \in [{0, 1} -> {None, "lifelut", "proplut"}]
          /\ tables'[1 - active'] = pointer /\ tables'[active'] = tables[active]
      BY <1>2, <2>1, <2>2
    <3> QED
      BY <1>1, <1>3, <1>5, <1>6, <1>7, <1>8, <2>2, <3>1 DEF TableInv
  <2>3. CASE instr = "ALT"
    <3>1. active' \in {0, 1} /\ tables'[active'] = tables[1 - active] /\ tables' = tables
      BY <1>2, <2>1, <2>3
    <3> QED
      BY <1>1, <1>3, <1>5, <1>6, <1>7, <2>1, <2>3, <3>1 DEF TableInv
  <2> QED
    BY <2>2, <2>3
<1>10. SourceInv'
  BY <1>2, <1>3, <1>6 DEF SourceInv
<1>11. Uniform' = Uniform /\ Around' = Around
  BY <1>4 DEF Uniform, Around
<1>12. CellInv'
  BY <1>1, <1>3, <1>4, <1>5, <1>6, <1>7, <1>11 DEF CellInv
<1>13. AgeInv'
  BY <1>1, <1>3, <1>4, <1>5, <1>7 DEF AgeInv
<1> QED
  BY <1>3, <1>4, <1>9, <1>10, <1>12, <1>13 DEF LifeInv

(* Selecting the source of the sites.                                      *)
LEMMA SourceStep ==
  ASSUME LifeInv, SelectSource
  PROVE  LifeInv' /\ UNCHANGED <<cells, seed, loaded, age>>
<1>1. TableInv /\ SourceInv /\ CellInv /\ AgeInv /\ HostInv
  BY DEF LifeInv
<1>2. PICK instr \in {"SDSR_lut", "SDSR_site"} : Executing(instr) /\ Executed
         /\ siteSource' = (IF instr = "SDSR_lut" THEN "lut" ELSE "site")
  <2>1. CASE Executing("SDSR_lut") /\ siteSource' = "lut"
    BY <2>1 DEF SelectSource
  <2>2. CASE Executing("SDSR_site") /\ siteSource' = "site"
    BY <2>2 DEF SelectSource
  <2> QED
    BY <2>1, <2>2 DEF SelectSource
<1>3. /\ list.name \in Names /\ Placed(list.name, at, instr) /\ list = At(turn) /\ list # None
      /\ turn \in 1 .. end /\ Fits(turn) /\ turn' = turn /\ round' = round /\ begin' = begin
      /\ at \in 1 .. Length(list.name)
      /\ IF at < Length(list.name) THEN list' = list /\ at' = at + 1 ELSE list' = None /\ at' = 1
      /\ HostInv' /\ QueueInv' /\ PointerInv' /\ UNCHANGED <<seed, pointer>>
  BY <1>2, ExecuteStep
<1>4. UNCHANGED <<tables, active, cells, loaded, age>>
  BY DEF SelectSource
<1>5. begin \in {9, 11} /\ end \in {begin + 2, begin + 3}
  BY <1>1, Script DEF HostInv
<1>6. /\ at = 1 /\ list' = list /\ at' = 2
      /\ IF instr = "SDSR_lut" THEN list.name = "run_scan" ELSE list.name \in {"danvds", "dvds", "palette"}
  BY <1>2, <1>3, PlaceOf
<1>7. TableInv'
  BY <1>1, <1>3, <1>4, <1>6 DEF TableInv
<1>8. SourceInv'
  BY <1>2, <1>3, <1>6 DEF SourceInv
<1>9. Uniform' = Uniform /\ Around' = Around
  BY <1>4 DEF Uniform, Around
<1>10. CellInv'
  BY <1>1, <1>3, <1>4, <1>6, <1>9 DEF CellInv
<1>11. AgeInv'
  BY <1>1, <1>3, <1>4, <1>6 DEF AgeInv
<1> QED
  BY <1>3, <1>4, <1>7, <1>8, <1>10, <1>11 DEF LifeInv
-----------------------------------------------------------------------------
(* The planes 8 to 15 and the directions: the bit that a kick brings to a  *)
(* site comes from the opposite direction.                                 *)
Opposite == [p \in 8 .. 15 |-> <<0 - KickOf[p][1], 0 - KickOf[p][2]>>]

(* Every direction is the opposite of one plane's kick.                    *)
LEMMA Opposites ==
  /\ Opposite \in [8 .. 15 -> Rule!Directions]
  /\ \A p, q \in 8 .. 15 : Opposite[p] = Opposite[q] => p = q
  /\ \A d \in Rule!Directions : \E p \in 8 .. 15 : Opposite[p] = d
<1>1. \A p \in 8 .. 15 : p \in {8, 9, 10, 11, 12, 13, 14, 15}
  OBVIOUS
<1>2. /\ Opposite[8] = <<-1, 0>> /\ Opposite[9] = <<1, 0>> /\ Opposite[10] = <<0, -1>> /\ Opposite[11] = <<0, 1>>
      /\ Opposite[12] = <<-1, -1>> /\ Opposite[13] = <<-1, 1>> /\ Opposite[14] = <<1, -1>> /\ Opposite[15] = <<1, 1>>
  BY DEF Opposite, KickOf
<1>3. \A d \in Rule!Directions :
        \E x, y \in -1 .. 1 : d = <<x, y>> /\ d # <<0, 0>>
  BY DEF Rule!Directions
<1>4. \A x \in -1 .. 1 : x \in {-1, 0, 1}
  OBVIOUS
<1>5. \A d \in Rule!Directions :
        d \in {<<-1, 0>>, <<1, 0>>, <<0, -1>>, <<0, 1>>, <<-1, -1>>, <<-1, 1>>, <<1, -1>>, <<1, 1>>}
  BY <1>3, <1>4
<1>6. \A p \in 8 .. 15 : Opposite[p] \in Rule!Directions
  <2>1. \A x, y \in -1 .. 1 : <<x, y>> # <<0, 0>> => <<x, y>> \in Rule!Directions
    BY DEF Rule!Directions
  <2>2. -1 \in -1 .. 1 /\ 0 \in -1 .. 1 /\ 1 \in -1 .. 1
    OBVIOUS
  <2> QED
    BY <1>1, <1>2, <2>1, <2>2
<1>7. Opposite \in [8 .. 15 -> Rule!Directions]
  BY <1>6 DEF Opposite
<1>8. \A p, q \in 8 .. 15 : Opposite[p] = Opposite[q] => p = q
  BY <1>1, <1>2
<1>9. \A d \in Rule!Directions : \E p \in 8 .. 15 : Opposite[p] = d
  BY <1>2, <1>5
<1> QED
  BY <1>7, <1>8, <1>9

(* The neighbour in that direction is the site the bit came from.          *)
LEMMA Comes ==
  ASSUME NEW s \in Sites, NEW p \in 8 .. 15
  PROVE  Rule!Beside(s, Opposite[p]) = From(s, KickOf[p]) /\ From(s, KickOf[p]) \in Sites
<1>1. \E x \in 0 .. Width - 1, y \in 0 .. Height - 1 : s = <<x, y>>
  BY DEF Sites
<1>2. \E a, b \in -1 .. 1 : KickOf[p] = <<a, b>>
  <2>1. p \in {8, 9, 10, 11, 12, 13, 14, 15}
    OBVIOUS
  <2> QED
    BY <2>1 DEF KickOf
<1>3. Opposite[p] = <<0 - KickOf[p][1], 0 - KickOf[p][2]>>
  BY DEF Opposite
<1>4. s[1] \in Int /\ s[2] \in Int /\ KickOf[p][1] \in Int /\ KickOf[p][2] \in Int
  BY <1>1, <1>2
<1>5. Rule!Beside(s, Opposite[p]) = From(s, KickOf[p])
  <2> DEFINE a == s[1]
             b == s[2]
             c == KickOf[p][1]
             d == KickOf[p][2]
  <2>1. Opposite[p][1] = 0 - c /\ Opposite[p][2] = 0 - d
    BY <1>3
  <2>2. Rule!Beside(s, Opposite[p]) = <<(a + (0 - c)) % Width, (b + (0 - d)) % Height>>
    BY <2>1 DEF Rule!Beside
  <2>3. From(s, KickOf[p]) = <<(a - c) % Width, (b - d) % Height>>
    BY DEF From
  <2>4. a + (0 - c) = a - c /\ b + (0 - d) = b - d
    BY <1>4
  <2> QED
    BY <2>2, <2>3, <2>4
<1>6. From(s, KickOf[p]) \in Sites
  <2>1. Width \in Nat \ {0} /\ Height \in Nat \ {0}
    BY LifeAssumption
  <2>2. (s[1] - KickOf[p][1]) % Width \in 0 .. Width - 1 /\ (s[2] - KickOf[p][2]) % Height \in 0 .. Height - 1
    <3> DEFINE u == s[1] - KickOf[p][1]
               v == s[2] - KickOf[p][2]
    <3>1. u \in Int /\ v \in Int
      BY <1>4
    <3> HIDE DEF u, v
    <3>2. u % Width \in 0 .. Width - 1 /\ v % Height \in 0 .. Height - 1
      BY <2>1, <3>1
    <3> QED
      BY <3>2 DEF u, v
  <2> QED
    BY <2>2 DEF From, Sites
<1> QED
  BY <1>5, <1>6

(* countbits sees as many ones as there are live sites around.             *)
LEMMA CountsAround ==
  ASSUME NEW s \in Sites, NEW alive, NEW planes \in SUBSET Planes,
         \A p \in 8 .. 15 : p \in planes <=> From(s, KickOf[p]) \in alive
  PROVE  countbits(planes) = Rule!LiveAround(alive, s)
<1> DEFINE P == planes \cap (8 .. 15)
           D == {d \in Rule!Directions : Rule!Beside(s, d) \in alive}
           h == [p \in P |-> Opposite[p]]
<1>1. \A p \in 8 .. 15 : p \in P <=> Rule!Beside(s, Opposite[p]) \in alive
  BY Comes
<1>2. \A p \in P : p \in 8 .. 15 /\ Opposite[p] \in D
  BY <1>1, Opposites
<1>3. IsFiniteSet(P)
  <2> DEFINE low == 8
             high == 15
  <2>1. low \in Int /\ high \in Int
    OBVIOUS
  <2> HIDE DEF low, high
  <2>2. IsFiniteSet(low .. high)
    BY <2>1, FS_Interval
  <2> QED
    BY <2>2, FS_Subset DEF low, high
<1>4. ExistsBijection(P, D)
  <2>1. h \in [P -> D]
    BY <1>2
  <2>2. \A a, b \in DOMAIN h : h[a] = h[b] => a = b
    BY <1>2, Opposites
  <2>3. \A d \in D : \E p \in P : h[p] = d
    BY <1>1, Opposites
  <2> HIDE DEF h, P, D
  <2>4. h \in Bijection(P, D)
    BY <2>1, <2>2, <2>3, Zenon DEF Bijection, Injection, Surjection, IsInjective
  <2> QED
    BY <2>4 DEF ExistsBijection
<1> HIDE DEF P, D
<1>5. Cardinality(D) = Cardinality(P)
  BY <1>3, <1>4, FS_Bijection
<1>6. Rule!Cardinality(D) = Cardinality(D)
  BY DEF Cardinality, Rule!Cardinality
<1> QED
  BY <1>5, <1>6 DEF countbits, Rule!LiveAround, P, D
-----------------------------------------------------------------------------
(* A pattern is loaded, and it is the one that was meant.                  *)
LEMMA LoadStep ==
  ASSUME LifeInv, LoadCells
  PROVE  LifeInv' /\ Alive' = Alive /\ age' = age
<1>1. TableInv /\ SourceInv /\ CellInv /\ AgeInv /\ HostInv
  BY DEF LifeInv
<1>2. Executing("SIOR") /\ Executed /\ loaded' = TRUE /\ UNCHANGED <<tables, active, siteSource, age>>
  BY DEF LoadCells
<1>3. /\ list.name \in Names /\ Placed(list.name, at, "SIOR") /\ list = At(turn) /\ list # None
      /\ turn \in 1 .. end /\ Fits(turn) /\ turn' = turn /\ round' = round /\ begin' = begin
      /\ at \in 1 .. Length(list.name)
      /\ IF at < Length(list.name) THEN list' = list /\ at' = at + 1 ELSE list' = None /\ at' = 1
      /\ HostInv' /\ QueueInv' /\ PointerInv' /\ UNCHANGED <<seed, pointer>>
  BY <1>2, ExecuteStep
<1>4. begin \in {9, 11} /\ end \in {begin + 2, begin + 3}
  BY <1>1, Script DEF HostInv
<1>5. list.name = "write" /\ list' = None /\ at' = 1
  BY <1>3, PlaceOf
<1>6. turn = 5
  BY <1>3, <1>5 DEF Fits
<1>7. PICK others \in {{}, {0, 9}} : cells' = Buffer(others)
  BY DEF LoadCells
<1>8. cells' = [s \in Sites |-> others \cup (IF s \in seed THEN {LiveBit} ELSE {})]
  BY <1>7 DEF Buffer
<1>9. cells' \in [Sites -> SUBSET Planes]
  <2>1. LiveBit \in Planes /\ others \subseteq Planes
    BY <1>7 DEF LiveBit, Planes
  <2> QED
    BY <1>8, <2>1
<1>10. seed \subseteq Sites
  BY <1>1, LifeAssumption DEF CellInv
<1>11. Alive' = Alive
  <2>1. ~loaded /\ Alive = seed
    BY <1>1, <1>3, <1>6 DEF CellInv, Alive
  <2>2. \A s \in Sites : LiveBit \in cells'[s] <=> s \in seed
    <3>1. LiveBit \notin others
      BY <1>7 DEF LiveBit
    <3> QED
      BY <1>8, <3>1
  <2>3. Alive' = {s \in Sites : LiveBit \in cells'[s]}
    BY <1>2 DEF Alive
  <2> QED
    BY <1>10, <2>1, <2>2, <2>3
<1>12. TableInv' /\ SourceInv' /\ AgeInv'
  BY <1>1, <1>2, <1>3, <1>4, <1>5, <1>6 DEF TableInv, SourceInv, AgeInv
<1>13. CellInv'
  BY <1>1, <1>2, <1>3, <1>4, <1>5, <1>6, <1>9 DEF CellInv
<1> QED
  BY <1>2, <1>3, <1>11, <1>12, <1>13 DEF LifeInv

(* Kicked planes of sites that agreed are copies of the neighbours' bits.  *)
LEMMA KickStep ==
  ASSUME LifeInv, Kick
  PROVE  LifeInv' /\ Alive' = Alive /\ age' = age
<1>1. TableInv /\ SourceInv /\ CellInv /\ AgeInv /\ HostInv
  BY DEF LifeInv
<1>2. Executing("KR") /\ Executed /\ cells' = Kicked(cells) /\ UNCHANGED <<tables, active, siteSource, loaded, age>>
  BY DEF Kick
<1>3. /\ list.name \in Names /\ Placed(list.name, at, "KR") /\ list = At(turn) /\ list # None
      /\ turn \in 1 .. end /\ Fits(turn) /\ turn' = turn /\ round' = round /\ begin' = begin
      /\ at \in 1 .. Length(list.name)
      /\ IF at < Length(list.name) THEN list' = list /\ at' = at + 1 ELSE list' = None /\ at' = 1
      /\ HostInv' /\ QueueInv' /\ PointerInv' /\ UNCHANGED <<seed, pointer>>
  BY <1>2, ExecuteStep
<1>4. begin \in {9, 11} /\ end \in {begin + 2, begin + 3}
  BY <1>1, Script DEF HostInv
<1>5. list.name = "lifekick" /\ list' = None /\ at' = 1
  BY <1>3, PlaceOf
<1>6. turn = begin + 1
  BY <1>3, <1>5 DEF Fits
<1>7. Uniform /\ loaded /\ cells \in [Sites -> SUBSET Planes]
  BY <1>1, <1>3, <1>4, <1>6 DEF CellInv
<1>8. cells' = [s \in Sites |-> {p \in Planes :
                 IF p < 8 THEN p \in cells[s] ELSE p \in cells[From(s, KickOf[p])]}]
  BY <1>2 DEF Kicked
<1>9. cells' \in [Sites -> SUBSET Planes]
  BY <1>8
<1>10. \A s \in Sites : LiveBit \in cells'[s] <=> LiveBit \in cells[s]
  <2>1. LiveBit \in Planes /\ LiveBit < 8
    BY DEF LiveBit, Planes
  <2> HIDE DEF LiveBit
  <2> QED
    BY <1>8, <2>1
<1>11. Around'
  <2> SUFFICES ASSUME NEW s \in Sites, NEW p \in 8 .. 15
               PROVE  p \in cells'[s] <=> LiveBit \in cells'[From(s, KickOf[p])]
    BY DEF Around
  <2>1. p \in Planes /\ ~(p < 8) /\ LiveBit \in Planes
    BY DEF Planes, LiveBit
  <2> DEFINE f == From(s, KickOf[p])
  <2>2. f \in Sites
    BY Comes
  <2> HIDE DEF f
  <2>3. cells'[s] = {b \in Planes : IF b < 8 THEN b \in cells[s] ELSE b \in cells[From(s, KickOf[b])]}
    BY <1>8
  <2>4. p \in cells'[s] <=> p \in cells[f]
    BY <2>1, <2>3 DEF f
  <2>5. p \in cells[f] <=> LiveBit \in cells[f]
    <3>1. cells[f] \in {{}, Planes}
      BY <1>7, <2>2 DEF Uniform
    <3> HIDE DEF Planes, LiveBit
    <3> QED
      BY <2>1, <3>1
  <2> QED
    BY <1>10, <2>2, <2>4, <2>5 DEF f
<1>12. Alive' = Alive
  BY <1>2, <1>7, <1>10 DEF Alive
<1>13. TableInv' /\ SourceInv' /\ AgeInv'
  BY <1>1, <1>2, <1>3, <1>4, <1>5, <1>6 DEF TableInv, SourceInv, AgeInv
<1>14. CellInv'
  BY <1>1, <1>2, <1>3, <1>4, <1>5, <1>6, <1>9, <1>11 DEF CellInv
<1> QED
  BY <1>2, <1>3, <1>12, <1>13, <1>14 DEF LifeInv

(* A scan through proplut copies the live bit to all planes, one through   *)
(* lifelut replaces it by the rule's; a scan that displays changes nothing.*)
LEMMA ScanStep ==
  ASSUME LifeInv, Scan
  PROVE  LifeInv' /\ (Rule!Tick \/ (Alive' = Alive /\ age' = age))
<1>1. TableInv /\ SourceInv /\ CellInv /\ AgeInv /\ HostInv
  BY DEF LifeInv
<1>2. Executing("RMR_run") /\ Executed /\ UNCHANGED <<tables, active, siteSource, loaded>>
      /\ IF siteSource = "lut"
         THEN /\ cells' = [s \in Sites |-> Lookup(tables[active], cells[s])]
              /\ age' = age + (IF tables[active] = "lifelut" THEN 1 ELSE 0)
         ELSE UNCHANGED <<cells, age>>
  BY DEF Scan
<1>3. /\ list.name \in Names /\ Placed(list.name, at, "RMR_run") /\ list = At(turn) /\ list # None
      /\ turn \in 1 .. end /\ Fits(turn) /\ turn' = turn /\ round' = round /\ begin' = begin
      /\ at \in 1 .. Length(list.name)
      /\ IF at < Length(list.name) THEN list' = list /\ at' = at + 1 ELSE list' = None /\ at' = 1
      /\ HostInv' /\ QueueInv' /\ PointerInv' /\ UNCHANGED <<seed, pointer>>
  BY <1>2, ExecuteStep
<1>4. begin \in {9, 11} /\ end \in {begin + 2, begin + 3}
  BY <1>1, Script DEF HostInv
<1>5. at = 2 /\ list.name \in {"run_scan", "danvds", "dvds", "palette"} /\ list' = None /\ at' = 1
  BY <1>3, PlaceOf
<1>6. turn # 5 /\ turn # begin + 1 /\ (turn \in {begin - 1, begin + 2} <=> list.name = "run_scan")
  BY <1>3, <1>5 DEF Fits
<1>7. turn # begin - 3 /\ turn # begin
  <2>1. At(begin - 3).name = "sendlut" /\ At(begin).name = "sendlut"
    BY <1>1, Script DEF HostInv
  <2> QED
    BY <1>3, <1>5, <2>1
<1>8. TableInv' /\ SourceInv'
  BY <1>1, <1>2, <1>3, <1>4, <1>5, <1>7 DEF TableInv, SourceInv
<1>9. LiveBit \in Planes
  BY DEF LiveBit, Planes
<1>10. CASE list.name \in {"danvds", "dvds", "palette"}
  <2>1. UNCHANGED <<cells, age, loaded, seed>>
    BY <1>1, <1>2, <1>3, <1>5, <1>10 DEF SourceInv
  <2>2. Uniform' = Uniform /\ Around' = Around /\ Alive' = Alive
    BY <2>1 DEF Uniform, Around, Alive
  <2>3. turn # begin - 1 /\ turn # begin + 2
    BY <1>6, <1>10
  <2>4. CellInv'
    BY <1>1, <1>3, <1>4, <1>5, <1>6, <1>7, <2>1, <2>2, <2>3 DEF CellInv
  <2>5. AgeInv'
    BY <1>1, <1>3, <1>4, <1>5, <1>6, <2>1, <2>3 DEF AgeInv
  <2> QED
    BY <1>3, <1>8, <2>1, <2>2, <2>4, <2>5 DEF LifeInv
<1>11. CASE list.name = "run_scan"
  <2>1. turn \in {begin - 1, begin + 2} /\ siteSource = "lut" /\ loaded
    BY <1>1, <1>3, <1>4, <1>5, <1>6, <1>11 DEF SourceInv, CellInv
  <2>2. cells' = [s \in Sites |-> Lookup(tables[active], cells[s])]
        /\ age' = age + (IF tables[active] = "lifelut" THEN 1 ELSE 0)
    BY <1>2, <2>1
  <2>3. \A s \in Sites : cells'[s] \in {{}, Planes} /\ cells'[s] \in SUBSET Planes
    BY <2>2 DEF Lookup
  <2>4. Uniform'
    BY <2>3 DEF Uniform
  <2>5. cells' \in [Sites -> SUBSET Planes]
    BY <2>2, <2>3
  <2>6. CellInv'
    BY <1>1, <1>2, <1>3, <1>4, <1>5, <2>1, <2>4, <2>5 DEF CellInv
  <2>7. Alive = {s \in Sites : LiveBit \in cells[s]} /\ Alive' = {s \in Sites : LiveBit \in cells'[s]}
    BY <1>2, <2>1 DEF Alive
  <2>8. CASE turn = begin - 1
    <3>1. tables[active] = "proplut"
      BY <1>1, <1>4, <2>8 DEF TableInv
    <3>2. \A s \in Sites : LiveBit \in cells'[s] <=> LiveBit \in cells[s]
      BY <1>9, <2>2, <3>1 DEF Lookup
    <3>3. age' = age
      BY <1>1, <1>4, <2>2, <2>8, <3>1 DEF AgeInv, HostInv, round
    <3>4. AgeInv'
      BY <1>1, <1>3, <1>4, <2>8, <3>3 DEF AgeInv
    <3> QED
      BY <1>3, <1>8, <2>6, <2>7, <3>2, <3>3, <3>4 DEF LifeInv
  <2>9. CASE turn = begin + 2
    <3>1. tables[active] = "lifelut" /\ Around
      BY <1>1, <1>3, <1>4, <2>9 DEF TableInv, CellInv
    <3>2. age = round /\ age' = round + 1 /\ round < Generations
      <4>1. age = round
        <5>1. round \in Int
          BY <1>1 DEF HostInv, round
        <5> QED
          BY <1>1, <1>3, <2>9, <5>1 DEF AgeInv
      <4>2. round < Generations
        BY <1>1, <1>4, <2>9, LifeAssumption DEF round, turn, HostInv
      <4> QED
        BY <2>2, <3>1, <4>1, <4>2
    <3>3. AgeInv'
      BY <1>3, <1>4, <1>5, <2>9, <3>2 DEF AgeInv
    <3>4. ASSUME NEW s \in Sites
          PROVE  s \in Alive' <=> (Rule!LiveAround(Alive, s) = 3 \/ (Rule!LiveAround(Alive, s) = 2 /\ s \in Alive))
      <4>1. \A p \in 8 .. 15 : p \in cells[s] <=> From(s, KickOf[p]) \in Alive
        <5> SUFFICES ASSUME NEW p \in 8 .. 15 PROVE p \in cells[s] <=> From(s, KickOf[p]) \in Alive
          OBVIOUS
        <5>1. From(s, KickOf[p]) \in Sites
          BY Comes
        <5>2. p \in cells[s] <=> LiveBit \in cells[From(s, KickOf[p])]
          BY <3>1 DEF Around
        <5> QED
          BY <2>7, <5>1, <5>2
      <4>2. cells[s] \in SUBSET Planes
        BY <1>1 DEF CellInv
      <4>3. countbits(cells[s]) = Rule!LiveAround(Alive, s)
        BY <4>1, <4>2, CountsAround
      <4>4. s \in Alive' <=> LiveBit \in Lookup("lifelut", cells[s])
        BY <2>2, <2>7, <3>1
      <4>5. LiveBit \in Lookup("lifelut", cells[s]) <=>
              countbits(cells[s]) = 3 \/ (countbits(cells[s]) = 2 /\ LiveBit \in cells[s])
        BY <1>9 DEF Lookup
      <4> QED
        BY <2>7, <4>3, <4>4, <4>5
    <3>5. Alive' = Rule!NextGeneration(Alive)
      <4>1. Rule!Sites = Sites
        BY DEF Rule!Sites, Sites
      <4>2. Alive' \subseteq Sites
        BY <2>7
      <4> HIDE DEF Alive
      <4> QED
        BY <3>4, <4>1, <4>2 DEF Rule!NextGeneration
    <3>6. Rule!Tick
      BY <3>2, <3>5 DEF Rule!Tick
    <3> QED
      BY <1>3, <1>8, <2>6, <3>3, <3>6 DEF LifeInv
  <2> QED
    BY <2>1, <2>8, <2>9
<1> QED
  BY <1>5, <1>10, <1>11

(* Every step preserves the invariant and is a generation or none.         *)
LEMMA LifeStep ==
  ASSUME LifeInv, [Next]_vars
  PROVE  LifeInv' /\ (Rule!Tick \/ (Alive' = Alive /\ age' = age))
<1>1. CASE Host
  BY <1>1, HostStep DEF Alive
<1>2. CASE TakeList
  BY <1>2, TakeStep DEF Alive
<1>3. CASE Skip
  BY <1>3, SkipStep DEF Alive
<1>4. CASE LoadTable \/ SwitchTables
  BY <1>4, TableStep DEF Alive
<1>5. CASE SelectSource
  BY <1>5, SourceStep DEF Alive
<1>6. CASE LoadCells
  BY <1>6, LoadStep
<1>7. CASE Kick
  BY <1>7, KickStep
<1>8. CASE Scan
  BY <1>8, ScanStep
<1>9. CASE UNCHANGED vars
  <2> USE <1>9 DEF vars, host, interface, machine
  <2>1. turn' = turn /\ round' = round /\ begin' = begin /\ end' = end /\ (\A n : At(n)' = At(n))
    BY DEF turn, round, begin, end, At
  <2>2. HostInv' /\ QueueInv' /\ PointerInv'
    BY <2>1 DEF LifeInv, HostInv, QueueInv, PointerInv
  <2>3. TableInv' /\ SourceInv' /\ AgeInv'
    BY <2>1 DEF LifeInv, TableInv, SourceInv, AgeInv
  <2>4. CellInv'
    BY <2>1 DEF LifeInv, CellInv, Uniform, Around
  <2>5. Alive' = Alive
    BY DEF Alive
  <2> QED
    BY <2>2, <2>3, <2>4, <2>5 DEF LifeInv
<1> QED
  BY <1>1, <1>2, <1>3, <1>4, <1>5, <1>6, <1>7, <1>8, <1>9 DEF Next, Interface

(* The invariant of the examples.                                          *)
THEOREM LifeInvariant == Spec => []LifeInv
<1>1. Init => LifeInv
  BY InitLife
<1>2. LifeInv /\ [Next]_vars => LifeInv'
  BY LifeStep
<1> QED
  BY <1>1, <1>2, PTL DEF Spec

(* Whenever the planes are kicked, the neighbour planes are copies of the  *)
(* live bit (lifekick), on every torus, whatever the host patches and      *)
(* schedules meanwhile.                                                    *)
THEOREM KicksAreCopies == Spec => []KicksCopies
<1>1. LifeInv => KicksCopies
  <2> SUFFICES ASSUME LifeInv, Executing("KR") PROVE Uniform
    BY DEF KicksCopies, Uniform, Planes, LiveBit
  <2>1. HostInv /\ QueueInv /\ CellInv
    BY DEF LifeInv
  <2>2. begin \in {9, 11} /\ end \in {begin + 2, begin + 3}
    BY <2>1, Script DEF HostInv
  <2>3. list # None /\ list = At(turn) /\ turn \in 1 .. end /\ at \in 1 .. Len(Instructions(list.name))
        /\ Instructions(list.name)[at] = "KR"
    BY <2>1, <2>2 DEF QueueInv, Executing, turn, HostInv
  <2>4. Fits(turn)
    BY <2>1, <2>3, Script DEF HostInv
  <2> DEFINE name == list.name
  <2>5. name \in Names
    BY <2>3, <2>4 DEF Fits
  <2>6. at \in 1 .. Len(Instructions(name)) /\ Instructions(name)[at] = "KR"
    BY <2>3
  <2> HIDE DEF name
  <2>7. Placed(name, at, "KR")
    BY <2>5, <2>6, Places
  <2>8. name = "lifekick"
    BY <2>7, PlaceOf
  <2>9. turn = begin + 1
    BY <2>3, <2>4, <2>8 DEF Fits, name
  <2> QED
    BY <2>1, <2>2, <2>3, <2>9 DEF CellInv
<1> QED
  BY <1>1, LifeInvariant, PTL

(* The examples run the game of life: every step is one generation of the  *)
(* live sites or leaves them as they are, and never more generations than  *)
(* were asked for (main of life-no-forth.c, life-c.exp), for every size of *)
(* the torus and every pattern.                                            *)
THEOREM LifeIsPlayed == Spec => Rule!SafeSpec
<1>1. Init => Rule!Init
  BY DEF Init, Rule!Init, Alive
<1>2. LifeInv /\ [Next]_vars => [Rule!Tick]_(Rule!lifeVars)
  BY LifeStep DEF Rule!lifeVars
<1> QED
  BY <1>1, <1>2, LifeInvariant, PTL DEF Spec, Rule!SafeSpec
=============================================================================
