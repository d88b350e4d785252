-------------------------- MODULE InterruptsProofs --------------------------
(***************************************************************************)
(* What the polled interrupts keep for any number of modules, lists and    *)
(* raised interrupts, although every |= and &= on the status register can  *)
(* be overtaken by another one.                                            *)
(***************************************************************************)
EXTENDS Interrupts, TLAPS

(* From the moment the host reads the register until it acts on what it    *)
(* read, there is something to act on.                                     *)
PollInv ==
  /\ pc = "read" => status # {}
  /\ pc \in {"clear", "resume", "clearNLP", "handle"} => lastInts # {}

Excepting(ints) == ints \cap Exceptions # {}

(* The host has read an exception that it has not reported yet ...         *)
Taken == pc \in {"resume", "clearNLP", "handle"} /\ Excepting(lastInts)

(* ... and one is in the register, or will be once the host has stored the *)
(* register it loaded, or was when it was read and is not cleared yet.     *)
Waiting ==
  \/ Excepting(status)
  \/ pc = "announce" /\ Excepting(loaded)
  \/ pc = "clear" /\ Excepting(lastInts)

(* Each of them has been stored, and none of them twice.                   *)
ReportInv ==
  /\ reported <= stored
  /\ Taken \/ Waiting => reported < stored
  /\ Taken /\ Waiting => reported + 1 < stored

IInv == TypeOK /\ PollInv /\ ReportInv
-----------------------------------------------------------------------------
(* The parts of TypeOK, by the registers, the modules, the host and its    *)
(* flags.                                                                  *)
Points == {"idle", "run", "announce", "read", "clear", "resume", "clearNLP", "handle",
           "scheduled", "aborted"}

RegistersOK == status \subseteq Bits /\ exc \in BOOLEAN /\ rer \subseteq Exceptions

Raising == [stage : {"none", "store", "test", "exc"}, type : Exceptions, loaded : SUBSET Bits]

HostOK ==
  /\ loaded \subseteq Bits /\ lastInts \subseteq Bits
  /\ pc \in Points
  /\ pc \in {"resume", "clearNLP"} => lastInts \cap Exceptions # {}

FlagsOK ==
  /\ stopping \in BOOLEAN
  /\ allowed \in [Exceptions -> BOOLEAN]
  /\ seen \in [Exceptions -> BOOLEAN]

CountersOK == lists \in Nat /\ raises \in Nat /\ stored \in Nat /\ reported \in Nat

LEMMA TypeParts ==
  TypeOK <=> RegistersOK /\ raise \in [Modules -> Raising] /\ HostOK /\ FlagsOK /\ CountersOK
BY DEF TypeOK, RegistersOK, Raising, HostOK, Points, FlagsOK, CountersOK

LEMMA TypeInit == Init => TypeOK
<1>. SUFFICES ASSUME Init PROVE TypeOK
  OBVIOUS
<1>1. RegistersOK
  BY DEF Init, RegistersOK
<1>2. raise \in [Modules -> Raising]
  BY DEF Init, Quiet, Raising, Exceptions
<1>3. HostOK
  BY DEF Init, HostOK, Points
<1>4. FlagsOK
  BY DEF Init, FlagsOK
<1>5. CountersOK
  BY DEF Init, CountersOK
<1>. QED
  BY <1>1, <1>2, <1>3, <1>4, <1>5, TypeParts
-----------------------------------------------------------------------------
(* A module's steps leave the host alone, and store nothing but a status   *)
(* that is not empty.                                                      *)
LEMMA ModuleKeepsHost ==
  ASSUME NEW m \in Modules, ModuleStep(m)
  PROVE  /\ UNCHANGED <<pc, loaded, lastInts, stopping, allowed, seen, lists, reported>>
         /\ status' = status \/ status' # {}
BY DEF ModuleStep, Generate, StoreISR, TestRER, RaiseException, registers, flags, history

LEMMA ModuleTypeStep ==
  ASSUME TypeOK, NEW m \in Modules, ModuleStep(m)
  PROVE  TypeOK'
<1>. USE DEF registers, flags, history
<1>1. RegistersOK /\ raise \in [Modules -> Raising] /\ HostOK /\ FlagsOK /\ CountersOK
  BY TypeParts
<1>2. raise[m] \in Raising
  BY <1>1
<1>3. HostOK' /\ FlagsOK'
  BY <1>1, ModuleKeepsHost DEF HostOK, FlagsOK
<1>4. RegistersOK'
  <2>1. CASE StoreISR(m)
    BY <1>1, <1>2, <2>1 DEF StoreISR, RegistersOK, Raising, Bits
  <2>2. CASE RaiseException(m)
    BY <1>1, <2>2 DEF RaiseException, RegistersOK
  <2>3. CASE TestRER(m) \/ \E type \in Exceptions : Generate(m, type)
    BY <1>1, <2>3 DEF TestRER, Generate, RegistersOK
  <2>. QED
    BY <2>1, <2>2, <2>3 DEF ModuleStep
<1>5. raise' \in [Modules -> Raising]
  <2>1. Quiet \in Raising
    BY DEF Quiet, Raising, Exceptions
  <2>2. CASE StoreISR(m)
    <3>1. [raise[m] EXCEPT !.stage = "test"] \in Raising
      BY <1>2 DEF Raising
    <3>. QED
      BY <1>1, <2>2, <3>1 DEF StoreISR
  <2>3. CASE RaiseException(m)
    BY <1>1, <2>1, <2>3 DEF RaiseException
  <2>4. CASE TestRER(m)
    <3>1. [raise[m] EXCEPT !.stage = "exc"] \in Raising
      BY <1>2 DEF Raising
    <3>. QED
      BY <1>1, <2>1, <2>4, <3>1 DEF TestRER
  <2>5. ASSUME NEW type \in Exceptions, Generate(m, type) PROVE raise' \in [Modules -> Raising]
    <3>1. [stage |-> "store", type |-> type, loaded |-> status] \in Raising
      BY <1>1 DEF RegistersOK, Raising
    <3>. QED
      BY <1>1, <2>5, <3>1 DEF Generate
  <2>. QED
    BY <2>2, <2>3, <2>4, <2>5 DEF ModuleStep
<1>6. CountersOK'
  BY <1>1 DEF CountersOK, ModuleStep, Generate, StoreISR, TestRER, RaiseException
<1>. QED
  BY <1>3, <1>4, <1>5, <1>6 DEF TypeOK, RegistersOK, Raising, HostOK, Points, FlagsOK, CountersOK

(* The host's steps, and the caller's, leave the modules alone.            *)
CallerStep == (\E type \in Exceptions : Allow(type)) \/ Schedule

LEMMA HostTypeStep ==
  ASSUME TypeOK, HostStep \/ CallerStep
  PROVE  TypeOK'
<1>. USE DEF HostStep, CallerStep, Allow, Schedule, LoadISR, Announce, ReadISR, ClearISR,
       WriteRER, ClearException, HandleInts, Return, registers, flags, history
<1>1. RegistersOK /\ raise \in [Modules -> Raising] /\ HostOK /\ FlagsOK /\ CountersOK
  BY TypeParts
<1>2. raise' \in [Modules -> Raising] /\ CountersOK'
  BY <1>1 DEF CountersOK
<1>3. RegistersOK'
  BY <1>1 DEF RegistersOK, HostOK, Bits, Exceptions
<1>4. HostOK'
  BY <1>1 DEF RegistersOK, HostOK, Points, Forbidden
<1>5. FlagsOK'
  <2>1. CASE HandleInts
    <3>1. seen' = [type \in Exceptions |-> type \in lastInts]
      BY <2>1
    <3>2. UNCHANGED <<stopping, allowed>>
      BY <2>1
    <3>3. [type \in Exceptions |-> type \in lastInts] \in [Exceptions -> BOOLEAN]
      BY SMT
    <3>. QED
      BY <1>1, <3>1, <3>2, <3>3 DEF FlagsOK
  <2>2. CASE CallerStep
    BY <1>1, <2>2 DEF FlagsOK
  <2>3. CASE LoadISR \/ Announce \/ ReadISR \/ ClearISR \/ WriteRER \/ ClearException
    BY <1>1, <2>3 DEF FlagsOK
  <2>4. CASE Return
    BY <1>1, <2>4 DEF FlagsOK
  <2>. QED
    BY <2>1, <2>2, <2>3, <2>4
<1>. QED
  BY <1>2, <1>3, <1>4, <1>5 DEF TypeOK, RegistersOK, Raising, HostOK, Points, FlagsOK, CountersOK

LEMMA TypeStep == TypeOK /\ [Next]_vars => TypeOK'
<1>. SUFFICES ASSUME TypeOK, [Next]_vars PROVE TypeOK'
  OBVIOUS
<1>1. CASE Stop \/ UNCHANGED vars
  BY <1>1 DEF Stop, vars, registers, flags, history, TypeOK
<1>. QED
  BY <1>1, ModuleTypeStep, HostTypeStep DEF Next, CallerStep

(* Every variable keeps its type, whatever the modules raise and however   *)
(* Read_ISR, Write_RER and Generate_Interrupt interleave.                  *)
THEOREM TypeCorrect == Spec => []TypeOK
BY TypeInit, TypeStep, PTL DEF Spec
-----------------------------------------------------------------------------
LEMMA PollStep == PollInv /\ [Next]_vars => PollInv'
<1>. SUFFICES ASSUME PollInv, [Next]_vars PROVE PollInv'
  OBVIOUS
<1>. USE DEF PollInv, registers, flags, history
<1>1. ASSUME NEW m \in Modules, ModuleStep(m) PROVE PollInv'
  BY <1>1, ModuleKeepsHost
<1>2. CASE Announce
  BY <1>2 DEF Announce
<1>3. CASE ReadISR \/ ClearISR
  BY <1>3 DEF ReadISR, ClearISR
<1>4. CASE WriteRER \/ ClearException
  BY <1>4 DEF WriteRER, ClearException
<1>5. CASE HandleInts
  BY <1>5 DEF HandleInts, Forbidden
<1>6. CASE LoadISR \/ Return \/ CallerStep
  BY <1>6 DEF LoadISR, Return, CallerStep, Allow, Schedule
<1>7. CASE Stop \/ UNCHANGED vars
  BY <1>7 DEF Stop, vars
<1>. QED
  BY <1>1, <1>2, <1>3, <1>4, <1>5, <1>6, <1>7 DEF Next, HostStep, CallerStep

LEMMA ReportStep == TypeOK /\ ReportInv /\ [Next]_vars => ReportInv'
<1>. SUFFICES ASSUME TypeOK, ReportInv, [Next]_vars PROVE ReportInv'
  OBVIOUS
<1>. USE DEF registers, flags, history
<1>1. stored \in Nat /\ reported \in Nat
  BY DEF TypeOK
<1>2. ASSUME NEW m \in Modules, StoreISR(m) PROVE ReportInv'
  <2>1. (Taken' <=> Taken) /\ stored' = stored + 1 /\ reported' = reported
    BY <1>2 DEF StoreISR, Taken
  <2>. QED
    BY <1>1, <2>1 DEF ReportInv
<1>3. CASE ClearISR
  <2>1. /\ pc = "clear" /\ pc' \in {"resume", "handle"} /\ status' = {}
        /\ UNCHANGED <<lastInts, stored, reported>>
    BY <1>3 DEF ClearISR
  <2>2. (Taken' => Waiting) /\ ~ Waiting'
    BY <2>1 DEF Taken, Waiting, Excepting
  <2>. QED
    BY <1>1, <2>1, <2>2 DEF ReportInv
<1>4. CASE HandleInts
  <2>1. /\ pc = "handle" /\ pc' \in {"read", "scheduled", "aborted"}
        /\ reported' = (IF Excepting(lastInts) THEN reported + 1 ELSE reported)
        /\ UNCHANGED <<status, stored>>
    BY <1>4 DEF HandleInts, Excepting
  <2>2. reported' = (IF Taken THEN reported + 1 ELSE reported) /\ ~ Taken' /\ (Waiting' => Waiting)
    BY <2>1 DEF Taken, Waiting
  <2>. QED
    BY <1>1, <2>1, <2>2 DEF ReportInv
<1>5. ASSUME \/ LoadISR \/ Announce \/ ReadISR \/ WriteRER \/ ClearException
             \/ Return \/ CallerStep \/ Stop \/ UNCHANGED vars
             \/ \E m \in Modules : \/ \E type \in Exceptions : Generate(m, type)
                                  \/ TestRER(m) \/ RaiseException(m)
      PROVE  ReportInv'
  <2>1. (Taken' => Taken) /\ UNCHANGED <<stored, reported>>
    BY <1>5 DEF LoadISR, Announce, ReadISR, WriteRER, ClearException, Return, CallerStep, Allow,
                Schedule, Stop, vars, Generate, TestRER, RaiseException, Taken
  <2>2. Waiting' => Waiting
    <3>1. CASE LoadISR \/ Announce \/ ReadISR
      BY <3>1 DEF LoadISR, Announce, ReadISR, Waiting, Excepting, Exceptions
    <3>2. CASE WriteRER \/ ClearException \/ Return \/ CallerStep \/ Stop \/ UNCHANGED vars
      BY <3>2 DEF WriteRER, ClearException, Return, CallerStep, Allow, Schedule, Stop, vars,
                  Waiting
    <3>3. CASE \E m \in Modules : \/ \E type \in Exceptions : Generate(m, type)
                                  \/ TestRER(m) \/ RaiseException(m)
      BY <3>3 DEF Generate, TestRER, RaiseException, Waiting
    <3>. QED
      BY <1>5, <3>1, <3>2, <3>3
  <2>. QED
    BY <1>1, <2>1, <2>2 DEF ReportInv
<1>. QED
  BY <1>2, <1>3, <1>4, <1>5 DEF Next, HostStep, CallerStep, ModuleStep

LEMMA InductiveInv == Spec => []IInv
<1>1. Init => IInv
  BY TypeInit DEF Init, IInv, PollInv, ReportInv, Taken, Waiting, Excepting
<1>2. IInv /\ [Next]_vars => IInv'
  BY TypeStep, PollStep, ReportStep DEF IInv
<1>. QED
  BY <1>1, <1>2, PTL DEF Spec

(* The poll after a list always finds a bit set, so wait_for_nlp never     *)
(* polls twice: a module that overwrites NEWLIST leaves its own interrupt. *)
THEOREM PollFindsReason == Spec => []ListNoticed
<1>1. IInv => ListNoticed
  BY DEF IInv, PollInv, ListNoticed
<1>. QED
  BY <1>1, InductiveInv, PTL

(* However the modules and the host overtake each other's |= and &= on the *)
(* register, no more polls find an exception than interrupts were stored   *)
(* (Generate_Interrupt, Read_ISR).                                         *)
THEOREM ReportsOnce == Spec => []ReportedOnce
<1>1. IInv => ReportedOnce
  BY DEF IInv, ReportInv, ReportedOnce
<1>. QED
  BY <1>1, InductiveInv, PTL
=============================================================================
