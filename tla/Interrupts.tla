----------------------------- MODULE Interrupts -----------------------------
(***************************************************************************)
(* The interrupt status register between the host and the interpreter      *)
(* modules: the host announces a list in it and polls it (wait_for_nlp,    *)
(* handle_ints), the modules raise CAM and timeout interrupts in it        *)
(* (Generate_Interrupt), and Cam8Experiment decides with its allowed flags *)
(* whether to go on, and remembers in its seen flags what it saw.          *)
(*                                                                         *)
(* The registers are plain integers of the shared Cam8SimInstrQueue: an    *)
(* |= or &= is a read and a later write.  Only status bits are modelled:   *)
(* the enable bits of the ISR do not change here (handle_ints fakes them   *)
(* all on), nothing raises an SBus or a soft interrupt, and the one bit of *)
(* the NLP that changes is the exception status.                           *)
(***************************************************************************)
EXTENDS Naturals, FiniteSets

CONSTANTS
  Modules,    (* the module tasks                                          *)
  MaxLists,   (* bound: the lists scheduled, the stop lists included       *)
  MaxRaises   (* bound: the interrupts generated                           *)

ASSUME InterruptsAssumption ==
  /\ MaxLists \in Nat
  /\ MaxRaises \in Nat

Exceptions == {"CAM", "TIMEOUT"}
Bits == Exceptions \cup {"NEWLIST"}

VARIABLES
  status,     (* the interrupt status bits of the ISR                      *)
  exc,        (* CAM_EXCEPTION_STATUS in the NLP                           *)
  rer,        (* the exceptions the RER enables                            *)
  raise,      (* what each module is in the middle of raising              *)
  pc,         (* where the host is                                         *)
  loaded,     (* what the host has read of the ISR for its |= or &=        *)
  lastInts,   (* last_ints                                                 *)
  stopping,   (* whether this list is the one of stop()                    *)
  allowed,    (* camint_is_allowed and timeout_is_allowed                  *)
  seen,       (* camint_was_seen and timeout_was_seen                      *)
  lists, raises,  (* the counters of the two bounds                        *)
  stored,     (* history: the interrupts stored in the ISR                 *)
  reported    (* history: the polls that found an exception                *)

registers == <<status, exc, rer>>
flags == <<allowed, seen>>
history == <<stored, reported>>
vars == <<registers, raise, pc, loaded, lastInts, stopping, flags, lists, raises, history>>

Quiet == [stage |-> "none", type |-> "CAM", loaded |-> {}]

(* After ResetInterface, with every exception enabled.                     *)
Init ==
  /\ status = {}
  /\ exc = FALSE
  /\ rer = Exceptions
  /\ raise = [m \in Modules |-> Quiet]
  /\ pc = "idle"
  /\ loaded = {}
  /\ lastInts = {}
  /\ stopping = FALSE
  /\ allowed = [type \in Exceptions |-> FALSE]
  /\ seen = [type \in Exceptions |-> FALSE]
  /\ lists = 0
  /\ raises = 0
  /\ stored = 0
  /\ reported = 0

(* What handle_ints does not put up with.                                  *)
Forbidden(ints) == {type \in ints \cap Exceptions : ~allowed[type]}
-----------------------------------------------------------------------------
(* Faulty variants, each a plausible slip in the definition it stands for. *)
AnnounceUnlessException ==
  /\ pc = "announce"
  /\ status' = IF exc THEN status ELSE loaded \cup {"NEWLIST"}
  /\ pc' = "read"
  /\ UNCHANGED <<exc, rer, raise, loaded, lastInts, stopping, flags, lists, raises, history>>

ClearISRButExceptions ==
  /\ pc = "clear"
  /\ status' = status \cap Exceptions
  /\ pc' = IF lastInts \cap Exceptions # {} THEN "resume" ELSE "handle"
  /\ UNCHANGED <<exc, rer, raise, loaded, lastInts, stopping, flags, lists, raises, history>>

ClearISRAlwaysResuming ==
  /\ pc = "clear"
  /\ status' = {}
  /\ pc' = "resume"
  /\ UNCHANGED <<exc, rer, raise, loaded, lastInts, stopping, flags, lists, raises, history>>
-----------------------------------------------------------------------------
(* allow_camint, allow_timeout.                                            *)
Allow(type) ==
  /\ pc = "idle"
  /\ allowed' = [allowed EXCEPT ![type] = TRUE]
  /\ seen' = [seen EXCEPT ![type] = FALSE]
  /\ UNCHANGED <<registers, raise, pc, loaded, lastInts, stopping, lists, raises, history>>

(* schedule_list, from step() or from stop(): instructions are dispatched  *)
(* and the modules run.                                                    *)
Schedule ==
  /\ pc = "idle" /\ lists < MaxLists
  /\ stopping' \in BOOLEAN
  /\ lists' = lists + 1
  /\ pc' = "run"
  /\ UNCHANGED <<registers, raise, loaded, lastInts, flags, raises, history>>

(* iq->ISR |= CAM_NEWLIST_INT_STATUS                                       *)
LoadISR ==
  /\ pc = "run"
  /\ loaded' = status
  /\ pc' = "announce"
  /\ UNCHANGED <<registers, raise, lastInts, stopping, flags, lists, raises, history>>

Announce ==
  /\ pc = "announce"
  /\ status' = loaded \cup {"NEWLIST"}
  /\ pc' = "read"
  /\ UNCHANGED <<exc, rer, raise, loaded, lastInts, stopping, flags, lists, raises, history>>

(* Read_ISR: the value returned is read first ...                          *)
ReadISR ==
  /\ pc = "read"
  /\ lastInts' = status
  /\ pc' = "clear"
  /\ UNCHANGED <<registers, raise, loaded, stopping, flags, lists, raises, history>>

(* ... and iq->ISR &= 0x1F00 clears every status bit after it, whatever it *)
(* loads: a bit stored in between is lost, and one write says it all.      *)
ClearISR ==
  /\ pc = "clear"
  /\ status' = {}
  /\ pc' = IF lastInts \cap Exceptions # {} THEN "resume" ELSE "handle"
  /\ UNCHANGED <<exc, rer, raise, loaded, lastInts, stopping, flags, lists, raises, history>>

(* clear_exception: Write_RER(0x4000) keeps one enable only.               *)
WriteRER ==
  /\ pc = "resume"
  /\ rer' = {"TIMEOUT"}
  /\ pc' = "clearNLP"
  /\ UNCHANGED <<status, exc, raise, loaded, lastInts, stopping, flags, lists, raises, history>>

ClearException ==
  /\ pc = "clearNLP"
  /\ exc' = FALSE
  /\ pc' = "handle"
  /\ UNCHANGED <<status, rer, raise, loaded, lastInts, stopping, flags, lists, raises, history>>

(* The rest of handle_ints: record, abort, and whether to poll again.      *)
HandleInts ==
  /\ pc = "handle"
  /\ seen' = [type \in Exceptions |-> type \in lastInts]
  /\ reported' = IF lastInts \cap Exceptions # {} THEN reported + 1 ELSE reported
  /\ pc' = CASE Forbidden(lastInts) # {} -> "aborted"
             [] Forbidden(lastInts) = {} /\ lastInts = {} -> "read"
             [] OTHER -> "scheduled"
  /\ UNCHANGED <<registers, raise, loaded, lastInts, stopping, allowed, lists, raises, stored>>

(* The caller goes on; stop() then allows nothing any more.                *)
Return ==
  /\ pc = "scheduled"
  /\ allowed' = IF stopping THEN [type \in Exceptions |-> FALSE] ELSE allowed
  /\ pc' = "idle"
  /\ UNCHANGED <<registers, raise, loaded, lastInts, stopping, seen, lists, raises, history>>
-----------------------------------------------------------------------------
(* Generate_Interrupt in a module that is executing some instruction.      *)
Generate(m, type) ==
  /\ lists > 0 /\ raises < MaxRaises
  /\ raise[m].stage = "none"
  /\ raise' = [raise EXCEPT ![m] = [stage |-> "store", type |-> type, loaded |-> status]]
  /\ raises' = raises + 1
  /\ UNCHANGED <<registers, pc, loaded, lastInts, stopping, flags, lists, history>>

StoreISR(m) ==
  /\ raise[m].stage = "store"
  /\ status' = raise[m].loaded \cup {raise[m].type}
  /\ raise' = [raise EXCEPT ![m].stage = "test"]
  /\ stored' = stored + 1
  /\ UNCHANGED <<exc, rer, pc, loaded, lastInts, stopping, flags, lists, raises, reported>>

(* Whether the RER enables an exception for this type ...                  *)
TestRER(m) ==
  /\ raise[m].stage = "test"
  /\ raise' = [raise EXCEPT ![m] = IF @.type \in rer THEN [@ EXCEPT !.stage = "exc"] ELSE Quiet]
  /\ UNCHANGED <<registers, pc, loaded, lastInts, stopping, flags, lists, raises, history>>

(* ... and the exception status, which is set however late that is.        *)
RaiseException(m) ==
  /\ raise[m].stage = "exc"
  /\ exc' = TRUE
  /\ raise' = [raise EXCEPT ![m] = Quiet]
  /\ UNCHANGED <<status, rer, pc, loaded, lastInts, stopping, flags, lists, raises, history>>

HostStep == LoadISR \/ Announce \/ ReadISR \/ ClearISR \/ WriteRER \/ ClearException
            \/ HandleInts \/ Return

ModuleStep(m) ==
  /\ pc # "aborted"
  /\ (\E type \in Exceptions : Generate(m, type)) \/ StoreISR(m) \/ TestRER(m) \/ RaiseException(m)

Stop ==
  /\ pc = "aborted" \/ (pc = "idle" /\ lists = MaxLists)
  /\ UNCHANGED vars

Next ==
  \/ \E type \in Exceptions : Allow(type)
  \/ Schedule
  \/ HostStep
  \/ \E m \in Modules : ModuleStep(m)
  \/ Stop

Spec == Init /\ [][Next]_vars

(* The host thread runs; nothing is assumed of the modules.                *)
FairSpec == Spec /\ WF_vars(HostStep)
-----------------------------------------------------------------------------
(* Every variable keeps its type, and exceptions are cleared only after a  *)
(* poll that saw one.                                                      *)
TypeOK ==
  /\ status \subseteq Bits /\ loaded \subseteq Bits /\ lastInts \subseteq Bits
  /\ exc \in BOOLEAN
  /\ rer \subseteq Exceptions
  /\ raise \in [Modules -> [stage : {"none", "store", "test", "exc"}, type : Exceptions, loaded : SUBSET Bits]]
  /\ pc \in {"idle", "run", "announce", "read", "clear", "resume", "clearNLP", "handle",
             "scheduled", "aborted"}
  /\ pc \in {"resume", "clearNLP"} => lastInts \cap Exceptions # {}
  /\ stopping \in BOOLEAN
  /\ allowed \in [Exceptions -> BOOLEAN]
  /\ seen \in [Exceptions -> BOOLEAN]
  /\ lists \in Nat /\ raises \in Nat
  /\ stored \in Nat /\ reported \in Nat

(* The poll after a list always finds a reason to return: the NEWLIST bit  *)
(* may be overwritten by a module that read the register before it was set,*)
(* but then that module's own interrupt is there instead.                  *)
ListNoticed == pc = "read" => status # {}

(* An interrupt is reported, or ends the program, at most once: although a *)
(* module may store back a bit the host has cleared, and the host may lose *)
(* bits with its own write, there are never more polls that find an        *)
(* exception than interrupts the modules have stored.  (Which types a poll *)
(* finds is another matter: a bit that came back is seen again beside the  *)
(* one it came with.)                                                      *)
ReportedOnce == reported <= stored

(* schedule_list returns or ends the program: wait_for_nlp does not spin.  *)
ScheduleReturns == (pc = "run") ~> (pc \in {"idle", "aborted"})
=============================================================================
