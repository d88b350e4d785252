------------------------------ MODULE Steplist ------------------------------
(***************************************************************************)
(* Step lists on the host: Cam8::link copies an instruction into a chunk   *)
(* of its own and links it, Cam8Experiment::schedule_list flags the last   *)
(* one and Cam8SimInterface::ExecuteSteplist walks the list up to a flag,  *)
(* Cam8::free_steplist walks it again and frees it, and leaves the list's  *)
(* head and tail where they were.                                          *)
(*                                                                         *)
(* The host is one thread, but its loops are broken into their iterations: *)
(* what matters is which chunk each iteration touches.  A step that reads, *)
(* writes or frees a chunk that is not allocated ends in pc = "wild": the  *)
(* program's behaviour is undefined from there.  A chunk that was freed    *)
(* and handed out again is touched without a complaint, as in the build:   *)
(* that is how a list used after free_steplist reaches into another one.   *)
(***************************************************************************)
EXTENDS Integers, Sequences, SequencesExt

CONSTANTS
  Addrs,      (* bound: the chunks Alloc_Instr can hand out                *)
  NULL,       (* the null pointer                                          *)
  Steplists   (* the Cam8Steplist objects                                  *)

ASSUME SteplistAssumption == NULL \notin Addrs

VARIABLES
  live,         (* the chunks allocated and not freed                      *)
  next,         (* next_ptr of each chunk                                  *)
  flagged,      (* HostWait and HostJump, always set together              *)
  head, tail,   (* the fields of each Cam8Steplist                         *)
  cursor,       (* the cursor of the list being walked                     *)
  done,         (* bDone of ExecuteSteplist                                *)
  pc, job,      (* where the host is, and the list it works on             *)
  sound,        (* history: the lists never freed, none of whose chunks    *)
                (* was written or freed through another list               *)
  content,      (* history: the chunks linked to each sound list           *)
  lost,         (* history: the allocated chunks no sound list will free   *)
  issued        (* history: what ExecuteSteplist issued of a sound list    *)

heap == <<live, next, flagged>>
lists == <<head, tail>>
walk == <<cursor, done>>
history == <<sound, content, lost, issued>>
vars == <<heap, lists, walk, pc, job, history>>

Pointers == Addrs \cup {NULL}

Init ==
  /\ live = {}
  /\ next = [a \in Addrs |-> NULL]
  /\ flagged = [a \in Addrs |-> FALSE]
  /\ head = [l \in Steplists |-> NULL]
  /\ tail = [l \in Steplists |-> NULL]
  /\ cursor = NULL
  /\ done = FALSE
  /\ pc = "idle"
  /\ job \in Steplists
  /\ sound = Steplists
  /\ content = [l \in Steplists |-> <<>>]
  /\ lost = {}
  /\ issued = <<>>

(* The build goes on after a touch of memory it does not own; the model    *)
(* does not.                                                               *)
Wild(l) ==
  /\ pc' = "wild"
  /\ job' = l
  /\ UNCHANGED <<heap, lists, walk, history>>

(* The sound lists, other than l, that have the chunk c: list l touches c. *)
Touched(l, c) == {m \in sound \ {l} : c \in Range(content[m])}

Chunks(S) == UNION {Range(content[m]) : m \in S}
-----------------------------------------------------------------------------
(* Faulty variants, each a plausible slip in the definition it stands for. *)
RelinkWithoutTail(l, a) ==
  IF head[l] = NULL
    THEN [next EXCEPT ![a] = NULL]
    ELSE [next EXCEPT ![a] = NULL, ![head[l]] = a]

IssueTestingNext ==
  /\ pc = "loop" /\ ~done
  /\ IF cursor \in live
       THEN /\ issued' = IF job \in sound THEN Append(issued, cursor) ELSE issued
            /\ cursor' = next[cursor]
            /\ done' = (next[cursor] \in live /\ flagged[next[cursor]])
            /\ UNCHANGED <<heap, lists, pc, job, sound, content, lost>>
       ELSE Wild(job)

ScheduleWithoutFlags(l) ==
  /\ pc = "idle"
  /\ head[l] # NULL
  /\ cursor' = head[l]
  /\ done' \in BOOLEAN
  /\ job' = l
  /\ issued' = <<>>
  /\ pc' = "loop"
  /\ UNCHANGED <<heap, lists, sound, content, lost>>

(* The two of FreeInstr: the last instruction is not freed; the loop frees *)
(* the successor and never moves on.                                       *)
FreeAllButLast ==
  /\ pc = "free" /\ cursor # NULL
  /\ IF cursor \in live
       THEN LET freed == {cursor} \ {c \in Addrs : next[c] = NULL} IN
            /\ live' = live \ freed
            /\ next' = [c \in Addrs |-> IF c \in freed THEN NULL ELSE next[c]]
            /\ cursor' = next[cursor]
            /\ UNCHANGED <<flagged, lists, done, pc, job, history>>
       ELSE Wild(job)

FreeWithoutAdvance ==
  /\ pc = "free" /\ cursor # NULL
  /\ IF cursor \in live
       THEN /\ live' = live \ {next[cursor]}
            /\ UNCHANGED <<next, flagged, lists, walk, pc, job, history>>
       ELSE Wild(job)
-----------------------------------------------------------------------------
(* Cam8Steplist::link of the chunk a, whose copied next_ptr is null.       *)
Relink(l, a) ==
  IF head[l] = NULL
    THEN [next EXCEPT ![a] = NULL]
    ELSE [next EXCEPT ![a] = NULL, ![tail[l]] = a]

(* Faulty: the first instruction of a list does not become its tail.       *)
FinishWithoutTail(l, a, extra, more) ==
  /\ head[l] = NULL
  /\ job' = l
  /\ head' = [head EXCEPT ![l] = a]
  /\ live' = live \cup {a} \cup extra
  /\ pc' = IF more THEN "delay" ELSE "idle"
  /\ UNCHANGED <<next, flagged, tail, walk, history>>

(* Cam8::link into the chunk a, with the chunks extra allocated before it: *)
(* allocate, copy, append; more says that a delay is to follow.            *)
Finish(l, a, extra, more) ==
  IF head[l] = NULL \/ tail[l] \in live \cup {a} \cup extra
    THEN LET harmed == Touched(l, tail[l]) IN
         /\ job' = l
         /\ live' = live \cup {a} \cup extra
         /\ next' = Relink(l, a)
         /\ flagged' = [flagged EXCEPT ![a] = FALSE]
         /\ head' = IF head[l] = NULL THEN [head EXCEPT ![l] = a] ELSE head
         /\ tail' = [tail EXCEPT ![l] = a]
         /\ sound' = sound \ harmed
         /\ content' = [m \in Steplists |->
              IF m \in harmed THEN <<>>
              ELSE IF m = l /\ l \in sound THEN Append(content[m], a) ELSE content[m]]
         /\ lost' = lost \cup extra \cup Chunks(harmed) \cup (IF l \in sound THEN {} ELSE {a})
         /\ pc' = IF more THEN "delay" ELSE "idle"
         /\ UNCHANGED <<walk, issued>>
    ELSE Wild(l)

(* reg(sl, ...) and link(sl): the instruction is finished once.            *)
LinkOnce(l) ==
  /\ pc = "idle"
  /\ \E a \in Addrs \ live : \E more \in BOOLEAN : Finish(l, a, {}, more)

(* fname(sl, ...): fname(mc) finishes the instruction into a chunk, and    *)
(* link finishes that one again into the chunk it links; nobody keeps or   *)
(* frees the first.                                                        *)
LinkTwice(l) ==
  /\ pc = "idle"
  /\ \E a, b \in Addrs \ live : \E more \in BOOLEAN : a # b /\ Finish(l, a, {b}, more)

(* After an immediate write to the scan I/O register link calls delay(sl,  *)
(* ...) without END_ARGS.  What the words found after its arguments make   *)
(* of the instruction is linked, and may be such a write again.            *)
LinkDelay ==
  /\ pc = "delay"
  /\ \E a, b \in Addrs \ live : \E more \in BOOLEAN : a # b /\ Finish(job, a, {b}, more)

(* Or they are no operands: CaLibAbort, a loop that never gets past one, or*)
(* a store through a pointer that is none.                                 *)
DelayAborts ==
  /\ pc = "delay"
  /\ pc' = "aborted"
  /\ UNCHANGED <<heap, lists, walk, job, history>>

(* schedule_list: an empty list returns at once; otherwise the last        *)
(* instruction is flagged and ExecuteSteplist starts with an uninitialised *)
(* bDone.                                                                  *)
Schedule(l) ==
  /\ pc = "idle"
  /\ head[l] # NULL
  /\ IF tail[l] \in live
       THEN LET harmed == Touched(l, tail[l]) IN
            /\ flagged' = [flagged EXCEPT ![tail[l]] = TRUE]
            /\ cursor' = head[l]
            /\ done' \in BOOLEAN
            /\ job' = l
            /\ sound' = sound \ harmed
            /\ content' = [m \in Steplists |-> IF m \in harmed THEN <<>> ELSE content[m]]
            /\ lost' = lost \cup Chunks(harmed)
            /\ issued' = <<>>
            /\ pc' = "loop"
            /\ UNCHANGED <<live, next, lists>>
       ELSE Wild(l)

(* One turn of ExecuteSteplist: hand out the instruction and move on.      *)
Issue ==
  /\ pc = "loop" /\ ~done
  /\ IF cursor \in live
       THEN /\ issued' = IF job \in sound THEN Append(issued, cursor) ELSE issued
            /\ done' = flagged[cursor]
            /\ cursor' = next[cursor]
            /\ UNCHANGED <<heap, lists, pc, job, sound, content, lost>>
       ELSE Wild(job)

(* The loop ends and schedule_list returns.                                *)
Issued ==
  /\ pc = "loop" /\ done
  /\ pc' = "scheduled"
  /\ UNCHANGED <<heap, lists, walk, job, history>>

(* step(Cam8Steplist &) keeps the list, step() frees it; bDone is gone, and*)
(* the cursor is never read again before begin() sets it.                  *)
Keep ==
  /\ pc = "scheduled"
  /\ pc' = "idle"
  /\ cursor' = NULL
  /\ done' = FALSE
  /\ issued' = <<>>
  /\ UNCHANGED <<heap, lists, job, sound, content, lost>>

(* free_steplist: from step(), from newx(), from the destructor.           *)
FreeSteplist(l) ==
  /\ pc = "idle" \/ (pc = "scheduled" /\ job = l)
  /\ cursor' = head[l]
  /\ done' = FALSE
  /\ job' = l
  /\ issued' = <<>>
  /\ pc' = "free"
  /\ UNCHANGED <<heap, lists, sound, content, lost>>

(* One turn of its loop: next() reads next_ptr before the chunk goes, and  *)
(* with it what was in it.                                                 *)
FreeInstr ==
  /\ pc = "free" /\ cursor # NULL
  /\ IF cursor \in live
       THEN LET harmed == Touched(job, cursor) IN
            /\ live' = live \ {cursor}
            /\ next' = [next EXCEPT ![cursor] = NULL]
            /\ flagged' = [flagged EXCEPT ![cursor] = FALSE]
            /\ cursor' = next[cursor]
            /\ sound' = sound \ harmed
            /\ content' = [m \in Steplists |-> IF m \in harmed THEN <<>> ELSE content[m]]
            /\ lost' = (lost \cup Chunks(harmed)) \ {cursor}
            /\ UNCHANGED <<lists, done, pc, job, issued>>
       ELSE Wild(job)

(* The list keeps its head and its tail, which point at freed chunks.      *)
Freed ==
  /\ pc = "free" /\ cursor = NULL
  /\ content' = [content EXCEPT ![job] = <<>>]
  /\ sound' = IF head[job] = NULL THEN sound ELSE sound \ {job}
  /\ pc' = "idle"
  /\ UNCHANGED <<heap, lists, walk, job, lost, issued>>
-----------------------------------------------------------------------------
HostLoop == Issue \/ Issued \/ FreeInstr \/ Freed

(* The process is gone, or its behaviour undefined.                        *)
Stop ==
  /\ pc \in {"wild", "aborted"}
  /\ UNCHANGED vars

Next ==
  \/ \E l \in Steplists : LinkOnce(l) \/ LinkTwice(l) \/ Schedule(l) \/ FreeSteplist(l)
  \/ LinkDelay \/ DelayAborts
  \/ Keep
  \/ HostLoop
  \/ Stop

Spec == Init /\ [][Next]_vars

(* The host thread runs: a loop that can take its next turn takes it.      *)
FairSpec == Spec /\ WF_vars(HostLoop)
-----------------------------------------------------------------------------
(* Every variable keeps its type, and a list has a head exactly when it has*)
(* a tail: empty(), which tests the head, answers for both.                *)
TypeOK ==
  /\ live \subseteq Addrs
  /\ next \in [Addrs -> Pointers]
  /\ flagged \in [Addrs -> BOOLEAN]
  /\ head \in [Steplists -> Pointers]
  /\ tail \in [Steplists -> Pointers]
  /\ \A l \in Steplists : head[l] = NULL <=> tail[l] = NULL
  /\ cursor \in Pointers
  /\ done \in BOOLEAN
  /\ pc \in {"idle", "delay", "loop", "scheduled", "free", "wild", "aborted"}
  /\ job \in Steplists
  /\ sound \subseteq Steplists
  /\ content \in [Steplists -> Seq(Addrs)]
  /\ lost \subseteq Addrs
  /\ issued \in Seq(Addrs)

(* A list that was never freed, and whose chunks no freed list has reached,*)
(* leads the host to no memory that is not its own: whenever the program   *)
(* runs wild it works on a list that free_steplist left dangling, or on one*)
(* that such a list has got at.                                            *)
WildOnlyOnceFreed == pc = "wild" => job \notin sound

BeingFreed(l) == pc = "free" /\ job = l

(* A sound list is, from head to tail, the chain of what was linked to it, *)
(* and ends in a null pointer, whatever is done with the other lists and   *)
(* however many of them dangle.                                            *)
ChainInv ==
  \A l \in sound :
    LET c == content[l] IN
    ~BeingFreed(l) =>
      IF c = <<>> THEN head[l] = NULL
      ELSE /\ head[l] = c[1] /\ tail[l] = c[Len(c)]
           /\ \A i \in 1..Len(c) : next[c[i]] = IF i = Len(c) THEN NULL ELSE c[i + 1]

(* Every allocated chunk is in exactly one sound list or is lost: to the   *)
(* leak of fname(sl, ...), or to a list used after its free.  What is in a *)
(* sound list is allocated until that list itself is being freed, and      *)
(* freeing it loses nothing.                                               *)
OwnershipInv ==
  /\ live \subseteq lost \cup Chunks(sound)
  /\ lost \subseteq live
  /\ \A l \in sound :
       /\ ~BeingFreed(l) => Range(content[l]) \subseteq live
       /\ Range(content[l]) \cap lost = {}
       /\ \A m \in sound \ {l} : Range(content[l]) \cap Range(content[m]) = {}

(* A sound list that was never extended after it was scheduled is issued   *)
(* whole, each instruction once and in order, or not at all (uninitialised *)
(* bDone).                                                                 *)
IssuedWhole ==
  LET c == content[job] IN
  pc = "scheduled" /\ job \in sound =>
    /\ IsPrefix(issued, c)
    /\ issued # <<>> /\ (\A i \in 1..Len(c) - 1 : ~flagged[c[i]]) => issued = c

(* Both walks of a sound list end: ExecuteSteplist at a flag, free_steplist*)
(* at the null pointer; the host comes back to its caller.                 *)
WalksEnd ==
  (pc \in {"loop", "free"} /\ job \in sound) ~> (pc \in {"scheduled", "idle"})
=============================================================================
