-------------------------------- MODULE Scan --------------------------------
(***************************************************************************)
(* A simulated module executing instructions (Cam8InterpModule): register  *)
(* writes, kicks, the two lookup tables, and the scans that read and update*)
(* the sites of a plane.  One plane of the sixteen: planes share the scan  *)
(* index and differ in their offsets, their words and their rule only.     *)
(*                                                                         *)
(* SimExecScan has two ways to scan.  SimScanNoPerm sweeps the lowest (X)  *)
(* dimension a word at a time: the word that holds the first site is       *)
(* rotated so that its site is at the top, every site update shifts one    *)
(* site out at the top and its new value in at the bottom, and where a word*)
(* boundary is crossed the word is stored and the next one loaded.         *)
(* SimGeneralScan loads, updates and stores a word for each site.          *)
(***************************************************************************)
EXTENDS SiteAddress, Sequences

CONSTANTS
  WordLog,   (* a word holds 2^WordLog sites, the code's 5                 *)
  Cuts,      (* values of the dimension cut mask                           *)
  Kicks,     (* values of the kick register                                *)
  Lengths,   (* values of ESC, the logarithm of a scan's length            *)
  Starts,    (* values written to the scan index                           *)
  Rules,     (* sources and maps of the destinations                       *)
  Planes,    (* what a plane may hold at first                             *)
  Host,      (* the positions of the ones in the data the host sends       *)
  Lut,       (* the contents of the two lookup tables                      *)
  MaxKicks, MaxScans   (* bounds on how many are executed                  *)

W == 2^WordLog
Cells == 0..2^AddrBits - 1
Words == [0..W - 1 -> BOOLEAN]
MAP_ZERO == 0
MAP_NOTS == 3
MAP_NOTG == 5
MAP_G == 10
MAP_S == 12
MAP_ONE == 15

(* DSR: the site's source and map, and the sources of the lookup table, of *)
(* the event counter and of the display, whose maps are MAP_S; an event    *)
(* source "none" is MAP_ZERO, a display source "tbus" is never built.      *)
RuleType == [sds : {"site", "tbus", "lut"}, sdm : 0..15, las : {"site", "tbus"},
             ecs : {"site", "none"}, dds : {"site", "tbus"}]

(* Bound: the masks cut the plane at its top, and no scan is half a word   *)
(* long, which the code's "ESC + 1 < 5" lets through to SimScanNoPerm with *)
(* no word to sweep.                                                       *)
ASSUME ScanAssumption ==
  /\ WordLog \in Nat \ {0} /\ WordLog < AddrBits
  /\ \A c \in Cuts : IsCut(c)
  /\ Kicks \subseteq SUBSET Bit
  /\ Lengths \subseteq 0..AddrBits /\ WordLog - 1 \notin Lengths
  /\ Starts \subseteq Cells
  /\ Rules \subseteq RuleType
  /\ Planes \subseteq [Cells -> BOOLEAN]
  /\ Host \subseteq Nat
  /\ Lut \in [0..1 -> [BOOLEAN -> BOOLEAN]]
  /\ MaxKicks \in Nat /\ MaxScans \in Nat

VARIABLES
  dcm, numXBits, osr, ka, esc, sir, rule,   (* registers                   *)
  als, lior, lutAddr,  (* ALS; the table being written, the one looked up  *)
  plane,       (* the cells of the bit plane                               *)
  tpos,        (* how far TBUS_ADDR is in the host's data                  *)
  eventCount,  (* EVENT_COUNT                                              *)
  unglue, tbus, disp,         (* UNGLUE_DATA, TBUS_DATA, DISP_DATA         *)
  pc, reading, shown,         (* the scan: is it a read, what it returned  *)
  siteCtr, xLen, xCtr, i,     (* SITE_CTR, XWORD_LENGTH, X_CTR, the site   *)
  addr, word,                 (* NEXT_WORD_ADDR, PLANE_WORD                *)
  kicks, ideal,   (* history: kicks so far, where they should have led     *)
  scans, start,   (* history: scans so far, what the last one started from *)
  smeared         (* history: a shift of PLANE_WORD brought its sign in    *)

registers == <<dcm, numXBits, osr, ka, esc, rule>>
tables == <<als, lior, lutAddr>>
sources == <<tpos, eventCount, unglue, tbus, disp, shown>>
loop == <<siteCtr, xLen, xCtr, i, addr, word>>
history == <<kicks, ideal, scans, start>>
vars == <<registers, tables, sources, loop, history, sir, plane, pc, reading, smeared>>
-----------------------------------------------------------------------------
(* Words: site 0 is the top bit.  The hardware takes a shift count modulo  *)
(* the word, and PLANE_WORD is signed: its right shift repeats the top bit.*)
Shl(w, k) == [b \in 0..W - 1 |-> b + k < W /\ w[b + k]]
Shr(w, k) == [b \in 0..W - 1 |-> b >= k % W /\ w[b - (k % W)]]
Sar(w, k) == [b \in 0..W - 1 |-> IF b >= k % W THEN w[b - (k % W)] ELSE w[0]]
Or(v, w) == [b \in 0..W - 1 |-> v[b] \/ w[b]]
PutLow(w, x) == [w EXCEPT ![W - 1] = @ \/ x]

Load(p, a) == [b \in 0..W - 1 |-> p[Num(a) + b]]
Store(a, w) == [c \in Cells |-> IF c - Num(a) \in 0..W - 1 THEN w[c - Num(a)] ELSE plane[c]]

WordOf(site) == {b \in site : b >= WordLog}
BitOffset(site) == Num(site) % W
-----------------------------------------------------------------------------
(* The sources the site's new value needs (UpdateDestSrcMatrix).           *)
SiteSources ==
  LET chosen == {rule.sds} \ {"site"}
  IN  CASE rule.sdm \in {MAP_S, MAP_NOTS} -> chosen
        [] rule.sdm \in {MAP_ZERO, MAP_ONE} -> {"const"}
        [] rule.sdm = MAP_G -> {}
        [] rule.sdm = MAP_NOTG -> {"glue"}
        [] OTHER -> chosen \cup {"glue"}

IsDestUpdated == SiteSources # {}

OtherSources == {rule.las} \cup ({rule.ecs} \ {"none"}) \cup ({rule.dds} \ {"tbus"})

IsSrcNeeded(src) == src \in SiteSources \cup OtherSources

(* CalcNumPlanes is not 0: the plane is updated or used.                   *)
PlaneUsed == IsDestUpdated \/ IsSrcNeeded("site") \/ IsSrcNeeded("glue")

(* The map is the truth table of its glue bit g and its source bit s.      *)
MapFunction(map, g, s) ==
  (map \div 2^((IF g THEN 1 ELSE 0) + (IF s THEN 2 ELSE 0))) % 2 = 1
-----------------------------------------------------------------------------
(* A machine that has been reset and set up; the plane is what the host    *)
(* wrote earlier.                                                          *)
Init ==
  /\ dcm \in Cuts /\ numXBits = DCMRLowBit(dcm)
  /\ osr = {} /\ ka = {}
  /\ esc \in Lengths /\ sir \in Starts /\ rule \in Rules
  /\ als = 0 /\ lior = 1 /\ lutAddr = 0
  /\ plane \in Planes
  /\ tpos = 0 /\ eventCount = 0
  /\ unglue = FALSE /\ tbus = FALSE /\ disp = FALSE
  /\ pc = "idle" /\ reading = FALSE /\ shown = <<>>
  /\ siteCtr = 0 /\ xLen = 0 /\ xCtr = 0 /\ i = 0
  /\ addr = {} /\ word = [b \in 0..W - 1 |-> FALSE]
  /\ kicks = 0 /\ ideal = {}
  /\ scans = 0 /\ start = <<>>
  /\ smeared = FALSE
-----------------------------------------------------------------------------
(* Register writes.  A write to the dimension register also derives        *)
(* lNumXBits from the mask.                                                *)
WriteDR(c) ==
  /\ pc = "idle" /\ scans < MaxScans
  /\ dcm' = c
  /\ numXBits' = DCMRLowBit(c)
  /\ ideal' = osr
  /\ UNCHANGED <<osr, ka, esc, rule, tables, sources, loop, kicks, scans, start, sir, plane, pc, reading, smeared>>

WriteSFR(e) ==
  /\ pc = "idle" /\ scans < MaxScans
  /\ esc' = e
  /\ UNCHANGED <<dcm, numXBits, osr, ka, rule, tables, sources, loop, history, sir, plane, pc, reading, smeared>>

WriteSIR(s) ==
  /\ pc = "idle" /\ scans < MaxScans
  /\ sir' = s
  /\ UNCHANGED <<registers, tables, sources, loop, history, plane, pc, reading, smeared>>

WriteDSR(r) ==
  /\ pc = "idle" /\ scans < MaxScans
  /\ rule' = r
  /\ UNCHANGED <<dcm, numXBits, osr, ka, esc, tables, sources, loop, history, sir, plane, pc, reading, smeared>>

(* A write to the kick register kicks every plane.                         *)
WriteKR(k) ==
  /\ pc = "idle" /\ kicks < MaxKicks
  /\ ka' = k
  /\ osr' = DoKick(osr, k, dcm)
  /\ ideal' = FieldSub(ideal, k, dcm)
  /\ kicks' = kicks + 1
  /\ UNCHANGED <<dcm, numXBits, esc, rule, tables, sources, loop, scans, start, sir, plane, pc, reading, smeared>>

(* The hardware environment register selects the table that is scanned; the*)
(* other one is written.                                                   *)
WriteHER(a) ==
  /\ pc = "idle"
  /\ als' = a
  /\ lior' = 1 - a
  /\ lutAddr' = a
  /\ UNCHANGED <<registers, sources, loop, history, sir, plane, pc, reading, smeared>>
-----------------------------------------------------------------------------
(* The scan covers the sites from the scan index up to the next multiple of*)
(* its length.                                                             *)
ScanLength == 2^esc - (sir % 2^esc)

(* Faulty: the test for a start inside a row is one bit too narrow.        *)
NoPermNextSite ==
  LET low == Min({esc, numXBits})
  IN  esc + 1 >= WordLog /\ numXBits >= WordLog /\ sir % 2^(low - 1) = 0 /\ low >= 2

(* SimExecScan's choice, with CheckNoPerm's.  The scan index is not        *)
(* permuted here, and nothing sets bForceGeneralScan.                      *)
NoPerm ==
  LET low == Min({esc, numXBits})
  IN  esc + 1 >= WordLog /\ numXBits >= WordLog /\ sir % 2^low = 0 /\ low >= 2

(* Faulty: only one row is swept, or rows are counted for part of one too. *)
SimScanNoPermOneRow ==
  /\ siteCtr' = 1
  /\ xLen' = 2^Min({esc, numXBits}) \div W

SimScanNoPermWholeRows ==
  /\ siteCtr' = ScanLength \div 2^numXBits
  /\ xLen' = 2^Min({esc, numXBits}) \div W

(* How many sweeps, and of how many words each.                            *)
SimScanNoPerm ==
  /\ siteCtr' = IF esc < numXBits THEN 1 ELSE ScanLength \div 2^numXBits
  /\ xLen' = 2^Min({esc, numXBits}) \div W

SimGeneralScan == siteCtr' = ScanLength /\ UNCHANGED xLen

(* Both ways return at once when the rule needs no plane.                  *)
SimExecScan(read) ==
  /\ scans < MaxScans
  /\ scans' = scans + 1
  /\ reading' = read
  /\ shown' = <<>>
  /\ start' = [plane |-> plane, sir |-> sir, tpos |-> tpos', events |-> eventCount,
               sites |-> ScanLength, fast |-> NoPerm]
  /\ IF NoPerm
       THEN SimScanNoPerm /\ pc' = IF PlaneUsed THEN "sweep" ELSE "done"
       ELSE SimGeneralScan /\ pc' = IF PlaneUsed THEN "general" ELSE "done"
  /\ UNCHANGED <<eventCount, unglue, tbus, disp, xCtr, i, addr, word, sir, plane, smeared>>

(* Writing the scan I/O register scans with data from the host.            *)
WriteSIOR ==
  /\ pc = "idle"
  /\ tpos' = 0
  /\ SimExecScan(FALSE)
  /\ UNCHANGED <<registers, tables, kicks, ideal>>

(* Reading it scans and returns what the display sees.                     *)
ReadSIOR ==
  /\ pc = "idle"
  /\ UNCHANGED tpos
  /\ SimExecScan(TRUE)
  /\ UNCHANGED <<registers, tables, kicks, ideal>>

(* Faulty: the write table stays where it is.                              *)
SwapScannedOnly(alt) ==
  /\ als' = IF alt THEN 1 - als ELSE als
  /\ lutAddr' = IF alt THEN 1 - lutAddr ELSE lutAddr
  /\ lior' = lior

SwapTables(alt) ==
  /\ als' = IF alt THEN 1 - als ELSE als
  /\ lutAddr' = IF alt THEN lior ELSE lutAddr
  /\ lior' = IF alt THEN lutAddr ELSE lior

(* The run mode register: repeat the kick, swap the tables, then scan.     *)
WriteRMR(kick, alt, scan) ==
  /\ pc = "idle"
  /\ IF kick
       THEN /\ kicks < MaxKicks
            /\ kicks' = kicks + 1
            /\ osr' = DoKick(osr, ka, dcm)
            /\ ideal' = FieldSub(ideal, ka, dcm)
       ELSE UNCHANGED <<kicks, osr, ideal>>
  /\ SwapTables(alt)
  /\ UNCHANGED <<dcm, numXBits, ka, esc, rule, tpos>>
  /\ IF scan
       THEN SimExecScan(FALSE)
       ELSE /\ reading' = FALSE
            /\ UNCHANGED <<scans, start, eventCount, unglue, tbus, disp, shown, loop, sir, plane, pc, smeared>>
-----------------------------------------------------------------------------
(* One site update, on the word w whose top bit is the site.  Unless a read*)
(* is under way, a datum is fetched from the host when one is needed.      *)
Fetch == IsSrcNeeded("tbus") /\ ~reading
Tbus == IF Fetch THEN tpos \in Host ELSE tbus
Unglued(w) == IF IsSrcNeeded("site") THEN w[0] ELSE unglue
LutData(w) == Lut[lutAddr][IF rule.las = "site" THEN Unglued(w) ELSE Tbus]

Source(w) == CASE rule.sds = "site" -> Unglued(w)
               [] rule.sds = "tbus" -> Tbus
               [] rule.sds = "lut" -> LutData(w)

(* The word without its top site, with the new value at the bottom.        *)
Updated(w) ==
  LET rest == IF IsDestUpdated \/ IsSrcNeeded("site") \/ IsSrcNeeded("glue") THEN Shl(w, 1) ELSE w
  IN  IF IsDestUpdated THEN PutLow(rest, MapFunction(rule.sdm, w[0], Source(w))) ELSE rest

(* What else the update leaves: host data, event counter and display.      *)
SimUpdateSite(w) ==
  /\ tbus' = Tbus
  /\ tpos' = IF Fetch THEN tpos + 1 ELSE tpos
  /\ unglue' = Unglued(w)
  /\ disp' = IF rule.dds = "site" THEN Unglued(w) ELSE disp
  /\ shown' = IF reading THEN Append(shown, disp') ELSE shown
  /\ eventCount' = IF rule.ecs = "site" /\ Unglued(w) THEN eventCount + 1 ELSE eventCount
-----------------------------------------------------------------------------
Rotated(w, off) == Or(Shl(w, off), Sar(w, W - off))
Smears(w, k) == Sar(w, k) # Shr(w, k)

(* SimSweepCode up to its loop: find the first site's word and rotate it.  *)
BeginSweep ==
  /\ pc = "sweep"
  /\ LET off == BitOffset(osr)
         first == WordOf(AddSiteAddress(Bits(sir), osr, dcm))
         w == Load(plane, first)
     IN  /\ addr' = first
         /\ word' = IF off = 0 THEN w ELSE Rotated(w, off)
         /\ smeared' = (smeared \/ (off # 0 /\ Smears(w, W - off)))
  /\ xCtr' = xLen
  /\ i' = 0
  /\ pc' = "site"
  /\ UNCHANGED <<registers, tables, sources, history, siteCtr, xLen, sir, plane, reading>>

(* Faulty: the carry runs out of the X dimension.                          *)
NextWordCarrying(a) == Bits(Num(a) + W)

(* The next word of the row, breaking the carry at the top of X.           *)
NextWord(a) ==
  LET top == a \cap {numXBits - 1}
  IN  Xor(Bits(Num(a \ top) + W), top)

(* A site of a sweep.  Where a word boundary is crossed, SimGetNextWord    *)
(* stores the word and, if X has more than one, loads the next.            *)
UpdateSite ==
  /\ pc = "site"
  /\ SimUpdateSite(word)
  /\ IF BitOffset(osr) = W - 1 - i
       THEN /\ plane' = IF IsDestUpdated THEN Store(addr, Updated(word)) ELSE plane
            /\ addr' = IF numXBits > WordLog THEN NextWord(addr) ELSE addr
            /\ word' = IF numXBits > WordLog THEN Load(plane', addr') ELSE Updated(word)
       ELSE word' = Updated(word) /\ UNCHANGED <<plane, addr>>
  /\ i' = (i + 1) % W
  /\ xCtr' = IF i = W - 1 THEN xCtr - 1 ELSE xCtr
  /\ pc' = IF i = W - 1 /\ xCtr = 1 THEN "last" ELSE "site"
  /\ UNCHANGED <<registers, tables, history, siteCtr, xLen, sir, reading, smeared>>

(* SimSaveLastWord puts the remainder back, and SimScanNoPerm goes on to   *)
(* the next sweep.                                                         *)
SaveLastWord ==
  /\ pc = "last"
  /\ LET off == BitOffset(osr)
     IN  IF IsDestUpdated /\ off # 0
           THEN /\ plane' = Store(addr, Or(Shl(word, W - off), Sar(word, off)))
                /\ smeared' = (smeared \/ Smears(word, off))
           ELSE UNCHANGED <<plane, smeared>>
  /\ sir' = sir + xLen * W
  /\ siteCtr' = siteCtr - 1
  /\ pc' = IF siteCtr = 1 THEN "done" ELSE "sweep"
  /\ UNCHANGED <<registers, tables, sources, history, xLen, xCtr, i, addr, word, reading>>

(* One round of SimGeneralScan: load, update and store.  The increment of  *)
(* the scan index is commented out.                                        *)
GeneralSite ==
  /\ pc = "general"
  /\ LET site == AddSiteAddress(Bits(sir), osr, dcm)
         off == BitOffset(site)
         m == Load(plane, WordOf(site))
         w == IF IsDestUpdated \/ IsSrcNeeded("site") \/ IsSrcNeeded("glue")
                THEN Or(Shl(m, off), Shr(m, W - off)) ELSE word
         n == Updated(w)
     IN  /\ SimUpdateSite(w)
         /\ addr' = WordOf(site)
         /\ IF IsDestUpdated
              THEN /\ word' = Or(Sar(n, off + 1), Shl(n, W - 1 - off))
                   /\ plane' = Store(addr', word')
                   /\ smeared' = (smeared \/ Smears(n, off + 1))
              ELSE word' = n /\ UNCHANGED <<plane, smeared>>
  /\ siteCtr' = siteCtr - 1
  /\ pc' = IF siteCtr = 1 THEN "done" ELSE "general"
  /\ UNCHANGED <<registers, tables, history, xLen, xCtr, i, sir, reading>>

(* The end of SimExecScan and of runTask.                                  *)
EndScan ==
  /\ pc = "done"
  /\ pc' = "idle"
  /\ start' = <<>> /\ shown' = <<>> /\ smeared' = FALSE
  /\ UNCHANGED <<registers, tables, tpos, eventCount, unglue, tbus, disp, loop, kicks, ideal, scans, sir, plane, reading>>

Next ==
  \/ \E c \in Cuts : WriteDR(c)
  \/ \E e \in Lengths : WriteSFR(e)
  \/ \E s \in Starts : WriteSIR(s)
  \/ \E r \in Rules : WriteDSR(r)
  \/ \E k \in Kicks : WriteKR(k)
  \/ \E a \in 0..1 : WriteHER(a)
  \/ \E kick, alt, scan \in BOOLEAN : WriteRMR(kick, alt, scan)
  \/ WriteSIOR \/ ReadSIOR
  \/ BeginSweep \/ UpdateSite \/ SaveLastWord \/ GeneralSite \/ EndScan

Spec == Init /\ [][Next]_vars
-----------------------------------------------------------------------------
TypeOK ==
  /\ dcm \in Cuts /\ numXBits \in 1..AddrBits
  /\ osr \subseteq Bit /\ ka \subseteq Bit
  /\ esc \in Lengths /\ sir \in Nat /\ rule \in Rules
  /\ als \in 0..1 /\ lior \in 0..1 /\ lutAddr \in 0..1
  /\ plane \in [Cells -> BOOLEAN]
  /\ tpos \in Nat /\ eventCount \in Nat
  /\ unglue \in BOOLEAN /\ tbus \in BOOLEAN /\ disp \in BOOLEAN
  /\ pc \in {"idle", "sweep", "site", "last", "general", "done"}
  /\ reading \in BOOLEAN /\ shown \in Seq(BOOLEAN)
  /\ siteCtr \in Nat /\ xLen \in Nat /\ xCtr \in Nat /\ i \in 0..W - 1
  /\ addr \subseteq Bit /\ word \in Words
  /\ kicks \in 0..MaxKicks /\ ideal \subseteq Bit
  /\ scans \in 0..MaxScans /\ smeared \in BOOLEAN

(* The offsets are where the kicks should have led: each dimension moved by*)
(* the kicks' sum in that dimension, modulo its size, whatever happened in *)
(* the others.                                                             *)
KickInv == osr = ideal

(* The table the scans look up is the one ALS names, and writes go to the  *)
(* other one, after any mix of selecting and alternating.                  *)
TablesApart == lutAddr = als /\ lior = 1 - als

(* A sweep stays in its row: the words it loads and stores differ from its *)
(* first site's in the X dimension only.                                   *)
RowKept ==
  pc \in {"site", "last"} =>
    LET x == 0..numXBits - 1
    IN  addr \ x = AddSiteAddress(Bits(sir), osr, dcm) \ x

(* What a scan is for.  The k-th site it covers, the cell that holds it and*)
(* the datum it gets.                                                      *)
Cell(k) == Num(FieldAdd(Bits(start.sir + k), osr, dcm))
Covered == 0..start.sites - 1
Datum(k) == (start.tpos + k) \in Host

NewValue(old, t) ==
  MapFunction(rule.sdm, old,
    CASE rule.sds = "site" -> old
      [] rule.sds = "tbus" -> t
      [] rule.sds = "lut" -> Lut[als][IF rule.las = "site" THEN old ELSE t])

Scanned ==
  [c \in Cells |->
     IF \E k \in Covered : Cell(k) = c
       THEN NewValue(start.plane[c], Datum(CHOOSE k \in Covered : Cell(k) = c))
       ELSE start.plane[c]]

(* Rules whose source is there: a site that is its own source is loaded for*)
(* itself only when another destination wants it, its complement is never  *)
(* taken, and a read fetches no data from the host.                        *)
Provided ==
  /\ rule.sds = "site" => \/ rule.sdm \in {MAP_ZERO, MAP_ONE, MAP_S, MAP_G, MAP_NOTG}
                          \/ rule.sdm # MAP_NOTS /\ IsSrcNeeded("site")
  /\ reading => ~IsSrcNeeded("tbus")

(* An optimized scan leaves the plane as the rule says, every covered site *)
(* updated once from its old value and its datum, no other cell changed,   *)
(* for any offset and any mask; except where a signed shift smeared ones.  *)
SweepExact ==
  pc = "done" /\ start.fast /\ PlaneUsed /\ Provided /\ ~smeared => plane = Scanned

(* The event counter has counted the ones among the sites before they were *)
(* updated, and the scan index is past them.                               *)
SweepCounts ==
  pc = "done" /\ start.fast /\ PlaneUsed /\ ~smeared =>
    /\ rule.ecs = "site" => eventCount - start.events = Cardinality({k \in Covered : start.plane[Cell(k)]})
    /\ sir = start.sir + start.sites

(* A scan I/O read returns the old values of the sites in scan order.      *)
ReadInOrder ==
  pc = "done" /\ start.fast /\ PlaneUsed /\ ~smeared /\ reading /\ rule.dds = "site" =>
    shown = [n \in 1..start.sites |-> start.plane[Cell(n - 1)]]

(* The comment at ScanLength: the number of sites that will be updated in  *)
(* the current scan.  SimGeneralScan counts them, but every round is for   *)
(* the same site.                                                          *)
GeneralExact ==
  pc = "done" /\ ~start.fast /\ PlaneUsed /\ Provided /\ ~smeared => plane = Scanned
=============================================================================
