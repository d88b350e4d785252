----------------------------- MODULE Assembler -----------------------------
(***************************************************************************)
(* How Cam8 builds one instruction: a register is chosen, its default is   *)
(* copied into the instruction that is being assembled, operands store     *)
(* registers and fields in some or all bit planes or give kicks, and the   *)
(* instruction is linked into a list or becomes the register's default.    *)
(*                                                                         *)
(* The data of an instruction is one word for each bit of its register,    *)
(* one bit of the word for each plane.  A value is the set of its bits, a  *)
(* layer mask a set of planes.  Operands that read, or that set flags, the *)
(* buffer or its length are left out: no other operand depends on them.    *)
(***************************************************************************)
EXTENDS Integers

CONSTANTS
  Registers,       (* the registers instructions are built for             *)
  Fields,          (* the fields of each register                          *)
  BITLEN, BITOFF,  (* of registers and fields (Register_Specs)             *)
  Planes,          (* the bit planes: 0 .. 15 in the code                  *)
  Values,          (* what may be stored                                   *)
  Arrays,          (* and as values for each plane                         *)
  Masks,           (* the layer masks that may be set                      *)
  len, pos, glue,  (* of the sector, for each dimension                    *)
  Kicks,           (* the distances kicks are given                        *)
  MaxOperands,     (* bound: the stores and kicks of all instructions      *)
  None             (* no default yet, no instruction                       *)

(* A register that is stored as a whole is a part of its own.              *)
Parts(r) == IF Fields[r] = {} THEN {r} ELSE Fields[r]

Span(f) == BITOFF[f] .. BITOFF[f] + BITLEN[f] - 1
Bits(r) == 0 .. BITLEN[r] - 1

(* What finish_kick writes, whatever was stored there.                     *)
KickFields == {"KA", "XKS", "YKS", "ZKS", "XKMF", "YKMF", "ZKMF"}

Dims == DOMAIN len

ASSUME AssemblerAssumption ==
  /\ \A r \in Registers :
       /\ BITLEN[r] \in Nat /\ BITOFF[r] = 0
       /\ \A f \in Fields[r] :
            /\ BITLEN[f] \in Nat \ {0} /\ BITOFF[f] \in Nat
            /\ Span(f) \subseteq Bits(r)
            /\ \A g \in Fields[r] \ {f} : Span(f) \cap Span(g) = {}
  /\ \A v \in Values : v \subseteq Nat
  /\ Arrays \subseteq [Planes -> SUBSET Nat]
  /\ \A m \in Masks : m \subseteq Planes
  /\ Kicks \subseteq Int

(* The bits of ka that are a dimension's.                                  *)
Along(d) == pos[d] .. pos[d] + len[d] - 1

(* The sector's dimensions are numbered from 0, lie within ka and do not   *)
(* overlap (process_dimensions lays them out one after the other).         *)
ASSUME KickAssumption ==
  "KR" \in Registers =>
    /\ Fields["KR"] = KickFields /\ None \notin KickFields
    /\ \A f \in KickFields \ {"KA"} : BITLEN[f] = 1
    /\ Dims \subseteq Nat
    /\ \A d \in Dims :
         /\ len[d] \in Nat /\ pos[d] \in Nat /\ pos[d] + len[d] <= BITLEN["KA"]
         /\ glue[d] \in BOOLEAN
         /\ \A e \in Dims \ {d} : Along(d) \cap Along(e) = {}

VARIABLES
  incomp,        (* the instruction that is being assembled                *)
  open,          (* it is not finished                                     *)
  defining,      (* define() is assembling it                              *)
  operands,      (* how many were given, of all instructions               *)
  layer_mask, single_arg,
  kick,          (* ka, xks .. zks and xkmf .. zkmf of each plane          *)
  reg_defaults

vars == <<incomp, open, defining, operands, layer_mask, single_arg, kick, reg_defaults>>

(* An instruction: its data, and as history what its parts were told in    *)
(* each plane, whether its operands were passed on as they were given, and *)
(* by how much each plane was asked to be kicked.                          *)
NoKick == [p \in Planes |-> [f \in KickFields |-> {}]]
Unasked == [p \in Planes |-> [d \in Dims |-> 0]]

Blank(r) ==
  [reg |-> r, data |-> [b \in Bits(r) |-> {}],
   told |-> [f \in Parts(r) |-> [p \in Planes |-> {}]],
   mangled |-> FALSE, asked |-> Unasked]
-----------------------------------------------------------------------------
(* PackBits, PackConstantPlanes, UnpackBits                                *)

(* Faulty: the bits of the word are counted from 1.                        *)
PackedFrom1(data, f, planes, vals) ==
  [b \in DOMAIN data |->
     IF b + 1 \notin Span(f) THEN data[b]
     ELSE (data[b] \ planes) \cup {p \in planes : b + 1 - BITOFF[f] \in vals[p]}]

(* The bits of a part are stored in the given planes, one value for each.  *)
Packed(data, f, planes, vals) ==
  [b \in DOMAIN data |->
     IF b \notin Span(f) THEN data[b]
     ELSE (data[b] \ planes) \cup {p \in planes : b - BITOFF[f] \in vals[p]}]

Unpacked(data, f) ==
  [p \in Planes |-> {i \in 0 .. BITLEN[f] - 1 : p \in data[BITOFF[f] + i]}]

(* What a part is told by a store to f, itself or its register.            *)
Told(told, f, planes, vals) ==
  [g \in DOMAIN told |->
     IF g # f /\ BITOFF[g] \notin Span(f) THEN told[g]
     ELSE [p \in Planes |->
       IF p \notin planes THEN told[g][p]
       ELSE {i \in 0 .. BITLEN[g] - 1 : i + BITOFF[g] - BITOFF[f] \in vals[p]}]]

Stored(f, planes, vals) ==
  [incomp EXCEPT !.data = Packed(@, f, planes, vals), !.told = Told(@, f, planes, vals)]

Everywhere(v) == [p \in Planes |-> v]

(* A bit mask has one bit for each plane, all of them are written.         *)
Bitmask(m) == [p \in Planes |-> IF p \in m THEN {0} ELSE {}]
-----------------------------------------------------------------------------
(* kick_twiddle                                                            *)

BitsOf(n, size) == {b \in 0 .. size - 1 : (n \div 2^b) % 2 = 1}

SignField(d) == CASE d = 0 -> "XKS" [] d = 1 -> "YKS" [] d = 2 -> "ZKS" [] OTHER -> None
WholeField(d) == CASE d = 0 -> "XKMF" [] d = 1 -> "YKMF" [] d = 2 -> "ZKMF" [] OTHER -> None

Flag(b) == IF b THEN {0} ELSE {}

(* Faulty: a kick forwards keeps the sign of an earlier one.               *)
TwiddledKeepingSign(k, d, dist) ==
  [f \in KickFields |->
     IF f = "KA"
     THEN (k[f] \ Along(d))
            \cup {pos[d] + b : b \in BitsOf(dist % 2^len[d], len[d])}
     ELSE IF f = SignField(d) /\ glue[d] /\ dist < 0 THEN {0}
     ELSE IF f = WholeField(d) THEN Flag(dist = 2^len[d])
     ELSE k[f]]

(* The magnitude goes to the dimension's bits of ka; the sign and, for a   *)
(* kick by the whole sector, the flag follow for the first three.          *)
Twiddled(k, d, dist) ==
  [f \in KickFields |->
     IF f = "KA"
     THEN (k[f] \ Along(d))
            \cup {pos[d] + b : b \in BitsOf(dist % 2^len[d], len[d])}
     ELSE IF f = SignField(d) /\ glue[d] THEN Flag(dist < 0)
     ELSE IF f = WholeField(d) THEN Flag(dist = 2^len[d])
     ELSE k[f]]

Kicked(data) ==
  [b \in DOMAIN data |->
     LET f == CHOOSE f \in KickFields : b \in Span(f)
     IN  {p \in Planes : b - BITOFF[f] \in kick[p][f]}]

finish_kick ==
  IF incomp.reg = "KR"
  THEN [incomp EXCEPT !.data = Kicked(@),
                      !.told = [f \in KickFields |-> [p \in Planes |-> kick[p][f]]]]
  ELSE incomp
-----------------------------------------------------------------------------
Init ==
  /\ incomp = None /\ open = FALSE /\ defining = FALSE /\ operands = 0
  /\ layer_mask = Planes /\ single_arg = TRUE
  /\ kick = NoKick
  /\ reg_defaults = [r \in Registers |-> None]

(* setup_register zeroes the arrays when a kick is begun.                  *)
Setup(r, instr) ==
  /\ incomp' = instr
  /\ open' = TRUE
  /\ kick' = IF r = "KR" THEN NoKick ELSE kick
  /\ UNCHANGED <<operands, reg_defaults>>

(* def: a register that has no default starts from zeroes.                 *)
def(r) == IF reg_defaults[r] = None THEN Blank(r) ELSE [reg_defaults[r] EXCEPT !.asked = Unasked]

(* reg() and a register operand keep the masks an earlier instruction has  *)
(* set, assemble() with an argument list does not.  Without an instruction *)
(* being finished this one is given up.                                    *)
Begin(r) ==
  /\ ~(open /\ defining)
  /\ Setup(r, def(r))
  /\ defining' = FALSE
  /\ \/ UNCHANGED <<layer_mask, single_arg>>
     \/ layer_mask' = Planes /\ single_arg' = TRUE

define(r) ==
  /\ ~(open /\ defining)
  /\ Setup(r, Blank(r))
  /\ defining' = TRUE
  /\ layer_mask' = Planes /\ single_arg' = TRUE

SetMasks ==
  /\ open
  /\ \/ single_arg' \in BOOLEAN /\ UNCHANGED layer_mask
     \/ layer_mask' \in Masks /\ single_arg' = TRUE
     \/ layer_mask' = Planes /\ UNCHANGED single_arg
  /\ UNCHANGED <<incomp, open, defining, operands, kick, reg_defaults>>

Operand ==
  /\ open /\ operands < MaxOperands /\ operands' = operands + 1
  /\ UNCHANGED <<open, defining, layer_mask, single_arg, reg_defaults>>

(* A field: one value for the planes of the layer mask, or a value for     *)
(* each plane, in the operands, an array or the bits of a mask.            *)
FieldStore(f, v) ==
  /\ Operand /\ f \in Fields[incomp.reg] /\ single_arg
  /\ incomp' = Stored(f, layer_mask, Everywhere(v))
  /\ UNCHANGED kick

FieldStoreEach(f, vals) ==
  /\ Operand /\ f \in Fields[incomp.reg]
  /\ incomp' = Stored(f, Planes, vals)
  /\ UNCHANGED kick

(* The register, the same way, unless it has more than 32 bits (PackBits   *)
(* aborts).                                                                *)
RegStore(v) ==
  /\ Operand /\ BITLEN[incomp.reg] <= 32 /\ single_arg
  /\ incomp' = Stored(incomp.reg, layer_mask, Everywhere(v))
  /\ UNCHANGED kick

RegStoreEach(vals) ==
  /\ Operand /\ BITLEN[incomp.reg] <= 32
  /\ incomp' = Stored(incomp.reg, Planes, vals)
  /\ UNCHANGED kick

(* REG_STORE with a value for each plane passes the address of the values  *)
(* where reg_store() has its flag: it takes it for true and stores one     *)
(* argument that nobody passed.                                            *)
RegStoreSixteen(vals) ==
  /\ Operand /\ BITLEN[incomp.reg] <= 32 /\ ~single_arg
  /\ \E garbage \in Values :
       incomp' = [incomp EXCEPT
         !.data = Packed(@, incomp.reg, layer_mask, Everywhere(garbage)),
         !.told = Told(@, incomp.reg, Planes, vals),
         !.mangled = TRUE]
  /\ UNCHANGED kick

(* KICK_X, KICK_Y, KICK_Z, and KICK_N for the dimensions above them: below *)
(* it would write through a null pointer.  In an instruction that is not a *)
(* kick nothing reads what it leaves.                                      *)
Kick(d, dist) ==
  /\ Operand /\ incomp.reg = "KR"
  /\ kick' = [p \in Planes |->
       IF p \in layer_mask THEN Twiddled(kick[p], d, dist) ELSE kick[p]]
  /\ incomp' = [incomp EXCEPT !.asked = [p \in Planes |->
       IF p \in layer_mask THEN [@[p] EXCEPT ![d] = dist] ELSE @[p]]]

(* finish_instr, by link() or at the end of define().                      *)
Finish ==
  /\ open
  /\ incomp' = finish_kick
  /\ reg_defaults' =
       IF defining THEN [reg_defaults EXCEPT ![incomp.reg] = finish_kick] ELSE reg_defaults
  /\ open' = FALSE
  /\ UNCHANGED <<defining, operands, layer_mask, single_arg, kick>>

Next ==
  \/ \E r \in Registers : Begin(r) \/ define(r)
  \/ SetMasks
  \/ \E r \in Registers : \E f \in Fields[r] :
       \/ \E v \in Values : FieldStore(f, v)
       \/ \E vals \in Arrays : FieldStoreEach(f, vals)
       \/ \E m \in Masks : FieldStoreEach(f, Bitmask(m))
  \/ \E v \in Values : RegStore(v)
  \/ \E vals \in Arrays : RegStoreEach(vals) \/ RegStoreSixteen(vals)
  \/ \E m \in Masks : RegStoreEach(Bitmask(m))
  \/ \E d \in Dims, dist \in Kicks : Kick(d, dist)
  \/ Finish

Spec == Init /\ [][Next]_vars
-----------------------------------------------------------------------------
Keeps(instr) == \A f \in Parts(instr.reg) : Unpacked(instr.data, f) = instr.told[f]

Instructions == ({incomp} \cup {reg_defaults[r] : r \in Registers}) \ {None}

(* Whatever is stored in other fields, in other planes, as a whole or in   *)
(* the default an instruction starts from: every field holds in every      *)
(* plane what it was told last (PackBits, PackConstantPlanes, def), those  *)
(* of a finished kick what finish_kick told them.  Instructions that went  *)
(* through the sixteen values of REG_STORE are left out.                   *)
FieldsHold == \A i \in Instructions : i.mangled \/ Keeps(i)

(* The same for instructions that were given sixteen values.  It fails.    *)
SixteenStored == \A i \in Instructions : Keeps(i)

(* What the machine reads from a finished kick: in every plane the last    *)
(* distance it was given in each dimension, whatever the other planes and  *)
(* dimensions were given and the default held.  A dimension that is not    *)
(* glued goes around, and so does a kick by more than the whole sector,    *)
(* which the fields cannot say (kick_twiddle, finish_kick).                *)
Distance(instr, p, d) ==
  LET ka == Unpacked(instr.data, "KA")[p]
      Ones(f) == IF f # None /\ Unpacked(instr.data, f)[p] # {} THEN 1 ELSE 0
      n == CHOOSE n \in 0 .. 2^len[d] - 1 :
             BitsOf(n, len[d]) = {b \in 0 .. len[d] - 1 : pos[d] + b \in ka}
  IN  n + 2^len[d] * (Ones(WholeField(d)) - Ones(SignField(d)))

KickEncoded ==
  (incomp # None /\ incomp.reg = "KR" /\ ~open) =>
    \A p \in Planes, d \in Dims :
      LET asked == incomp.asked[p][d]
      IN  IF d <= 2 /\ glue[d] /\ asked \in -(2^len[d]) .. 2^len[d]
          THEN Distance(incomp, p, d) = asked
          ELSE Distance(incomp, p, d) % 2^len[d] = asked % 2^len[d]
=============================================================================
