-------------------------- MODULE AssemblerProofs --------------------------
(***************************************************************************)
(* Every field of an instruction holds what it was told last, for any      *)
(* registers and layout whose fields do not overlap, any planes and any    *)
(* sequence of operands and instructions, and a finished kick is encoded   *)
(* as its dimensions were asked.                                           *)
(***************************************************************************)
EXTENDS Assembler, FiniteSetTheorems, WellFoundedInduction, TLAPS

(* What an instruction for r is made of.                                   *)
Instruction(r) ==
  [reg : {r}, data : [Bits(r) -> SUBSET Planes],
   told : [Parts(r) -> [Planes -> SUBSET Nat]],
   mangled : BOOLEAN, asked : [Planes -> [Dims -> Int]]]

Good(i) == \E r \in Registers : i \in Instruction(r) /\ (i.mangled \/ Keeps(i))

(* The bits of a kick stay within its fields.                              *)
KickInv ==
  /\ kick \in [Planes -> [KickFields -> SUBSET Nat]]
  /\ "KR" \in Registers =>
       \A p \in Planes, f \in KickFields : kick[p][f] \subseteq 0 .. BITLEN[f] - 1

MasksInv == layer_mask \subseteq Planes

(* The instruction that is being assembled, or that was the last one.      *)
InstrInv ==
  /\ open => Good(incomp)
  /\ incomp = None \/ Good(incomp)

DefaultsInv ==
  /\ DOMAIN reg_defaults = Registers
  /\ \A r \in Registers : reg_defaults[r] = None \/ Good(reg_defaults[r])

IInv == KickInv /\ MasksInv /\ InstrInv /\ DefaultsInv
-----------------------------------------------------------------------------
(* A register's parts lie within its data and do not overlap.              *)
LEMMA PartsLieApart ==
  ASSUME NEW r \in Registers
  PROVE  /\ \A f \in Parts(r) : BITLEN[f] \in Nat /\ BITOFF[f] \in Nat /\ Span(f) \subseteq Bits(r)
         /\ \A f, g \in Parts(r) : f # g => Span(f) \cap Span(g) = {} /\ BITOFF[g] \in Span(g)
         /\ r \notin Parts(r) => \A g \in Parts(r) : BITOFF[g] \in Span(r) /\ Span(g) \subseteq Span(r)
         /\ BITOFF[r] = 0 /\ BITLEN[r] \in Nat
<1>1. CASE Fields[r] = {}
  BY <1>1, AssemblerAssumption DEF Parts, Span, Bits
<1>2. CASE Fields[r] # {}
  <2>1. Parts(r) = Fields[r]
    BY <1>2 DEF Parts
  <2>2. \A f \in Fields[r] : BITOFF[f] \in Span(f)
    BY AssemblerAssumption DEF Span
  <2>3. Bits(r) = Span(r)
    BY AssemblerAssumption DEF Bits, Span
  <2> QED
    BY <2>1, <2>2, <2>3, AssemblerAssumption
<1> QED
  BY <1>1, <1>2

(* A store of a part, or of the whole register, leaves every part with     *)
(* what it was told.                                                       *)
LEMMA StoresKeep ==
  ASSUME NEW r \in Registers, NEW data \in [Bits(r) -> SUBSET Planes],
         NEW told \in [Parts(r) -> [Planes -> SUBSET Nat]],
         NEW f \in Parts(r) \cup {r}, NEW planes \in SUBSET Planes,
         NEW vals \in [Planes -> SUBSET Nat],
         NEW g \in Parts(r), Unpacked(data, g) = told[g]
  PROVE  Unpacked(Packed(data, f, planes, vals), g) = Told(told, f, planes, vals)[g]
<1> DEFINE new == Packed(data, f, planes, vals)
           ask == Told(told, f, planes, vals)
<1>1. /\ BITLEN[g] \in Nat /\ BITOFF[g] \in Nat /\ Span(g) \subseteq Bits(r)
      /\ BITLEN[f] \in Nat /\ BITOFF[f] \in Nat
  BY PartsLieApart
<1>2. \A i \in 0 .. BITLEN[g] - 1 :
        /\ BITOFF[g] + i \in Bits(r)
        /\ BITOFF[g] + i \in Span(g)
  BY <1>1 DEF Span
<1>3. ASSUME NEW b \in Bits(r), NEW p \in Planes
      PROVE  /\ b \in Span(f) /\ p \in planes => (p \in new[b] <=> b - BITOFF[f] \in vals[p])
             /\ b \notin Span(f) \/ p \notin planes => (p \in new[b] <=> p \in data[b])
  <2>1. b \in DOMAIN data
    OBVIOUS
  <2>2. CASE b \in Span(f)
    BY <2>1, <2>2 DEF Packed
  <2>3. CASE b \notin Span(f)
    BY <2>1, <2>3 DEF Packed
  <2> QED
    BY <2>2, <2>3
<1>4. \A p \in Planes : told[g][p] = {i \in 0 .. BITLEN[g] - 1 : p \in data[BITOFF[g] + i]}
  BY DEF Unpacked
<1>5. CASE f = g \/ BITOFF[g] \in Span(f)
  <2>1. Span(g) \subseteq Span(f)
    BY <1>5, PartsLieApart
  <2>2. ask[g] = [p \in Planes |->
          IF p \notin planes THEN told[g][p]
          ELSE {i \in 0 .. BITLEN[g] - 1 : i + BITOFF[g] - BITOFF[f] \in vals[p]}]
    BY <1>5 DEF Told
  <2> HIDE DEF new
  <2>3. ASSUME NEW p \in Planes
        PROVE  {i \in 0 .. BITLEN[g] - 1 : p \in new[BITOFF[g] + i]} = ask[g][p]
    <3>1. CASE p \notin planes
      <4>1. \A i \in 0 .. BITLEN[g] - 1 : p \in new[BITOFF[g] + i] <=> p \in data[BITOFF[g] + i]
        BY <1>2, <1>3, <3>1
      <4> QED
        BY <4>1, <3>1, <2>2, <1>4
    <3>2. CASE p \in planes
      <4>1. \A i \in 0 .. BITLEN[g] - 1 :
              p \in new[BITOFF[g] + i] <=> (BITOFF[g] + i) - BITOFF[f] \in vals[p]
        <5> TAKE i \in 0 .. BITLEN[g] - 1
        <5> DEFINE b == BITOFF[g] + i
        <5>1. b \in Bits(r) /\ b \in Span(f)
          BY <1>2, <2>1
        <5> HIDE DEF b
        <5>2. p \in new[b] <=> b - BITOFF[f] \in vals[p]
          BY <1>3, <5>1, <3>2
        <5> QED
          BY <5>2 DEF b
      <4>2. \A i \in 0 .. BITLEN[g] - 1 : (BITOFF[g] + i) - BITOFF[f] = i + BITOFF[g] - BITOFF[f]
        BY <1>1
      <4> QED
        BY <4>1, <4>2, <3>2, <2>2
    <3> QED
      BY <3>1, <3>2
  <2> QED
    BY <2>2, <2>3 DEF Unpacked, new
<1>6. CASE f # g /\ BITOFF[g] \notin Span(f)
  <2>1. Span(g) \cap Span(f) = {}
    BY <1>6, PartsLieApart
  <2>2. ask[g] = told[g]
    BY <1>6 DEF Told
  <2> HIDE DEF new
  <2>3. \A i \in 0 .. BITLEN[g] - 1, p \in Planes :
          p \in new[BITOFF[g] + i] <=> p \in data[BITOFF[g] + i]
    BY <1>2, <1>3, <2>1
  <2>4. \A p \in Planes : {i \in 0 .. BITLEN[g] - 1 : p \in new[BITOFF[g] + i]} = told[g][p]
    BY <2>3, <1>4
  <2>5. told[g] = [p \in Planes |-> told[g][p]]
    OBVIOUS
  <2> QED
    BY <2>2, <2>4, <2>5 DEF Unpacked, new
<1> QED
  BY <1>5, <1>6
-----------------------------------------------------------------------------
(* An instruction with new data, told accordingly.                         *)
LEMMA Updated ==
  ASSUME NEW r \in Registers, NEW i \in Instruction(r),
         NEW d \in [Bits(r) -> SUBSET Planes], NEW t \in [Parts(r) -> [Planes -> SUBSET Nat]],
         i.mangled \/ \A g \in Parts(r) : Unpacked(d, g) = t[g]
  PROVE  Good([i EXCEPT !.data = d, !.told = t])
<1> DEFINE new == [i EXCEPT !.data = d, !.told = t]
<1>1. new \in Instruction(r)
  BY DEF Instruction
<1>2. new.reg = r /\ new.data = d /\ new.told = t /\ new.mangled = i.mangled
  BY DEF Instruction
<1> HIDE DEF new
<1>3. i.mangled \/ Keeps(new)
  BY <1>2 DEF Keeps
<1>4. Good(new)
  BY <1>1, <1>2, <1>3 DEF Good
<1> QED
  BY <1>4 DEF new

(* A store leaves an instruction well formed.                              *)
LEMMA StoreTypes ==
  ASSUME NEW r \in Registers, NEW data \in [Bits(r) -> SUBSET Planes],
         NEW told \in [Parts(r) -> [Planes -> SUBSET Nat]],
         NEW f \in Parts(r) \cup {r}, NEW planes \in SUBSET Planes,
         NEW vals \in [Planes -> SUBSET Nat]
  PROVE  /\ Packed(data, f, planes, vals) \in [Bits(r) -> SUBSET Planes]
         /\ Told(told, f, planes, vals) \in [Parts(r) -> [Planes -> SUBSET Nat]]
<1>1. Packed(data, f, planes, vals) \in [Bits(r) -> SUBSET Planes]
  <2>1. \A b \in Bits(r) :
          (data[b] \ planes) \cup {p \in planes : b - BITOFF[f] \in vals[p]} \in SUBSET Planes
    OBVIOUS
  <2> QED
    BY <2>1 DEF Packed
<1>2. Told(told, f, planes, vals) \in [Parts(r) -> [Planes -> SUBSET Nat]]
  <2>1. \A g \in Parts(r), p \in Planes :
          {i \in 0 .. BITLEN[g] - 1 : i + BITOFF[g] - BITOFF[f] \in vals[p]} \subseteq Nat
    BY PartsLieApart
  <2> QED
    BY <2>1 DEF Told
<1> QED
  BY <1>1, <1>2

(* A store, for an instruction as a whole.                                 *)
LEMMA StoredGood ==
  ASSUME Good(incomp), NEW f, f \in Parts(incomp.reg) \cup {incomp.reg},
         NEW planes \in SUBSET Planes, NEW vals \in [Planes -> SUBSET Nat]
  PROVE  Good(Stored(f, planes, vals))
<1>1. PICK r \in Registers : incomp \in Instruction(r) /\ (incomp.mangled \/ Keeps(incomp))
  BY DEF Good
<1> DEFINE data == incomp.data
           told == incomp.told
           d == Packed(data, f, planes, vals)
           t == Told(told, f, planes, vals)
<1>2. /\ incomp.reg = r /\ data \in [Bits(r) -> SUBSET Planes]
      /\ told \in [Parts(r) -> [Planes -> SUBSET Nat]]
      /\ f \in Parts(r) \cup {r}
  BY <1>1 DEF Instruction
<1>3. incomp.mangled \/ \A g \in Parts(r) : Unpacked(data, g) = told[g]
  BY <1>1, <1>2 DEF Keeps
<1>4. Stored(f, planes, vals) = [incomp EXCEPT !.data = d, !.told = t]
  BY DEF Stored
<1> HIDE DEF data, told
<1>5. d \in [Bits(r) -> SUBSET Planes] /\ t \in [Parts(r) -> [Planes -> SUBSET Nat]]
  BY <1>2, StoreTypes
<1>6. incomp.mangled \/ \A g \in Parts(r) : Unpacked(d, g) = t[g]
  <2>1. ASSUME NEW g \in Parts(r), Unpacked(data, g) = told[g]
        PROVE  Unpacked(d, g) = t[g]
    <3>1. /\ r \in Registers /\ data \in [Bits(r) -> SUBSET Planes]
          /\ told \in [Parts(r) -> [Planes -> SUBSET Nat]] /\ f \in Parts(r) \cup {r}
      BY <1>2
    <3>2. Unpacked(Packed(data, f, planes, vals), g) = Told(told, f, planes, vals)[g]
      BY <2>1, <3>1, StoresKeep, ZenonT(60)
    <3> QED
      BY <3>2
  <2> QED
    BY <2>1, <1>3
<1> HIDE DEF d, t
<1>7. Good([incomp EXCEPT !.data = d, !.told = t])
  BY <1>1, <1>5, <1>6, Updated
<1> QED
  BY <1>4, <1>7

(* An instruction of zeroes, told nothing.                                 *)
LEMMA BlankGood ==
  ASSUME NEW r \in Registers PROVE Good(Blank(r)) /\ Blank(r) \in Instruction(r)
<1>1. Unasked \in [Planes -> [Dims -> Int]]
  BY DEF Unasked
<1>2. Blank(r) \in Instruction(r)
  BY <1>1 DEF Blank, Instruction
<1>3. \A f \in Parts(r) : Unpacked(Blank(r).data, f) = Blank(r).told[f]
  <2> TAKE f \in Parts(r)
  <2>1. \A i \in 0 .. BITLEN[f] - 1 : BITOFF[f] + i \in Bits(r)
    BY PartsLieApart DEF Span
  <2>2. \A i \in 0 .. BITLEN[f] - 1 : Blank(r).data[BITOFF[f] + i] = {}
    BY <2>1 DEF Blank
  <2>3. Blank(r).told[f] = [p \in Planes |-> {}]
    BY DEF Blank
  <2> QED
    BY <2>2, <2>3 DEF Unpacked
<1>4. Keeps(Blank(r))
  BY <1>3 DEF Keeps, Blank
<1> QED
  BY <1>2, <1>4 DEF Good

(* What finish_kick writes is what a plane's kick has in each field.       *)
LEMMA KickUnpacked ==
  ASSUME KickInv, "KR" \in Registers, NEW data \in [Bits("KR") -> SUBSET Planes],
         NEW g \in KickFields
  PROVE  Unpacked(Kicked(data), g) = [p \in Planes |-> kick[p][g]]
<1> DEFINE r == "KR"
           new == Kicked(data)
<1>1. Parts(r) = KickFields
  BY KickAssumption DEF Parts, KickFields
<1>2. BITLEN[g] \in Nat /\ BITOFF[g] \in Nat /\ Span(g) \subseteq Bits(r)
  BY <1>1, PartsLieApart
<1>3. \A b \in Span(g) : (CHOOSE f \in KickFields : b \in Span(f)) = g
  <2> TAKE b \in Span(g)
  <2>1. \A f \in KickFields : b \in Span(f) => f = g
    BY <1>1, PartsLieApart
  <2> QED
    BY <2>1
<1>4. \A b \in Span(g), p \in Planes : p \in new[b] <=> b - BITOFF[g] \in kick[p][g]
  BY <1>2, <1>3 DEF Kicked
<1> HIDE DEF new
<1>5. \A i \in 0 .. BITLEN[g] - 1 :
        BITOFF[g] + i \in Span(g) /\ (BITOFF[g] + i) - BITOFF[g] = i
  BY <1>2 DEF Span
<1>6. ASSUME NEW i \in 0 .. BITLEN[g] - 1, NEW p \in Planes
      PROVE  p \in new[BITOFF[g] + i] <=> i \in kick[p][g]
  <2> DEFINE b == BITOFF[g] + i
  <2>1. b \in Span(g) /\ b - BITOFF[g] = i
    BY <1>5
  <2> HIDE DEF b
  <2>2. p \in new[b] <=> i \in kick[p][g]
    BY <1>4, <2>1
  <2> QED
    BY <2>2 DEF b
<1>7. \A p \in Planes : kick[p][g] \subseteq 0 .. BITLEN[g] - 1
  BY DEF KickInv
<1>8. \A p \in Planes : {i \in 0 .. BITLEN[g] - 1 : p \in new[BITOFF[g] + i]} = kick[p][g]
  BY <1>6, <1>7
<1> QED
  BY <1>8 DEF Unpacked, new

(* The seven fields of a finished kick.                                    *)
LEMMA FinishedGood ==
  ASSUME KickInv, Good(incomp) PROVE Good(finish_kick)
<1>1. PICK r \in Registers : incomp \in Instruction(r) /\ (incomp.mangled \/ Keeps(incomp))
  BY DEF Good
<1>2. incomp.reg = r
  BY <1>1 DEF Instruction
<1>3. CASE r # "KR"
  BY <1>2, <1>3 DEF finish_kick
<1>4. CASE r = "KR"
  <2> DEFINE new == Kicked(incomp.data)
             ask == [f \in KickFields |-> [p \in Planes |-> kick[p][f]]]
  <2>1. finish_kick = [incomp EXCEPT !.data = new, !.told = ask]
    BY <1>2, <1>4 DEF finish_kick
  <2>2. Parts(r) = KickFields
    BY <1>4, KickAssumption DEF Parts, KickFields
  <2>3. incomp.data \in [Bits(r) -> SUBSET Planes]
    BY <1>1 DEF Instruction
  <2>4. new \in [Bits(r) -> SUBSET Planes]
    BY <2>3 DEF Kicked
  <2>5. ask \in [Parts(r) -> [Planes -> SUBSET Nat]]
    BY <2>2 DEF KickInv
  <2>6. \A g \in KickFields : Unpacked(new, g) = ask[g]
    BY <1>4, <2>3, KickUnpacked
  <2> HIDE DEF new, ask
  <2> QED
    BY <1>1, <2>1, <2>2, <2>4, <2>5, <2>6, Updated
<1> QED
  BY <1>3, <1>4
-----------------------------------------------------------------------------
(* An instruction stays good whatever it was asked.                        *)
LEMMA AskedGood ==
  ASSUME NEW i, Good(i), NEW asked \in [Planes -> [Dims -> Int]]
  PROVE  Good([i EXCEPT !.asked = asked])
<1>1. PICK r \in Registers : i \in Instruction(r) /\ (i.mangled \/ Keeps(i))
  BY DEF Good
<1> DEFINE new == [i EXCEPT !.asked = asked]
<1>2. new \in Instruction(r)
  BY <1>1 DEF Instruction
<1>3. /\ new.reg = i.reg /\ new.data = i.data /\ new.told = i.told
      /\ new.mangled = i.mangled
  BY <1>1 DEF Instruction
<1> HIDE DEF new
<1>4. Good(new)
  BY <1>1, <1>2, <1>3 DEF Good, Keeps
<1> QED
  BY <1>4 DEF new

(* The sixteen values of REG_STORE leave the type as it is.                *)
LEMMA MangledGood ==
  ASSUME Good(incomp), NEW planes \in SUBSET Planes,
         NEW vals \in [Planes -> SUBSET Nat], NEW asked \in [Planes -> SUBSET Nat]
  PROVE  Good([incomp EXCEPT !.data = Packed(@, incomp.reg, planes, vals),
                             !.told = Told(@, incomp.reg, Planes, asked),
                             !.mangled = TRUE])
<1>1. PICK r \in Registers : incomp \in Instruction(r)
  BY DEF Good
<1> DEFINE d == Packed(incomp.data, incomp.reg, planes, vals)
           t == Told(incomp.told, incomp.reg, Planes, asked)
           new == [incomp EXCEPT !.data = d, !.told = t, !.mangled = TRUE]
<1>2. /\ incomp.reg = r /\ incomp.data \in [Bits(r) -> SUBSET Planes]
      /\ incomp.told \in [Parts(r) -> [Planes -> SUBSET Nat]]
  BY <1>1 DEF Instruction
<1>3. d \in [Bits(r) -> SUBSET Planes] /\ t \in [Parts(r) -> [Planes -> SUBSET Nat]]
  BY <1>2, StoreTypes
<1> HIDE DEF d, t
<1>4. new \in Instruction(r) /\ new.mangled
  BY <1>1, <1>3 DEF Instruction
<1> HIDE DEF new
<1>5. Good(new)
  BY <1>4 DEF Good
<1> QED
  BY <1>5 DEF new, d, t

(* What an instruction starts from is good.                                *)
LEMMA DefGood ==
  ASSUME DefaultsInv, NEW r \in Registers PROVE Good(def(r))
<1>1. CASE reg_defaults[r] = None
  BY <1>1, BlankGood DEF def
<1>2. CASE reg_defaults[r] # None
  <2>1. Unasked \in [Planes -> [Dims -> Int]]
    BY DEF Unasked
  <2>2. Good(reg_defaults[r])
    BY <1>2 DEF DefaultsInv
  <2> QED
    BY <1>2, <2>1, <2>2, AskedGood DEF def
<1> QED
  BY <1>1, <1>2

(* A kick's bits stay within the field they are written to.                *)
LEMMA TwiddledFits ==
  ASSUME "KR" \in Registers, NEW k \in [KickFields -> SUBSET Nat],
         \A f \in KickFields : k[f] \subseteq 0 .. BITLEN[f] - 1,
         NEW d \in Dims, NEW dist \in Int
  PROVE  /\ Twiddled(k, d, dist) \in [KickFields -> SUBSET Nat]
         /\ \A f \in KickFields : Twiddled(k, d, dist)[f] \subseteq 0 .. BITLEN[f] - 1
<1> DEFINE written == {pos[d] + b : b \in BitsOf(dist % 2^len[d], len[d])}
<1>1. /\ len[d] \in Nat /\ pos[d] \in Nat /\ pos[d] + len[d] <= BITLEN["KA"]
      /\ BITLEN["KA"] \in Nat /\ "KA" \in KickFields
      /\ \A f \in KickFields \ {"KA"} : BITLEN[f] = 1
  BY KickAssumption, AssemblerAssumption DEF KickFields
<1>2. BitsOf(dist % 2^len[d], len[d]) \subseteq 0 .. len[d] - 1
  BY DEF BitsOf
<1>3. written \subseteq 0 .. BITLEN["KA"] - 1
  BY <1>1, <1>2
<1>4. \A b : Flag(b) \subseteq {0}
  BY DEF Flag
<1> HIDE DEF written
<1>5. ASSUME NEW f \in KickFields
      PROVE  Twiddled(k, d, dist)[f] \subseteq 0 .. BITLEN[f] - 1
  <2>1. CASE f = "KA"
    <3>1. Twiddled(k, d, dist)[f] = (k[f] \ Along(d)) \cup written
      BY <2>1 DEF Twiddled, written
    <3> QED
      BY <3>1, <2>1, <1>3
  <2>2. CASE f # "KA"
    <3>1. \/ Twiddled(k, d, dist)[f] = Flag(dist < 0)
          \/ Twiddled(k, d, dist)[f] = Flag(dist = 2^len[d])
          \/ Twiddled(k, d, dist)[f] = k[f]
      BY <2>2 DEF Twiddled
    <3>2. BITLEN[f] = 1
      BY <1>1, <2>2
    <3> QED
      BY <3>1, <3>2, <1>4
  <2> QED
    BY <2>1, <2>2
<1>6. \A f \in KickFields : BITLEN[f] \in Nat
  BY <1>1
<1>7. \A f \in KickFields : Twiddled(k, d, dist)[f] \in SUBSET Nat
  BY <1>5, <1>6
<1>8. Twiddled(k, d, dist) = [f \in KickFields |-> Twiddled(k, d, dist)[f]]
  BY DEF Twiddled
<1> QED
  BY <1>5, <1>7, <1>8
-----------------------------------------------------------------------------
(* There is no instruction at the start.                                   *)
LEMMA InitInv == Init => IInv
<1> SUFFICES ASSUME Init PROVE IInv
  OBVIOUS
<1>1. NoKick \in [Planes -> [KickFields -> SUBSET Nat]]
  BY DEF NoKick
<1>2. \A p \in Planes, f \in KickFields : NoKick[p][f] = {}
  BY DEF NoKick
<1>3. KickInv
  BY <1>1, <1>2 DEF Init, KickInv
<1> QED
  BY <1>3 DEF Init, IInv, MasksInv, InstrInv, DefaultsInv

(* The kick that is begun is empty.                                        *)
LEMMA NoKickFits == KickInv /\ kick' \in {kick, NoKick} => KickInv'
<1>1. NoKick \in [Planes -> [KickFields -> SUBSET Nat]]
  BY DEF NoKick
<1>2. \A p \in Planes, f \in KickFields : NoKick[p][f] = {}
  BY DEF NoKick
<1> QED
  BY <1>1, <1>2 DEF KickInv

(* A store of a part or of the whole register, in some or all planes.      *)
LEMMA StoreStep ==
  ASSUME IInv, Operand, UNCHANGED kick,
         NEW f, f \in Parts(incomp.reg) \cup {incomp.reg},
         NEW planes \in SUBSET Planes, NEW vals \in [Planes -> SUBSET Nat],
         incomp' = Stored(f, planes, vals)
  PROVE  IInv'
<1>1. Good(incomp')
  <2>1. Good(incomp)
    BY DEF IInv, InstrInv, Operand
  <2> QED
    BY <2>1, StoredGood
<1> QED
  BY <1>1 DEF IInv, KickInv, MasksInv, InstrInv, DefaultsInv, Operand

(* Every operation keeps the invariant.                                    *)
LEMMA StepInv == IInv /\ [Next]_vars => IInv'
<1> SUFFICES ASSUME IInv, [Next]_vars PROVE IInv'
  OBVIOUS
<1> USE DEF IInv
<1>1. ASSUME NEW r \in Registers, Begin(r) PROVE IInv'
  <2>1. Good(incomp')
    BY <1>1, DefGood DEF Begin, Setup
  <2>2. KickInv'
    BY <1>1, NoKickFits DEF Begin, Setup
  <2>3. MasksInv'
    BY <1>1 DEF Begin, MasksInv
  <2>4. DefaultsInv'
    BY <1>1 DEF Begin, Setup, DefaultsInv
  <2> QED
    BY <2>1, <2>2, <2>3, <2>4 DEF InstrInv
<1>2. ASSUME NEW r \in Registers, define(r) PROVE IInv'
  <2>1. Good(incomp')
    BY <1>2, BlankGood DEF define, Setup
  <2>2. KickInv'
    BY <1>2, NoKickFits DEF define, Setup
  <2>3. MasksInv'
    BY <1>2 DEF define, MasksInv
  <2>4. DefaultsInv'
    BY <1>2 DEF define, Setup, DefaultsInv
  <2> QED
    BY <2>1, <2>2, <2>3, <2>4 DEF InstrInv
<1>3. CASE SetMasks
  <2>1. MasksInv'
    BY <1>3, AssemblerAssumption DEF SetMasks, MasksInv
  <2> QED
    BY <1>3, <2>1 DEF SetMasks, KickInv, InstrInv, DefaultsInv
<1>4. ASSUME NEW r \in Registers, NEW f \in Fields[r], NEW v \in Values, FieldStore(f, v)
      PROVE  IInv'
  <2>1. Everywhere(v) \in [Planes -> SUBSET Nat]
    BY AssemblerAssumption DEF Everywhere
  <2>2. f \in Parts(incomp.reg)
    BY <1>4 DEF FieldStore, Parts
  <2> QED
    BY <1>4, <2>1, <2>2, StoreStep DEF FieldStore, MasksInv
<1>5. ASSUME NEW f, NEW vals \in [Planes -> SUBSET Nat], FieldStoreEach(f, vals)
      PROVE  IInv'
  <2>1. f \in Parts(incomp.reg)
    BY <1>5 DEF FieldStoreEach, Parts
  <2> QED
    BY <1>5, <2>1, StoreStep DEF FieldStoreEach
<1>6. ASSUME NEW v \in Values, RegStore(v) PROVE IInv'
  <2>1. Everywhere(v) \in [Planes -> SUBSET Nat]
    BY AssemblerAssumption DEF Everywhere
  <2> QED
    BY <1>6, <2>1, StoreStep DEF RegStore, MasksInv
<1>7. ASSUME NEW vals \in [Planes -> SUBSET Nat], RegStoreEach(vals) PROVE IInv'
  BY <1>7, StoreStep DEF RegStoreEach
<1>8. ASSUME NEW vals \in Arrays, RegStoreSixteen(vals) PROVE IInv'
  <2>1. PICK garbage \in Values :
          incomp' = [incomp EXCEPT
            !.data = Packed(@, incomp.reg, layer_mask, Everywhere(garbage)),
            !.told = Told(@, incomp.reg, Planes, vals),
            !.mangled = TRUE]
    BY <1>8 DEF RegStoreSixteen
  <2>2. Everywhere(garbage) \in [Planes -> SUBSET Nat] /\ vals \in [Planes -> SUBSET Nat]
    BY AssemblerAssumption DEF Everywhere
  <2>3. Good(incomp) /\ layer_mask \in SUBSET Planes
    BY <1>8 DEF RegStoreSixteen, Operand, InstrInv, MasksInv
  <2>4. Good(incomp')
    BY <2>1, <2>2, <2>3, MangledGood
  <2> QED
    BY <1>8, <2>4 DEF RegStoreSixteen, Operand, KickInv, MasksInv, InstrInv, DefaultsInv
<1>9. ASSUME NEW d \in Dims, NEW dist \in Kicks, Kick(d, dist) PROVE IInv'
  <2>1. Good(incomp) /\ incomp.reg = "KR"
    BY <1>9 DEF Kick, Operand, InstrInv
  <2>2. PICK r \in Registers : incomp \in Instruction(r)
    BY <2>1 DEF Good
  <2>3. "KR" \in Registers /\ incomp.asked \in [Planes -> [Dims -> Int]] /\ dist \in Int
    BY <2>1, <2>2, AssemblerAssumption DEF Instruction
  <2>4. Good(incomp')
    <3> DEFINE asked == [p \in Planes |->
          IF p \in layer_mask THEN [incomp.asked[p] EXCEPT ![d] = dist] ELSE incomp.asked[p]]
    <3>1. asked \in [Planes -> [Dims -> Int]]
      BY <2>3
    <3>2. incomp' = [incomp EXCEPT !.asked = asked]
      BY <1>9 DEF Kick
    <3> QED
      BY <2>1, <3>1, <3>2, AskedGood
  <2>5. KickInv'
    <3>1. \A p \in Planes :
            /\ Twiddled(kick[p], d, dist) \in [KickFields -> SUBSET Nat]
            /\ \A f \in KickFields : Twiddled(kick[p], d, dist)[f] \subseteq 0 .. BITLEN[f] - 1
      BY <2>3, TwiddledFits DEF KickInv
    <3> QED
      BY <1>9, <3>1 DEF Kick, KickInv
  <2> QED
    BY <1>9, <2>4, <2>5 DEF Kick, Operand, MasksInv, InstrInv, DefaultsInv
<1>10. CASE Finish
  <2>1. Good(finish_kick) /\ Good(incomp)
    BY <1>10, FinishedGood DEF Finish, InstrInv
  <2>2. KickInv'
    BY <1>10 DEF Finish, KickInv
  <2>3. DefaultsInv'
    BY <1>10, <2>1 DEF Finish, DefaultsInv
  <2> QED
    BY <1>10, <2>1, <2>2, <2>3 DEF Finish, MasksInv, InstrInv
<1>11. CASE UNCHANGED vars
  BY <1>11 DEF vars, KickInv, MasksInv, InstrInv, DefaultsInv
<1>12. \A m \in Masks : Bitmask(m) \in [Planes -> SUBSET Nat]
  BY DEF Bitmask
<1>13. \A vals \in Arrays : vals \in [Planes -> SUBSET Nat]
  BY AssemblerAssumption
<1> QED
  BY <1>1, <1>2, <1>3, <1>4, <1>5, <1>6, <1>7, <1>8, <1>9, <1>10, <1>11, <1>12, <1>13 DEF Next

(* A good instruction keeps what it was told.                              *)
LEMMA InvHolds == IInv => FieldsHold
<1> SUFFICES ASSUME IInv, NEW i \in Instructions PROVE i.mangled \/ Keeps(i)
  BY DEF FieldsHold
<1>1. Good(i)
  BY DEF Instructions, IInv, InstrInv, DefaultsInv
<1> QED
  BY <1>1 DEF Good

(* Every field of every instruction and default holds in every plane what  *)
(* it was told last, but for those given sixteen values of REG_STORE.      *)
THEOREM FieldsAlwaysHold == Spec => []FieldsHold
<1>1. Init => IInv
  BY InitInv
<1>2. IInv /\ [Next]_vars => IInv'
  BY StepInv
<1>3. IInv => FieldsHold
  BY InvHolds
<1> QED
  BY <1>1, <1>2, <1>3, PTL DEF Spec
-----------------------------------------------------------------------------
(* What a kick's fields say of a dimension that was asked to go this far.  *)
Encodes(k, d, dist) ==
  /\ \A b \in 0 .. len[d] - 1 : pos[d] + b \in k["KA"] <=> b \in BitsOf(dist % 2^len[d], len[d])
  /\ SignField(d) # None /\ glue[d] => k[SignField(d)] = Flag(dist < 0)
  /\ WholeField(d) # None => k[WholeField(d)] = Flag(dist = 2^len[d])

AsksKick == (open \/ incomp # None) /\ incomp.reg = "KR"

(* Each plane's kick says what was asked of it so far, and that is what    *)
(* the instruction holds once it is finished.                              *)
EncodedInv ==
  AsksKick => \A p \in Planes, d \in Dims : Encodes(kick[p], d, incomp.asked[p][d])

FinishedInv ==
  AsksKick /\ ~open =>
    \A p \in Planes, f \in KickFields : Unpacked(incomp.data, f)[p] = kick[p][f]

(* A register's default is for that register.                              *)
OwnerInv == \A r \in Registers : reg_defaults[r] = None \/ reg_defaults[r].reg = r

EInv == EncodedInv /\ FinishedInv /\ OwnerInv
-----------------------------------------------------------------------------
(* Induction over the naturals, for a set: they are well founded.          *)
LEMMA Inductive ==
  ASSUME NEW T, 0 \in T, \A n \in Nat : n \in T => n + 1 \in T
  PROVE  Nat \subseteq T
<1> DEFINE R == OpToRel(<, Nat)
           U == Nat \ T
<1>1. SUFFICES ASSUME U # {} PROVE FALSE
  OBVIOUS
<1>2. PICK m \in U : \A k \in U : ~ (<<k, m>> \in R)
  <2>1. IsWellFoundedOn(R, Nat)
    BY NatLessThanWellFounded
  <2>2. U \subseteq Nat
    OBVIOUS
  <2> HIDE DEF R, U
  <2> QED
    BY <1>1, <2>1, <2>2, WFMin
<1>3. m \in Nat /\ m # 0 /\ m - 1 \in Nat
  OBVIOUS
<1>4. <<m - 1, m>> \in R
  <2>1. m - 1 < m
    BY <1>3
  <2> QED
    BY <1>3, <2>1, ZenonT(30) DEF OpToRel
<1>5. m - 1 \in T
  BY <1>2, <1>3, <1>4
<1> QED
  BY <1>3, <1>5

(* A power of two counts the subsets of an interval, which double.         *)
LEMMA PowDouble == ASSUME NEW n \in Nat PROVE 2^(n + 1) = 2 * 2^n
<1> DEFINE A == SUBSET (1 .. n)
           B == {s \cup {n + 1} : s \in A}
           f == [s \in A |-> s \cup {n + 1}]
<1>1. IsFiniteSet(1 .. n) /\ Cardinality(1 .. n) = n
  BY FS_Interval
<1>2. IsFiniteSet(1 .. n + 1) /\ Cardinality(1 .. n + 1) = n + 1
  BY FS_Interval
<1>3. IsFiniteSet(A) /\ Cardinality(A) = 2^n
  BY <1>1, FS_SUBSET
<1>4. Cardinality(SUBSET (1 .. n + 1)) = 2^(n + 1)
  BY <1>2, FS_SUBSET
<1>5. SUBSET (1 .. n + 1) = A \cup B
  <2>1. ASSUME NEW s \in SUBSET (1 .. n + 1) PROVE s \in A \cup B
    <3>1. CASE n + 1 \in s
      <4>1. s \ {n + 1} \in A /\ s = (s \ {n + 1}) \cup {n + 1}
        BY <3>1
      <4> QED
        BY <4>1
    <3>2. CASE n + 1 \notin s
      BY <3>2
    <3> QED
      BY <3>1, <3>2
  <2>2. A \subseteq SUBSET (1 .. n + 1)
    <3>1. 1 .. n \subseteq 1 .. n + 1
      OBVIOUS
    <3> QED
      BY <3>1
  <2>3. B \subseteq SUBSET (1 .. n + 1)
    <3>1. ASSUME NEW s \in A PROVE s \cup {n + 1} \in SUBSET (1 .. n + 1)
      <4>1. n + 1 \in 1 .. n + 1
        OBVIOUS
      <4> QED
        BY <2>2, <4>1
    <3> QED
      BY <3>1
  <2> HIDE DEF A, B
  <2> QED
    BY <2>1, <2>2, <2>3
<1>6. A \cap B = {}
  OBVIOUS
<1>7. f \in Bijection(A, B)
  <2>1. f \in [A -> B] /\ \A t \in B : \E s \in A : f[s] = t
    OBVIOUS
  <2>2. ASSUME NEW s \in A, NEW t \in A, f[s] = f[t] PROVE s = t
    BY <2>2
  <2> QED
    BY <2>1, <2>2 DEF Bijection, Injection, Surjection, IsInjective
<1> HIDE DEF A, B
<1>8. IsFiniteSet(B) /\ Cardinality(B) = Cardinality(A)
  <2>1. ExistsBijection(A, B)
    BY <1>7 DEF ExistsBijection
  <2> QED
    BY <1>3, <2>1, FS_Bijection
<1>9. Cardinality(A \cup B) = Cardinality(A) + Cardinality(B) - Cardinality(A \cap B)
  BY <1>3, <1>8, FS_Union
<1>10. Cardinality(A \cap B) = 0 /\ Cardinality(A) \in Nat
  BY <1>3, <1>6, FS_CardinalityType, FS_EmptySet
<1>11. Cardinality(A \cup B) = 2 * Cardinality(A)
  BY <1>8, <1>9, <1>10
<1> QED
  BY <1>3, <1>4, <1>5, <1>11, Zenon

(* Powers of two are positive numbers.                                     *)
LEMMA PowType == \A n \in Nat : 2^n \in Nat \ {0}
<1> DEFINE T == {n \in Nat : 2^n \in Nat \ {0}}
<1>1. 0 \in T
  OBVIOUS
<1>2. \A n \in Nat : n \in T => n + 1 \in T
  BY PowDouble
<1> HIDE DEF T
<1>3. Nat \subseteq T
  BY <1>1, <1>2, Inductive
<1> QED
  BY <1>3 DEF T

(* Halving a number moves its bits down by one.                            *)
LEMMA BitOfHalf ==
  ASSUME NEW n \in Nat, NEW b \in Nat
  PROVE  (n \div 2) \div 2^b = n \div 2^(b + 1)
<1> DEFINE p == 2^b
           h == n \div 2
           q == h \div p
<1>1. p \in Nat \ {0} /\ 2^(b + 1) = 2 * p
  BY PowType, PowDouble
<1>2. h \in Nat /\ (n = 2 * h \/ n = 2 * h + 1)
  OBVIOUS
<1> HIDE DEF p, h
<1>3. q \in Int /\ h % p \in 0 .. p - 1 /\ h = p * q + (h % p)
  BY <1>1, <1>2
<1> HIDE DEF q
<1>4. PICK r \in 0 .. p - 1 : h = p * q + r
  BY <1>3
<1>5. PICK c \in {0, 1} : n = 2 * h + c
  BY <1>2
<1>6. 2 * (p * q + r) + c = (2 * p) * q + (2 * r + c)
  BY <1>1, <1>3
<1> DEFINE d == 2 * p
           e == 2 * r + c
<1>7. d \in Nat \ {0} /\ e \in 0 .. d - 1
  BY <1>1
<1>8. n = d * q + e
  BY <1>4, <1>5, <1>6
<1> HIDE DEF d, e
<1>9. n \div d = q
  BY <1>3, <1>7, <1>8
<1> QED
  BY <1>1, <1>9 DEF p, q, d, h

(* A number is made of its bits: below 2^size there are no two with the    *)
(* same.                                                                   *)
LEMMA BitsOfUnique ==
  \A size \in Nat : \A n, m \in 0 .. 2^size - 1 : BitsOf(n, size) = BitsOf(m, size) => n = m
<1> DEFINE T == {size \in Nat :
             \A n, m \in 0 .. 2^size - 1 : BitsOf(n, size) = BitsOf(m, size) => n = m}
<1>1. 0 \in T
  <2>1. 2^0 = 1
    OBVIOUS
  <2> QED
    BY <2>1
<1>2. ASSUME NEW size \in Nat, size \in T PROVE size + 1 \in T
  <2> SUFFICES ASSUME NEW n \in 0 .. 2^(size + 1) - 1, NEW m \in 0 .. 2^(size + 1) - 1,
                      BitsOf(n, size + 1) = BitsOf(m, size + 1)
               PROVE  n = m
    OBVIOUS
  <2>1. 2^(size + 1) = 2 * 2^size /\ 2^size \in Nat \ {0}
    BY PowType, PowDouble
  <2>2. n \in Nat /\ m \in Nat /\ n \div 2 \in 0 .. 2^size - 1 /\ m \div 2 \in 0 .. 2^size - 1
    BY <2>1
  <2>3. \A b \in 0 .. size : (n \div 2^b) % 2 = 1 <=> (m \div 2^b) % 2 = 1
    <3>1. 0 .. (size + 1) - 1 = 0 .. size
      OBVIOUS
    <3>2. \A b \in 0 .. size : b \in BitsOf(n, size + 1) <=> b \in BitsOf(m, size + 1)
      OBVIOUS
    <3> QED
      BY <3>1, <3>2 DEF BitsOf
  <2>4. n % 2 = m % 2
    <3>1. 2^0 = 1 /\ n \div 1 = n /\ m \div 1 = m /\ 0 \in 0 .. size
      BY <2>2
    <3>2. n % 2 = 1 <=> m % 2 = 1
      BY <2>3, <3>1
    <3> QED
      BY <2>2, <3>2
  <2>5. BitsOf(n \div 2, size) = BitsOf(m \div 2, size)
    <3>1. ASSUME NEW b \in 0 .. size - 1
          PROVE  ((n \div 2) \div 2^b) % 2 = 1 <=> ((m \div 2) \div 2^b) % 2 = 1
      <4>1. b \in Nat /\ b + 1 \in 0 .. size
        OBVIOUS
      <4>2. /\ (n \div 2) \div 2^b = n \div 2^(b + 1)
            /\ (m \div 2) \div 2^b = m \div 2^(b + 1)
        BY <2>2, <4>1, BitOfHalf
      <4> QED
        BY <2>3, <4>1, <4>2
    <3> QED
      BY <3>1 DEF BitsOf
  <2>6. n \div 2 = m \div 2
    BY <1>2, <2>2, <2>5
  <2> QED
    BY <2>2, <2>4, <2>6
<1> HIDE DEF T
<1>3. Nat \subseteq T
  BY <1>1, <1>2, Inductive
<1> QED
  BY <1>3 DEF T

(* Zero has no bits.                                                       *)
LEMMA NoBits == ASSUME NEW size PROVE BitsOf(0, size) = {}
<1>1. ASSUME NEW b \in Nat PROVE 0 \div 2^b = 0
  BY PowType
<1>2. \A b \in 0 .. size - 1 : b \in Nat
  OBVIOUS
<1> QED
  BY <1>1, <1>2 DEF BitsOf
-----------------------------------------------------------------------------
(* What the constants say about the dimensions of a kick.                  *)
LEMMA DimFacts ==
  ASSUME "KR" \in Registers, NEW d \in Dims
  PROVE  /\ d \in Nat /\ len[d] \in Nat /\ pos[d] \in Nat /\ glue[d] \in BOOLEAN
         /\ 2^len[d] \in Nat \ {0}
         /\ \A b \in 0 .. len[d] - 1 : pos[d] + b \in Along(d)
         /\ \A e \in Dims \ {d} : Along(d) \cap Along(e) = {}
<1>1. /\ d \in Nat /\ len[d] \in Nat /\ pos[d] \in Nat /\ glue[d] \in BOOLEAN
      /\ \A e \in Dims \ {d} : Along(d) \cap Along(e) = {}
  BY KickAssumption
<1>2. \A b \in 0 .. len[d] - 1 : pos[d] + b \in Along(d)
  BY <1>1 DEF Along
<1> QED
  BY <1>1, <1>2, PowType

(* Every dimension has its own fields for the sign and the whole sector.   *)
LEMMA OwnFields ==
  ASSUME "KR" \in Registers, NEW d \in Nat
  PROVE  /\ d <= 2 => /\ SignField(d) # None /\ SignField(d) \in KickFields \ {"KA"}
                      /\ WholeField(d) # None /\ WholeField(d) \in KickFields \ {"KA"}
         /\ d > 2 => SignField(d) = None /\ WholeField(d) = None
         /\ SignField(d) \in KickFields \ {"KA"} \/ SignField(d) = None
         /\ WholeField(d) \in KickFields \ {"KA"} \/ WholeField(d) = None
         /\ \A e \in Nat : /\ SignField(d) = SignField(e) => d = e \/ SignField(d) = None
                           /\ WholeField(d) = WholeField(e) => d = e \/ WholeField(d) = None
                           /\ SignField(d) = WholeField(e) => SignField(d) = None
<1>1. None \notin KickFields
  BY KickAssumption
<1>2. \A e \in Nat : \/ e = 0 /\ SignField(e) = "XKS" /\ WholeField(e) = "XKMF"
                     \/ e = 1 /\ SignField(e) = "YKS" /\ WholeField(e) = "YKMF"
                     \/ e = 2 /\ SignField(e) = "ZKS" /\ WholeField(e) = "ZKMF"
                     \/ e > 2 /\ SignField(e) = None /\ WholeField(e) = None
  BY DEF SignField, WholeField
<1> QED
  BY <1>1, <1>2 DEF KickFields

(* A kick that was just given is encoded.                                  *)
LEMMA TwiddledEncodes ==
  ASSUME "KR" \in Registers, NEW k \in [KickFields -> SUBSET Nat],
         NEW d \in Dims, NEW dist \in Int
  PROVE  Encodes(Twiddled(k, d, dist), d, dist)
<1> DEFINE t == Twiddled(k, d, dist)
           bits == BitsOf(dist % 2^len[d], len[d])
<1>1. d \in Nat /\ len[d] \in Nat /\ pos[d] \in Nat
      /\ \A b \in 0 .. len[d] - 1 : pos[d] + b \in Along(d)
  BY DimFacts
<1>2. bits \subseteq 0 .. len[d] - 1
  BY DEF BitsOf
<1>3. "KA" \in KickFields
  BY DEF KickFields
<1>4. t["KA"] = (k["KA"] \ Along(d)) \cup {pos[d] + b : b \in bits}
  BY <1>3 DEF Twiddled
<1>5. ASSUME SignField(d) # None, glue[d] PROVE t[SignField(d)] = Flag(dist < 0)
  <2>1. SignField(d) \in KickFields \ {"KA"}
    BY <1>1, <1>5, OwnFields
  <2> QED
    BY <1>5, <2>1 DEF Twiddled
<1>6. ASSUME WholeField(d) # None PROVE t[WholeField(d)] = Flag(dist = 2^len[d])
  <2>1. WholeField(d) \in KickFields \ {"KA"}
    BY <1>1, <1>6, OwnFields
  <2>2. SignField(d) # WholeField(d)
    BY <1>1, <1>6, OwnFields
  <2> QED
    BY <1>6, <2>1, <2>2 DEF Twiddled
<1> HIDE DEF t, bits
<1>7. \A b \in 0 .. len[d] - 1 : pos[d] + b \in t["KA"] <=> b \in bits
  BY <1>1, <1>2, <1>4
<1> QED
  BY <1>5, <1>6, <1>7 DEF Encodes, t, bits

(* A kick leaves what the other dimensions were given.                     *)
LEMMA TwiddledLeaves ==
  ASSUME "KR" \in Registers, NEW k \in [KickFields -> SUBSET Nat],
         NEW d \in Dims, NEW dist \in Int,
         NEW e \in Dims, e # d, NEW far \in Int, Encodes(k, e, far)
  PROVE  Encodes(Twiddled(k, d, dist), e, far)
<1> DEFINE t == Twiddled(k, d, dist)
           bits == BitsOf(dist % 2^len[d], len[d])
<1>1. /\ d \in Nat /\ e \in Nat /\ pos[d] \in Nat /\ len[d] \in Nat
      /\ \A b \in 0 .. len[d] - 1 : pos[d] + b \in Along(d)
      /\ \A b \in 0 .. len[e] - 1 : pos[e] + b \in Along(e)
      /\ Along(d) \cap Along(e) = {}
  BY DimFacts
<1>2. bits \subseteq 0 .. len[d] - 1
  BY DEF BitsOf
<1>3. "KA" \in KickFields
  BY DEF KickFields
<1>4. t["KA"] = (k["KA"] \ Along(d)) \cup {pos[d] + b : b \in bits}
  BY <1>3 DEF Twiddled
<1>5. ASSUME NEW f \in KickFields \ {"KA"}, f # SignField(d), f # WholeField(d) PROVE t[f] = k[f]
  BY <1>5 DEF Twiddled
<1>6. ASSUME SignField(e) # None PROVE t[SignField(e)] = k[SignField(e)]
  <2>1. /\ SignField(e) \in KickFields \ {"KA"}
        /\ SignField(e) # SignField(d) /\ SignField(e) # WholeField(d)
    BY <1>1, <1>6, OwnFields
  <2> QED
    BY <2>1, <1>5
<1>7. ASSUME WholeField(e) # None PROVE t[WholeField(e)] = k[WholeField(e)]
  <2>1. /\ WholeField(e) \in KickFields \ {"KA"}
        /\ WholeField(e) # WholeField(d) /\ WholeField(e) # SignField(d)
    BY <1>1, <1>7, OwnFields
  <2> QED
    BY <2>1, <1>5
<1> HIDE DEF t, bits
<1>8. \A a \in Along(e) : a \in t["KA"] <=> a \in k["KA"]
  BY <1>1, <1>2, <1>4
<1> QED
  BY <1>1, <1>6, <1>7, <1>8 DEF Encodes, t

(* No kick has been given: every dimension is asked to stay.               *)
LEMMA NoKickEncodes ==
  ASSUME "KR" \in Registers, NEW p \in Planes, NEW d \in Dims
  PROVE  Encodes(NoKick[p], d, 0)
<1>1. d \in Nat /\ 2^len[d] \in Nat \ {0}
  BY DimFacts
<1>2. 0 % 2^len[d] = 0 /\ 0 # 2^len[d]
  BY <1>1
<1>3. \A f \in KickFields : NoKick[p][f] = {}
  BY DEF NoKick
<1>4. Flag(0 < 0) = {} /\ Flag(0 = 2^len[d]) = {}
  BY <1>2 DEF Flag
<1>5. "KA" \in KickFields
  BY DEF KickFields
<1>6. BitsOf(0 % 2^len[d], len[d]) = {}
  BY <1>2, NoBits
<1> QED
  BY <1>1, <1>3, <1>4, <1>5, <1>6, OwnFields DEF Encodes

(* The machine reads from a kick what it encodes.                          *)
LEMMA DistanceRead ==
  ASSUME "KR" \in Registers, NEW instr, NEW k \in [KickFields -> SUBSET Nat],
         NEW p \in Planes, NEW d \in Dims, NEW asked \in Int,
         \A f \in KickFields : Unpacked(instr.data, f)[p] = k[f],
         Encodes(k, d, asked)
  PROVE  IF d <= 2 /\ glue[d] /\ asked \in -(2^len[d]) .. 2^len[d]
         THEN Distance(instr, p, d) = asked
         ELSE Distance(instr, p, d) % 2^len[d] = asked % 2^len[d]
<1> DEFINE size == 2^len[d]
           ka == Unpacked(instr.data, "KA")[p]
           Ones(f) == IF f # None /\ Unpacked(instr.data, f)[p] # {} THEN 1 ELSE 0
           N == CHOOSE n \in 0 .. 2^len[d] - 1 :
                  BitsOf(n, len[d]) = {b \in 0 .. len[d] - 1 : pos[d] + b \in ka}
           whole == Ones(WholeField(d))
           sign == Ones(SignField(d))
           far == asked % size
           dist == Distance(instr, p, d)
<1>1. d \in Nat /\ len[d] \in Nat /\ size \in Nat \ {0}
  BY DimFacts
<1>2. ka = k["KA"]
  BY DEF KickFields
<1>3. N = far
  <2>1. far \in 0 .. 2^len[d] - 1
    BY <1>1
  <2>2. BitsOf(far, len[d]) = {b \in 0 .. len[d] - 1 : pos[d] + b \in ka}
    <3>1. BitsOf(far, len[d]) \subseteq 0 .. len[d] - 1
      BY DEF BitsOf
    <3>2. \A b \in 0 .. len[d] - 1 : pos[d] + b \in ka <=> b \in BitsOf(far, len[d])
      BY <1>2 DEF Encodes
    <3> QED
      BY <3>1, <3>2
  <2> HIDE DEF ka, far
  <2>3. \A n \in 0 .. 2^len[d] - 1 :
          BitsOf(n, len[d]) = {b \in 0 .. len[d] - 1 : pos[d] + b \in ka} => n = far
    BY <1>1, <2>1, <2>2, BitsOfUnique
  <2> QED
    BY <2>1, <2>2, <2>3
<1>4. dist = N + size * (whole - sign)
  BY DEF Distance
<1>5. whole \in {0, 1} /\ sign \in {0, 1}
  OBVIOUS
<1>6. asked = size * (asked \div size) + far /\ asked \div size \in Int /\ far \in 0 .. size - 1
  <2> HIDE DEF size
  <2> QED
    BY <1>1
<1>7. ASSUME d <= 2, glue[d], asked \in -(2^len[d]) .. 2^len[d] PROVE dist = asked
  <2>1. /\ SignField(d) # None /\ SignField(d) \in KickFields
        /\ WholeField(d) # None /\ WholeField(d) \in KickFields
    BY <1>1, <1>7, OwnFields
  <2>2. sign = IF asked < 0 THEN 1 ELSE 0
    BY <1>7, <2>1 DEF Encodes, Flag
  <2>3. whole = IF asked = size THEN 1 ELSE 0
    BY <1>7, <2>1 DEF Encodes, Flag
  <2>4. asked \in -size .. size
    BY <1>7
  <2> HIDE DEF N, whole, sign, dist, far, size
  <2>5. CASE asked = size
    <3>1. far = 0
      BY <1>1, <2>5 DEF far
    <3> QED
      BY <1>1, <1>3, <1>4, <2>2, <2>3, <2>5, <3>1
  <2>6. CASE 0 <= asked /\ asked < size
    <3>1. far = asked
      BY <1>1, <2>6 DEF far
    <3> QED
      BY <1>1, <1>3, <1>4, <2>2, <2>3, <2>6, <3>1
  <2>7. CASE asked < 0 /\ asked # -size
    <3>1. far = asked + size
      <4>1. asked = size * (-1) + (asked + size) /\ asked + size \in 0 .. size - 1
        BY <1>1, <2>4, <2>7
      <4> QED
        BY <1>1, <4>1 DEF far
    <3> QED
      BY <1>1, <1>3, <1>4, <2>2, <2>3, <2>7, <3>1
  <2>8. CASE asked = -size
    <3>1. far = 0
      <4>1. asked = size * (-1) + 0
        BY <1>1, <2>8
      <4> QED
        BY <1>1, <4>1 DEF far
    <3> QED
      BY <1>1, <1>3, <1>4, <2>2, <2>3, <2>8, <3>1
  <2> QED
    BY <1>1, <2>4, <2>5, <2>6, <2>7, <2>8
<1>8. dist % size = asked % size
  <2> HIDE DEF N, whole, sign, dist, far, size
  <2>1. whole - sign \in Int /\ dist = size * (whole - sign) + far
    BY <1>1, <1>3, <1>4, <1>5, <1>6
  <2>2. dist % size = far
    <3> DEFINE c == whole - sign
    <3> HIDE DEF c
    <3>1. c \in Int /\ dist = size * c + far
      BY <2>1 DEF c
    <3> QED
      BY <1>1, <1>6, <3>1
  <2> QED
    BY <2>2 DEF far
<1> QED
  BY <1>7, <1>8
-----------------------------------------------------------------------------
(* Nothing has been asked at the start.                                    *)
LEMMA InitEncoded == Init => EInv
BY DEF Init, EInv, EncodedInv, FinishedInv, OwnerInv, AsksKick

(* An instruction that is begun has not been asked anything.               *)
LEMMA SetupStep ==
  ASSUME EInv, NEW r \in Registers, NEW instr, instr.asked = Unasked, instr.reg = r,
         Setup(r, instr)
  PROVE  EInv'
<1>1. incomp' = instr /\ open' /\ OwnerInv'
  BY DEF Setup, EInv, OwnerInv
<1>2. CASE r # "KR"
  BY <1>1, <1>2 DEF EInv, EncodedInv, FinishedInv, AsksKick
<1>3. CASE r = "KR"
  <2>1. kick' = NoKick
    BY <1>3 DEF Setup
  <2>2. \A p \in Planes, d \in Dims : Unasked[p][d] = 0
    BY DEF Unasked
  <2>3. \A p \in Planes, d \in Dims : Encodes(NoKick[p], d, 0)
    BY <1>3, NoKickEncodes
  <2>4. \A p \in Planes, d \in Dims : Encodes(kick'[p], d, incomp'.asked[p][d])
    BY <1>1, <2>1, <2>2, <2>3
  <2>5. EncodedInv'
    BY <2>4 DEF EncodedInv
  <2> QED
    BY <1>1, <2>5 DEF EInv, FinishedInv, AsksKick
<1> QED
  BY <1>2, <1>3

(* Stores do not touch what a kick was asked or given.                     *)
LEMMA OperandStep ==
  ASSUME EInv, Operand, UNCHANGED kick,
         incomp'.reg = incomp.reg, incomp'.asked = incomp.asked
  PROVE  EInv'
<1>1. OwnerInv'
  BY DEF Operand, EInv, OwnerInv
<1>2. open' /\ (AsksKick' => AsksKick)
  BY DEF Operand, AsksKick
<1>3. EncodedInv'
  BY <1>2 DEF EInv, EncodedInv
<1> QED
  BY <1>1, <1>2, <1>3 DEF EInv, FinishedInv

(* A kick in some planes, along one dimension.                             *)
LEMMA KickStep ==
  ASSUME IInv, EInv, NEW d \in Dims, NEW dist \in Kicks, Kick(d, dist)
  PROVE  EInv'
<1>1. PICK r \in Registers : incomp \in Instruction(r)
  BY DEF Kick, Operand, IInv, InstrInv, Good
<1>2. /\ r = "KR" /\ incomp.reg = "KR" /\ dist \in Int
      /\ incomp.asked \in [Planes -> [Dims -> Int]]
  BY <1>1, AssemblerAssumption DEF Kick, Instruction
<1> DEFINE told == [p \in Planes |->
             IF p \in layer_mask THEN [incomp.asked[p] EXCEPT ![d] = dist] ELSE incomp.asked[p]]
<1>3. incomp'.reg = "KR" /\ incomp'.asked = told
  BY <1>1, <1>2 DEF Kick, Instruction
<1>4. \A p \in Planes :
        kick'[p] = IF p \in layer_mask THEN Twiddled(kick[p], d, dist) ELSE kick[p]
  BY DEF Kick
<1>5. open /\ open' /\ OwnerInv'
  BY DEF Kick, Operand, EInv, OwnerInv
<1>6. \A p \in Planes, e \in Dims : Encodes(kick[p], e, incomp.asked[p][e])
  BY <1>2, <1>5 DEF EInv, EncodedInv, AsksKick
<1>7. ASSUME NEW p \in Planes, NEW e \in Dims PROVE Encodes(kick'[p], e, told[p][e])
  <2>1. kick[p] \in [KickFields -> SUBSET Nat] /\ "KR" \in Registers
    BY <1>1, <1>2 DEF IInv, KickInv
  <2>2. CASE p \notin layer_mask
    BY <1>4, <1>6, <2>2
  <2>3. CASE p \in layer_mask /\ e = d
    <3>1. told[p][e] = dist
      BY <1>2, <2>3
    <3>2. Encodes(Twiddled(kick[p], d, dist), d, dist)
      BY <1>2, <2>1, TwiddledEncodes
    <3> QED
      BY <1>4, <2>3, <3>1, <3>2
  <2>4. CASE p \in layer_mask /\ e # d
    <3>1. told[p][e] = incomp.asked[p][e] /\ incomp.asked[p][e] \in Int
      BY <1>2, <2>4
    <3>2. Encodes(Twiddled(kick[p], d, dist), e, incomp.asked[p][e])
      BY <1>2, <1>6, <2>1, <2>4, <3>1, TwiddledLeaves
    <3> QED
      BY <1>4, <2>4, <3>1, <3>2
  <2> QED
    BY <2>2, <2>3, <2>4
<1> HIDE DEF told
<1>8. EncodedInv'
  BY <1>3, <1>7 DEF EncodedInv
<1> QED
  BY <1>5, <1>8 DEF EInv, FinishedInv

(* A finished instruction holds the kick.                                  *)
LEMMA FinishStep ==
  ASSUME IInv, EInv, Finish PROVE EInv'
<1>1. PICK r \in Registers : incomp \in Instruction(r)
  BY DEF Finish, IInv, InstrInv, Good
<1>2. incomp.reg = r /\ incomp.data \in [Bits(r) -> SUBSET Planes]
  BY <1>1 DEF Instruction
<1>3. incomp'.reg = r /\ incomp'.asked = incomp.asked
  BY <1>1, <1>2 DEF Finish, finish_kick, Instruction
<1>4. EncodedInv'
  BY <1>2, <1>3 DEF Finish, EInv, EncodedInv, AsksKick
<1>5. FinishedInv'
  <2>1. CASE r # "KR"
    BY <1>3, <2>1 DEF FinishedInv, AsksKick
  <2>2. CASE r = "KR"
    <3>1. incomp'.data = Kicked(incomp.data)
      BY <1>1, <1>2, <2>2 DEF Finish, finish_kick, Instruction
    <3>2. \A f \in KickFields : Unpacked(incomp'.data, f) = [p \in Planes |-> kick[p][f]]
      BY <1>2, <2>2, <3>1, KickUnpacked DEF IInv
    <3>3. kick' = kick
      BY DEF Finish
    <3> QED
      BY <3>2, <3>3 DEF FinishedInv
  <2> QED
    BY <2>1, <2>2
<1>6. OwnerInv'
  <2>1. finish_kick.reg = r
    BY <1>3 DEF Finish
  <2> QED
    BY <1>2, <2>1 DEF Finish, EInv, OwnerInv, IInv, DefaultsInv
<1> QED
  BY <1>4, <1>5, <1>6 DEF EInv

(* Every operation keeps kicks encoded.                                    *)
LEMMA EncodedStep ==
  ASSUME IInv, EInv, [Next]_vars PROVE EInv'
<1>1. ASSUME NEW r \in Registers, Begin(r) PROVE EInv'
  <2>1. def(r).reg = r /\ def(r).asked = Unasked
    <3>1. CASE reg_defaults[r] = None
      BY <3>1 DEF def, Blank
    <3>2. CASE reg_defaults[r] # None
      <4>1. Good(reg_defaults[r]) /\ reg_defaults[r].reg = r
        BY <3>2 DEF IInv, DefaultsInv, EInv, OwnerInv
      <4> QED
        BY <3>2, <4>1 DEF def, Good, Instruction
    <3> QED
      BY <3>1, <3>2
  <2> QED
    BY <1>1, <2>1, SetupStep DEF Begin
<1>2. ASSUME NEW r \in Registers, define(r) PROVE EInv'
  BY <1>2, SetupStep DEF define, Blank
<1>3. CASE SetMasks
  BY <1>3 DEF SetMasks, EInv, EncodedInv, FinishedInv, OwnerInv, AsksKick
<1>4. ASSUME Operand, UNCHANGED kick, NEW f, NEW planes, NEW vals,
             incomp' = Stored(f, planes, vals)
      PROVE  EInv'
  <2>1. incomp'.reg = incomp.reg /\ incomp'.asked = incomp.asked
    <3>1. PICK r \in Registers : incomp \in Instruction(r)
      BY <1>4 DEF Operand, IInv, InstrInv, Good
    <3> QED
      BY <1>4, <3>1 DEF Stored, Instruction
  <2> QED
    BY <1>4, <2>1, OperandStep
<1>5. ASSUME NEW f, NEW v, FieldStore(f, v) PROVE EInv'
  BY <1>4, <1>5 DEF FieldStore
<1>6. ASSUME NEW f, NEW vals, FieldStoreEach(f, vals) PROVE EInv'
  BY <1>4, <1>6 DEF FieldStoreEach
<1>7. ASSUME NEW v, RegStore(v) PROVE EInv'
  BY <1>4, <1>7 DEF RegStore
<1>8. ASSUME NEW vals, RegStoreEach(vals) PROVE EInv'
  BY <1>4, <1>8 DEF RegStoreEach
<1>9. ASSUME NEW vals, RegStoreSixteen(vals) PROVE EInv'
  <2>1. incomp'.reg = incomp.reg /\ incomp'.asked = incomp.asked
    <3>1. PICK r \in Registers : incomp \in Instruction(r)
      BY <1>9 DEF RegStoreSixteen, Operand, IInv, InstrInv, Good
    <3> QED
      BY <1>9, <3>1 DEF RegStoreSixteen, Instruction
  <2> QED
    BY <1>9, <2>1, OperandStep DEF RegStoreSixteen
<1>10. ASSUME NEW d \in Dims, NEW dist \in Kicks, Kick(d, dist) PROVE EInv'
  BY <1>10, KickStep
<1>11. CASE Finish
  BY <1>11, FinishStep
<1>12. CASE UNCHANGED vars
  BY <1>12 DEF vars, EInv, EncodedInv, FinishedInv, OwnerInv, AsksKick
<1> QED
  BY <1>1, <1>2, <1>3, <1>5, <1>6, <1>7, <1>8, <1>9, <1>10, <1>11, <1>12 DEF Next

(* What is encoded is what the machine reads.                              *)
LEMMA EncodedHolds == IInv /\ EInv => KickEncoded
<1> SUFFICES ASSUME IInv, EInv, incomp # None, incomp.reg = "KR", ~open,
                    NEW p \in Planes, NEW d \in Dims
             PROVE  LET asked == incomp.asked[p][d]
                    IN  IF d <= 2 /\ glue[d] /\ asked \in -(2^len[d]) .. 2^len[d]
                        THEN Distance(incomp, p, d) = asked
                        ELSE Distance(incomp, p, d) % 2^len[d] = asked % 2^len[d]
  BY DEF KickEncoded
<1>1. PICK r \in Registers : incomp \in Instruction(r)
  BY DEF IInv, InstrInv, Good
<1>2. "KR" \in Registers /\ incomp.asked[p][d] \in Int
  BY <1>1 DEF Instruction
<1>3. kick[p] \in [KickFields -> SUBSET Nat]
  BY DEF IInv, KickInv
<1>4. /\ Encodes(kick[p], d, incomp.asked[p][d])
      /\ \A f \in KickFields : Unpacked(incomp.data, f)[p] = kick[p][f]
  BY DEF EInv, EncodedInv, FinishedInv, AsksKick
<1> QED
  BY <1>2, <1>3, <1>4, DistanceRead

(* A finished kick says in every plane how far it was asked to go in each  *)
(* dimension, for any sector whose dimensions lie in ka one after another, *)
(* any distances, and whatever was stored, defined or asked before.        *)
THEOREM KicksAreEncoded == Spec => []KickEncoded
<1>1. Init => IInv /\ EInv
  BY InitInv, InitEncoded
<1>2. IInv /\ EInv /\ [Next]_vars => IInv' /\ EInv'
  BY StepInv, EncodedStep
<1>3. IInv /\ EInv => KickEncoded
  BY EncodedHolds
<1> QED
  BY <1>1, <1>2, <1>3, PTL DEF Spec
=============================================================================
