---------------------------- MODULE MCAssembler ----------------------------
(***************************************************************************)
(* Instructions that select modules, whose two fields share a word of the  *)
(* layout with nothing between them, and kicks in two dimensions of two    *)
(* sites, the first of them glued, as the register table lays them out.    *)
(***************************************************************************)
EXTENDS RegisterSpecs, Assembler, Sequences, TLC

MCRegisters == {"MSR", "KR"}

MCFields ==
  "MSR" :> {"GMS", "TA"} @@ "KR" :> {"KA", "XKS", "YKS", "ZKS", "XKMF", "YKMF", "ZKMF"}

MCLength ==
  "MSR" :> 3 @@ "GMS" :> 1 @@ "TA" :> 2 @@ "KR" :> 30 @@ "KA" :> 24 @@ "XKS" :> 1
    @@ "YKS" :> 1 @@ "ZKS" :> 1 @@ "XKMF" :> 1 @@ "YKMF" :> 1 @@ "ZKMF" :> 1

MCOffset ==
  "MSR" :> 0 @@ "GMS" :> 0 @@ "TA" :> 1 @@ "KR" :> 0 @@ "KA" :> 0 @@ "XKS" :> 24
    @@ "YKS" :> 25 @@ "ZKS" :> 26 @@ "XKMF" :> 27 @@ "YKMF" :> 28 @@ "ZKMF" :> 29

(* They are what the register table says.                                  *)
ASSUME LaidOutByTheTable ==
  /\ \A r \in MCRegisters : MCFields[r] = {FLD[r][i] : i \in DOMAIN FLD[r]}
  /\ \A i \in DOMAIN AddCalls :
       LET call == AddCalls[i]
           spec == Register_Specs[call.index]
       IN  call.macro \in DOMAIN MCLength =>
             /\ MCLength[call.macro] = spec.bitlen
             /\ MCOffset[call.macro] = spec.bitoff

MCPlanes == 0 .. 1
MCMasks == {{0}}
MCValues == {{}, {0, 2}}
MCArrays == {[p \in MCPlanes |-> IF p = q THEN {0, 2} ELSE {}] : q \in MCPlanes}

MCLen == 0 :> 1 @@ 1 :> 1
MCPos == 0 :> 0 @@ 1 :> 1
MCGlue == 0 :> TRUE @@ 1 :> FALSE
MCKicks == {-1, 2, 3}
=============================================================================
