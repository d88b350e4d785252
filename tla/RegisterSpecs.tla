--------------------------- MODULE RegisterSpecs ---------------------------
(***************************************************************************)
(* The registers of the CAM-8 and their fields: the macros that name them  *)
(* (Cam8Lib++.XH), the table utils/genhashcode.c keeps by hand, and the    *)
(* calls of add() it prints from both, which are the constructor of        *)
(* Cam8_Reg_Fld_Specs.  Opcodes and flags are left out.                    *)
(***************************************************************************)
LOCAL INSTANCE Integers
LOCAL INSTANCE Sequences
LOCAL INSTANCE TLC

(* The REG_ macros: the registers in the order of their numbers, from 0.   *)
REG == <<
  "MSR", "RMR", "KR", "SABSR", "LASR", "FOSR", "SDSR", "ECSR", "DSR", "SSR",
  "ECR", "LIR", "LIPR", "LIOR", "SIR", "SIPR", "SIOR", "SFR", "OSR", "DR",
  "HER", "MPCR", "GPCR", "MIDR", "GIDR", "IER", "IFR", "VWR", "DOCR">>

SSA == [i \in 0 .. 23 |-> "SSA" \o ToString(i)]

(* The FLD_ macros: the fields of a register, from 1.                      *)
FLD == [r \in {REG[i] : i \in DOMAIN REG} |->
  CASE r = "MSR"  -> <<"GMS", "TA">>
    [] r = "RMR"  -> <<"SSM", "RT", "ECT", "RPK", "ALT">>
    [] r = "KR"   -> <<"KA", "XKS", "YKS", "ZKS", "XKMF", "YKMF", "ZKMF">>
    [] r = "LASR" -> <<"LAS", "LAM">>
    [] r = "FOSR" -> <<"FOS", "FOM">>
    [] r = "SDSR" -> <<"SDS", "SDM">>
    [] r = "ECSR" -> <<"ECS", "ECM">>
    [] r = "DSR"  -> <<"DDS", "DDM">>
    [] r = "SIPR" -> [f \in 1 .. 24 |-> SSA[f - 1]]
    [] r = "SFR"  -> <<"SM", "ESC", "ESW", "EST", "SBRC", "RCL", "ECL", "STM">>
    [] r = "DR"   -> <<"DCM", "XDCP", "YDCP", "ZDCP">>
    [] r = "HER"  -> <<"LPL", "FPL", "DCS", "TBD", "TMS", "NBF", "SRE", "ALS">>
    [] r = "MPCR" -> <<"MAFS", "MBFS">>
    [] r = "GPCR" -> <<"XMPC", "XPPC", "YMPC", "YPPC", "ZMPC", "ZPPC">>
    [] r = "IER"  -> <<"BPIE", "BCIE", "GCIE", "MAIE", "MBIE", "SSIE", "XHIE", "RLIE", "URIE", "ISIE">>
    [] r = "IFR"  -> <<"BPIF", "BCIF", "GCIF", "MAIF", "MBIF", "SSIF", "XHIF", "RLIF", "URIF", "ISIF">>
    [] r = "VWR"  -> <<"VWE", "VWIE", "VWIF">>
    [] r = "DOCR" -> <<"LDOC", "HDOC">>
    [] OTHER      -> <<>>]

(* Five bits of register number, five of field number, 0 for all of it.    *)
RFINDEX(reg, field) == reg + 32 * field
-----------------------------------------------------------------------------
(* The table gs of genhashcode.c: 25 rows of 32 columns, NULL where there  *)
(* is nothing.                                                             *)
NoSpec == [sym |-> "NULL", bitlen |-> 0, bitoff |-> 0, fldcnt |-> 0]

Row(sym, len, off, cnt) == [sym |-> sym, bitlen |-> len, bitoff |-> off, fldcnt |-> cnt]

RegisterRow == <<
  Row("MSR", 3, 0, 2), Row("RMR", 6, 0, 5), Row("KR", 30, 0, 7), Row("SABSR", 5, 0, 0),
  Row("LASR", 6, 0, 2), Row("FOSR", 6, 0, 2), Row("SDSR", 6, 0, 2), Row("ECSR", 6, 0, 2),
  Row("DSR", 6, 0, 2), Row("SSR", 1, 0, 0), Row("ECR", 0, 0, 0), Row("LIR", 16, 0, 0),
  Row("LIPR", 5, 0, 0), Row("LIOR", 0, 0, 0), Row("SIR", 24, 0, 0), Row("SIPR", 120, 0, 24),
  Row("SIOR", 0, 0, 0), Row("SFR", 35, 0, 8), Row("OSR", 24, 0, 0), Row("DR", 38, 0, 4),
  Row("HER", 16, 0, 8), Row("MPCR", 10, 0, 2), Row("GPCR", 18, 0, 6), Row("MIDR", 1, 0, 0),
  Row("GIDR", 1, 0, 0), Row("IER", 10, 0, 10), Row("IFR", 10, 0, 10), Row("VWR", 3, 0, 3),
  Row("DOCR", 16, 0, 2)>>

(* The columns of a row that are used: name, length and offset of a field. *)
FieldRow == <<
  0 :> <<"GMS", 1, 0>> @@ 1 :> <<"SSM", 2, 0>> @@ 2 :> <<"KA", 24, 0>> @@ 4 :> <<"LAS", 2, 0>>
    @@ 5 :> <<"FOS", 2, 0>> @@ 6 :> <<"SDS", 2, 0>> @@ 7 :> <<"ECS", 2, 0>> @@ 8 :> <<"DDS", 2, 0>>
    @@ 17 :> <<"SM", 2, 0>> @@ 19 :> <<"DCM", 23, 0>> @@ 20 :> <<"LPL", 1, 0>> @@ 21 :> <<"MAFS", 5, 0>>
    @@ 22 :> <<"XMPC", 3, 0>> @@ 25 :> <<"BPIE", 1, 0>> @@ 26 :> <<"BPIF", 1, 0>>
    @@ 27 :> <<"VWE", 1, 0>> @@ 28 :> <<"LDOC", 8, 0>>,
  0 :> <<"TA", 2, 1>> @@ 1 :> <<"RT", 1, 2>> @@ 2 :> <<"XKS", 1, 24>> @@ 4 :> <<"LAM", 4, 2>>
    @@ 5 :> <<"FOM", 4, 2>> @@ 6 :> <<"SDM", 4, 2>> @@ 7 :> <<"ECM", 4, 2>> @@ 8 :> <<"DDM", 4, 2>>
    @@ 17 :> <<"ESC", 5, 2>> @@ 19 :> <<"XDCP", 5, 23>> @@ 20 :> <<"FPL", 1, 1>> @@ 21 :> <<"MBFS", 5, 5>>
    @@ 22 :> <<"XPPC", 3, 3>> @@ 25 :> <<"BCIE", 1, 1>> @@ 26 :> <<"BCIF", 1, 1>>
    @@ 27 :> <<"VWIE", 1, 1>> @@ 28 :> <<"HDOC", 8, 8>>,
  1 :> <<"ECT", 1, 3>> @@ 2 :> <<"YKS", 1, 25>> @@ 17 :> <<"ESW", 4, 7>> @@ 19 :> <<"YDCP", 5, 28>>
    @@ 20 :> <<"DCS", 1, 2>> @@ 22 :> <<"YMPC", 3, 6>> @@ 25 :> <<"GCIE", 1, 2>> @@ 26 :> <<"GCIF", 1, 2>>
    @@ 27 :> <<"VWIF", 1, 2>>,
  1 :> <<"RPK", 1, 4>> @@ 2 :> <<"ZKS", 1, 26>> @@ 17 :> <<"EST", 4, 11>> @@ 19 :> <<"ZDCP", 5, 33>>
    @@ 20 :> <<"TBD", 6, 3>> @@ 22 :> <<"YPPC", 3, 9>> @@ 25 :> <<"MAIE", 1, 3>> @@ 26 :> <<"MAIF", 1, 3>>,
  1 :> <<"ALT", 1, 5>> @@ 2 :> <<"XKMF", 1, 27>> @@ 17 :> <<"SBRC", 5, 15>> @@ 20 :> <<"TMS", 4, 9>>
    @@ 22 :> <<"ZMPC", 3, 12>> @@ 25 :> <<"MBIE", 1, 4>> @@ 26 :> <<"MBIF", 1, 4>>,
  2 :> <<"YKMF", 1, 28>> @@ 17 :> <<"RCL", 8, 20>> @@ 20 :> <<"NBF", 1, 13>> @@ 22 :> <<"ZPPC", 3, 15>>
    @@ 25 :> <<"SSIE", 1, 5>> @@ 26 :> <<"SSIF", 1, 5>>,
  2 :> <<"ZKMF", 1, 29>> @@ 17 :> <<"ECL", 5, 28>> @@ 20 :> <<"SRE", 1, 14>>
    @@ 25 :> <<"XHIE", 1, 6>> @@ 26 :> <<"XHIF", 1, 6>>,
  17 :> <<"STM", 2, 33>> @@ 20 :> <<"ALS", 1, 15>> @@ 25 :> <<"RLIE", 1, 7>> @@ 26 :> <<"RLIF", 1, 7>>,
  25 :> <<"URIE", 1, 8>> @@ 26 :> <<"URIF", 1, 8>>,
  25 :> <<"ISIE", 1, 9>> @@ 26 :> <<"ISIF", 1, 9>>>>

(* Column 15 goes on to the last row; from row 11 on it is all there is.   *)
PermutationColumn == [row \in 1 .. 24 |-> <<SSA[row - 1], 5, 5 * (row - 1)>>]

gs == [i \in 0 .. 789 |->
  LET row == i \div 32
      column == i % 32
      Field(f) == Row(f[1], f[2], f[3], 0)
  IN  IF row = 0 THEN IF column < Len(RegisterRow) THEN RegisterRow[column + 1] ELSE NoSpec
      ELSE IF column = 15 THEN Field(PermutationColumn[row])
      ELSE IF row <= Len(FieldRow) /\ column \in DOMAIN FieldRow[row] THEN Field(FieldRow[row][column])
      ELSE NoSpec]
-----------------------------------------------------------------------------
(* What main() of genhashcode.c prints, in order: a macro and the entry of *)
(* gs at its index.                                                        *)
Number(r) == (CHOOSE i \in DOMAIN REG : REG[i] = r) - 1

Printed(macro, reg, field) ==
  [macro |-> macro, index |-> RFINDEX(reg, field), spec |-> gs[RFINDEX(reg, field)]]

PrintedFields(r) == [f \in 1 .. Len(FLD[r]) |-> Printed(FLD[r][f], Number(r), f)]

PrintedRegisters == [i \in DOMAIN REG |-> Printed(REG[i], i - 1, 0)]

PrintedSelection ==
  PrintedFields("MSR") \o PrintedFields("RMR") \o PrintedFields("KR") \o PrintedFields("LASR")
    \o PrintedFields("FOSR") \o PrintedFields("SDSR") \o PrintedFields("ECSR") \o PrintedFields("DSR")

PrintedPermutation == PrintedFields("SIPR")

PrintedScan == PrintedFields("SFR") \o PrintedFields("DR") \o PrintedFields("HER")

PrintedConnections == PrintedFields("MPCR") \o PrintedFields("GPCR")

PrintedInterrupts ==
  PrintedFields("IER") \o PrintedFields("IFR") \o PrintedFields("VWR") \o PrintedFields("DOCR")

AddCalls ==
  PrintedRegisters \o PrintedSelection \o PrintedPermutation \o PrintedScan
    \o PrintedConnections \o PrintedInterrupts

(* The map the constructor leaves: a later add replaces an earlier one.    *)
Register_Specs ==
  [index \in {AddCalls[i].index : i \in DOMAIN AddCalls} |->
     LET Last(i) == /\ AddCalls[i].index = index
                    /\ \A j \in i + 1 .. Len(AddCalls) : AddCalls[j].index # index
     IN  AddCalls[CHOOSE i \in DOMAIN AddCalls : Last(i)].spec]

(* lookup() of a macro; it aborts where there is no entry.                 *)
Lookup(reg, field) == Register_Specs[RFINDEX(reg, field)]
-----------------------------------------------------------------------------
(* The macros and the table are kept by hand in different files: the entry *)
(* at the index of a macro is the one with its name, no entry is left out  *)
(* and none is added twice.                                                *)
ASSUME EveryMacroHasItsEntry ==
  /\ \A i \in DOMAIN AddCalls : AddCalls[i].macro = AddCalls[i].spec.sym
  /\ DOMAIN Register_Specs = {i \in DOMAIN gs : gs[i] # NoSpec}
  /\ Len(AddCalls) = 130

(* The fields of a register lie one after the other, without a gap or an   *)
(* overlap, and fill the register.                                         *)
ASSUME FieldsTile ==
  \A i \in DOMAIN REG :
    LET reg == Lookup(i - 1, 0)
        Start(f) == Lookup(i - 1, f).bitoff
        End(f) == Start(f) + Lookup(i - 1, f).bitlen
    IN  /\ reg.fldcnt = Len(FLD[REG[i]])
        /\ reg.fldcnt > 0 =>
             /\ Start(1) = 0 /\ End(reg.fldcnt) = reg.bitlen
             /\ \A f \in 2 .. reg.fldcnt : Start(f) = End(f - 1)
=============================================================================
