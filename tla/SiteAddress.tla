---------------------------- MODULE SiteAddress ----------------------------
(***************************************************************************)
(* The address arithmetic of Cam8InterpModule.  A plane holds one bit of   *)
(* every site; a site address has one field of bits per dimension of the   *)
(* space, and the dimension cut mask (DCM) has a one at the top bit of each*)
(* field.  Sums and differences must not carry from one field into the     *)
(* next.                                                                   *)
(*                                                                         *)
(* A register is the set of the positions of its one bits, so that the     *)
(* code's & | ^ ~ are set operators; Num and Bits convert to numbers where *)
(* the code adds and subtracts.                                            *)
(***************************************************************************)
EXTENDS Integers, FiniteSetsExt

CONSTANT AddrBits   (* the bits of a site address, SCAN_INDEX_LENGTH       *)

ASSUME AddrBitsAssumption == AddrBits \in Nat \ {0}

Bit == 0..AddrBits - 1

Num(S) == MapThenSumSet(LAMBDA b : 2^b, S)
Bits(n) == {b \in Bit : (n \div 2^b) % 2 = 1}

Xor(S, T) == (S \cup T) \ (S \cap T)

(* A mask that cuts a plane's addresses: its last field ends at the top.   *)
IsCut(dcm) == dcm \subseteq Bit /\ AddrBits - 1 \in dcm
-----------------------------------------------------------------------------
(* Faulty: the top bits are added with the others.                         *)
AddWithCarry(a, b, dcm) == Bits(Num(a) + Num(b))

(* Adds two addresses, breaking the carries at dcm.                        *)
AddSiteAddress(a, b, dcm) ==
  Xor(Bits(Num(a \ dcm) + Num(b \ dcm)), Xor(a \cap dcm, b \cap dcm))

(* Faulty: the kick's sign bits are not inverted.                          *)
KickWithoutInverse(osr, ka, dcm) ==
  Xor(Bits(Num(osr \cup dcm) - Num(ka \ dcm)), Xor(osr \cap dcm, ka \cap dcm))

(* Subtracts the kick from the offset: the top bit of every field is set   *)
(* first, so that nothing is borrowed from the next field.                 *)
DoKick(osr, ka, dcm) ==
  Xor(Bits(Num(osr \cup dcm) - Num(ka \ dcm)), Xor(osr \cap dcm, dcm \ ka))

(* lNumXBits: one more than the position of the lowest one in the mask.    *)
DCMRLowBit(dcm) == IF dcm = {} THEN 1 ELSE Min(dcm) + 1
-----------------------------------------------------------------------------
(* What the arithmetic is for: every field is a number of its own, modulo  *)
(* its size.  The field that ends at bit c, with its place value.          *)
Field(dcm, c) == {b \in Bit : b <= c /\ \A d \in dcm : d < c => d < b}

FieldAdd(a, b, dcm) ==
  UNION {Bits((Num(a \cap Field(dcm, c)) + Num(b \cap Field(dcm, c))) % 2^(c + 1)) : c \in dcm}

FieldSub(a, b, dcm) ==
  UNION {Bits((Num(a \cap Field(dcm, c)) - Num(b \cap Field(dcm, c))) % 2^(c + 1)) : c \in dcm}
=============================================================================
