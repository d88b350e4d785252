\* Two operands for each instruction: one store over another, a kick after a kick.
SPECIFICATION Spec
CONSTANTS
  Registers <- MCRegisters
  Fields <- MCFields
  BITLEN <- MCLength
  BITOFF <- MCOffset
  Planes <- MCPlanes
  Values <- MCValues
  Arrays <- MCArrays
  Masks <- MCMasks
  len <- MCLen
  pos <- MCPos
  glue <- MCGlue
  Kicks <- MCKicks
  MaxOperands = 2
  None = None
INVARIANT FieldsHold
INVARIANT KickEncoded
CHECK_DEADLOCK FALSE
