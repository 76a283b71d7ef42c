SPECIFICATION Spec
CONSTANTS
  ByteBits <- MCByteBits
  ShortBits <- MCShortBits
  LongBits <- MCLongBits
  HdrLen <- MCHdrLen
  Keys = {"right"}
  Archives <- MCTransient
  MaxRead = 3
  MaxFaults = 1
INVARIANTS
  EndIsEnd
CHECK_DEADLOCK FALSE
