\* Bytes of 0 to 2, messages of up to 5 bytes of which 4 are the limit, texts of
\* up to 2; lengths and sides below, at and above their limits.
SPECIFICATION Spec
CONSTANTS
  MaxByte = 2
  SizeT = 16
  Limit = 4
  CodeSize = 1
  MaxText = 2
  Sizeof = 3
  MaxAddress = 2
  MaxSide = 2
  Lengths = {0, 1, 2, 3, 4}
  Sides = {0, 1, 2, 3}
INVARIANTS TypeOK Obeyed HeaderCounts
PROPERTIES InsideArrays TextKept
CHECK_DEADLOCK FALSE
