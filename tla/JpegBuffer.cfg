\* A smallest buffer of 2 bytes and images of up to 20: three growths.
SPECIFICATION BufferSpec
CONSTANTS
  MinSize = 2
  Excess = 3
  MaxBytes = 20
INVARIANTS BufferTypeOK InBounds Complete
