\* A QXL card whose outputs are counted from Virtual-0.
SPECIFICATION Spec
CONSTANTS
  Cards = 2
  MaxNumber = 3
  MaxOutputs = 2
  Namings = {TRUE}
INVARIANT NamesKept
CHECK_DEADLOCK FALSE
