\* The fallback, with cards that list no outputs.
SPECIFICATION Spec
CONSTANTS
  Cards = 2
  MaxNumber = 3
  MaxOutputs = 2
  Namings = {FALSE}
INVARIANT FallbackAnswers
CHECK_DEADLOCK FALSE
