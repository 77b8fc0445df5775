\* Two cards that list up to three connectors in any order, QXL outputs counted from Virtual-0
\* or from Virtual-1.
SPECIFICATION Spec
CONSTANTS
  Cards = 2
  MaxNumber = 3
  MaxOutputs = 2
  Namings = {FALSE, TRUE}
INVARIANTS TypeOK RightDevice LookupFinds FallbackCard
CHECK_DEADLOCK FALSE
