\* Rates that divide a second, that do not, one, none and too many; up to
\* two options; a clock of two and a half seconds.
SPECIFICATION Spec
CONSTANTS
  Second = 12
  Sizes = {1, 2}
  Values = {0, 1, 5, 13}
  Invalid = Invalid
  MaxOpts = 2
  MaxClock = 30
INVARIANTS TypeOK WaitBelowSecond RateBound
PROPERTY CaptureSpec
CHECK_DEADLOCK FALSE
