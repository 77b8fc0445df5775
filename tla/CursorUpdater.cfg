\* Three cursors, the third too big; three events waiting, one reconnection.
SPECIFICATION FairSpec
CONSTANTS
  Cursors = {1, 2, 3}
  TooBig = {3}
  MaxEvents = 3
  MaxOpens = 1
INVARIANTS TypeOK UpToDate NoRepeat
PROPERTY CursorArrives
