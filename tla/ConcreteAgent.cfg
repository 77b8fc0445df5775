\* Two libraries, two codecs, one rank of each kind: never, fallback, software.
\* Versions 1.0, 1.2 and 2.1 against the agent's 1.1.
SPECIFICATION Spec
CONSTANTS
  Libraries = {gst, other}
  Agent = Agent
  Codecs = {mjpeg, h264}
  Mjpeg = mjpeg
  Ranks = {0, 1, 2}
  Versions = {256, 258, 513}
  None = None
INVARIANTS TypeOK BestAvailable NoBailOut CodeStays
CHECK_DEADLOCK FALSE
