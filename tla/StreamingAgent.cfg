\* Two codecs, two screen sizes, two waiting commands, one reconnection.
SPECIFICATION FairSpec
CONSTANTS
  Codecs = {mjpeg, h264}
  Offered = {mjpeg, h264}
  ScreenSizes = {small, large}
  None = None
  MaxInbox = 2
  MaxOpens = 1
INVARIANTS TypeOK FramesDecodable CommandLatency QuitLatency
PROPERTIES StopEndsCapture QuitEnds
CHECK_DEADLOCK FALSE
