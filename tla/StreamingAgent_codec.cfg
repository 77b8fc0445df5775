\* The codec of the frames against the codecs the client last named.
SPECIFICATION Spec
CONSTANTS
  Codecs = {mjpeg, h264}
  Offered = {mjpeg, h264}
  ScreenSizes = {small, large}
  None = None
  MaxInbox = 2
  MaxOpens = 1
INVARIANT CodecSupported
CHECK_DEADLOCK FALSE
