\* Two encoders, one of which makes one codec only; three sizes, two of which
\* are the same when they are made even; four images.
SPECIFICATION FairSpec
CONSTANTS
  h264 = h264
  vp8 = vp8
  x264enc = x264enc
  avenc = avenc
  Codecs = {h264, vp8}
  Default = h264
  Encoders = {x264enc, avenc}
  Makes <- MCMakes
  Sizes = {2, 4, 5}
  None = None
  MaxOpts = 2
  MaxImages = 4
INVARIANTS TypeOK ImageAlive NothingLost
PROPERTIES FrameComes CaptureSpec
CHECK_DEADLOCK FALSE
