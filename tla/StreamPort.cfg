\* The capture loop and the cursor thread, messages of up to 3 units in a port
\* that holds 2: no send() starts behind the first message that got out whole,
\* but the other thread may be in one.  One reconnection.
SPECIFICATION FairSpec
CONSTANTS
  Threads = {capture, cursor}
  Reader = capture
  NoThread = NoThread
  MaxUnits = 3
  HeaderUnits = 2
  Room = 2
  MaxMsgs = 1
  MaxIn = 1
  MaxOpens = 1
INVARIANTS TypeOK InSync InboundAligned
PROPERTIES ChannelSpec LockReleased
CHECK_DEADLOCK FALSE
