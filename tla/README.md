# TLA+ models of the SPICE streaming agent

The agent runs in a guest.  It captures the screen, encodes it with a plugin, and
sends the frames, and the cursor, over a virtio-serial port to the host; the host
answers with commands that start and stop streaming.  These modules model the
agent's own logic: the port and its lock, the capture loop and its commands, the
cursor thread, the messages both ways, the plugin registry, the match of X outputs
with devices, the built-in capture with its JPEG buffer, and the GStreamer plugin.  TLC
checks them on small instances, and TLAPS proves every safety property of all of them
for every instance, that both captures implement one abstract capture, and that the
models of the two threads hold in the process that has both.

All paths below are relative to the repository; `stream-port.cpp` is
`src/stream-port.cpp`, and so on.

## 1. Inventory

| Component | Source | State | Operations | Module |
|---|---|---|---|---|
| StreamPort | `stream-port.cpp/.hpp` | the descriptor, the mutex | `send`, `receive`, and in them `write_all`, `read_all` | `StreamPort`, promise in `MessageChannel` |
| Capture loop and commands | `spice-streaming-agent.cpp` | `streaming_requested`, `quit_requested`, `client_codecs`, the capture in use | `do_capture`, `read_command`, `read_command_from_device`, the signal handler, `main`'s catch | `StreamingAgent` |
| CursorUpdater | `cursor-updater.cpp` | `last_serial` | the endless loop of the cursor thread | `CursorUpdater` |
| ConcreteAgent | `concrete-agent.cpp`, `plugin.hpp` | the registered plugins | `LoadPlugins`, `LoadPlugin`, `Register`, `GetBestFrameCapture` | `ConcreteAgent` |
| DisplayInfo | `x11-display-info.cpp`, `display-info.cpp` | local lists | `get_device_display_info_drm`, `..._no_drm`, `get_device_address` | `DisplayInfo` |
| MjpegFrameCapture | `mjpeg-fallback.cpp` | settings, `last_time`, `last_width`, `last_height`, `frame` | `ParseOptions`, `Register`, `CaptureFrame` | `MjpegFrameCapture`, promise in `FrameCapture` |
| JpegBuffer | `jpeg.cpp` | the vector, libjpeg's pointer and count | constructor, `buf_empty_output_buffer`, destructor | `JpegBuffer` |
| GStreamerFrameCapture | `gst-plugin.cpp` | settings, the pipeline, the image and the sample in hand, `last_width`, `is_first` | `ParseOptions`, `pipeline_init`, `CaptureFrame`, `xlib_capture`, `free_sample`, destructor | `GstreamerCapture`, promise in `FrameCapture` |
| Messages | `stream-port.cpp:25-117`, `spice-streaming-agent.cpp:44-179`, `cursor-updater.cpp:30-68` | `streaming_requested`, `client_codecs`, the message in hand | `get_payload`, `read_command_from_device`, `size()` and `write_message_body` of each class | `Messages` |
| Command line, logs, hexdump, errors | `spice-streaming-agent.cpp:326-400`, `frame-log.cpp`, `hexdump.c`, `utils.cpp` | none that matters later | formatting, files | not modelled |

How they interact:

- `main` loads the plugins, opens the port, starts the cursor thread (detached) and
  runs `do_capture`.  The two threads share nothing but the `StreamPort` (module `Agent`).
- `do_capture` waits for a command, asks `ConcreteAgent` for the capture of the best
  plugin, asks that capture for the devices of the display (`DisplayInfo`), and then
  sends frames, with a Format in front of a frame that starts a stream; between two
  frames it reads one command at most.
- A signal handler sets `quit_requested`, in the middle of anything.
- The built-in capture paces itself, makes two requests to the X server and
  compresses the image into a vector it uses again (`JpegBuffer`).
- The GStreamer capture pushes the memory of an X image into a pipeline, whose threads
  encode it, and waits for the sample; the next call frees both.
- What `receive` returns is bytes; `get_payload` makes commands of them.  What `send`
  writes begins with a header that says how many bytes follow, computed apart from
  the writing of those bytes.
- The host may read slowly or not at all, close and open its end of the port at any
  moment, and send any command at any moment.

What is hard, and what must hold nevertheless:

- *StreamPort.*  Messages of two threads in one byte stream; partial writes; `poll()`
  without a timeout under the lock; failures and reconnections in the middle of a
  message.  The host must find each header where it expects one, `send` must be all
  or nothing, and the lock must be released.
- *Capture loop.*  Commands, signals, resizes and failed sends meet at any point.  A
  frame must match the Format the host got last, a STOP must end the capture, a
  signal the agent, and neither may wait behind frames.
- *CursorUpdater.*  The event and the image are two requests; sends fail.  The host
  must end up with the cursor on the screen.
- *ConcreteAgent.*  Plugins fail by null or by exception, and change their rank.  The
  best one that works must be taken, whatever went wrong with the others.
- *DisplayInfo.*  Names from DRM and from X differ by the driver.  An output must be
  given the connector it means, or none.
- *MjpegFrameCapture and JpegBuffer.*  Unsigned arithmetic on times; a screen that
  changes between two requests; a buffer that grows while libjpeg writes into it.
- *GStreamerFrameCapture.*  A pipeline that encodes while the caller waits, shares the
  image's memory with it and is restarted when the screen is resized.  A frame must be
  that of its own image and of the size it announces, no image may be freed that is
  still read, and the pull without a timeout must return.
- *Messages.*  Lengths from the other side: unsigned differences, arrays of their own
  length, texts without an end.  A command must be obeyed as it was meant or refused,
  and a header must count what is written behind it.

`PROJECT.json` lists each of these hazards at its line.

## 2. The modules

Each module says in its head comment what its state is; its actions have the names of
the functions or of the steps in them.  Variables marked *external* are the kernel, the
X server, the host or the plugins; those marked *history* only serve the properties.
Definitions whose comment starts with *Mutant* belong to no behaviour: each is a
plausible bug in the action that follows it, and shows that a property notices it.

**MessageChannel** is what the callers of `send` rely on: a message enters the stream
whole, at the step at which `send` ends, exactly once, or `send` raises and nothing
enters.  Only a stream that was torn may lose messages.

**StreamPort** has one step per system call.  A message is a few units, the first of
them its header, and a `write()` of several units is several steps; `WriteWouldBlock`,
`PollOut`, `PollOutInterrupted`, `PollOutHup`, `WriteFails` are the branches of
`write_all`, and likewise for `read_all`, which `receive` calls for the header and for the
payload: the inbound header is `HeaderUnits` units, so that half of it may be there and
the rest not.  `SendLock` and `SendUnlock` are the
`lock_guard`.  The host's side of the stream is explicit (`cur`, `expect`): it is
*lost* when a header comes where it expects a payload or the other way round.  When
the host has gone, `poll()` may report POLLHUP alone or with POLLIN: `ReadFails` and
`ReadClosed` cover what follows.

**StreamingAgent** has whole messages, with the outcomes MessageChannel gives them
(delivered, raised, lost in a torn stream).  A step of the main thread reads a shared
variable, makes a system call or calls a plugin, and signals, resizes and the host act
in between.  A signal interrupts a `poll()` only if the main thread takes it: the
cursor thread may take it instead.  Only SIGINT has the handler, for `register_interrupts`
joins its two `sigaction` calls with `&&`; SIGTERM ends the process.

**CursorUpdater** has the thread's loop, with the X server in front of it and the same
send outcomes behind.  A frame that fails in its middle tears the stream for the
cursors, too (`AgentTears`), as a cursor does for the frames (`CursorTears` of
StreamingAgent).

**Agent** puts StreamingAgent and CursorUpdater (INSTANCE) into one process.  They share
the state of the port and of its other end (`link`, `torn`, `opens`), the host closes and
opens it for both, and the cursor thread lasts as long as the process.  There is no run
of it: the proofs show that each thread does there what its own module says.

**ConcreteAgent** has the loading of libraries, which may refuse to open, have any
version, register plugins and then fail or raise, and the call of
`GetBestFrameCapture`: ranks asked once per call, a sorted list, and one plugin after
the other.  The list of plugins is a set, because it is sorted by rank before each use;
the order of equal ranks is open.

**DisplayInfo** has the list of outputs from DRM, the descending sort, the loop that
renames QXL outputs, the map and the lookup of X's outputs, and the fallback's search
in `/sys/class/drm`.  A name is a prefix and a last digit, as the code assumes; DRM
counts the connectors of a kind over all cards.  A QXL card's outputs are called Virtual,
those of any other card Virtual (a virtio-gpu) or HDMI; a QXL card's connectors are taken to
be the first of their kind, and one QXL card at most lists outputs, the code supports no
more.  No two names are equal before the
renaming, so that the sorted list is given by how many names are greater (`Rank`).

**FrameCapture** is what `do_capture` relies on when it uses a capture of any plugin: a
call of `CaptureFrame` gives one image, which has the size it says and starts a stream
exactly if this capture did not give that size before, or the capture is never called
again; and the caller's frame is valid until the next call.  Time, the X server and the
encoder are left out.

**MjpegFrameCapture** has the options, the pacing with a clock, and the two requests
that make a frame.  The division by a frame rate of 0 leads to the state `undefined`,
of which nothing is promised, and an X error to `exit`.

**JpegBuffer** has the vector, its capacity, and libjpeg's two numbers.

**GstreamerCapture** has the options, the choice of the encoder, and one step for each
call in `CaptureFrame` that can fail or during which something else can happen.  The
pipeline is the queue of `appsrc`, the image in the encoder and the one sample
`appsink` holds, with a thread of its own; an encoder makes *one* sample of each image,
*skips* images or *splits* them, and the code is written for the first kind.  Images are
numbered, so that a property can say which image a sample comes from; `image` is the
one whose memory exists.  `MCGstreamer` gives the two encoders their codecs.

**Messages** has the commands byte by byte, with what the host meant by them as history:
a message may announce, and hold, less or more than was meant.  `At(i)` is a byte of
the received array, or any byte behind its end.  For the agent's messages it has the size
in the header and the bytes written, each from its own function.  StreamPort takes it
for granted that a header counts its message; `HeaderCounts` says so.

The models compose by their interfaces: StreamPort implements MessageChannel (checked
and proved), and StreamingAgent and CursorUpdater use the outcomes of MessageChannel.
The three outcomes are restated there as `Delivered`, `Raises` and `Vanishes`.
Messages stands between StreamPort, whose units it gives a length, and StreamingAgent,
whose commands it decodes: what is `MALFORMED` there raises here.  Agent composes
StreamingAgent and CursorUpdater.  MjpegFrameCapture and GstreamerCapture are two of the
plugins whose captures ConcreteAgent chooses from, and both implement FrameCapture
(checked and proved), the promise from which StreamingAgent takes its `CaptureFrame`.

## 3. The runs

| Run | Shows | Bounds |
|---|---|---|
| `port` | `InSync`, `InboundAligned`, `ChannelSpec` (the refinement), `LockReleased` | 2 threads, messages of up to 3 units, a port of 2, no send behind the first whole message but the other thread may be in one, an inbound header of 2 units and payloads of up to 3, 1 inbound unit waiting, 1 reconnection |
| `agent` | `FramesDecodable`, `CommandLatency`, `QuitLatency`, `StopEndsCapture`, `QuitEnds` | 2 codecs, 2 screen sizes, 2 commands waiting, 1 reconnection |
| `agent_codec` | finding: `CodecSupported` is violated | as `agent` |
| `cursor` | `UpToDate`, `NoRepeat`, `CursorArrives` | 3 cursors, one too big, 3 events waiting, 1 reconnection |
| `plugins` | `BestAvailable`, `NoBailOut`, `CodeStays` | 2 libraries, 2 codecs, 3 ranks, 3 versions |
| `display` | `RightDevice`, `LookupFinds`, `FallbackCard` | 2 cards of 3 kinds (QXL, virtio-gpu, HDMI), connectors numbered up to 3 in any order, QXL outputs counted from Virtual-0 or Virtual-1, 2 X outputs |
| `display_virtual0` | finding: `NamesKept` is violated | outputs counted from Virtual-0 |
| `display_fallback` | finding: `FallbackAnswers` is violated, in a working directory other than `/sys/class/drm` | outputs counted from Virtual-1 |
| `mjpeg` | `WaitBelowSecond`, `RateBound`, `CaptureSpec` (the refinement of FrameCapture) | a second of 12 units, 2.5 seconds, 2 options, rates 0, 1, 5, 10, 13 |
| `jpeg` | `InBounds`, `Complete` | 2 bytes at first, images of up to 20, repeated |
| `gst` | `CaptureSpec` (the refinement of FrameCapture), `ImageAlive`, `NothingLost`, `FrameComes` | 2 encoders and codecs, 2 options, 3 screen sizes of which 2 are the same when made even, 4 images |
| `messages` | `Obeyed`, `InsideArrays`, `TextKept`, `HeaderCounts` | bytes of 0 to 2, messages of up to 5 bytes with a limit of 4, texts of 2, `size_t` modulo 16; lengths around every limit |

Each passing run checks its module's `TypeOK` (`BufferTypeOK` in JpegBuffer), too.

Why the bounds are enough.  Two threads, since the agent has two.  Messages of three
units in a port of two make a message block in its middle, fail in its middle, and be
interrupted between any two of its writes; what a message meets depends on what the one
before it left in the port and in `torn`, not on how many came before, and with two
threads a second message follows the first.  Two units of header give a reader that has
half of one.  A second reconnection meets the same
states as the first.  Two waiting commands give every order of a STOP and a START; two
sizes and two codecs give every change of them.  Three cursors give a return to an old serial
with another one in between.  Two cards with three connectors give the orders in which
a position differs from a number.  Rates that divide a second, do not, equal one, are
zero and exceed the unit give every branch of the pacing.  An image of 20 bytes makes a
buffer of two grow three times, and the next image starts in what the last one left.
Four images give a frame before a resize, one after it and one more of each size.  A
count of codecs is below, at and above what a message of 0 to 5 bytes has room for, and a
text below, at and above its limit.

`CHECK_DEADLOCK FALSE` stands in the configurations of systems that do stop: the agent
ends (StreamPort, StreamingAgent, ConcreteAgent, GstreamerCapture, Messages: an
exception reaches `main`, or a signal), a function returns (DisplayInfo), or the model's
clock, image or message bound is used up (MjpegFrameCapture, GstreamerCapture,
StreamPort).  The cursor thread and JpegBuffer never stop,
and TLC checks that.

### Fairness

- *StreamPort* (`port`): a thread inside `send` or `receive` takes its next step
  when it can; nothing is assumed of threads that wait for the mutex.  The host reads
  what is in the port and finishes a message it has begun; nothing makes it begin one,
  open or close.  If the host need not read, `LockReleased` fails, as it should: `send`
  has no timeout.
- *StreamingAgent* (`agent`): the main thread runs, and a send ends, which is what
  `LockReleased` says.  Frames do not fail for ever (strong fairness of a frame that
  gets out): between two failed frames the code reads no command, and without this
  assumption a STOP may wait for ever.
- *CursorUpdater* (`cursor`): the thread runs.  Nothing is assumed of X or of the host.
- *GstreamerCapture* (`gst`): the pipeline's thread runs, and so does the caller when
  there is something to pull.  Nothing is assumed of the encoder: one that skips an image
  leaves `gst_app_sink_pull_sample` waiting, which `FrameComes` names.

The exceptions in the liveness properties are behaviours of the code.  `Stuck` and
`Stranded`: the host has closed in the middle of a command and opened again, and
`receive` waits for the rest of it, with the lock held.  `Parked`: the signal came
between the test of `quit_requested` and `poll()`, or in the cursor thread, and the
agent waits until the host sends something.  `manner`: `skips` is an encoder that makes
no sample of an image, and `splits` one that makes several: `appsink` drops some of them,
and the image may be freed while the encoder still reads it.

Hazards that such an exception takes out of a property have a note in `PROJECT.json`
instead.  One exception of Messages is arithmetic: `junk`, a START_STOP without a payload.
`header.size - 1` wraps, the count is read behind an array of length zero, and the agent
obeys what it finds there.  Every other message is obeyed as meant or raises.

### Findings

1. `agent_codec`: a START that names other codecs while a capture runs changes
   `client_codecs` and nothing else, and frames go on in a codec the client no longer
   names, while `NEWS:11` says "Do not use an encoding not supported by the client".
2. `display_virtual0`: the outputs are sorted by descending name, so that with two or
   more QXL outputs Virtual-1 is renamed before Virtual-0 is met and stops the loop.  X's
   Virtual-1 then is not found, or found as another connector, contrary to the comment
   at `x11-display-info.cpp:232`.  Where the code is right is proved: `AnswersRight` and
   `AllOutputsFound`, under the condition `OneBase`.
3. `display_fallback`: the fallback keeps the card's name without its directory, and
   `realpath` resolves it against the working directory; outside `/sys/class/drm` it fails
   although the first card without outputs is on a PCI bus, contrary to
   `x11-display-info.hpp:30-34`.  `FallbackAnswers` asks nothing where there is no such card,
   or the first one is not on a PCI bus, and speaks of no second one.  That the bare name is
   all that is wrong is proved: `AnswersInSysDrm`, of an agent that runs in that directory.

## 4. The proofs

Each `...Proofs` module extends its component's module.  The only assumptions are the named
ones about constants (`PortAssumption`, `AgentAssumption`, `CursorAssumption`,
`PluginAssumption`, `NoneAssumption`, `CaptureAssumption`, `BufferAssumption`,
`GstAssumption`, `MessagesAssumption`, `DisplayAssumption`); they say that bounds are
natural numbers, that markers such as `NoThread` are not what they mark, and that sets are
not empty where the code has an element.  TLC evaluates each in a run.

- **StreamPortProofs**: `TypeCorrect`, `Invariance`, `StreamInSync`, `ChannelRefinement`,
  `InboundInStep`, for any number of threads, any message length and port size.  `InSync` is
  not inductive: it does not say why no other thread writes now, nor what the host expects.
  `Inv` adds *Ownership* (a thread between lock and unlock is the mutex's holder, hence the
  only one), *Progress* (no `write_all` runs with nothing left) and *Agreement* (the host
  expects exactly what the thread in the middle of a message has left).  With them each
  write is in place, and the step in which the last unit is written is the abstract
  `Deliver`, every other step of a send a stutter.  `InboundAligned` needs to know how the
  waiting units follow from each other: *Aligned* says that some function gives before each
  unit how many of a message are due, starting with what `read_all` wants and ending with
  what the host owes; reading takes its head off, the host adds to its end. So a reader that
  waits for units nobody sends is one whose command the host broke off (`NotStranded`), in
  its header or in its payload.  `HolderGoesOn` proves `NeverWedged`, what `LockReleased`
  needs besides fairness: whoever has the mutex can take a step, or waits in `poll()` for a
  host that can take one, or is stranded.  For this *HeaderWaits*: `recv.lock` is entered
  after `poll()` saw the first unit of a header, and since only one thread reads, it is
  still there when the mutex is free.
- **StreamingAgentProofs**: `AgentTypes`, `HostDecodes`, `CommandsWaitForOneFrame`,
  `SignalsWaitForOneFrame`.  `FramesDecodable` speaks of one place in the loop only; the
  invariant says everywhere what a capture's remembered size stands for: *Captures* (a
  capture exists from its creation to the end of the inner loop, and without one nothing
  is remembered) and *Told* (a host that stayed was told that size and that codec, except
  between a frame that starts a stream and its Format).  *Lag* and *Farewell* say where
  the loop can be after a frame was sent past a command or a signal.
  `MainThread` and `CursorThread` are about Agent: the process implements StreamingAgent
  and it implements CursorUpdater.  All that a step of one thread does to what the other
  one sees is to tear the stream (*Tears*), which is an action of the other's environment.
  `BothThreads` carries the safety of the main thread over; that of the cursor thread
  follows in the same way from `CursorThread`, but the prover does not take a theorem
  through INSTANCE.
- **CursorUpdaterProofs**: `CursorTypes`, `HostUpToDate`, `NothingRepeated`.  The invariant
  says what `last_serial` stands for, which is set before the send: outside a send, a
  cursor that was delivered or is missed; and that with no notification waiting, the
  thread has dealt with the cursor on the screen or is doing so.
- **ConcreteAgentProofs**: `PluginTypes` (with it, that only accepted versions get into
  the registry), `TakesTheBest`, `TriesAll`, `CodeIsThere`.  The loop's invariant: what it has
  left behind ranks at least as high as what is to come, and was of no use.  *Resident*
  says that without a faulty library the code of every plugin is in memory.
- **DisplayInfoProofs**: `DisplayTypes`, `AnswersRight`, `AllOutputsFound`,
  `FallbackTakesFirst`, `AnswersInSysDrm`, for any cards, any order of connectors and X
  outputs, and both namings.  The sort is a bijection between the outputs and their ranks,
  because names differ and the ranks of a set with n elements are 1 to n.  *Listed* and
  *Renamed*, the invariant of the renaming loop: the list holds every output once, as
  `get_outputs` found it from `i` on and by X's name before `i`, and all of them by X's name
  when the loop has ended; this needs `OneBase`.  Names then still differ (a virtio-gpu's
  Virtual outputs have higher numbers than the QXL card's), so the last output of a name is
  the only one.  Outside `OneBase` the statement fails, which is finding 2.
- **MjpegFrameCaptureProofs**: `CaptureTypes`, `PacedFrames`, `SleepsAreShort`,
  `FramesAreAnnounced`, `MjpegKeepsPromise`, and of JpegBuffer, which this capture uses,
  `BufferTypes`, `ImageComplete`, `WritesInBounds`, `RoomIsMade`.
  The ideal schedule `due` never is ahead of `last_time`, and `last_time` lies in the past
  between two frames; while `nanosleep` runs, `last_time` still is the previous frame's,
  and the schedule is compared with `wake`.  *OnBeat*: `last_time` is the moment the frame
  was to be taken at, not when it was, so that pauses which end late do not add up.  That
  a pause is shorter than a second
  follows, as the comment in the code argues, and is in turn needed for the branch in
  which `nanosleep` would refuse.  A call of `CaptureFrame` is `Begin`, stutters, and
  `Return` of FrameCapture.  For JpegBuffer, completeness between images needs, during
  one, that the offset counts the bytes written; a full buffer always grows.
- **GstreamerCaptureProofs**: `GstTypes`, `GstSizeAnnounced`, `GstImageAlive`,
  `GstNothingLost`, `GstKeepsPromise`, for any encoders and sizes and any number of images.
  *OneSize*: all that is in the pipeline is of the size it was restarted for, whatever the
  encoder does.  *OneImage*: with an encoder that does not split, the pipeline holds one
  thing at most, that thing is the current image, and only while `CaptureFrame` waits for
  it.  *OnItsWay*: while the caller waits and the encoder does not skip, something is on its
  way to it or the stream has ended, which is what `FrameComes` needs besides fairness.
  *Remembered* says what `is_first` and `last_width` stand for.
- **MessagesProofs**: `MessageTypes`, `CommandsObeyed`, `ArraysRespected`, `TextIsKept`,
  `HeadersCount`, for any sizes of bytes, structs, limits and `size_t`.  *Meaning* says
  that the array holds what its sender meant, as far as the header lets it; *Untouched*,
  that nothing was read or written before decoding.  The lemmas say what `Strlen` and
  `Strncpy` return: a text that is filled up with NULs ends where it did.

Only model-checked is liveness, which the prover does not do: `LockReleased`,
`StopEndsCapture`, `QuitEnds`, `CursorArrives`, `FrameComes`.  Of two of them the safety
part is proved: `NeverWedged` and the second conjunct of `NothingLost`.

## 5. Not modelled

- GStreamer, Xlib, libjpeg and the C library: external, modelled as far as the code relies
  on them.  The reference counts of GStreamer's objects are not modelled, and neither is
  the memory lost with them (`CaptureFrame` never releases the `GstBuffer` it makes; this
  is what keeps the image from being freed twice).  A constructor that raises keeps its X
  connection, on which no later step depends.
- The branch of `gst-plugin.cpp` without `XLIB_CAPTURE`: it is not compiled.  `Reset()` is
  empty or has no caller.  The options `gst.prop` and `mjpeg.quality` only reach the
  encoders.
- The command line: `main` reads it once, in order, and no step depends on it but through
  the options, which the plugins' models have.
- The end of the process: the cursor thread is detached and may use the port after
  `main` has destroyed it.
- Frame contents, quality, encoders, logs and hexdumps: data that no decision depends on.
- Memory: that the cursor thread does not free images, and allocations that fail.

## 6. Plan

Done, in this order: StreamPort with MessageChannel; StreamingAgent; CursorUpdater;
ConcreteAgent; DisplayInfo; MjpegFrameCapture; JpegBuffer; GstreamerCapture; Messages;
FrameCapture; Agent; the proofs of all safety properties, and of the three refinements.

Left:

1. The teardown: StreamPort with both threads and `main`'s destruction of the port as a
   step of its own.  Nothing in the code joins the cursor thread, so the property one
   would state, that nobody is inside the port when it is destroyed, does not hold.
2. That the sends of StreamingAgent and CursorUpdater are steps of one MessageChannel.
   This needs a history of delivered messages in both, which no other property uses.
