--------------------------- MODULE GstreamerCapture ---------------------------
(***************************************************************************)
(* The GStreamer plugin (gst-plugin.cpp, with XLIB_CAPTURE as it defines): *)
(* its options, the pipeline it builds, and CaptureFrame, which pushes an  *)
(* image in at one end and waits for a sample at the other.                *)
(*                                                                         *)
(* The pipeline has a thread of its own.  It reads the image's own memory, *)
(* which the main thread frees at the next call.  Images are numbered as   *)
(* they are taken; a sample carries the number and size of its image.      *)
(***************************************************************************)
EXTENDS Integers, Sequences

CONSTANTS
  Codecs,      (* the codecs gst.codec names                               *)
  Default,     (* H264                                                     *)
  Encoders,    (* the names gst.encoder may be given                       *)
  Makes,       (* what each of them can encode to: nothing if not there    *)
  Sizes,       (* the sizes the screen can have                            *)
  None,        (* no encoder named or in use, no sample, no valid codec    *)
  MaxOpts,     (* bound: options on the command line                       *)
  MaxImages    (* bound: images taken                                      *)

ASSUME GstAssumption ==
  /\ Default \in Codecs
  /\ None \notin Codecs \cup Encoders \cup [n : Nat \ {0}, size : Nat]
  /\ Makes \in [Encoders -> SUBSET Codecs]
  /\ Sizes \subseteq Nat /\ \A s \in Sizes : s > 1
  /\ MaxOpts \in Nat /\ MaxImages \in Nat

Options == [name : {"framerate"}, valid : BOOLEAN]
             \cup [name : {"gst.codec"}, value : Codecs \cup {None}]
             \cup [name : {"gst.encoder"}, value : Encoders]
             \cup [name : {"other"}]

VARIABLES
  pc,        (* where the plugin, and then its capture, is                 *)
  options,   (* the options of the command line                            *)
  parsed,    (* how many of them ParseOptions is through with              *)
  codec, named,           (* settings                                      *)
  screen,    (* external: the size of the root window                      *)
  cur, last, is_first,
  image,     (* the number of the XImage that exists, or 0                 *)
  sample,    (* the sample that is mapped for the caller                   *)
  info,      (* what CaptureFrame returns: size and stream_start           *)
  src,       (* external: images in appsrc                                 *)
  enc,       (* external: the image being encoded                          *)
  sink,      (* external: the sample in appsink, which keeps the last one  *)
  eos,       (* external: the pipeline's thread has stopped                *)
  encoder,   (* the encoder in the pipeline                                *)
  manner,    (* external: how many samples it makes of an image            *)
  taken,     (* images taken so far                                        *)
  thrown,    (* CaptureFrame raised an exception, which ends the agent     *)
  prev,      (* history: the size this capture returned last, or 0         *)
  dropped    (* history: appsink dropped a sample of this stream           *)

settings == <<options, parsed, codec, named>>
frame    == <<cur, last, is_first, image, sample, info, taken, prev>>
pipeline == <<src, enc, sink, eos, dropped>>
chosen   == <<encoder, manner>>
vars     == <<pc, settings, screen, frame, pipeline, chosen, thrown>>

Manners == {"one", "skips", "splits"}
Fresh == info = [size |-> 0, start |-> FALSE]
Empty == src = <<>> /\ enc = None /\ sink = None /\ eos = FALSE /\ dropped = FALSE

Init ==
  /\ pc = "options"
  /\ options \in UNION {[1..n -> Options] : n \in 0..MaxOpts} /\ parsed = 0
  /\ codec = Default /\ named = None
  /\ screen \in Sizes
  /\ cur = 0 /\ last = -1 /\ is_first = TRUE
  /\ image = 0 /\ sample = None /\ Fresh /\ taken = 0 /\ prev = 0
  /\ Empty
  /\ encoder = None /\ manner = "one" /\ thrown = FALSE

Goto(from, to) == pc = from /\ pc' = to

-----------------------------------------------------------------------------
(* ParseOptions. *)

Invalid(o) ==
  \/ o.name = "framerate" /\ ~o.valid
  \/ o.name = "gst.codec" /\ o.value = None

ParseOption ==
  /\ pc = "options" /\ parsed < Len(options)
  /\ LET o == options[parsed + 1] IN
       /\ pc' = IF Invalid(o) THEN "refused" ELSE pc
       /\ codec' = IF o.name = "gst.codec" /\ o.value # None THEN o.value ELSE codec
       /\ named' = IF o.name = "gst.encoder" THEN o.value ELSE named
  /\ parsed' = parsed + 1
  /\ UNCHANGED <<options, screen, frame, pipeline, chosen, thrown>>

(* The plugin is registered: its settings are final.                       *)
Register ==
  /\ Goto("options", "none") /\ parsed = Len(options)
  /\ options' = <<>> /\ parsed' = 0
  /\ UNCHANGED <<codec, named, screen, frame, pipeline, chosen, thrown>>

-----------------------------------------------------------------------------
(* The constructor. *)

Suitable == {e \in Encoders : codec \in Makes[e]}

(* Mutant: the named encoder is taken, whatever it makes. *)
GetEncoder_Named == IF named # None THEN {named} ELSE Suitable

(* get_encoder_plugin: the one that is named, if it can make the codec,    *)
(* or else the first in the registry's list, which may be any.             *)
GetEncoder == IF named \in Suitable THEN {named} ELSE Suitable

CreateCapture ==
  /\ Goto("none", "idle") /\ ~thrown
  /\ encoder' \in GetEncoder
  /\ manner' \in Manners
  /\ cur' = 0 /\ last' = -1 /\ is_first' = TRUE /\ prev' = 0
  /\ UNCHANGED <<settings, screen, image, sample, info, taken, pipeline, thrown>>

-----------------------------------------------------------------------------
(* CaptureFrame. *)

FreeSample == sample' = None /\ image' = 0

(* The capture is destroyed by what leaves do_capture.                     *)
Throw(from) == Goto(from, "destroy") /\ thrown' = TRUE

BeginFrame ==
  /\ Goto("idle", "attributes")
  /\ FreeSample
  /\ UNCHANGED <<settings, screen, cur, last, is_first, info, taken, prev, pipeline, chosen, thrown>>

Even(s) == s - (s % 2)

(* Mutant: a new size does not go through the pipeline's NULL state.       *)
Attributes_NoRestart ==
  /\ Goto("attributes", "image")
  /\ cur' = Even(screen) /\ last' = Even(screen)
  /\ is_first' = (is_first \/ Even(screen) # last)
  /\ UNCHANGED <<settings, screen, image, sample, info, taken, prev, pipeline, chosen, thrown>>

(* A size that is new restarts the pipeline, and whatever is in it is lost. *)
Attributes ==
  /\ Goto("attributes", "image")
  /\ cur' = Even(screen) /\ last' = Even(screen)
  /\ IF Even(screen) # last
     THEN /\ is_first' = TRUE
          /\ src' = <<>> /\ enc' = None /\ sink' = None /\ eos' = FALSE /\ dropped' = FALSE
     ELSE UNCHANGED <<is_first, pipeline>>
  /\ UNCHANGED <<settings, screen, image, sample, info, taken, prev, chosen, thrown>>

(* XGetImage. *)
GetImage ==
  /\ Goto("image", "push")
  /\ taken < MaxImages /\ screen >= cur
  /\ taken' = taken + 1 /\ image' = taken + 1
  /\ UNCHANGED <<settings, screen, cur, last, is_first, sample, info, prev, pipeline, chosen, thrown>>

(* XGetImage gives no image. *)
GetImageFails ==
  /\ Throw("image")
  /\ UNCHANGED <<settings, screen, frame, pipeline, chosen>>

(* The window is smaller by now, and Xlib's error handler calls exit().    *)
ImageGone ==
  /\ Goto("image", "exit") /\ screen < cur
  /\ UNCHANGED <<settings, screen, frame, pipeline, chosen, thrown>>

Announce ==
  /\ info' = [size |-> cur, start |-> is_first]
  /\ is_first' = FALSE

(* Mutant: the image is freed when it has been pushed. *)
Push_Destroy ==
  /\ Goto("push", "pull") /\ Announce
  /\ src' = Append(src, [n |-> image, size |-> cur])
  /\ image' = 0
  /\ UNCHANGED <<settings, screen, cur, last, sample, taken, prev, enc, sink, eos, dropped,
                 chosen, thrown>>

(* Mutant: the first image of a stream is pushed twice, to fill the encoder. *)
Push_Twice ==
  /\ Goto("push", "pull") /\ Announce
  /\ src' = src \o [i \in 1..(IF is_first THEN 2 ELSE 1) |-> [n |-> image, size |-> cur]]
  /\ UNCHANGED <<settings, screen, cur, last, image, sample, taken, prev, enc, sink, eos, dropped,
                 chosen, thrown>>

(* Mutant: the pipeline is started anew behind the image. *)
Push_Restart ==
  /\ Goto("push", "pull") /\ Announce
  /\ src' = IF is_first THEN <<>> ELSE Append(src, [n |-> image, size |-> cur])
  /\ UNCHANGED <<settings, screen, cur, last, image, sample, taken, prev, enc, sink, eos, dropped,
                 chosen, thrown>>

(* The buffer that is pushed is the image's memory, not a copy of it.      *)
Push ==
  /\ Goto("push", "pull") /\ Announce
  /\ src' = Append(src, [n |-> image, size |-> cur])
  /\ UNCHANGED <<settings, screen, cur, last, image, sample, taken, prev, enc, sink, eos, dropped,
                 chosen, thrown>>

(* The image cannot be wrapped in a buffer, or appsrc does not take it. *)
PushFails ==
  /\ Throw("push")
  /\ UNCHANGED <<settings, screen, frame, pipeline, chosen>>

(* gst_app_sink_pull_sample, which blocks.                                 *)
Pull ==
  /\ Goto("pull", "map") /\ sink # None
  /\ sample' = sink /\ sink' = None
  /\ UNCHANGED <<settings, screen, cur, last, is_first, image, info, taken, prev, src, enc, eos,
                 dropped, chosen, thrown>>

NoSample ==
  /\ Throw("pull") /\ sink = None /\ eos
  /\ UNCHANGED <<settings, screen, frame, pipeline, chosen>>

ReturnFrame ==
  /\ Goto("map", "idle")
  /\ prev' = info.size
  /\ UNCHANGED <<settings, screen, cur, last, is_first, image, sample, info, taken, pipeline,
                 chosen, thrown>>

MapFails ==
  /\ Throw("map") /\ FreeSample
  /\ UNCHANGED <<settings, screen, cur, last, is_first, info, taken, prev, pipeline, chosen>>

(* The destructor: the sample first, then the pipeline.                    *)
DropCapture ==
  /\ Goto("idle", "destroy")
  /\ UNCHANGED <<settings, screen, frame, pipeline, chosen, thrown>>

FreeLast ==
  /\ Goto("destroy", "null") /\ FreeSample
  /\ UNCHANGED <<settings, screen, cur, last, is_first, info, taken, prev, pipeline, chosen, thrown>>

StopPipeline ==
  /\ Goto("null", "none")
  /\ src' = <<>> /\ enc' = None /\ sink' = None /\ eos' = FALSE /\ dropped' = FALSE
  /\ encoder' = None /\ manner' = "one"
  /\ UNCHANGED <<settings, screen, frame, thrown>>

CaptureFrame ==
  \/ BeginFrame \/ Attributes \/ GetImage \/ GetImageFails \/ ImageGone
  \/ Push \/ PushFails \/ Pull \/ NoSample \/ ReturnFrame \/ MapFails

-----------------------------------------------------------------------------
(* The pipeline's thread, and the screen. *)

TakeImage ==
  /\ src # <<>> /\ enc = None /\ ~eos
  /\ enc' = Head(src) /\ src' = Tail(src)
  /\ UNCHANGED <<pc, settings, screen, frame, sink, eos, dropped, chosen, thrown>>

(* An encoder that splits an image goes on with it; appsink has room for   *)
(* one sample and drops the older.                                         *)
MakeSample ==
  /\ enc # None
  /\ sink' = enc /\ dropped' = (dropped \/ sink # None)
  /\ enc' \in {None} \cup (IF manner = "splits" THEN {enc} ELSE {})
  /\ UNCHANGED <<pc, settings, screen, frame, src, eos, chosen, thrown>>

SkipImage ==
  /\ manner = "skips" /\ enc # None
  /\ enc' = None
  /\ UNCHANGED <<pc, settings, screen, frame, src, sink, eos, dropped, chosen, thrown>>

(* An element fails: what is queued is not read any more.                  *)
Fails ==
  /\ src # <<>> \/ enc # None
  /\ src' = <<>> /\ enc' = None /\ eos' = TRUE
  /\ UNCHANGED <<pc, settings, screen, frame, sink, dropped, chosen, thrown>>

Pipeline == TakeImage \/ MakeSample \/ SkipImage \/ Fails

Resize ==
  /\ screen' \in Sizes \ {screen}
  /\ UNCHANGED <<pc, settings, frame, pipeline, chosen, thrown>>

Next ==
  \/ ParseOption \/ Register \/ CreateCapture \/ CaptureFrame
  \/ DropCapture \/ FreeLast \/ StopPipeline
  \/ Pipeline \/ Resize

Spec == Init /\ [][Next]_vars

(* Both threads run. *)
FairSpec == Spec /\ WF_vars(Pull \/ NoSample) /\ WF_vars(Pipeline)

-----------------------------------------------------------------------------
InCapture == {"idle", "attributes", "image", "push", "pull", "map", "destroy", "null"}
Images    == [n : Nat \ {0}, size : Nat]

(* Every variable has its type, there is an image wherever one is pushed,  *)
(* and a capture has a pipeline that makes the codec VideoCodecType() says, *)
(* for which GetBestFrameCapture took the plugin.                          *)
TypeOK ==
  /\ pc \in InCapture \cup {"options", "refused", "none", "exit"}
  /\ options \in Seq(Options) /\ parsed \in 0..Len(options)
  /\ codec \in Codecs /\ named \in Encoders \cup {None}
  /\ screen \in Sizes
  /\ cur \in Nat /\ last \in Nat \cup {-1} /\ is_first \in BOOLEAN
  /\ image \in Nat /\ taken \in Nat /\ (pc \in {"push", "pull", "map"} => image = taken /\ image > 0)
  /\ sample \in Images \cup {None} /\ info \in [size : Nat, start : BOOLEAN]
  /\ src \in Seq(Images) /\ enc \in Images \cup {None} /\ sink \in Images \cup {None}
  /\ eos \in BOOLEAN /\ manner \in Manners
  /\ encoder \in Encoders \cup {None}
  /\ pc \in InCapture => encoder # None /\ codec \in Makes[encoder]
  /\ thrown \in BOOLEAN /\ prev \in Nat /\ dropped \in BOOLEAN

(* The frame that is returned was encoded from an image of the size it     *)
(* says, and starts a stream exactly if the capture's frame before it had  *)
(* another size, or there was none: whatever the encoder does, with a      *)
(* resize at any moment.                                                   *)
SizeAnnounced ==
  pc = "map" => sample.size = info.size /\ (info.start <=> info.size # prev)

(* No image is freed that the pipeline still is to read, as its memory is  *)
(* shared: CaptureFrame and the destructor free it first and look at the   *)
(* pipeline afterwards.  It takes an encoder that makes one sample, at     *)
(* most, of an image.                                                      *)
ImageAlive ==
  manner # "splits" =>
    /\ enc # None => enc.n = image
    /\ \A i \in 1..Len(src) : src[i].n = image

(* The frames of a stream are those of its images, one for one: none is an *)
(* older image's, and appsink drops none, which a decoder of a stream with *)
(* differences between frames could not do without.  And while the caller  *)
(* waits, what it waits for is on its way, or the stream has ended.        *)
NothingLost ==
  /\ manner # "splits" => ~dropped /\ (pc = "map" => sample.n = image)
  /\ manner # "skips" /\ pc = "pull" => src # <<>> \/ enc # None \/ sink # None \/ eos

(* CaptureFrame returns or raises although it waits without a timeout, if  *)
(* the encoder makes a sample of every image.                              *)
FrameComes == pc = "pull" ~> pc # "pull" \/ manner = "skips"

-----------------------------------------------------------------------------
(* What do_capture sees of it.  A capture that is to be destroyed gives    *)
(* nothing any more.                                                       *)
Status == CASE pc = "idle"                                            -> "idle"
            [] pc \in {"attributes", "image", "push", "pull", "map"}  -> "busy"
            [] OTHER                                                  -> "none"

Given == IF pc = "idle" /\ sample # None
         THEN {[image |-> sample.size, size |-> info.size, stream_start |-> info.start]} ELSE {}

Capture == INSTANCE FrameCapture WITH
  Sizes  <- {Even(s) : s \in Sizes},
  None   <- 0,
  status <- Status,
  told   <- prev,
  given  <- Given

(* Whatever the pipeline and its encoder do, the capture keeps the promise *)
(* of frame-capture.hpp: a call gives one frame, encoded from an image of  *)
(* the size it says, which starts a stream exactly if the size is not that *)
(* of the frame before, for every capture anew.                            *)
CaptureSpec == Capture!Spec
===============================================================================
