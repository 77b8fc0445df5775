--------------------------- MODULE MjpegFrameCapture ---------------------------
(***************************************************************************)
(* The built-in plugin and its capture (mjpeg-fallback.cpp): the options,  *)
(* the pacing of the frames, and the two requests to the X server that     *)
(* make a frame, the window's attributes and its image.                    *)
(*                                                                         *)
(* Time is counted in units of which Second make a second; the code's are  *)
(* nanoseconds.  The screen is as large as a number says, and a larger one *)
(* contains a smaller one.                                                 *)
(***************************************************************************)
EXTENDS Naturals, Sequences

CONSTANTS
  Second,    (* the units of time in a second                              *)
  Sizes,     (* the sizes the screen can have                              *)
  Values,    (* the numbers given as values of options, as unsigned ones   *)
  Invalid,   (* a value that is not a number                               *)
  MaxOpts,   (* bound: options on the command line                         *)
  MaxClock   (* bound: when the model's clock stops                        *)

ASSUME CaptureAssumption ==
  /\ Second \in Nat \ {0}
  /\ Sizes \subseteq Nat \ {0}
  /\ Values \subseteq Nat /\ Invalid \notin Values
  /\ MaxOpts \in Nat /\ MaxClock \in Nat \ {0}

Options == [name : {"framerate", "mjpeg.quality", "other"}, value : Values \cup {Invalid}]

VARIABLES
  pc,            (* where the plugin, and then CaptureFrame, is            *)
  options,       (* the options that are not parsed yet                    *)
  fps,           (* settings.fps                                           *)
  last_time,     (* 0 before the first frame                               *)
  wake,          (* when nanosleep returns                                 *)
  last,          (* last_width and last_height, 0 before the first frame   *)
  size,          (* info.size                                              *)
  stream_start,  (* info.stream_start                                      *)
  image,         (* the size of the image that is encoded                  *)
  clock,         (* external: the monotonic clock                          *)
  screen,        (* external: the size of the root window                  *)
  quit,          (* external: a signal came, no frame after this one       *)
  due,           (* history: when a stream of fps frames per second that   *)
                 (* began with the first frame has its next one            *)
  beat,          (* history: when one that began anew with the last frame  *)
                 (* that was late has its next one                         *)
  prev           (* history: the size of the frame returned last, or 0     *)

info     == <<last, size, stream_start, image, prev>>
settings == <<options, fps>>
world    == <<screen, quit>>
schedule == <<due, beat>>
vars     == <<pc, settings, last_time, wake, info, clock, world, schedule>>

Init ==
  /\ pc = "options"
  /\ options \in UNION {[1..n -> Options] : n \in 0..MaxOpts}
  /\ fps = 10
  /\ last_time = 0 /\ wake = 0
  /\ last = 0 /\ size = 0 /\ stream_start = FALSE /\ image = 0 /\ prev = 0
  /\ clock = 1 /\ screen \in Sizes /\ quit = FALSE
  /\ due = 0 /\ beat = 0

-----------------------------------------------------------------------------
(* ParseOptions, one option: a value that is not a number raises an        *)
(* exception, and the plugin is registered with what was parsed before.    *)
ParseOption ==
  /\ pc = "options" /\ options # <<>>
  /\ LET o == Head(options) IN
       IF o.name \in {"framerate", "mjpeg.quality"} /\ o.value = Invalid
       THEN options' = <<>> /\ UNCHANGED fps
       ELSE /\ options' = Tail(options)
            /\ fps' = IF o.name = "framerate" THEN o.value ELSE fps
  /\ UNCHANGED <<pc, last_time, wake, info, clock, world, schedule>>

Register ==
  /\ pc = "options" /\ options = <<>>
  /\ pc' = "idle"
  /\ UNCHANGED <<settings, last_time, wake, info, clock, world, schedule>>

-----------------------------------------------------------------------------
(* The quotient is unsigned, and a negative number of frames a huge one, *)
(* as any other above Second: no time between two frames.                *)
Delta == Second \div fps

FirstFrame ==
  /\ pc = "idle" /\ ~quit
  /\ last_time = 0
  /\ last_time' = clock
  /\ due' = clock /\ beat' = clock
  /\ pc' = "attributes"
  /\ UNCHANGED <<settings, wake, info, clock, world>>

(* The division by zero. *)
NoRate ==
  /\ pc = "idle" /\ ~quit
  /\ last_time # 0 /\ fps = 0
  /\ pc' = "undefined"
  /\ UNCHANGED <<settings, last_time, wake, info, clock, world, schedule>>

LateFrame ==
  /\ pc = "idle" /\ ~quit
  /\ last_time # 0 /\ fps # 0
  /\ clock >= last_time + Delta
  /\ last_time' = clock
  /\ due' = due + Delta /\ beat' = clock
  /\ pc' = "attributes"
  /\ UNCHANGED <<settings, wake, info, clock, world>>

(* nanosleep takes less than a second; of more it says EINVAL at once. *)
EarlyFrame ==
  /\ pc = "idle" /\ ~quit
  /\ last_time # 0 /\ fps # 0
  /\ clock < last_time + Delta
  /\ due' = due + Delta /\ beat' = beat + Delta
  /\ IF last_time + Delta - clock < Second
     THEN /\ wake' = last_time + Delta
          /\ pc' = "sleep"
          /\ UNCHANGED last_time
     ELSE /\ last_time' = last_time + Delta
          /\ pc' = "attributes"
          /\ UNCHANGED wake
  /\ UNCHANGED <<settings, info, clock, world>>

(* Mutant: the next frame is counted from the time that is left to wait. *)
SleepEnds_Twice ==
  /\ pc = "sleep"
  /\ clock >= wake \/ quit
  /\ last_time' = clock + Delta
  /\ pc' = "attributes"
  /\ UNCHANGED <<settings, wake, info, clock, world, schedule>>

(* Mutant: the next frame is counted from the end of the pause. *)
SleepEnds_Drift ==
  /\ pc = "sleep"
  /\ clock >= wake \/ quit
  /\ last_time' = clock
  /\ pc' = "attributes"
  /\ UNCHANGED <<settings, wake, info, clock, world, schedule>>

(* nanosleep returns late or in time, or a signal interrupts it. *)
SleepEnds ==
  /\ pc = "sleep"
  /\ clock >= wake \/ quit
  /\ last_time' = last_time + Delta
  /\ pc' = "attributes"
  /\ UNCHANGED <<settings, wake, info, clock, world, schedule>>

(* XGetWindowAttributes. *)
Attributes ==
  /\ pc = "attributes"
  /\ size' = screen
  /\ stream_start' = (screen # last)
  /\ last' = screen
  /\ pc' = "image"
  /\ UNCHANGED <<settings, last_time, wake, image, prev, clock, world, schedule>>

(* Mutant: the size of the screen is asked for again. *)
GetImage_Whole ==
  /\ pc = "image"
  /\ image' = screen
  /\ pc' = "encode"
  /\ UNCHANGED <<settings, last_time, wake, last, size, stream_start, prev, clock, world, schedule>>

(* XGetImage of the area the attributes gave. *)
GetImage ==
  /\ pc = "image"
  /\ screen >= size
  /\ image' = size
  /\ pc' = "encode"
  /\ UNCHANGED <<settings, last_time, wake, last, size, stream_start, prev, clock, world, schedule>>

(* The window is smaller by now: a BadMatch error, which Xlib's handler    *)
(* answers with exit().                                                    *)
ImageGone ==
  /\ pc = "image"
  /\ screen < size
  /\ pc' = "exit"
  /\ UNCHANGED <<settings, last_time, wake, info, clock, world, schedule>>

(* The image is encoded, which takes some time, and returned. *)
ReturnFrame ==
  /\ pc = "encode"
  /\ clock < MaxClock /\ clock' \in (clock + 1)..MaxClock
  /\ prev' = image
  /\ pc' = "idle"
  /\ UNCHANGED <<settings, last_time, wake, last, size, stream_start, image, world, schedule>>

-----------------------------------------------------------------------------
Tick ==
  /\ clock < MaxClock
  /\ clock' = clock + 1
  /\ UNCHANGED <<pc, settings, last_time, wake, info, world, schedule>>

Resize ==
  /\ screen' \in Sizes \ {screen}
  /\ UNCHANGED <<pc, settings, last_time, wake, info, clock, quit, schedule>>

Signal ==
  /\ ~quit
  /\ quit' = TRUE
  /\ UNCHANGED <<pc, settings, last_time, wake, info, clock, screen, schedule>>

CaptureFrame ==
  \/ FirstFrame \/ LateFrame \/ EarlyFrame \/ NoRate \/ SleepEnds
  \/ Attributes \/ GetImage \/ ImageGone \/ ReturnFrame

Next == ParseOption \/ Register \/ CaptureFrame \/ Tick \/ Resize \/ Signal

Spec == Init /\ [][Next]_vars

-----------------------------------------------------------------------------
InFrame == {"attributes", "image", "encode"}

(* Every variable has its type; the pacing never is ahead of the clock.  *)
TypeOK ==
  /\ pc \in {"options", "idle", "sleep", "undefined", "exit"} \cup InFrame
  /\ options \in Seq(Options)
  /\ fps \in Values \cup {10}
  /\ last_time \in Nat /\ wake \in Nat /\ due \in Nat /\ beat \in Nat
  /\ last \in Sizes \cup {0} /\ size \in Sizes \cup {0}
  /\ image \in Sizes \cup {0} /\ prev \in Sizes \cup {0}
  /\ stream_start \in BOOLEAN
  /\ clock \in 1..MaxClock
  /\ screen \in Sizes /\ quit \in BOOLEAN
  /\ pc \in InFrame => last_time > 0 /\ (last_time <= clock \/ quit)

(* "last_time + delta > now > last_time so 1s >= delta > now - last_time": *)
(* nanosleep is never asked for a second or more, at any rate, with frames *)
(* that come late, sleeps that are too long and signals.                   *)
WaitBelowSecond ==
  pc = "idle" /\ last_time # 0 /\ fps # 0 /\ ~quit =>
    /\ clock > last_time
    /\ last_time + Delta - clock < Second

(* No frame is taken before its time: from the first frame on there are at *)
(* most fps frames per second, at every moment.  And the pace is kept: a   *)
(* pause ends when its frame is due, however late the pauses before it     *)
(* ended; only a call that is itself late puts off the frames behind it.   *)
RateBound ==
  /\ pc \in InFrame /\ fps # 0 /\ ~quit => clock >= due
  /\ pc = "sleep" => wake = beat

(* What StreamingAgent relies on: a frame has the size it says it has, and *)
(* starts a stream exactly if the frame before it had another size or      *)
(* there was none, also when the screen is resized in between the requests *)
(* of one frame.                                                           *)
FrameAnnounced ==
  pc = "encode" => image = size /\ (stream_start <=> image # prev)

-----------------------------------------------------------------------------
(* What do_capture sees of it.  A call is in progress while CaptureFrame   *)
(* sleeps, too, and the frame before is not valid any more.                *)
Status == CASE pc = "idle"                              -> "idle"
            [] pc \in {"sleep"} \cup InFrame            -> "busy"
            [] pc \in {"options", "undefined", "exit"} -> "none"

Given == IF pc = "idle" /\ prev # 0
         THEN {[image |-> image, size |-> size, stream_start |-> stream_start]} ELSE {}

Capture == INSTANCE FrameCapture WITH
  None   <- 0,
  status <- Status,
  told   <- prev,
  given  <- Given

(* The built-in capture keeps the promise of frame-capture.hpp: a call gives *)
(* one frame, of the size it says, which starts a stream exactly if the    *)
(* size is not that of the frame before; options, pauses, late frames and  *)
(* resizes in the middle of a call do not show.                            *)
CaptureSpec == Capture!Spec
===============================================================================
