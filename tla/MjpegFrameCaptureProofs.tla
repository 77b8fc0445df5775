----------------------- MODULE MjpegFrameCaptureProofs -----------------------
(***************************************************************************)
(* The pacing of the frames and what they announce, for every rate, every  *)
(* sequence of options, every unit of time and every set of screen sizes;  *)
(* and the compressed image, for every smallest buffer, every growth and   *)
(* every length.                                                           *)
(***************************************************************************)
EXTENDS MjpegFrameCapture, JpegBuffer, SequenceTheorems, TLAPS

Types ==
  /\ pc \in {"options", "idle", "sleep", "undefined", "exit"} \cup InFrame
  /\ options \in Seq(Options)
  /\ fps \in Nat
  /\ last_time \in Nat /\ wake \in Nat /\ due \in Nat /\ beat \in Nat
  /\ clock \in Nat /\ clock > 0
  /\ pc = "sleep" => fps # 0

(* Until a signal comes: last_time is when the last frame was due or taken, *)
(* in the past between two frames, and never before the ideal schedule.    *)
(* While nanosleep runs, last_time still is the frame's before.            *)
Pacing ==
  ~quit =>
    /\ pc = "options" => last_time = 0
    /\ pc = "idle" /\ last_time # 0 => last_time < clock
    /\ pc \in InFrame => 0 < last_time /\ last_time <= clock
    /\ pc # "sleep" => due <= last_time
    /\ pc = "sleep" => /\ 0 < last_time
                       /\ wake = last_time + Delta /\ due <= wake

(* last_time keeps to the beat, whatever the clock says when a pause ends. *)
OnBeat ==
  /\ pc # "sleep" => last_time = beat
  /\ pc = "sleep" => wake = last_time + Delta /\ wake = beat

(* The size of the frame before is what last_width and last_height hold,   *)
(* except from the attributes of a frame to its return.                    *)
Announced ==
  /\ pc \notin {"image", "encode", "exit"} => prev = last
  /\ pc \in {"image", "encode"} => size = last /\ (stream_start <=> last # prev)
  /\ pc = "encode" => image = size

-----------------------------------------------------------------------------
LEMMA DeltaBounds ==
  ASSUME fps \in Nat, fps # 0
  PROVE  Delta \in Nat /\ Delta <= Second
<1> DEFINE q == Second \div fps
<1>1. Second \in Nat /\ Second > 0
  BY CaptureAssumption
<1>2. q \in Nat
  BY <1>1
<1>3. fps * q <= Second
  BY <1>1, Z3
<1>4. q <= fps * q
  <2> HIDE DEF q
  <2> QED
    BY <1>2, Z3
<1>5. fps * q \in Nat
  BY <1>2
<1> QED
  BY <1>1, <1>2, <1>3, <1>4, <1>5 DEF Delta

-----------------------------------------------------------------------------
(* Types. *)
LEMMA TypesInit == Init => Types
<1> SUFFICES ASSUME Init PROVE Types
  OBVIOUS
<1>1. options \in Seq(Options)
  BY SeqDef, CaptureAssumption DEF Init
<1> QED
  BY <1>1 DEF Init, Types, InFrame

LEMMA TypesStep == Types /\ [Next]_vars => Types'
<1> SUFFICES ASSUME Types, [Next]_vars PROVE Types'
  OBVIOUS
<1> USE DEF Types, InFrame, schedule
<1>1. CASE ParseOption
  <2> DEFINE o == Head(options)
  <2>1. o \in Options /\ Tail(options) \in Seq(Options) /\ <<>> \in Seq(Options)
    BY <1>1 DEF ParseOption
  <2>2. options' \in Seq(Options)
    BY <1>1, <2>1 DEF ParseOption
  <2>3. fps' \in Nat
    <3>1. CASE o.name \in {"framerate", "mjpeg.quality"} /\ o.value = Invalid
      BY <1>1, <3>1 DEF ParseOption
    <3>2. CASE ~(o.name \in {"framerate", "mjpeg.quality"} /\ o.value = Invalid)
      <4>1. o.name = "framerate" => o.value \in Nat
        BY <2>1, <3>2, CaptureAssumption DEF Options
      <4> QED
        BY <1>1, <3>2, <4>1 DEF ParseOption
    <3> QED
      BY <3>1, <3>2
  <2> QED
    BY <1>1, <2>2, <2>3 DEF ParseOption
<1>2. CASE FirstFrame \/ LateFrame \/ EarlyFrame \/ NoRate \/ SleepEnds
  <2>1. CASE FirstFrame \/ NoRate
    BY <2>1 DEF FirstFrame, NoRate, settings
  <2>2. CASE LateFrame \/ EarlyFrame
    <3>1. Delta \in Nat
      BY <2>2, DeltaBounds DEF LateFrame, EarlyFrame
    <3> QED
      BY <2>2, <3>1 DEF LateFrame, EarlyFrame, settings
  <2>3. CASE SleepEnds
    <3>1. Delta \in Nat
      BY <2>3, DeltaBounds DEF SleepEnds
    <3> QED
      BY <2>3, <3>1 DEF SleepEnds, settings
  <2> QED
    BY <1>2, <2>1, <2>2, <2>3
<1>3. CASE Attributes \/ GetImage \/ ImageGone
  BY <1>3 DEF Attributes, GetImage, ImageGone, settings
<1>4. CASE ReturnFrame
  <2>1. clock' \in Nat /\ clock' > clock
    BY <1>4, CaptureAssumption DEF ReturnFrame
  <2> QED
    BY <1>4, <2>1 DEF ReturnFrame, settings
<1>5. CASE Register \/ Tick \/ Resize \/ Signal \/ UNCHANGED vars
  BY <1>5 DEF Register, Tick, Resize, Signal, vars, settings
<1> QED
  BY <1>1, <1>2, <1>3, <1>4, <1>5 DEF Next, CaptureFrame

-----------------------------------------------------------------------------
(* The pacing. *)
LEMMA PacingInit == Init => Pacing
  BY DEF Init, Pacing, InFrame

LEMMA PacingStep == Types /\ Pacing /\ [Next]_vars => Pacing'
<1> SUFFICES ASSUME Types, Pacing, [Next]_vars, ~quit' PROVE Pacing'
  BY DEF Pacing
<1>0. ~quit
  BY DEF Next, CaptureFrame, ParseOption, Register, FirstFrame, LateFrame, EarlyFrame, NoRate,
         SleepEnds, Attributes, GetImage, ImageGone, ReturnFrame, Tick, Resize, Signal, world, vars
<1> USE DEF Types, InFrame, schedule
<1>1. CASE ParseOption \/ Register
  <2>1. /\ pc = "options" /\ last_time = 0 /\ due <= 0
        /\ last_time' = last_time /\ due' = due /\ clock' = clock
        /\ pc' \in {"options", "idle"}
    BY <1>0, <1>1 DEF ParseOption, Register, Pacing
  <2> QED
    BY <2>1 DEF Pacing
<1>2. CASE FirstFrame
  BY <1>2 DEF FirstFrame, Pacing
<1>3. CASE LateFrame
  <2>1. Delta \in Nat
    BY <1>3, DeltaBounds DEF LateFrame
  <2>2. due <= last_time /\ last_time + Delta <= clock
    BY <1>0, <1>3, <2>1 DEF LateFrame, Pacing
  <2>3. pc' = "attributes" /\ last_time' = clock /\ due' = due + Delta /\ clock' = clock
    BY <1>3 DEF LateFrame
  <2> HIDE DEF Delta
  <2> QED
    BY <2>1, <2>2, <2>3 DEF Pacing
<1>4. CASE EarlyFrame
  <2>1. Delta \in Nat /\ Delta <= Second
    BY <1>4, DeltaBounds DEF EarlyFrame
  <2>2. due <= last_time /\ last_time < clock /\ last_time # 0
    BY <1>0, <1>4 DEF EarlyFrame, Pacing
  <2>3. last_time + Delta - clock < Second
    BY <2>1, <2>2, CaptureAssumption
  <2>4. /\ pc' = "sleep" /\ last_time' = last_time /\ due' = due + Delta
        /\ wake' = last_time + Delta /\ Delta' = Delta
    BY <1>4, <2>3 DEF EarlyFrame, settings, Delta
  <2> QED
    BY <2>1, <2>2, <2>4 DEF Pacing
<1>5. CASE NoRate
  BY <1>0, <1>5 DEF NoRate, Pacing
<1>6. CASE SleepEnds
  <2>1. Delta \in Nat
    BY <1>6, DeltaBounds DEF SleepEnds
  <2>2. due <= wake /\ wake = last_time + Delta /\ wake <= clock /\ 0 < last_time
    BY <1>0, <1>6 DEF SleepEnds, Pacing
  <2>3. pc' = "attributes" /\ last_time' = last_time + Delta /\ due' = due /\ clock' = clock
    BY <1>6 DEF SleepEnds
  <2> QED
    BY <2>1, <2>2, <2>3 DEF Pacing
<1>7. CASE Attributes \/ GetImage \/ ImageGone
  BY <1>0, <1>7 DEF Attributes, GetImage, ImageGone, Pacing
<1>8. CASE ReturnFrame
  <2>1. clock' \in Nat /\ clock < clock'
    BY <1>8, CaptureAssumption DEF ReturnFrame
  <2>2. due <= last_time /\ last_time <= clock
    BY <1>0, <1>8 DEF ReturnFrame, Pacing
  <2>3. pc' = "idle" /\ last_time' = last_time /\ due' = due
    BY <1>8 DEF ReturnFrame
  <2> QED
    BY <2>1, <2>2, <2>3 DEF Pacing
<1>9. CASE Tick \/ Resize \/ UNCHANGED vars
  <2>1. /\ pc' = pc /\ last_time' = last_time /\ due' = due /\ wake' = wake /\ fps' = fps
        /\ clock' \in {clock, clock + 1}
    BY <1>9 DEF Tick, Resize, vars, settings
  <2>2. Delta' = Delta
    BY <2>1 DEF Delta
  <2> QED
    BY <1>0, <2>1, <2>2 DEF Pacing
<1>10. CASE Signal
  BY <1>10 DEF Signal
<1> QED
  BY <1>1, <1>2, <1>3, <1>4, <1>5, <1>6, <1>7, <1>8, <1>9, <1>10 DEF Next, CaptureFrame

LEMMA OnBeatStep == Types /\ OnBeat /\ [Next]_vars => OnBeat'
<1> SUFFICES ASSUME Types, OnBeat, [Next]_vars PROVE OnBeat'
  OBVIOUS
<1>1. CASE FirstFrame \/ LateFrame
  BY <1>1 DEF FirstFrame, LateFrame, OnBeat
<1>2. CASE EarlyFrame
  <2>1. last_time = beat /\ Delta' = Delta
    BY <1>2 DEF EarlyFrame, OnBeat, settings, Delta
  <2> HIDE DEF Delta
  <2> QED
    BY <1>2, <2>1 DEF EarlyFrame, OnBeat
<1>3. CASE SleepEnds
  <2>1. wake = last_time + Delta /\ wake = beat
    BY <1>3 DEF SleepEnds, OnBeat
  <2>2. pc' = "attributes" /\ last_time' = last_time + Delta /\ beat' = beat
    BY <1>3 DEF SleepEnds, schedule
  <2> QED
    BY <2>1, <2>2 DEF OnBeat
<1>4. CASE \/ ParseOption \/ Register \/ Tick \/ Resize \/ Signal \/ NoRate
           \/ Attributes \/ GetImage \/ ImageGone \/ ReturnFrame \/ UNCHANGED vars
  <2>1. /\ last_time' = last_time /\ wake' = wake /\ beat' = beat
        /\ pc' = "sleep" <=> pc = "sleep"
        /\ pc = "sleep" => fps' = fps
    BY <1>4 DEF ParseOption, Register, Tick, Resize, Signal, NoRate, Attributes, GetImage,
                ImageGone, ReturnFrame, vars, settings, schedule
  <2> QED
    BY <2>1 DEF OnBeat, Delta
<1> QED
  BY <1>1, <1>2, <1>3, <1>4 DEF Next, CaptureFrame

LEMMA PacingInvariant == Spec => [](Types /\ Pacing)
<1>1. Types /\ Pacing /\ [Next]_vars => (Types /\ Pacing)'
  BY TypesStep, PacingStep
<1> QED
  BY <1>1, TypesInit, PacingInit, PTL DEF Spec

-----------------------------------------------------------------------------
(* At most fps frames per second from the first frame on, at every moment, *)
(* for every rate; and pauses that end late do not add up.                 *)
THEOREM PacedFrames == Spec => []RateBound
<1>1. Types /\ Pacing /\ OnBeat => RateBound
  BY DEF Types, Pacing, OnBeat, RateBound, InFrame
<1>2. Init => OnBeat
  BY DEF Init, OnBeat
<1>3. Types /\ Pacing /\ OnBeat /\ [Next]_vars => OnBeat'
  BY OnBeatStep
<1> QED
  BY <1>1, <1>2, <1>3, PacingInvariant, PTL DEF Spec

(* nanosleep is never asked for a second or more.                          *)
THEOREM SleepsAreShort == Spec => []WaitBelowSecond
<1>1. Types /\ Pacing => WaitBelowSecond
  <2> SUFFICES ASSUME Types, Pacing, pc = "idle", last_time # 0, fps # 0, ~quit
               PROVE  clock > last_time /\ last_time + Delta - clock < Second
    BY DEF WaitBelowSecond
  <2>1. Delta \in Nat /\ Delta <= Second
    BY DeltaBounds DEF Types
  <2>2. last_time < clock /\ last_time \in Nat /\ clock \in Nat
    BY DEF Types, Pacing
  <2> QED
    BY <2>1, <2>2, CaptureAssumption
<1> QED
  BY <1>1, PacingInvariant, PTL

-----------------------------------------------------------------------------
(* What a frame announces. *)
LEMMA AnnouncedStep == Announced /\ [Next]_vars => Announced'
<1> SUFFICES ASSUME Announced, [Next]_vars PROVE Announced'
  OBVIOUS
<1>1. CASE \/ ParseOption \/ Register \/ Tick \/ Resize \/ Signal
           \/ FirstFrame \/ LateFrame \/ EarlyFrame \/ NoRate \/ SleepEnds \/ UNCHANGED vars
  <2>1. UNCHANGED info
    BY <1>1 DEF ParseOption, Register, Tick, Resize, Signal, FirstFrame, LateFrame, EarlyFrame,
                NoRate, SleepEnds, vars
  <2>2. \/ pc' = pc
        \/ pc \notin {"image", "encode", "exit"} /\ pc' \notin {"image", "encode"}
    BY <1>1 DEF ParseOption, Register, Tick, Resize, Signal, FirstFrame, LateFrame, EarlyFrame,
                NoRate, SleepEnds, vars
  <2> QED
    BY <2>1, <2>2 DEF info, Announced
<1>2. CASE Attributes
  <2>1. /\ prev = last /\ prev' = prev /\ last' = screen /\ size' = screen
        /\ pc' = "image" /\ (stream_start' <=> screen # last)
    BY <1>2 DEF Attributes, Announced
  <2> QED
    BY <2>1 DEF Announced
<1>3. CASE GetImage
  BY <1>3 DEF GetImage, Announced
<1>4. CASE ImageGone
  BY <1>4 DEF ImageGone, Announced
<1>5. CASE ReturnFrame
  BY <1>5 DEF ReturnFrame, Announced
<1> QED
  BY <1>1, <1>2, <1>3, <1>4, <1>5 DEF Next, CaptureFrame

(* A frame has the size it says, and starts a stream exactly if the frame  *)
(* before it had another one, whenever the screen is resized.              *)
THEOREM FramesAreAnnounced == Spec => []FrameAnnounced
<1>1. Init => Announced
  BY DEF Init, Announced
<1>2. Announced => FrameAnnounced
  <2> SUFFICES ASSUME Announced, pc = "encode"
               PROVE  image = size /\ (stream_start <=> image # prev)
    BY DEF FrameAnnounced
  <2>1. image = size /\ size = last /\ (stream_start <=> last # prev)
    BY DEF Announced
  <2> QED
    BY <2>1
<1> QED
  BY <1>1, <1>2, AnnouncedStep, PTL DEF Spec

-----------------------------------------------------------------------------
(* The rest of the types: values come from the command line or are the     *)
(* default, sizes from the screen, and the clock ends where it is told to. *)
Ranges ==
  /\ fps \in Values \cup {10}
  /\ last \in Sizes \cup {0} /\ size \in Sizes \cup {0}
  /\ image \in Sizes \cup {0} /\ prev \in Sizes \cup {0}
  /\ clock \in 1..MaxClock
  /\ screen \in Sizes
  /\ pc \in InFrame \cup {"sleep"} => last_time > 0

Booleans == stream_start \in BOOLEAN /\ quit \in BOOLEAN

LEMMA RangesInit == Init => Ranges
<1> SUFFICES ASSUME Init PROVE Ranges
  OBVIOUS
<1>1. clock \in 1..MaxClock
  BY CaptureAssumption DEF Init
<1> QED
  BY <1>1 DEF Init, Ranges, InFrame

LEMMA RangesStep == Types /\ Ranges /\ [Next]_vars => Ranges'
<1> SUFFICES ASSUME Types, Ranges, [Next]_vars PROVE Ranges'
  OBVIOUS
<1> USE DEF Ranges, InFrame
<1>1. CASE ParseOption
  <2> DEFINE o == Head(options)
  <2>1. o \in Options
    BY <1>1 DEF ParseOption, Types
  <2>2. fps' \in Values \cup {10}
    <3>1. CASE o.name \in {"framerate", "mjpeg.quality"} /\ o.value = Invalid
      BY <1>1, <3>1 DEF ParseOption
    <3>2. CASE ~(o.name \in {"framerate", "mjpeg.quality"} /\ o.value = Invalid)
      <4>1. o.name = "framerate" => o.value \in Values
        BY <2>1, <3>2 DEF Options
      <4> QED
        BY <1>1, <3>2, <4>1 DEF ParseOption
    <3> QED
      BY <3>1, <3>2
  <2>3. pc = "options" /\ pc' = "options" /\ UNCHANGED <<info, clock, world>>
    BY <1>1 DEF ParseOption
  <2> QED
    BY <2>2, <2>3 DEF info, world
<1>2. CASE FirstFrame \/ NoRate \/ Register
  BY <1>2 DEF FirstFrame, NoRate, Register, settings, info, world
<1>3. CASE LateFrame \/ EarlyFrame \/ SleepEnds
  <2>1. Delta \in Nat
    BY <1>3, DeltaBounds DEF LateFrame, EarlyFrame, SleepEnds, Types
  <2>2. last_time \in Nat /\ clock > 0 /\ (pc = "sleep" => last_time > 0)
    BY DEF Types
  <2>3. pc = "idle" => last_time # 0
    BY <1>3 DEF LateFrame, EarlyFrame, SleepEnds
  <2>4. last_time' > 0
    <3> HIDE DEF Delta
    <3> QED
      BY <1>3, <2>1, <2>2, <2>3 DEF LateFrame, EarlyFrame, SleepEnds, Types
  <2>5. UNCHANGED <<settings, info, clock, world>>
    BY <1>3 DEF LateFrame, EarlyFrame, SleepEnds
  <2> QED
    BY <2>4, <2>5 DEF settings, info, world
<1>4. CASE Attributes \/ GetImage \/ ImageGone
  BY <1>4 DEF Attributes, GetImage, ImageGone, settings, info, world
<1>5. CASE ReturnFrame
  <2>1. clock' \in 1..MaxClock
    BY <1>5, CaptureAssumption DEF ReturnFrame
  <2> QED
    BY <1>5, <2>1 DEF ReturnFrame, settings, world
<1>6. CASE Tick
  <2>1. clock' \in 1..MaxClock
    BY <1>6, CaptureAssumption DEF Tick
  <2> QED
    BY <1>6, <2>1 DEF Tick, settings, info, world
<1>7. CASE Resize \/ Signal \/ UNCHANGED vars
  BY <1>7 DEF Resize, Signal, vars, settings, info, world
<1> QED
  BY <1>1, <1>2, <1>3, <1>4, <1>5, <1>6, <1>7 DEF Next, CaptureFrame

LEMMA BooleansStep == Booleans /\ [Next]_vars => Booleans'
<1> SUFFICES ASSUME Booleans, [Next]_vars PROVE Booleans'
  OBVIOUS
<1>1. CASE Attributes
  BY <1>1 DEF Attributes, Booleans, world
<1>2. CASE Signal
  BY <1>2 DEF Signal, Booleans, info
<1>3. CASE ~Attributes /\ ~Signal
  <2>1. UNCHANGED <<stream_start, quit>>
    BY <1>3 DEF Next, CaptureFrame, ParseOption, Register, FirstFrame, LateFrame, EarlyFrame,
                NoRate, SleepEnds, GetImage, ImageGone, ReturnFrame, Tick, Resize, info, world, vars
  <2> QED
    BY <2>1 DEF Booleans
<1> QED
  BY <1>1, <1>2, <1>3

(* Types, and a frame is never taken at a time that has not come, unless a *)
(* signal cut the pause before it short.                                   *)
THEOREM CaptureTypes == Spec => []TypeOK
<1>1. Init => Types /\ Pacing /\ Ranges /\ Booleans
  <2>1. Init => Booleans
    BY DEF Init, Booleans
  <2> QED
    BY <2>1, TypesInit, PacingInit, RangesInit
<1>2. /\ Types /\ Pacing /\ Ranges /\ Booleans /\ [Next]_vars
      => (Types /\ Pacing /\ Ranges /\ Booleans)'
  BY TypesStep, PacingStep, RangesStep, BooleansStep
<1>3. Types /\ Pacing /\ Ranges /\ Booleans => TypeOK
  <2> SUFFICES ASSUME Types, Pacing, Ranges, Booleans PROVE TypeOK
    OBVIOUS
  <2>1. pc \in InFrame => last_time > 0 /\ (last_time <= clock \/ quit)
    <3>1. pc \in InFrame => last_time > 0
      BY DEF Ranges
    <3>2. pc \in InFrame /\ ~quit => last_time <= clock
      BY DEF Pacing
    <3> QED
      BY <3>1, <3>2
  <2>2. /\ pc \in {"options", "idle", "sleep", "undefined", "exit"} \cup InFrame
        /\ options \in Seq(Options)
        /\ last_time \in Nat /\ wake \in Nat /\ due \in Nat /\ beat \in Nat
    BY DEF Types
  <2> QED
    BY <2>1, <2>2 DEF TypeOK, Ranges, Booleans
<1> QED
  BY <1>1, <1>2, <1>3, PTL DEF Spec

-----------------------------------------------------------------------------
(* The refinement of FrameCapture. *)
Begun ==
  /\ pc = "options" => prev = 0
  /\ pc \in {"image", "encode"} => last \in Sizes

LEMMA BegunStep == Ranges /\ Begun /\ [Next]_vars => Begun'
<1> SUFFICES ASSUME Ranges, Begun, [Next]_vars PROVE Begun'
  OBVIOUS
<1> USE DEF Begun, settings, info, world
<1>1. CASE ParseOption \/ Register \/ Tick \/ Resize \/ Signal \/ UNCHANGED vars
  BY <1>1 DEF ParseOption, Register, Tick, Resize, Signal, vars
<1>2. CASE FirstFrame \/ LateFrame \/ EarlyFrame \/ NoRate \/ SleepEnds
  BY <1>2 DEF FirstFrame, LateFrame, EarlyFrame, NoRate, SleepEnds
<1>3. CASE Attributes
  BY <1>3 DEF Attributes, Ranges
<1>4. CASE GetImage \/ ImageGone \/ ReturnFrame
  BY <1>4 DEF GetImage, ImageGone, ReturnFrame
<1> QED
  BY <1>1, <1>2, <1>3, <1>4 DEF Next, CaptureFrame

(* Between the calls Given is the frame returned last; it is nothing else.  *)
LEMMA GivenBetweenCalls ==
  /\ pc # "idle" \/ prev = 0 => Given = {}
  /\ pc' # "idle" \/ prev' = 0 => Given' = {}
  BY DEF Given

(* Steps that the caller does not see. *)
LEMMA CaptureStutter ==
  ASSUME UNCHANGED info, Status' = Status, pc' = pc \/ (pc # "idle" /\ pc' # "idle")
  PROVE  UNCHANGED Capture!vars
<1>1. Given' = Given
  BY DEF Given, info
<1> QED
  BY <1>1 DEF Capture!vars, info

LEMMA CaptureStep ==
  Ranges /\ Booleans /\ Announced /\ Begun /\ [Next]_vars => [Capture!Next]_(Capture!vars)
<1> SUFFICES ASSUME Ranges, Booleans, Announced, Begun, [Next]_vars
             PROVE  [Capture!Next]_(Capture!vars)
  OBVIOUS
<1>1. CASE ParseOption \/ SleepEnds \/ Tick \/ Resize \/ Signal \/ UNCHANGED vars
  <2>1. UNCHANGED info /\ (pc' = pc \/ (pc = "sleep" /\ pc' = "attributes"))
    BY <1>1 DEF ParseOption, SleepEnds, Tick, Resize, Signal, vars
  <2>2. Status' = Status
    BY <2>1 DEF Status, InFrame
  <2> QED
    BY <2>1, <2>2, CaptureStutter
<1>2. CASE Register
  <2>1. pc = "options" /\ pc' = "idle" /\ prev = 0 /\ prev' = 0
    BY <1>2 DEF Register, Begun, info
  <2>2. Status = "none" /\ Status' = "idle"
    BY <2>1 DEF Status, InFrame
  <2>3. Given = {} /\ Given' = {}
    BY <2>1, GivenBetweenCalls
  <2> QED
    BY <2>1, <2>2, <2>3 DEF Capture!Next, Capture!Create
<1>3. CASE FirstFrame \/ LateFrame \/ EarlyFrame
  <2>1. pc = "idle" /\ pc' \in {"sleep", "attributes"} /\ prev' = prev
    BY <1>3 DEF FirstFrame, LateFrame, EarlyFrame, info
  <2>2. Status = "idle" /\ Status' = "busy"
    BY <2>1 DEF Status, InFrame
  <2>3. Given' = {}
    BY <2>1, GivenBetweenCalls
  <2> QED
    BY <2>1, <2>2, <2>3 DEF Capture!Next, Capture!Begin
<1>4. CASE NoRate \/ ImageGone
  <2>1. pc \in {"idle", "image"} /\ pc' \in {"undefined", "exit"} /\ prev' = prev
    BY <1>4 DEF NoRate, ImageGone, info
  <2>2. Status \in {"idle", "busy"} /\ Status' = "none"
    BY <2>1 DEF Status, InFrame
  <2>3. Given' = {}
    BY <2>1, GivenBetweenCalls
  <2> QED
    BY <2>1, <2>2, <2>3 DEF Capture!Next, Capture!End
<1>5. CASE Attributes \/ GetImage
  <2>1. pc \in InFrame /\ pc' \in InFrame /\ prev' = prev
    BY <1>5 DEF Attributes, GetImage, InFrame
  <2>2. Status' = Status
    BY <2>1 DEF Status, InFrame
  <2>3. Given' = Given
    BY <2>1, GivenBetweenCalls DEF InFrame
  <2> QED
    BY <2>1, <2>2, <2>3 DEF Capture!vars
<1>6. CASE ReturnFrame
  <2>1. /\ pc = "encode" /\ pc' = "idle" /\ prev' = image
        /\ size' = size /\ stream_start' = stream_start /\ image' = image
    BY <1>6 DEF ReturnFrame
  <2>2. image \in Sizes /\ image # 0
    BY <2>1, CaptureAssumption DEF Announced, Begun
  <2>3. size = image /\ stream_start = (image # prev)
    BY <2>1 DEF Announced, Booleans
  <2>4. Given' = {[image |-> image, size |-> image, stream_start |-> image # prev]}
    BY <2>1, <2>2, <2>3 DEF Given
  <2>5. Status = "busy" /\ Status' = "idle"
    BY <2>1 DEF Status, InFrame
  <2>6. Capture!Return(image)
    BY <2>1, <2>4, <2>5 DEF Capture!Return
  <2> QED
    BY <2>2, <2>6 DEF Capture!Next
<1> QED
  BY <1>1, <1>2, <1>3, <1>4, <1>5, <1>6 DEF Next, CaptureFrame

(* The built-in capture keeps the promise of FrameCapture, at every rate,  *)
(* with every set of sizes and every resize.                               *)
THEOREM MjpegKeepsPromise == Spec => CaptureSpec
<1>1. Init => Capture!Init
  <2> SUFFICES ASSUME Init PROVE Capture!Init
    OBVIOUS
  <2>1. pc = "options" /\ prev = 0
    BY DEF Init
  <2>2. Status = "none" /\ Given = {}
    BY <2>1 DEF Status, Given, InFrame
  <2> QED
    BY <2>1, <2>2 DEF Capture!Init
<1>2. Init => Announced /\ Begun /\ Booleans
  BY DEF Init, Announced, Begun, Booleans
<1> QED
  BY <1>1, <1>2, TypesInit, TypesStep, RangesInit, RangesStep, BooleansStep, AnnouncedStep,
     BegunStep, CaptureStep, PTL DEF Spec, CaptureSpec, Capture!Spec

-----------------------------------------------------------------------------
(* The vector that a frame is compressed into. *)

(* While libjpeg writes, its offset counts the bytes it wrote, and they    *)
(* are in place: this is what EmptyOutputBuffer must not break.            *)
Counted ==
  /\ coder = "encode" => next = emitted
  /\ intact

BufferInv == BufferTypeOK /\ InBounds /\ Complete /\ Counted

-----------------------------------------------------------------------------
LEMMA BufferInit == InitBuffer => BufferInv
  BY BufferAssumption DEF InitBuffer, BufferInv, BufferTypeOK, InBounds, Complete, Counted

(* A vector is never smaller than its contents. *)
LEMMA ResizeBounds ==
  ASSUME NEW n \in Nat, NEW offset \in Nat, capacity \in Nat, bytes \in Nat,
         ResizeTo(n, offset), intact = TRUE, offset <= bytes, offset <= n
  PROVE  /\ bytes' = n /\ capacity' \in Nat
         /\ n <= capacity' /\ capacity <= capacity'
         /\ intact' = TRUE
<1>1. bytes' = n /\ capacity' \in Nat /\ n <= capacity' /\ capacity <= capacity'
  BY BufferAssumption DEF ResizeTo
<1>2. intact' = TRUE
  BY DEF ResizeTo
<1> QED
  BY <1>1, <1>2

LEMMA BufferStep == BufferInv /\ [NextBuffer]_bufferVars => BufferInv'
<1> SUFFICES ASSUME BufferInv, [NextBuffer]_bufferVars PROVE BufferInv'
  OBVIOUS
<1> USE BufferAssumption DEF BufferInv, Counted
<1>0. /\ bytes \in Nat /\ capacity \in Nat /\ bytes <= capacity
      /\ next \in Nat /\ free \in Nat /\ emitted \in Nat /\ emitted <= MaxBytes
      /\ intact = TRUE
  BY DEF BufferTypeOK
<1>1. CASE StartImage
  <2> DEFINE n == IF capacity < MinSize THEN MinSize ELSE capacity
  <2>2. n \in Nat /\ n >= MinSize /\ 0 <= n
    BY <1>0
  <2>3. bytes' = n /\ capacity' \in Nat /\ n <= capacity' /\ intact' = TRUE
    <3>1. ResizeTo(n, 0)
      BY <1>1 DEF StartImage
    <3> HIDE DEF n, BufferInv, Counted
    <3>2. 0 \in Nat /\ 0 <= bytes
      BY <1>0
    <3> QED
      BY <1>0, <2>2, <3>1, <3>2, ResizeBounds
  <2>4. coder' = "encode" /\ next' = 0 /\ free' = n /\ emitted' = 0
    BY <1>1, <2>3 DEF StartImage
  <2> HIDE DEF n
  <2>5. BufferTypeOK' /\ InBounds'
    BY <2>2, <2>3, <2>4 DEF BufferTypeOK, InBounds
  <2>6. Complete' /\ Counted'
    BY <2>3, <2>4 DEF Complete
  <2> QED
    BY <2>5, <2>6
<1>2. CASE WriteByte
  <2>1. /\ coder' = "encode" /\ bytes' = bytes /\ capacity' = capacity
        /\ next' = next + 1 /\ free' = free - 1 /\ emitted' = emitted + 1
        /\ coder = "encode" /\ free > 0 /\ emitted < MaxBytes
    BY <1>2 DEF WriteByte
  <2>2. intact' = TRUE
    BY <1>0, <1>2, <2>1 DEF WriteByte
  <2>3. BufferTypeOK' /\ InBounds'
    BY <1>0, <2>1, <2>2 DEF BufferTypeOK, InBounds
  <2> QED
    BY <2>1, <2>2, <2>3 DEF Complete
<1>3. CASE EmptyOutputBuffer
  <2>1. coder = "encode" /\ free = 0 /\ next = bytes /\ capacity >= MinSize
    BY <1>0, <1>3 DEF EmptyOutputBuffer, InBounds
  <2>2. bytes' = capacity * 2 /\ capacity' \in Nat /\ bytes' <= capacity'
        /\ capacity <= capacity' /\ intact' = TRUE
    <3>1. ResizeTo(capacity * 2, next)
      BY <1>3 DEF EmptyOutputBuffer
    <3>2. capacity * 2 \in Nat /\ next <= bytes /\ next <= capacity * 2 /\ capacity <= capacity * 2
      BY <1>0, <2>1
    <3> HIDE DEF BufferInv, Counted
    <3> DEFINE n == capacity * 2
    <3> HIDE DEF n
    <3>3. ResizeTo(n, next) /\ n \in Nat /\ next <= n /\ capacity <= n
      BY <3>1, <3>2 DEF n
    <3>4. bytes' = n /\ capacity' \in Nat /\ n <= capacity' /\ intact' = TRUE
      BY <1>0, <3>2, <3>3, ResizeBounds
    <3> QED
      BY <1>0, <3>3, <3>4 DEF n
  <2>3. coder' = "encode" /\ next' = bytes /\ free' = bytes' - bytes /\ emitted' = emitted
    BY <1>3, <2>1 DEF EmptyOutputBuffer
  <2>4. BufferTypeOK' /\ InBounds'
    BY <1>0, <2>1, <2>2, <2>3 DEF BufferTypeOK, InBounds
  <2>5. Complete' /\ Counted'
    BY <1>0, <2>1, <2>2, <2>3 DEF Complete
  <2> QED
    BY <2>4, <2>5
<1>4. CASE FinishImage
  <2>1. coder = "encode" /\ next <= bytes
    BY <1>0, <1>4 DEF FinishImage, InBounds
  <2>2. bytes' = next /\ capacity' \in Nat /\ bytes' <= capacity' /\ intact' = TRUE
    <3>1. ResizeTo(next, next)
      BY <1>4 DEF FinishImage
    <3> HIDE DEF BufferInv, Counted
    <3>2. next <= next
      BY <1>0
    <3> QED
      BY <1>0, <2>1, <3>1, <3>2, ResizeBounds
  <2>3. coder' = "idle" /\ next' = next /\ free' = free /\ emitted' = emitted
    BY <1>4 DEF FinishImage
  <2>4. BufferTypeOK' /\ InBounds'
    BY <1>0, <2>2, <2>3 DEF BufferTypeOK, InBounds
  <2>5. Complete' /\ Counted'
    BY <1>0, <2>1, <2>2, <2>3 DEF Complete
  <2> QED
    BY <2>4, <2>5
<1>5. CASE UNCHANGED bufferVars
  BY <1>5 DEF bufferVars, BufferTypeOK, InBounds, Complete
<1> QED
  BY <1>1, <1>2, <1>3, <1>4, <1>5 DEF NextBuffer

-----------------------------------------------------------------------------
(* The vector a frame is sent from holds the compressed image and nothing  *)
(* else.                                                                   *)
THEOREM ImageComplete == BufferSpec => []Complete
<1>1. BufferInv => Complete
  BY DEF BufferInv
<1> QED
  BY <1>1, BufferInit, BufferStep, PTL DEF BufferSpec

(* libjpeg never writes past the end of the vector.                        *)
THEOREM WritesInBounds == BufferSpec => []InBounds
<1>1. BufferInv => InBounds
  BY DEF BufferInv
<1> QED
  BY <1>1, BufferInit, BufferStep, PTL DEF BufferSpec

(* A full buffer always grows: there is room after empty_output_buffer.    *)
THEOREM RoomIsMade == BufferSpec => MakesRoom
<1> DEFINE Room == coder = "encode" /\ free = 0 /\ coder' = "encode" => free' > 0
<1>1. BufferInv /\ [NextBuffer]_bufferVars => [Room]_bufferVars
  <2> SUFFICES ASSUME BufferInv, NextBuffer, coder = "encode", free = 0, coder' = "encode"
               PROVE  free' > 0
    BY DEF bufferVars
  <2>1. EmptyOutputBuffer
    BY DEF NextBuffer, StartImage, WriteByte, FinishImage
  <2>2. bytes' = capacity * 2 /\ free' = bytes' - bytes
    BY <2>1 DEF EmptyOutputBuffer, ResizeTo
  <2> QED
    BY <2>2, BufferAssumption DEF BufferInv, BufferTypeOK, InBounds
<1> QED
  BY <1>1, BufferInit, BufferStep, PTL DEF BufferSpec, MakesRoom

(* The vector is never longer than its capacity, and ends where libjpeg    *)
(* stopped between two images.                                             *)
THEOREM BufferTypes == BufferSpec => []BufferTypeOK
<1>1. BufferInv => BufferTypeOK
  BY DEF BufferInv
<1> QED
  BY <1>1, BufferInit, BufferStep, PTL DEF BufferSpec
===============================================================================
