------------------------ MODULE GstreamerCaptureProofs ------------------------
(***************************************************************************)
(* What a frame is, for every set of encoders and screen sizes and every   *)
(* number of images.                                                       *)
(***************************************************************************)
EXTENDS GstreamerCapture, SequenceTheorems, TLAPS

(* Between two captures nothing is in the pipeline.                        *)
NoPipeline == pc \in {"options", "refused", "none"} => Empty

(* What is in the pipeline was taken since the pipeline was restarted.     *)
OneSize ==
  /\ \A i \in 1..Len(src) : src[i].size = last
  /\ enc # None => enc.size = last
  /\ sink # None => sink.size = last

(* What the capture remembers is the size it returned last, until the next *)
(* image is asked for.                                                     *)
Remembered ==
  /\ pc \in {"idle", "attributes"} => (is_first /\ prev = 0 /\ last = -1) \/ (~is_first /\ prev = last)
  /\ pc \in {"image", "push", "pull", "map"} => cur = last
  /\ pc \in {"image", "push"} => (is_first <=> cur # prev)
  /\ pc \in {"pull", "map"} => ~is_first /\ info.size = cur /\ (info.start <=> info.size # prev)
  /\ pc = "map" => sample.size = last

(* An encoder that makes one sample at most of an image has at most one    *)
(* thing in the pipeline, and only while the caller waits for it.          *)
OneImage ==
  manner # "splits" =>
    /\ ~dropped
    /\ pc # "pull" => Len(src) = 0 /\ enc = None /\ sink = None
    /\ Len(src) > 0 => Len(src) = 1 /\ src[1].n = image /\ enc = None /\ sink = None
    /\ enc # None   => enc.n = image /\ sink = None
    /\ sink # None  => sink.n = image
    /\ eos => /\ pc \in {"pull", "destroy", "null"}
              /\ Len(src) = 0 /\ enc = None /\ sink = None
    /\ pc = "map" => sample.n = image

-----------------------------------------------------------------------------
LEMMA TypesInit == Init => TypeOK
<1> SUFFICES ASSUME Init PROVE TypeOK
  OBVIOUS
<1>1. options \in Seq(Options)
  BY SeqDef, GstAssumption DEF Init
<1>2. Len(options) \in Nat /\ <<>> \in Seq(Images)
  BY <1>1, LenProperties, EmptySeq
<1>3. /\ sample \in Images \cup {None} /\ info \in [size : Nat, start : BOOLEAN]
      /\ src \in Seq(Images) /\ enc \in Images \cup {None} /\ sink \in Images \cup {None}
      /\ eos \in BOOLEAN /\ dropped \in BOOLEAN /\ is_first \in BOOLEAN /\ thrown \in BOOLEAN
  BY <1>2 DEF Init, Fresh, Empty
<1>4. parsed \in 0..Len(options) /\ codec \in Codecs /\ manner \in Manners
  BY <1>2, GstAssumption DEF Init, Manners
<1> QED
  BY <1>1, <1>3, <1>4 DEF Init, TypeOK, InCapture

LEMMA EvenIsNat == ASSUME NEW s \in Sizes PROVE Even(s) \in Nat /\ Even(s) > 0
  BY GstAssumption, Z3 DEF Even

LEMMA TypesStep == TypeOK /\ [Next]_vars => TypeOK'
<1> SUFFICES ASSUME TypeOK, [Next]_vars PROVE TypeOK'
  OBVIOUS
<1> USE DEF TypeOK, InCapture, Goto
<1>1. CASE ParseOption
  <2>1. options[parsed + 1] \in Options
    BY <1>1, ElementOfSeq, LenProperties DEF ParseOption
  <2> QED
    BY <1>1, <2>1, GstAssumption DEF ParseOption, Options, frame, pipeline, chosen
<1>2. CASE Register
  <2>1. options' \in Seq(Options) /\ Len(options') = 0
    BY <1>2, EmptySeq DEF Register
  <2> QED
    BY <1>2, <2>1 DEF Register, frame, pipeline, chosen
<1>3. CASE CreateCapture
  <2>1. encoder' \in Encoders /\ codec \in Makes[encoder']
    BY <1>3 DEF CreateCapture, GetEncoder, Suitable
  <2> QED
    BY <1>3, <2>1, GstAssumption DEF CreateCapture, settings, pipeline
<1>4. CASE BeginFrame \/ FreeLast \/ DropCapture
  BY <1>4 DEF BeginFrame, FreeLast, DropCapture, FreeSample, settings, frame, pipeline, chosen
<1>5. CASE Attributes
  <2>1. Even(screen) \in Nat /\ <<>> \in Seq(Images)
    BY EvenIsNat, EmptySeq
  <2>2. /\ src' \in Seq(Images) /\ enc' \in Images \cup {None} /\ sink' \in Images \cup {None}
        /\ eos' \in BOOLEAN /\ dropped' \in BOOLEAN /\ is_first' \in BOOLEAN
    BY <1>5, <2>1 DEF Attributes, pipeline
  <2> QED
    BY <1>5, <2>1, <2>2 DEF Attributes, settings, chosen
<1>6. CASE GetImage \/ GetImageFails \/ ImageGone
  <2>1. CASE GetImage
    BY <2>1 DEF GetImage, settings, pipeline, chosen
  <2>2. CASE GetImageFails \/ ImageGone
    BY <2>2 DEF GetImageFails, ImageGone, Throw, settings, frame, pipeline, chosen
  <2> QED
    BY <1>6, <2>1, <2>2
<1>7. CASE Push
  <2>1. [n |-> image, size |-> cur] \in Images
    BY <1>7 DEF Push, Images
  <2>2. src' \in Seq(Images)
    BY <1>7, <2>1, AppendProperties DEF Push
  <2>3. info' \in [size : Nat, start : BOOLEAN] /\ is_first' \in BOOLEAN
    BY <1>7 DEF Push, Announce
  <2> QED
    BY <1>7, <2>2, <2>3 DEF Push, settings, chosen
<1>8. CASE PushFails \/ NoSample \/ MapFails
  <2>1. pc' = "destroy" /\ thrown' \in BOOLEAN /\ pc \in InCapture
    BY <1>8 DEF PushFails, NoSample, MapFails, Throw
  <2>2. sample' \in {sample, None} /\ image' \in Nat
    BY <1>8 DEF PushFails, NoSample, MapFails, FreeSample, frame
  <2>3. UNCHANGED <<settings, screen, cur, last, is_first, info, taken, prev, pipeline, chosen>>
    BY <1>8 DEF PushFails, NoSample, MapFails, frame
  <2> QED
    BY <2>1, <2>2, <2>3 DEF settings, pipeline, chosen
<1>9. CASE Pull \/ ReturnFrame
  BY <1>9 DEF Pull, ReturnFrame, settings, pipeline, chosen
<1>10. CASE StopPipeline
  <2>1. <<>> \in Seq(Images)
    BY EmptySeq
  <2> QED
    BY <1>10, <2>1 DEF StopPipeline, Manners, settings, frame
<1>11. CASE TakeImage
  <2>1. Head(src) \in Images /\ Tail(src) \in Seq(Images)
    BY <1>11, HeadTailProperties DEF TakeImage
  <2> QED
    BY <1>11, <2>1 DEF TakeImage, settings, frame, chosen
<1>12. CASE MakeSample \/ SkipImage
  BY <1>12 DEF MakeSample, SkipImage, settings, frame, chosen
<1>13. CASE Fails
  <2>1. <<>> \in Seq(Images)
    BY EmptySeq
  <2> QED
    BY <1>13, <2>1 DEF Fails, settings, frame, chosen
<1>14. CASE Resize
  BY <1>14 DEF Resize, settings, frame, pipeline, chosen
<1>15. CASE UNCHANGED vars
  BY <1>15 DEF vars, settings, frame, pipeline, chosen
<1> QED
  BY <1>1, <1>2, <1>3, <1>4, <1>5, <1>6, <1>7, <1>8, <1>9, <1>10, <1>11, <1>12, <1>13, <1>14, <1>15
  DEF Next, CaptureFrame, Pipeline

(* Every variable keeps its type, and a capture has an encoder that makes  *)
(* the plugin's codec, whatever encoders there are.                        *)
THEOREM GstTypes == Spec => []TypeOK
  BY TypesInit, TypesStep, PTL DEF Spec

-----------------------------------------------------------------------------
(* The pipeline's thread leaves the agent alone, and has nothing to do if  *)
(* there is no image.                                                      *)
LEMMA PipelineSteps ==
  ASSUME Pipeline
  PROVE  /\ UNCHANGED <<pc, settings, screen, frame, chosen, thrown>>
         /\ src # <<>> \/ enc # None
<1>1. CASE TakeImage
  BY <1>1 DEF TakeImage
<1>2. CASE MakeSample
  BY <1>2 DEF MakeSample
<1>3. CASE SkipImage
  BY <1>3 DEF SkipImage
<1>4. CASE Fails
  BY <1>4 DEF Fails
<1> QED
  BY <1>1, <1>2, <1>3, <1>4 DEF Pipeline

(* The steps of the agent that leave the pipeline alone. *)
LeavesPipeline ==
  \/ ParseOption \/ Register \/ CreateCapture
  \/ BeginFrame \/ GetImage \/ GetImageFails \/ ImageGone
  \/ PushFails \/ NoSample \/ ReturnFrame \/ MapFails
  \/ DropCapture \/ FreeLast \/ Resize \/ UNCHANGED vars

LEMMA PipelineLeft == LeavesPipeline => UNCHANGED pipeline
<1>1. ParseOption \/ Register \/ CreateCapture \/ BeginFrame \/ GetImage \/ GetImageFails \/ ImageGone
      => UNCHANGED pipeline
  BY DEF ParseOption, Register, CreateCapture, BeginFrame, GetImage, GetImageFails, ImageGone
<1>2. PushFails \/ NoSample \/ ReturnFrame \/ MapFails \/ DropCapture \/ FreeLast \/ Resize
      => UNCHANGED pipeline
  BY DEF PushFails, NoSample, ReturnFrame, MapFails, DropCapture, FreeLast, Resize
<1>3. UNCHANGED vars => UNCHANGED pipeline
  BY DEF vars
<1> QED
  BY <1>1, <1>2, <1>3 DEF LeavesPipeline

LEMMA Steps ==
  ASSUME [Next]_vars
  PROVE  LeavesPipeline \/ Attributes \/ Push \/ Pull \/ StopPipeline \/ Pipeline
  BY DEF Next, CaptureFrame, LeavesPipeline

(* The pipeline is empty before the first capture, and between two. *)
LEMMA NoPipelineStep == TypeOK /\ NoPipeline /\ [Next]_vars => NoPipeline'
<1> SUFFICES ASSUME TypeOK, NoPipeline, [Next]_vars PROVE NoPipeline'
  OBVIOUS
<1>1. CASE LeavesPipeline
  <2>1. pc' \in {"options", "refused", "none"} => pc \in {"options", "refused", "none"}
    <3>1. CASE ParseOption \/ Register \/ Resize \/ UNCHANGED vars
      BY <3>1 DEF ParseOption, Register, Goto, Resize, vars
    <3>2. CASE CreateCapture \/ BeginFrame \/ GetImage \/ ImageGone \/ ReturnFrame \/ DropCapture \/ FreeLast
      BY <3>2 DEF CreateCapture, BeginFrame, GetImage, ImageGone, ReturnFrame, DropCapture, FreeLast, Goto
    <3>3. CASE GetImageFails \/ PushFails \/ NoSample \/ MapFails
      BY <3>3 DEF GetImageFails, PushFails, NoSample, MapFails, Throw, Goto
    <3> QED
      BY <1>1, <3>1, <3>2, <3>3 DEF LeavesPipeline
  <2>2. UNCHANGED pipeline
    BY <1>1, PipelineLeft
  <2> QED
    BY <2>1, <2>2 DEF NoPipeline, Empty, pipeline
<1>2. CASE Attributes \/ Push \/ Pull
  BY <1>2 DEF Attributes, Push, Pull, Goto, NoPipeline
<1>3. CASE StopPipeline
  BY <1>3 DEF StopPipeline, NoPipeline, Empty
<1>4. CASE Pipeline
  <2>1. pc' = pc /\ ~(src = <<>> /\ enc = None)
    BY <1>4, PipelineSteps
  <2> QED
    BY <2>1 DEF NoPipeline, Empty
<1> QED
  BY <1>1, <1>2, <1>3, <1>4, Steps

-----------------------------------------------------------------------------
(* Where `last' changes, the pipeline is empty or becomes so. *)
LEMMA LastSteps ==
  ASSUME TypeOK, NoPipeline, LeavesPipeline
  PROVE  last' = last \/ (src = <<>> /\ enc = None /\ sink = None)
<1>1. CASE CreateCapture
  BY <1>1 DEF CreateCapture, Goto, NoPipeline, Empty
<1>2. CASE ParseOption \/ Register \/ Resize \/ UNCHANGED vars
  BY <1>2 DEF ParseOption, Register, Resize, vars, frame
<1>3. CASE BeginFrame \/ GetImage \/ ImageGone \/ ReturnFrame \/ DropCapture \/ FreeLast
  BY <1>3 DEF BeginFrame, GetImage, ImageGone, ReturnFrame, DropCapture, FreeLast, frame
<1>4. CASE GetImageFails \/ PushFails \/ NoSample \/ MapFails
  BY <1>4 DEF GetImageFails, PushFails, NoSample, MapFails, frame
<1> QED
  BY <1>1, <1>2, <1>3, <1>4 DEF LeavesPipeline

LEMMA OneSizeStep ==
  TypeOK /\ NoPipeline /\ Remembered /\ OneSize /\ [Next]_vars => OneSize'
<1> SUFFICES ASSUME TypeOK, NoPipeline, Remembered, OneSize, [Next]_vars PROVE OneSize'
  OBVIOUS
<1>1. CASE LeavesPipeline
  <2>1. UNCHANGED <<src, enc, sink>>
    BY <1>1, PipelineLeft DEF pipeline
  <2>2. CASE last' = last
    BY <2>1, <2>2 DEF OneSize
  <2>3. CASE src = <<>> /\ enc = None /\ sink = None
    BY <2>1, <2>3 DEF OneSize
  <2> QED
    BY <1>1, <2>2, <2>3, LastSteps
<1>2. CASE Attributes
  <2>1. CASE Even(screen) # last
    BY <1>2, <2>1 DEF Attributes, OneSize
  <2>2. CASE Even(screen) = last
    BY <1>2, <2>2 DEF Attributes, OneSize, pipeline
  <2> QED
    BY <2>1, <2>2
<1>3. CASE Push
  <2>1. /\ src' = Append(src, [n |-> image, size |-> last])
        /\ last' = last /\ enc' = enc /\ sink' = sink
    BY <1>3 DEF Push, Goto, Remembered
  <2>2. src \in Seq(Images) /\ [n |-> image, size |-> last] \in Images
    BY <1>3 DEF TypeOK, Images, Push, Goto, Remembered
  <2> QED
    BY <2>1, <2>2, AppendProperties, LenProperties DEF OneSize
<1>4. CASE Pull
  BY <1>4 DEF Pull, OneSize
<1>5. CASE StopPipeline
  BY <1>5 DEF StopPipeline, OneSize
<1>6. CASE Pipeline
  <2>0. last' = last
    BY <1>6, PipelineSteps DEF frame
  <2>1. CASE TakeImage
    <3>1. src \in Seq(Images) /\ src # <<>> /\ enc' = Head(src) /\ src' = Tail(src) /\ sink' = sink
      BY <2>1 DEF TakeImage, TypeOK
    <3>2. Len(src) \in Nat \ {0} /\ Head(src) = src[1]
      BY <3>1, EmptySeq
    <3>3. \A i \in 1..Len(src') : src'[i].size = last
      BY <3>1, <3>2, HeadTailProperties DEF OneSize
    <3> QED
      BY <2>0, <3>1, <3>2, <3>3 DEF OneSize
  <2>2. CASE MakeSample
    BY <2>0, <2>2 DEF MakeSample, OneSize
  <2>3. CASE SkipImage
    BY <2>0, <2>3 DEF SkipImage, OneSize
  <2>4. CASE Fails
    BY <2>0, <2>4 DEF Fails, OneSize
  <2> QED
    BY <1>6, <2>1, <2>2, <2>3, <2>4 DEF Pipeline
<1> QED
  BY <1>1, <1>2, <1>3, <1>4, <1>5, <1>6, Steps

LEMMA RememberedStep ==
  TypeOK /\ OneSize /\ Remembered /\ [Next]_vars => Remembered'
<1> SUFFICES ASSUME TypeOK, OneSize, Remembered, [Next]_vars PROVE Remembered'
  OBVIOUS
<1> USE DEF Goto
<1>1. CASE ParseOption \/ Register
  BY <1>1 DEF ParseOption, Register, Remembered
<1>2. CASE CreateCapture
  BY <1>2 DEF CreateCapture, Remembered
<1>3. CASE BeginFrame
  BY <1>3 DEF BeginFrame, FreeSample, Remembered
<1>4. CASE Attributes
  <2>1. /\ cur' = Even(screen) /\ last' = Even(screen) /\ pc' = "image" /\ prev' = prev
        /\ Even(screen) > 0
    BY <1>4, EvenIsNat DEF Attributes, TypeOK
  <2>2. CASE Even(screen) # last
    <3>1. is_first' = TRUE
      BY <1>4, <2>2 DEF Attributes
    <3>2. cur' # prev'
      BY <1>4, <2>1, <2>2 DEF Attributes, Remembered
    <3> QED
      BY <2>1, <3>1, <3>2 DEF Remembered
  <2>3. CASE Even(screen) = last
    <3>1. is_first' = is_first /\ pc = "attributes" /\ last # -1
      BY <1>4, <2>1, <2>3 DEF Attributes
    <3>2. ~is_first /\ prev = last
      BY <3>1 DEF Remembered
    <3> QED
      BY <2>1, <2>3, <3>1, <3>2 DEF Remembered
  <2> QED
    BY <2>2, <2>3
<1>5. CASE GetImage
  BY <1>5 DEF GetImage, Remembered
<1>6. CASE Push
  BY <1>6 DEF Push, Announce, Remembered, TypeOK
<1>7. CASE Pull
  BY <1>7 DEF Pull, Remembered, OneSize
<1>8. CASE ReturnFrame
  <2>1. info.size = last /\ ~is_first
    BY <1>8 DEF ReturnFrame, Remembered
  <2> QED
    BY <1>8, <2>1 DEF ReturnFrame, Remembered
<1>9. CASE GetImageFails \/ PushFails \/ NoSample \/ MapFails
  BY <1>9 DEF GetImageFails, PushFails, NoSample, MapFails, Throw, Remembered
<1>10. CASE ImageGone \/ DropCapture \/ FreeLast \/ StopPipeline
  BY <1>10 DEF ImageGone, DropCapture, FreeLast, StopPipeline, Remembered
<1>11. CASE Pipeline \/ Resize \/ UNCHANGED vars
  <2>1. UNCHANGED <<pc, frame>>
    BY <1>11, PipelineSteps DEF Resize, vars
  <2> QED
    BY <2>1 DEF frame, Remembered
<1> QED
  BY <1>1, <1>2, <1>3, <1>4, <1>5, <1>6, <1>7, <1>8, <1>9, <1>10, <1>11 DEF Next, CaptureFrame

-----------------------------------------------------------------------------
(* Steps that do not touch what OneImage speaks of, but for pc. *)
LEMMA OneImageKept ==
  ASSUME OneImage, UNCHANGED <<pipeline, image, sample, manner>>,
         pc' = pc \/ (pc # "pull" /\ pc' \notin {"pull", "map"} /\ (eos => pc' \in {"destroy", "null"}))
                  \/ (pc = "pull" /\ pc' = "destroy" /\ eos)
  PROVE  OneImage'
<1> SUFFICES ASSUME manner # "splits" PROVE OneImage'
  BY DEF OneImage
<1>1. /\ UNCHANGED <<src, enc, sink, eos, dropped>>
  BY DEF pipeline
<1>2. ~dropped'
  BY <1>1 DEF OneImage
<1>3. eos' => /\ pc' \in {"pull", "destroy", "null"}
              /\ Len(src') = 0 /\ enc' = None /\ sink' = None
  BY <1>1 DEF OneImage
<1>4. pc' # "pull" => Len(src') = 0 /\ enc' = None /\ sink' = None
  BY <1>1 DEF OneImage
<1> QED
  BY <1>1, <1>2, <1>3, <1>4 DEF OneImage

LEMMA OneImageStep ==
  TypeOK /\ NoPipeline /\ OneImage /\ [Next]_vars => OneImage'
<1> SUFFICES ASSUME TypeOK, NoPipeline, OneImage, [Next]_vars PROVE OneImage'
  OBVIOUS
<1>0. src \in Seq(Images) /\ Len(src) \in Nat /\ Len(<<>>) = 0 /\ (src # <<>> => Len(src) > 0)
  BY LenProperties, EmptySeq DEF TypeOK
<1>1. CASE ParseOption \/ Register
  <2>1. pc = "options" /\ pc' \in {"options", "refused", "none"}
    BY <1>1 DEF ParseOption, Register, Goto
  <2>2. ~eos
    BY <2>1 DEF NoPipeline, Empty
  <2>3. UNCHANGED <<pipeline, image, sample, manner>>
    BY <1>1 DEF ParseOption, Register, frame, chosen
  <2> QED
    BY <2>1, <2>2, <2>3, OneImageKept
<1>2. CASE CreateCapture
  <2>1. Empty /\ UNCHANGED pipeline /\ pc' = "idle"
    BY <1>2 DEF CreateCapture, NoPipeline, Goto
  <2>2. ~dropped' /\ ~eos'
    BY <2>1 DEF Empty, pipeline
  <2>3. src' = <<>> /\ enc' = None /\ sink' = None
    BY <2>1 DEF Empty, pipeline
  <2> QED
    BY <1>0, <2>1, <2>2, <2>3 DEF OneImage
<1>3. CASE BeginFrame \/ MapFails \/ FreeLast \/ GetImage
  <2>1. /\ pc \notin {"pull"} /\ pc' \notin {"pull", "map"} /\ manner' = manner
        /\ UNCHANGED <<src, enc, sink>>
    BY <1>3 DEF BeginFrame, MapFails, FreeLast, GetImage, Throw, Goto, pipeline, chosen
  <2>2. UNCHANGED <<eos, dropped>>
    BY <1>3 DEF BeginFrame, MapFails, FreeLast, GetImage, pipeline
  <2>3. manner # "splits" => (eos => pc \in {"destroy", "null"})
    BY <2>1 DEF OneImage
  <2>4. pc \in {"destroy", "null"} => pc' \in {"destroy", "null"}
    BY <1>3 DEF BeginFrame, MapFails, FreeLast, GetImage, Throw, Goto
  <2> QED
    BY <2>1, <2>2, <2>3, <2>4 DEF OneImage
<1>4. CASE Attributes
  <2>1. pc = "attributes" /\ pc' = "image" /\ UNCHANGED <<image, sample, manner>>
    BY <1>4 DEF Attributes, Goto, chosen
  <2>2. CASE Even(screen) # last
    <3>1. src' = <<>> /\ enc' = None /\ sink' = None
      BY <1>4, <2>2 DEF Attributes
    <3>2. ~eos' /\ ~dropped'
      BY <1>4, <2>2 DEF Attributes
    <3> QED
      BY <1>0, <2>1, <3>1, <3>2 DEF OneImage
  <2>3. CASE Even(screen) = last
    <3>1. UNCHANGED pipeline
      BY <1>4, <2>3 DEF Attributes
    <3>2. CASE manner = "splits"
      BY <2>1, <3>2 DEF OneImage
    <3>3. CASE manner # "splits"
      <4>1. ~eos
        BY <2>1, <3>3 DEF OneImage
      <4> QED
        BY <2>1, <3>1, <4>1, OneImageKept
    <3> QED
      BY <3>2, <3>3
  <2> QED
    BY <2>2, <2>3
<1>5. CASE Push
  <2> SUFFICES ASSUME manner' # "splits" PROVE OneImage'
    BY DEF OneImage
  <2>1. /\ pc = "push" /\ pc' = "pull" /\ manner' = manner /\ image' = image
        /\ src' = Append(src, [n |-> image, size |-> cur])
        /\ enc' = enc /\ sink' = sink
    BY <1>5 DEF Push, Goto, chosen
  <2>2. eos' = eos /\ dropped' = dropped
    BY <1>5 DEF Push
  <2>3. ~eos' /\ ~dropped'
    BY <2>1, <2>2 DEF OneImage
  <2>4. Len(src) = 0 /\ enc = None /\ sink = None
    BY <2>1 DEF OneImage
  <2>5. [n |-> image, size |-> cur] \in Images
    BY <2>1 DEF TypeOK, Images
  <2>6. Len(src') = 1 /\ src'[1] = [n |-> image, size |-> cur]
    BY <1>0, <2>1, <2>4, <2>5, AppendProperties
  <2> QED
    BY <2>1, <2>3, <2>4, <2>6 DEF OneImage
<1>6. CASE Pull
  <2>1. /\ pc = "pull" /\ pc' = "map" /\ manner' = manner /\ image' = image
        /\ sink # None /\ sample' = sink /\ sink' = None /\ UNCHANGED <<src, enc>>
    BY <1>6 DEF Pull, Goto, chosen
  <2>2. UNCHANGED <<eos, dropped>>
    BY <1>6 DEF Pull
  <2>3. manner # "splits" => ~eos /\ ~dropped
    BY <2>1 DEF OneImage
  <2> QED
    BY <1>0, <2>1, <2>2, <2>3 DEF OneImage
<1>7. CASE GetImageFails \/ PushFails \/ ImageGone \/ DropCapture \/ ReturnFrame
  <2>1. /\ pc \in {"image", "push", "idle", "map"} /\ pc' \notin {"pull", "map"}
        /\ UNCHANGED <<image, sample, manner>>
    BY <1>7 DEF GetImageFails, PushFails, ImageGone, DropCapture, ReturnFrame, Throw, Goto, frame, chosen
  <2>2. UNCHANGED pipeline
    BY <1>7, PipelineLeft DEF LeavesPipeline
  <2>3. CASE manner = "splits"
    BY <2>1, <2>3 DEF OneImage
  <2>4. CASE manner # "splits"
    <3>1. ~eos
      BY <2>1, <2>4 DEF OneImage
    <3> QED
      BY <2>1, <2>2, <3>1, OneImageKept
  <2> QED
    BY <2>3, <2>4
<1>8. CASE NoSample
  <2>1. pc = "pull" /\ pc' = "destroy" /\ UNCHANGED <<pipeline, image, sample, manner>>
    BY <1>8 DEF NoSample, Throw, Goto, frame, chosen
  <2>2. eos
    BY <1>8 DEF NoSample
  <2> QED
    BY <2>1, <2>2, OneImageKept
<1>9. CASE StopPipeline
  <2>1. pc' = "none" /\ src' = <<>> /\ enc' = None /\ sink' = None
    BY <1>9 DEF StopPipeline, Goto
  <2>2. ~eos' /\ ~dropped'
    BY <1>9 DEF StopPipeline
  <2> QED
    BY <1>0, <2>1, <2>2 DEF OneImage
<1>10. CASE Resize \/ UNCHANGED vars
  <2>1. UNCHANGED <<pipeline, image, sample, manner, pc>>
    BY <1>10 DEF Resize, vars, frame, chosen
  <2> QED
    BY <2>1, OneImageKept
<1>11. CASE Pipeline
  <2> SUFFICES ASSUME manner' # "splits" PROVE OneImage'
    BY DEF OneImage
  <2>1. pc' = pc /\ image' = image /\ sample' = sample /\ manner' = manner /\ (Len(src) > 0 \/ enc # None)
    BY <1>0, <1>11, PipelineSteps DEF frame, chosen
  <2>2. pc = "pull" /\ sink = None
    BY <1>0, <2>1 DEF OneImage
  <2>3. ~eos /\ ~dropped
    BY <1>0, <2>1 DEF OneImage
  <2>4. CASE TakeImage
    <3>1. /\ enc = None /\ enc' = Head(src) /\ src' = Tail(src) /\ sink' = sink /\ src # <<>>
      BY <2>4 DEF TakeImage
    <3>2. ~eos' /\ ~dropped'
      BY <2>3, <2>4 DEF TakeImage
    <3>3. Len(src) = 1 /\ src[1].n = image
      BY <1>0, <2>1, <3>1 DEF OneImage
    <3>4. Len(src') = 0
      BY <1>0, <3>1, <3>3, HeadTailProperties
    <3>5. enc' = src[1]
      BY <3>1
    <3>6. sink' = None /\ enc'.n = image' /\ pc' = "pull"
      BY <2>1, <2>2, <3>1, <3>3, <3>5
    <3> QED
      BY <3>2, <3>4, <3>6 DEF OneImage
  <2>5. CASE MakeSample
    <3>1. enc # None /\ sink' = enc /\ enc' = None /\ src' = src /\ Len(src) = 0 /\ enc.n = image
      BY <1>0, <2>1, <2>5 DEF MakeSample, OneImage
    <3>2. ~eos' /\ ~dropped'
      BY <2>2, <2>3, <2>5 DEF MakeSample
    <3> QED
      BY <2>1, <2>2, <3>1, <3>2 DEF OneImage
  <2>6. CASE SkipImage
    <3>1. enc # None /\ sink' = sink /\ enc' = None /\ src' = src /\ Len(src) = 0
      BY <1>0, <2>1, <2>6 DEF SkipImage, OneImage
    <3>2. ~eos' /\ ~dropped'
      BY <2>3, <2>6 DEF SkipImage
    <3> QED
      BY <2>1, <2>2, <3>1, <3>2 DEF OneImage
  <2>7. CASE Fails
    <3>1. src' = <<>> /\ enc' = None /\ sink' = sink
      BY <2>7 DEF Fails
    <3>2. ~dropped' /\ eos' = TRUE
      BY <2>3, <2>7 DEF Fails
    <3> QED
      BY <1>0, <2>1, <2>2, <3>1, <3>2 DEF OneImage
  <2> QED
    BY <1>11, <2>4, <2>5, <2>6, <2>7 DEF Pipeline
<1> QED
  BY <1>1, <1>2, <1>3, <1>4, <1>5, <1>6, <1>7, <1>8, <1>9, <1>10, <1>11 DEF Next, CaptureFrame

-----------------------------------------------------------------------------
GstInv == TypeOK /\ NoPipeline /\ OneSize /\ Remembered /\ OneImage

LEMMA GstInit == Init => GstInv
<1> SUFFICES ASSUME Init PROVE GstInv
  OBVIOUS
<1>1. TypeOK
  BY TypesInit
<1>2. NoPipeline /\ OneSize
  BY DEF Init, Empty, NoPipeline, OneSize
<1>3. Remembered
  BY DEF Init, Remembered
<1>4. ~dropped /\ ~eos
  BY DEF Init, Empty
<1>5. OneImage
  BY <1>4, EmptySeq DEF Init, Empty, OneImage
<1> QED
  BY <1>1, <1>2, <1>3, <1>5 DEF GstInv

LEMMA GstInvariance == Spec => []GstInv
<1>1. GstInv /\ [Next]_vars => GstInv'
  BY TypesStep, NoPipelineStep, OneSizeStep, RememberedStep, OneImageStep DEF GstInv
<1> QED
  BY <1>1, GstInit, PTL DEF Spec

(* CaptureFrame returns a sample of the size it announces, and announces a *)
(* stream exactly when the size is new, for every encoder and every resize. *)
THEOREM GstSizeAnnounced == Spec => []SizeAnnounced
<1>1. GstInv => SizeAnnounced
  BY DEF GstInv, Remembered, SizeAnnounced
<1> QED
  BY <1>1, GstInvariance, PTL

(* The image whose memory the pipeline reads has not been destroyed, as    *)
(* long as the encoder makes one sample at most of each image.             *)
THEOREM GstImageAlive == Spec => []ImageAlive
<1>1. GstInv => ImageAlive
  <2> SUFFICES ASSUME GstInv, manner # "splits"
               PROVE  /\ enc # None => enc.n = image
                      /\ \A i \in 1..Len(src) : src[i].n = image
    BY DEF ImageAlive
  <2>1. Len(src) \in Nat
    BY LenProperties DEF GstInv, TypeOK
  <2> QED
    BY <2>1 DEF GstInv, OneImage
<1> QED
  BY <1>1, GstInvariance, PTL

(* What the caller waits for does not get lost in the pipeline. *)
OnItsWay == manner # "skips" /\ pc = "pull" => src # <<>> \/ enc # None \/ sink # None \/ eos

LEMMA OnItsWayStep == TypeOK /\ OnItsWay /\ [Next]_vars => OnItsWay'
<1> SUFFICES ASSUME TypeOK, OnItsWay, [Next]_vars, manner' # "skips", pc' = "pull"
             PROVE  src' # <<>> \/ enc' # None \/ sink' # None \/ eos'
  BY DEF OnItsWay
<1>1. CASE LeavesPipeline
  <2>1. UNCHANGED pipeline
    BY <1>1, PipelineLeft
  <2>2. Resize \/ UNCHANGED vars
    BY <1>1 DEF LeavesPipeline, ParseOption, Register, CreateCapture, BeginFrame, GetImage,
                GetImageFails, ImageGone, PushFails, NoSample, ReturnFrame, MapFails,
                DropCapture, FreeLast, Throw, Goto
  <2>3. pc' = pc /\ manner' = manner
    BY <2>2 DEF Resize, vars, chosen
  <2> QED
    BY <2>1, <2>3 DEF OnItsWay, pipeline
<1>2. CASE Attributes \/ Pull \/ StopPipeline
  BY <1>2 DEF Attributes, Pull, StopPipeline, Goto
<1>3. CASE Push
  <2>1. src' = Append(src, [n |-> image, size |-> cur]) /\ pc = "push"
    BY <1>3 DEF Push, Goto
  <2>2. [n |-> image, size |-> cur] \in Images /\ src \in Seq(Images)
    BY <2>1 DEF TypeOK, Images
  <2>3. Len(src') > 0
    BY <2>1, <2>2, AppendProperties
  <2> QED
    BY <2>3, EmptySeq
<1>4. CASE Pipeline
  <2>1. pc = "pull" /\ manner' = manner
    BY <1>4 DEF Pipeline, TakeImage, MakeSample, SkipImage, Fails, chosen
  <2>2. CASE TakeImage
    <3>1. enc' = Head(src) /\ src # <<>> /\ src \in Seq(Images)
      BY <2>2 DEF TakeImage, TypeOK
    <3>2. enc' \in Images
      BY <3>1, HeadTailProperties
    <3> QED
      BY <3>2, GstAssumption DEF Images
  <2>3. CASE MakeSample
    BY <2>3 DEF MakeSample
  <2>4. CASE SkipImage
    BY <2>1, <2>4 DEF SkipImage
  <2>5. CASE Fails
    BY <2>5 DEF Fails
  <2> QED
    BY <1>4, <2>2, <2>3, <2>4, <2>5 DEF Pipeline
<1> QED
  BY <1>1, <1>2, <1>3, <1>4, Steps

(* The sample that is returned is that of the image just taken, and none   *)
(* was dropped, again for encoders of one sample at most; and a sample the *)
(* caller waits for is on its way, for encoders of one sample at least.    *)
THEOREM GstNothingLost == Spec => []NothingLost
<1>1. GstInv /\ OnItsWay => NothingLost
  BY DEF GstInv, OneImage, OnItsWay, NothingLost
<1>2. Init => OnItsWay
  BY DEF Init, OnItsWay
<1>3. TypeOK /\ OnItsWay /\ [Next]_vars => OnItsWay'
  BY OnItsWayStep
<1> QED
  BY <1>1, <1>2, <1>3, GstTypes, GstInvariance, PTL DEF Spec

-----------------------------------------------------------------------------
(* The refinement of FrameCapture. *)
Evens == {Even(s) : s \in Sizes}

(* A sample is mapped from its pull to the next call or the destructor, and *)
(* the size in hand is that of a screen.                                   *)
Handed ==
  /\ pc \in {"options", "none", "null", "attributes", "image", "push", "pull"} => sample = None
  /\ pc = "map" => sample # None
  /\ pc \in {"image", "push", "pull", "map"} => cur \in Evens

LEMMA HandedStep == TypeOK /\ Handed /\ [Next]_vars => Handed'
<1> SUFFICES ASSUME TypeOK, Handed, [Next]_vars PROVE Handed'
  OBVIOUS
<1> USE DEF Handed, Goto, frame
<1>1. CASE ParseOption \/ Register \/ CreateCapture
  BY <1>1 DEF ParseOption, Register, CreateCapture
<1>2. CASE BeginFrame
  BY <1>2 DEF BeginFrame, FreeSample
<1>3. CASE Attributes
  <2>1. Even(screen) \in Evens
    BY DEF TypeOK, Evens
  <2> QED
    BY <1>3, <2>1 DEF Attributes
<1>4. CASE GetImage \/ Push
  BY <1>4 DEF GetImage, Push, Announce
<1>5. CASE GetImageFails \/ ImageGone \/ PushFails \/ NoSample \/ MapFails \/ DropCapture
  BY <1>5 DEF GetImageFails, ImageGone, PushFails, NoSample, MapFails, DropCapture, Throw
<1>6. CASE Pull
  BY <1>6 DEF Pull
<1>7. CASE ReturnFrame
  BY <1>7 DEF ReturnFrame
<1>8. CASE FreeLast \/ StopPipeline
  BY <1>8 DEF FreeLast, StopPipeline, FreeSample
<1>9. CASE Pipeline \/ Resize \/ UNCHANGED vars
  <2>1. pc' = pc /\ UNCHANGED frame
    BY <1>9 DEF Pipeline, TakeImage, MakeSample, SkipImage, Fails, Resize, vars
  <2> QED
    BY <2>1
<1> QED
  BY <1>1, <1>2, <1>3, <1>4, <1>5, <1>6, <1>7, <1>8, <1>9 DEF Next, CaptureFrame

(* Nothing is given but between two calls of one capture. *)
LEMMA GivenBetweenCalls ==
  /\ pc # "idle" \/ sample = None => Given = {}
  /\ pc' # "idle" \/ sample' = None => Given' = {}
  BY DEF Given

LEMMA CaptureStep ==
  TypeOK /\ Remembered /\ Handed /\ [Next]_vars => [Capture!Next]_(Capture!vars)
<1> SUFFICES ASSUME TypeOK, Remembered, Handed, [Next]_vars
             PROVE  [Capture!Next]_(Capture!vars)
  OBVIOUS
<1> USE DEF Goto
<1>1. CASE Pipeline \/ Resize \/ UNCHANGED vars
  <2>1. pc' = pc /\ UNCHANGED frame
    BY <1>1 DEF Pipeline, TakeImage, MakeSample, SkipImage, Fails, Resize, vars
  <2>2. Status' = Status /\ Given' = Given
    BY <2>1 DEF Status, Given, frame
  <2> QED
    BY <2>1, <2>2 DEF Capture!vars, frame
<1>2. CASE ParseOption \/ Register \/ FreeLast \/ StopPipeline
  <2>1. /\ pc \in {"options", "destroy", "null"} /\ pc' \in {"options", "refused", "null", "none"}
        /\ prev' = prev
    BY <1>2 DEF ParseOption, Register, FreeLast, StopPipeline, frame
  <2>2. Status = "none" /\ Status' = "none"
    BY <2>1 DEF Status
  <2>3. Given = {} /\ Given' = {}
    BY <2>1, GivenBetweenCalls
  <2> QED
    BY <2>1, <2>2, <2>3 DEF Capture!vars
<1>3. CASE CreateCapture
  <2>1. pc = "none" /\ pc' = "idle" /\ prev' = 0 /\ sample' = sample /\ sample = None
    BY <1>3 DEF CreateCapture, Handed
  <2>2. Status = "none" /\ Status' = "idle"
    BY <2>1 DEF Status
  <2>3. Given = {} /\ Given' = {}
    BY <2>1, GivenBetweenCalls
  <2> QED
    BY <2>1, <2>2, <2>3 DEF Capture!Next, Capture!Create
<1>4. CASE BeginFrame
  <2>1. pc = "idle" /\ pc' = "attributes" /\ prev' = prev
    BY <1>4 DEF BeginFrame
  <2>2. Status = "idle" /\ Status' = "busy"
    BY <2>1 DEF Status
  <2>3. Given' = {}
    BY <2>1, GivenBetweenCalls
  <2> QED
    BY <2>1, <2>2, <2>3 DEF Capture!Next, Capture!Begin
<1>5. CASE Attributes \/ GetImage \/ Push \/ Pull
  <2>1. /\ pc \in {"attributes", "image", "push", "pull"} /\ pc' \in {"image", "push", "pull", "map"}
        /\ prev' = prev
    BY <1>5 DEF Attributes, GetImage, Push, Pull
  <2>2. Status = "busy" /\ Status' = "busy"
    BY <2>1 DEF Status
  <2>3. Given = {} /\ Given' = {}
    BY <2>1, GivenBetweenCalls
  <2> QED
    BY <2>1, <2>2, <2>3 DEF Capture!vars
<1>6. CASE GetImageFails \/ ImageGone \/ PushFails \/ NoSample \/ MapFails \/ DropCapture
  <2>1. /\ pc \in {"idle", "image", "push", "pull", "map"} /\ pc' \in {"destroy", "exit"}
        /\ prev' = prev
    BY <1>6 DEF GetImageFails, ImageGone, PushFails, NoSample, MapFails, DropCapture, Throw, frame
  <2>2. Status \in {"idle", "busy"} /\ Status' = "none"
    BY <2>1 DEF Status
  <2>3. Given' = {}
    BY <2>1, GivenBetweenCalls
  <2> QED
    BY <2>1, <2>2, <2>3 DEF Capture!Next, Capture!End
<1>7. CASE ReturnFrame
  <2>1. pc = "map" /\ pc' = "idle" /\ prev' = info.size /\ sample' = sample /\ info' = info
    BY <1>7 DEF ReturnFrame
  <2>2. sample # None /\ sample.size = info.size /\ info.size \in Evens
    BY <2>1 DEF Remembered, Handed
  <2>3. info.start = (info.size # prev)
    <3>1. info.start \in BOOLEAN
      BY DEF TypeOK
    <3> QED
      BY <2>1, <3>1 DEF Remembered
  <2>4. Given' = {[image |-> info.size, size |-> info.size, stream_start |-> info.size # prev]}
    BY <2>1, <2>2, <2>3 DEF Given
  <2>5. Status = "busy" /\ Status' = "idle"
    BY <2>1 DEF Status
  <2>6. Capture!Return(info.size)
    BY <2>1, <2>4, <2>5 DEF Capture!Return
  <2> QED
    BY <2>2, <2>6 DEF Capture!Next, Evens
<1> QED
  BY <1>1, <1>2, <1>3, <1>4, <1>5, <1>6, <1>7 DEF Next, CaptureFrame

(* The GStreamer capture keeps the promise of FrameCapture, for every       *)
(* encoder, whatever the pipeline makes of the images and whenever it      *)
(* fails.                                                                  *)
THEOREM GstKeepsPromise == Spec => CaptureSpec
<1>1. Init => Capture!Init
  <2> SUFFICES ASSUME Init PROVE Capture!Init
    OBVIOUS
  <2>1. pc = "options" /\ prev = 0
    BY DEF Init
  <2>2. Status = "none" /\ Given = {}
    BY <2>1 DEF Status, Given
  <2> QED
    BY <2>1, <2>2 DEF Capture!Init
<1>2. Init => Handed
  BY DEF Init, Handed
<1>3. GstInv => TypeOK /\ Remembered
  BY DEF GstInv
<1> QED
  BY <1>1, <1>2, <1>3, GstInvariance, HandedStep, CaptureStep, PTL DEF Spec, CaptureSpec, Capture!Spec
===============================================================================
