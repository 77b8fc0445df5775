------------------------- MODULE StreamingAgentProofs -------------------------
(***************************************************************************)
(* Frames match the Format the host got, and commands and signals wait for *)
(* one frame at most: for any codecs, plugins and screen sizes, any number *)
(* of waiting commands and any number of reconnections.                    *)
(***************************************************************************)
EXTENDS Agent, TLAPS

(* A capture exists from its creation to the end of the inner loop, and    *)
(* remembers a size from its first frame on; frame is that size.           *)
Captures ==
  /\ pc \in {"test", "poll", "polling", "sleep", "create", "done", "failed"} => capture = None
  /\ capture = None => last = None
  /\ pc \in {"format", "frame"} => frame = last /\ last # None

(* What the capture remembers is what a host that stayed was told, except  *)
(* between a frame that starts a stream and its Format.                    *)
Told ==
  link = "up" /\ ~torn /\ ~anew /\ last # None /\ pc # "format" =>
    hostFormat = Format(last, capture)

(* receive() has a command to read.  After a frame sent past a waiting     *)
(* command, only that command can be next, or the end.                     *)
Lag ==
  /\ pc = "receive" => inbox # <<>>
  /\ lag \in {0, 1}
  /\ lag = 1 => \/ pc = "readnow" /\ inbox # <<>>
                \/ pc \in {"receive", "failed"}
                \/ quit_requested /\ pc \in {"loop", "test", "done"}

(* After a frame sent past a signal, only the end can be next. *)
Farewell ==
  /\ tail \in {0, 1}
  /\ tail = 1 => quit_requested /\ pc \in {"readnow", "loop", "test", "done", "failed"}

AgentInv == TypeOK /\ Captures /\ Told /\ Lag /\ Farewell

(* What the steps do to the variables AgentInv is about, other than pc. *)
Keeps == UNCHANGED <<streaming_requested, client_codecs, quit_requested, screen, host, lag, tail>>

-----------------------------------------------------------------------------
LEMMA AgentInit == Init => AgentInv
<1> SUFFICES ASSUME Init PROVE AgentInv
  OBVIOUS
<1>1. inbox \in Seq(Commands \cup {Truncated}) /\ Len(inbox) <= MaxInbox
  BY AgentAssumption DEF Init
<1>2. TypeOK
  <2>1. streaming_requested \in BOOLEAN /\ quit_requested \in BOOLEAN /\ torn \in BOOLEAN
        /\ anew \in BOOLEAN
    BY DEF Init
  <2>2. opens \in 0..MaxOpens /\ lag \in Nat /\ tail \in Nat
    BY AgentAssumption DEF Init
  <2> QED
    BY <1>1, <2>1, <2>2 DEF Init, TypeOK, Running
<1>3. Captures /\ Told
  BY DEF Init, Captures, Told
<1>4. Lag /\ Farewell
  BY DEF Init, Lag, Farewell
<1> QED
  BY <1>2, <1>3, <1>4 DEF AgentInv

(* Steps of the main thread that only move on, keep or drop the capture,   *)
(* and perhaps raise: everything that does not send, read or create.       *)
LEMMA MoveOn ==
  ASSUME AgentInv, Keeps, KeepCapture,
         NEW from, pc = from, pc' \in Running \cup {"done"},
         pc' \in {"info", "loop", "capture", "format", "frame", "readnow"} => capture # None,
         pc' \in {"test", "poll", "polling", "sleep", "create", "done"} => capture = None,
         pc' \notin {"format", "frame"}, from # "format",
         pc' = "receive" => inbox # <<>>,
         lag = 1 => \/ pc' = "readnow" /\ inbox # <<>>
                    \/ pc' = "receive"
                    \/ quit_requested /\ pc' \in {"loop", "test", "done"},
         tail = 1 => pc' \in {"readnow", "loop", "test", "done"}
  PROVE  AgentInv'
<1>1. UNCHANGED <<capture, last, frame, streaming_requested, client_codecs, quit_requested, screen,
                  link, torn, inbox, opens, hostFormat, anew, lag, tail>>
  BY DEF Keeps, KeepCapture, host
<1>2. TypeOK'
  BY <1>1 DEF AgentInv, TypeOK
<1>3. Captures'
  BY <1>1 DEF AgentInv, Captures, Running
<1>4. Told'
  BY <1>1 DEF AgentInv, Told, Format
<1>5. Lag' /\ Farewell'
  BY <1>1 DEF AgentInv, Lag, Farewell
<1> QED
  BY <1>2, <1>3, <1>4, <1>5 DEF AgentInv

(* Leaving do_capture's inner loop or main: the capture is dropped. *)
LEMMA Drop ==
  ASSUME AgentInv, DropCapture, pc' \in {"test", "failed"},
         UNCHANGED <<streaming_requested, client_codecs, screen, link, inbox, opens,
                     hostFormat, anew, lag, tail>>,
         quit_requested' = quit_requested, torn' \in BOOLEAN,
         lag = 1 => pc' = "failed" \/ quit_requested
  PROVE  AgentInv'
<1>1. capture' = None /\ last' = None /\ frame' = None
  BY DEF DropCapture
<1>2. TypeOK'
  BY <1>1 DEF AgentInv, TypeOK, Running
<1>3. Captures' /\ Told'
  BY <1>1 DEF Captures, Told
<1>4. Lag' /\ Farewell'
  BY DEF AgentInv, Lag, Farewell
<1> QED
  BY <1>2, <1>3, <1>4 DEF AgentInv

-----------------------------------------------------------------------------
(* The steps of the main thread. *)
LEMMA WaitKeeps == AgentInv /\ (Test \/ Poll \/ Sleep \/ ReadNow) => AgentInv'
<1> SUFFICES ASSUME AgentInv, Test \/ Poll \/ Sleep \/ ReadNow PROVE AgentInv'
  OBVIOUS
<1>0. Captures /\ Lag /\ Farewell
  BY DEF AgentInv
<1>1. CASE Test
  <2>1. /\ pc = "test" /\ Keeps /\ KeepCapture
        /\ pc' \in {"done", "create", "poll"}
        /\ quit_requested => pc' = "done"
    BY <1>1 DEF Test, Keeps
  <2>2. capture = None /\ (lag = 1 => quit_requested) /\ (tail = 1 => quit_requested)
    BY <1>0, <2>1 DEF Captures, Lag, Farewell
  <2> QED
    BY <2>1, <2>2, MoveOn DEF Running
<1>2. CASE Poll \/ Sleep
  <2>1. /\ pc \in {"poll", "polling", "sleep"} /\ Keeps /\ KeepCapture
        /\ pc' \in {"receive", "sleep", "polling", "test"}
        /\ pc' = "receive" => inbox # <<>>
    BY <1>2 DEF Poll, Sleep, Goto, Keeps
  <2>2. capture = None /\ lag # 1 /\ tail # 1
    BY <1>0, <2>1 DEF Captures, Lag, Farewell
  <2> QED
    BY <2>1, <2>2, MoveOn DEF Running
<1>3. CASE ReadNow
  <2>1. /\ pc = "readnow" /\ Keeps /\ KeepCapture
        /\ \/ pc' = "receive" /\ ~quit_requested /\ inbox # <<>>
           \/ pc' = "loop" /\ (quit_requested \/ inbox = <<>>)
    BY <1>3 DEF ReadNow, Goto, Keeps
  <2>2. capture # None
    BY <2>1 DEF AgentInv, TypeOK
  <2>3. (lag = 1 => inbox # <<>>) /\ (tail = 1 => quit_requested)
    BY <1>0, <2>1 DEF Lag, Farewell
  <2> QED
    BY <2>1, <2>2, <2>3, MoveOn DEF Running
<1> QED
  BY <1>1, <1>2, <1>3

(* A send that main does not guard moves on or fails. *)
LEMMA SendOutcome ==
  ASSUME NEW from, NEW to, SendOrFail(from, to), torn \in BOOLEAN
  PROVE  /\ pc = from
         /\ \/ pc' = to /\ KeepCapture /\ torn' = torn
            \/ pc' = "failed" /\ DropCapture /\ torn' \in BOOLEAN
  BY DEF SendOrFail, Delivered, Vanishes, Raises, Throw, Goto

LEMMA ReceiveKeeps == AgentInv /\ Receive => AgentInv'
<1> SUFFICES ASSUME AgentInv, Receive PROVE AgentInv'
  OBVIOUS
<1>1. pc = "receive" /\ inbox' = Tail(inbox) /\ lag' = 0 /\ quit_requested' = quit_requested
      /\ UNCHANGED <<screen, link, torn, opens, hostFormat, anew, tail>>
  BY DEF Receive
<1>2. inbox # <<>>
  BY <1>1 DEF AgentInv, Lag
<1>3. Head(inbox) \in Commands \cup {Truncated} /\ Head(inbox).codecs \in SUBSET Codecs
  BY <1>2 DEF AgentInv, TypeOK, Commands, Truncated, Start, Other
<1>4. inbox' \in Seq(Commands \cup {Truncated}) /\ Len(inbox') <= MaxInbox
  <2>1. inbox \in Seq(Commands \cup {Truncated}) /\ Len(inbox) <= MaxInbox
    BY DEF AgentInv, TypeOK
  <2> HIDE DEF Commands, Truncated
  <2> QED
    BY <1>1, <1>2, <2>1, AgentAssumption
<1>5. streaming_requested' \in BOOLEAN
  BY DEF Receive, AgentInv, TypeOK
<1>6. client_codecs' \in SUBSET Codecs
  BY <1>3 DEF Receive, AgentInv, TypeOK
<1>7. \/ /\ pc' = "capabilities" \/ pc' = IF capture = None THEN "test" ELSE "loop"
         /\ UNCHANGED <<capture, last, frame>>
      \/ pc' = "failed" /\ capture' = None /\ last' = None /\ frame' = None
  BY DEF Receive, Goto, Throw, DropCapture, KeepCapture
<1>8. TypeOK'
  BY <1>1, <1>4, <1>5, <1>6, <1>7 DEF AgentInv, TypeOK, Running
<1>9. Captures' /\ Told'
  BY <1>1, <1>7 DEF AgentInv, Captures, Told, Format
<1>10. Lag' /\ Farewell'
  BY <1>1, <1>7 DEF AgentInv, Lag, Farewell
<1> QED
  BY <1>8, <1>9, <1>10 DEF AgentInv

LEMMA CreateKeeps == AgentInv /\ CreateCapture => AgentInv'
<1> SUFFICES ASSUME AgentInv, CreateCapture PROVE AgentInv'
  OBVIOUS
<1>1. /\ pc = "create" /\ last' = last /\ frame' = frame
      /\ UNCHANGED <<streaming_requested, client_codecs, quit_requested, screen,
                     link, torn, inbox, opens, hostFormat, anew, lag, tail>>
      /\ \/ pc' = "failed" /\ capture' = capture
         \/ pc' = "info" /\ capture' \in client_codecs \cap Offered
  BY DEF CreateCapture, Goto, host
<1>2. capture = None /\ last = None /\ None \notin Offered
  BY <1>1, AgentAssumption DEF AgentInv, Captures
<1>3. TypeOK'
  BY <1>1, <1>2 DEF AgentInv, TypeOK, Running
<1>4. Captures' /\ Told'
  BY <1>1, <1>2 DEF Captures, Told
<1>5. Lag' /\ Farewell'
  BY <1>1 DEF AgentInv, Lag, Farewell
<1> QED
  BY <1>3, <1>4, <1>5 DEF AgentInv

LEMMA SendKeeps == AgentInv /\ (SendCapabilities \/ DisplayInfo) => AgentInv'
<1> SUFFICES ASSUME AgentInv, SendCapabilities \/ DisplayInfo PROVE AgentInv'
  OBVIOUS
<1>0. torn \in BOOLEAN
  BY DEF AgentInv, TypeOK
<1>1. /\ pc \in {"capabilities", "info"}
      /\ pc = "info" => capture # None
      /\ lag # 1 /\ tail # 1
      /\ UNCHANGED <<streaming_requested, client_codecs, quit_requested, screen,
                     link, inbox, opens, hostFormat, anew, lag, tail>>
  BY DEF AgentInv, TypeOK, Lag, Farewell, SendCapabilities, DisplayInfo, SendOrFail, Throw, Goto
<1>2. \/ /\ pc' \in {"test", "loop"} /\ (pc' = "test" <=> capture = None)
         /\ KeepCapture /\ torn' = torn
      \/ pc' = "failed" /\ DropCapture /\ torn' \in BOOLEAN
  <2>1. CASE SendCapabilities
    BY <1>0, <2>1, SendOutcome DEF SendCapabilities
  <2>2. CASE DisplayInfo
    BY <1>0, <1>1, <2>2, SendOutcome DEF DisplayInfo, Goto, Throw
  <2> QED
    BY <2>1, <2>2
<1>3. CASE pc' \in {"test", "loop"} /\ KeepCapture /\ torn' = torn /\ (pc' = "test" <=> capture = None)
  <2>1. Keeps
    BY <1>1, <1>3 DEF Keeps, host
  <2> QED
    BY <1>1, <1>3, <2>1, MoveOn DEF Running
<1>4. CASE pc' = "failed" /\ DropCapture /\ torn' \in BOOLEAN
  BY <1>1, <1>4, Drop
<1> QED
  BY <1>2, <1>3, <1>4

LEMMA LoopKeeps == AgentInv /\ (Loop \/ CaptureFrame) => AgentInv'
<1> SUFFICES ASSUME AgentInv, Loop \/ CaptureFrame PROVE AgentInv'
  OBVIOUS
<1>0. torn \in BOOLEAN
  BY DEF AgentInv, TypeOK
<1>1. CASE Loop
  <2>1. /\ pc = "loop" /\ Keeps
        /\ \/ pc' = "capture" /\ ~quit_requested /\ KeepCapture
           \/ pc' = "test" /\ DropCapture
    BY <1>1 DEF Loop, Goto, Keeps
  <2>2. capture # None /\ (lag = 1 => quit_requested) /\ (tail = 1 => quit_requested)
    BY <2>1 DEF AgentInv, TypeOK, Lag, Farewell
  <2>3. CASE pc' = "capture" /\ ~quit_requested /\ KeepCapture
    BY <2>1, <2>2, <2>3, MoveOn DEF Running
  <2>4. CASE pc' = "test" /\ DropCapture
    BY <1>0, <2>1, <2>2, <2>4, Drop DEF Keeps, host
  <2> QED
    BY <2>1, <2>3, <2>4
<1>2. CASE CaptureFrame
  <2>1. pc = "capture" /\ Keeps /\ lag # 1 /\ tail # 1 /\ capture # None
    BY <1>2 DEF CaptureFrame, Goto, Throw, Keeps, AgentInv, TypeOK, Lag, Farewell
  <2>2. CASE Throw("capture")
    BY <1>0, <2>1, <2>2, Drop DEF Throw, Goto, Keeps, host
  <2>3. CASE ~Throw("capture")
    <3>1. /\ frame' = screen /\ last' = screen /\ capture' = capture
          /\ \/ pc' = "format"
             \/ pc' = "frame" /\ screen = last
          /\ UNCHANGED <<streaming_requested, client_codecs, quit_requested, screen,
                         link, torn, inbox, opens, hostFormat, anew, lag, tail>>
      BY <1>2, <2>3 DEF CaptureFrame, Goto, host
    <3>2. screen \in ScreenSizes /\ None \notin ScreenSizes
      BY AgentAssumption DEF AgentInv, TypeOK
    <3>3. TypeOK'
      BY <2>1, <3>1, <3>2 DEF AgentInv, TypeOK, Running
    <3>4. Captures'
      BY <2>1, <3>1, <3>2 DEF Captures
    <3>5. Told'
      BY <2>1, <3>1, <3>2 DEF AgentInv, Told, Format
    <3>6. Lag' /\ Farewell'
      BY <2>1, <3>1 DEF AgentInv, Lag, Farewell
    <3> QED
      BY <3>3, <3>4, <3>5, <3>6 DEF AgentInv
  <2> QED
    BY <2>2, <2>3
<1> QED
  BY <1>1, <1>2

LEMMA FrameKeeps == AgentInv /\ (SendFormat \/ SendFrame) => AgentInv'
<1> SUFFICES ASSUME AgentInv, SendFormat \/ SendFrame PROVE AgentInv'
  OBVIOUS
<1>0. torn \in BOOLEAN /\ (pc \in {"format", "frame"} => capture \in Offered /\ frame \in ScreenSizes)
  BY AgentAssumption DEF AgentInv, TypeOK, Captures
<1>1. CASE SendFormat
  <2>1. /\ pc = "format" /\ lag # 1 /\ tail # 1
        /\ UNCHANGED <<streaming_requested, client_codecs, quit_requested, screen,
                       link, inbox, opens, lag, tail>>
    BY <1>1 DEF SendFormat, SendOrFail, Throw, Goto, AgentInv, Lag, Farewell
  <2>2. CASE pc' = "failed" /\ DropCapture /\ torn' \in BOOLEAN
    <3>1. UNCHANGED <<hostFormat, anew>>
      BY <1>1, <2>2 DEF SendFormat
    <3> QED
      BY <2>1, <2>2, <3>1, Drop
  <2>3. CASE pc' = "frame" /\ KeepCapture /\ torn' = torn
    <3>1. UNCHANGED <<capture, last, frame, torn>>
      BY <2>3 DEF KeepCapture
    <3>2. \/ ~torn /\ hostFormat' = Format(frame, capture) /\ anew' = FALSE
          \/ torn /\ UNCHANGED <<hostFormat, anew>>
      BY <1>1, <2>3 DEF SendFormat
    <3>3. frame = last /\ capture \in Codecs /\ frame \in ScreenSizes
      BY <1>0, <2>1, AgentAssumption DEF AgentInv, Captures
    <3>4. hostFormat' \in Formats \cup {None}
      BY <3>2, <3>3 DEF AgentInv, TypeOK, Formats, Format
    <3>5. anew' \in BOOLEAN
      BY <3>2 DEF AgentInv, TypeOK
    <3>6. TypeOK'
      BY <2>1, <2>3, <3>1, <3>4, <3>5 DEF AgentInv, TypeOK, Running, Formats
    <3>7. Captures' /\ Told'
      BY <2>1, <2>3, <3>1, <3>2, <3>3 DEF AgentInv, Captures, Told, Format
    <3>8. Lag' /\ Farewell'
      BY <2>1, <2>3 DEF AgentInv, Lag, Farewell
    <3> QED
      BY <3>6, <3>7, <3>8 DEF AgentInv
  <2> QED
    BY <1>0, <1>1, <2>2, <2>3, SendOutcome DEF SendFormat
<1>2. CASE SendFrame
  <2>1. /\ pc = "frame" /\ lag = 0 /\ tail = 0
        /\ UNCHANGED <<streaming_requested, client_codecs, quit_requested, screen,
                       link, inbox, opens, hostFormat, anew>>
    BY <1>2 DEF SendFrame, Goto, AgentInv, Lag, Farewell
  <2>2. CASE Raises /\ Goto("frame", "test") /\ DropCapture /\ UNCHANGED <<lag, tail>>
    <3>1. pc' = "test" /\ torn' \in BOOLEAN
      BY <1>0, <2>2 DEF Raises, Goto
    <3> QED
      BY <2>1, <2>2, <3>1, Drop
  <2>3. CASE ~(Raises /\ Goto("frame", "test") /\ DropCapture /\ UNCHANGED <<lag, tail>>)
    <3>1. /\ pc' = "readnow" /\ torn' = torn /\ frame' = None
          /\ UNCHANGED <<capture, last>>
          /\ lag' = IF inbox # <<>> THEN 1 ELSE 0
          /\ tail' = IF quit_requested THEN 1 ELSE 0
      BY <1>2, <2>1, <2>3 DEF SendFrame, Goto, Delivered, Vanishes
    <3>2. lag' \in Nat /\ tail' \in Nat
      BY <3>1
    <3>3. TypeOK'
      BY <1>0, <2>1, <3>1, <3>2 DEF AgentInv, TypeOK, Running, Formats
    <3>4. Captures' /\ Told'
      BY <2>1, <3>1 DEF AgentInv, Captures, Told, Format
    <3>5. Lag' /\ Farewell'
      BY <2>1, <3>1 DEF AgentInv, Lag, Farewell
    <3> QED
      BY <3>3, <3>4, <3>5 DEF AgentInv
  <2> QED
    BY <2>2, <2>3
<1> QED
  BY <1>1, <1>2

-----------------------------------------------------------------------------
(* The environment. *)
LEMMA AppendCommand ==
  ASSUME inbox \in Seq(Commands \cup {Truncated}), Len(inbox) < MaxInbox,
         NEW m \in Commands \cup {Truncated}, inbox' = Append(inbox, m)
  PROVE  inbox' \in Seq(Commands \cup {Truncated}) /\ Len(inbox') <= MaxInbox /\ inbox' # <<>>
<1> HIDE DEF Commands, Truncated
<1> QED
  BY AgentAssumption

(* The host's steps leave the agent's own variables alone. *)
LEMMA HostStep ==
  ASSUME AgentInv, UNCHANGED <<main, quit_requested, lag, tail>>, screen' \in ScreenSizes,
         link' \in {"up", "down"}, torn' \in BOOLEAN, anew' \in BOOLEAN,
         inbox' \in Seq(Commands \cup {Truncated}), Len(inbox') <= MaxInbox,
         inbox # <<>> => inbox' # <<>>,
         opens' \in 0..MaxOpens,
         \/ hostFormat' = None /\ link' = "down"
         \/ hostFormat' = hostFormat /\ (link' = "down" \/ torn' \/ anew')
         \/ UNCHANGED <<hostFormat, link, torn, anew>>
  PROVE  AgentInv'
<1>1. UNCHANGED <<pc, streaming_requested, client_codecs, capture, last, frame, quit_requested,
                  lag, tail>>
  BY DEF main
<1>2. hostFormat' \in Formats \cup {None}
  BY DEF AgentInv, TypeOK
<1>3. TypeOK'
  BY <1>1, <1>2 DEF AgentInv, TypeOK, Formats
<1>4. Captures' /\ Told'
  BY <1>1 DEF AgentInv, Captures, Told, Format
<1>5. Lag' /\ Farewell'
  BY <1>1 DEF AgentInv, Lag, Farewell
<1> QED
  BY <1>3, <1>4, <1>5 DEF AgentInv

LEMMA HostKeeps ==
  AgentInv /\ (Resize \/ HostClose \/ HostOpen \/ CursorTears \/ \E m \in Commands : HostCommand(m))
    => AgentInv'
<1> SUFFICES ASSUME AgentInv,
                    Resize \/ HostClose \/ HostOpen \/ CursorTears \/ \E m \in Commands : HostCommand(m)
             PROVE  AgentInv'
  OBVIOUS
<1>0. /\ screen \in ScreenSizes /\ link \in {"up", "down"} /\ opens \in 0..MaxOpens
      /\ inbox \in Seq(Commands \cup {Truncated}) /\ Len(inbox) <= MaxInbox
  BY DEF AgentInv, TypeOK
<1>flags. torn \in BOOLEAN /\ anew \in BOOLEAN
  BY DEF AgentInv, TypeOK
<1> HIDE DEF Commands, Truncated
<1>1. CASE Resize
  <2>1. /\ screen' \in ScreenSizes
        /\ UNCHANGED <<main, quit_requested, lag, tail, link, torn, inbox, opens, hostFormat, anew>>
    BY <1>1 DEF Resize, host
  <2> QED
    BY <1>0, <1>flags, <2>1, HostStep
<1>2. CASE HostClose
  <2>1. /\ link' = "down" /\ torn' = FALSE /\ hostFormat' = None
        /\ UNCHANGED <<main, quit_requested, screen, opens, anew, lag, tail>>
    BY <1>2 DEF HostClose
  <2>2. /\ inbox' \in Seq(Commands \cup {Truncated}) /\ Len(inbox') <= MaxInbox
        /\ inbox # <<>> => inbox' # <<>>
    BY <1>0, <1>2, AppendCommand DEF HostClose
  <2> QED
    BY <1>0, <1>flags, <2>1, <2>2, HostStep
<1>3. CASE HostOpen
  <2>1. /\ link' = "up" /\ torn' \in BOOLEAN /\ anew' = TRUE
        /\ UNCHANGED <<main, quit_requested, screen, inbox, hostFormat, lag, tail>>
    BY <1>3 DEF HostOpen
  <2>2. opens' \in 0..MaxOpens
    BY <1>0, <1>3, AgentAssumption DEF HostOpen
  <2> QED
    BY <1>0, <1>flags, <2>1, <2>2, HostStep
<1>4. CASE CursorTears
  <2>1. /\ torn' = TRUE
        /\ UNCHANGED <<main, quit_requested, screen, link, inbox, opens, hostFormat, anew, lag, tail>>
    BY <1>4 DEF CursorTears
  <2> QED
    BY <1>0, <1>flags, <2>1, HostStep
<1>5. CASE \E m \in Commands : HostCommand(m)
  <2>1. PICK m \in Commands : HostCommand(m)
    BY <1>5
  <2>2. UNCHANGED <<main, quit_requested, screen, link, torn, opens, hostFormat, anew, lag, tail>>
    BY <2>1 DEF HostCommand
  <2>3. /\ inbox' \in Seq(Commands \cup {Truncated}) /\ Len(inbox') <= MaxInbox
        /\ inbox # <<>> => inbox' # <<>>
    BY <1>0, <2>1, AppendCommand DEF HostCommand
  <2> QED
    BY <1>0, <1>flags, <2>2, <2>3, HostStep
<1> QED
  BY <1>1, <1>2, <1>3, <1>4, <1>5

LEMMA InterruptKeeps ==
  AgentInv /\ (ReadFails \/ \E s \in {"SIGINT", "SIGTERM"} : Signal(s)) => AgentInv'
<1> SUFFICES ASSUME AgentInv, ReadFails \/ \E s \in {"SIGINT", "SIGTERM"} : Signal(s)
             PROVE  AgentInv'
  OBVIOUS
<1>0. torn \in BOOLEAN
  BY DEF AgentInv, TypeOK
<1>1. CASE pc' = "failed" /\ DropCapture /\ Keeps
  BY <1>0, <1>1, Drop DEF Keeps, host
<1>2. CASE \E s \in {"SIGINT", "SIGTERM"} : Signal(s) /\ s \in Handled
  <2>1. /\ quit_requested' = TRUE
        /\ pc' = pc \/ (pc = "polling" /\ pc' = "sleep")
        /\ UNCHANGED <<capture, last, frame, streaming_requested, client_codecs, screen,
                       link, torn, inbox, opens, hostFormat, anew, lag, tail>>
    BY <1>2 DEF Signal, KeepCapture, host
  <2>2. TypeOK'
    BY <2>1 DEF AgentInv, TypeOK, Running, Formats
  <2>3. Captures' /\ Told'
    BY <2>1 DEF AgentInv, Captures, Told, Format
  <2>4. Lag' /\ Farewell'
    BY <2>1 DEF AgentInv, Lag, Farewell
  <2> QED
    BY <2>2, <2>3, <2>4 DEF AgentInv
<1> QED
  BY <1>1, <1>2 DEF ReadFails, Signal, Throw, Goto, Keeps

LEMMA AgentInvariant == Spec => []AgentInv
<1>1. AgentInv /\ UNCHANGED vars => AgentInv'
  <2> SUFFICES ASSUME AgentInv, UNCHANGED vars PROVE AgentInv'
    OBVIOUS
  <2>1. UNCHANGED <<pc, streaming_requested, client_codecs, capture, last, frame, quit_requested,
                    screen, link, torn, inbox, opens, hostFormat, anew, lag, tail>>
    BY DEF vars, main, host
  <2>2. TypeOK'
    BY <2>1 DEF AgentInv, TypeOK, Formats
  <2>3. Captures' /\ Told'
    BY <2>1 DEF AgentInv, Captures, Told, Format
  <2>4. Lag' /\ Farewell'
    BY <2>1 DEF AgentInv, Lag, Farewell
  <2> QED
    BY <2>2, <2>3, <2>4 DEF AgentInv
<1>2. AgentInv /\ [Next]_vars => AgentInv'
  BY <1>1, WaitKeeps, ReceiveKeeps, CreateKeeps, SendKeeps, LoopKeeps, FrameKeeps, HostKeeps,
     InterruptKeeps DEF Next, MainNext, Environment
<1> QED
  BY <1>2, AgentInit, PTL DEF Spec

-----------------------------------------------------------------------------
(* Every variable keeps its type, and do_capture has a capture wherever it *)
(* uses one.                                                               *)
THEOREM AgentTypes == Spec => []TypeOK
<1>1. AgentInv => TypeOK
  BY DEF AgentInv
<1> QED
  BY <1>1, AgentInvariant, PTL

(* A host that stayed can decode every frame it gets.                      *)
THEOREM HostDecodes == Spec => []FramesDecodable
<1>1. AgentInv => FramesDecodable
  BY DEF AgentInv, Captures, Told, FramesDecodable
<1> QED
  BY <1>1, AgentInvariant, PTL

(* A waiting command is passed by one frame at most.                       *)
THEOREM CommandsWaitForOneFrame == Spec => []CommandLatency
<1>1. AgentInv => CommandLatency
  BY DEF AgentInv, Lag, CommandLatency
<1> QED
  BY <1>1, AgentInvariant, PTL

(* After a signal one more frame is sent at most.                          *)
THEOREM SignalsWaitForOneFrame == Spec => []QuitLatency
<1>1. AgentInv => QuitLatency
  BY DEF AgentInv, Farewell, QuitLatency
<1> QED
  BY <1>1, AgentInvariant, PTL
-----------------------------------------------------------------------------
(* Both threads in one process. *)

(* All that one thread does to what the other one sees is to tear the stream. *)
Tears == link' = link /\ opens' = opens /\ (torn' # torn => link = "up" /\ torn' = TRUE)

LEMMA CursorOnlyTears == CursorStep => Tears
<1> SUFFICES ASSUME CursorStep PROVE Tears
  OBVIOUS
<1>1. CASE Cursor!ThreadNext
  BY <1>1 DEF Cursor!ThreadNext, Cursor!NextEvent, Cursor!NoImage, Cursor!SameImage,
              Cursor!NewImage, Cursor!SendDelivers, Cursor!SendVanishes, Cursor!SendRaises,
              Cursor!Sleep, Tears
<1>2. ASSUME NEW c \in Cursors, Cursor!ShowCursor(c) PROVE Tears
  BY <1>2 DEF Cursor!ShowCursor, Tears
<1>3. ASSUME NEW e \in {"notify", "other"}, Cursor!OtherEvent(e) PROVE Tears
  BY <1>3 DEF Cursor!OtherEvent, Tears
<1> QED
  BY <1>1, <1>2, <1>3 DEF CursorStep

LEMMA SendTears ==
  ASSUME NEW from, NEW to, SendOrFail(from, to), UNCHANGED <<link, opens>>
  PROVE  Tears
  BY DEF SendOrFail, Delivered, Vanishes, Raises, Tears

LEMMA MainOnlyTears == MainStep => Tears
<1> SUFFICES ASSUME MainStep PROVE Tears
  OBVIOUS
<1>1. CASE Test \/ Poll \/ Sleep \/ ReadFails \/ CreateCapture \/ Loop \/ CaptureFrame \/ ReadNow
  BY <1>1 DEF Test, Poll, Sleep, ReadFails, CreateCapture, Loop, CaptureFrame, ReadNow, host, Tears
<1>2. CASE Receive
  BY <1>2 DEF Receive, Tears
<1>3. CASE SendCapabilities \/ SendFormat
  BY <1>3, SendTears DEF SendCapabilities, SendFormat
<1>4. CASE DisplayInfo
  <2>1. torn' = torn \/ SendOrFail("info", "loop")
    BY <1>4 DEF DisplayInfo
  <2>2. UNCHANGED <<link, opens>>
    BY <1>4 DEF DisplayInfo
  <2> QED
    BY <2>1, <2>2, SendTears DEF Tears
<1>5. CASE SendFrame
  BY <1>5 DEF SendFrame, Delivered, Vanishes, Raises, Tears
<1>6. CASE Resize
  BY <1>6 DEF Resize, host, Tears
<1>7. ASSUME NEW s \in {"SIGINT", "SIGTERM"}, Signal(s) PROVE Tears
  BY <1>7 DEF Signal, host, Tears
<1>8. ASSUME NEW m \in Commands, HostCommand(m) PROVE Tears
  BY <1>8 DEF HostCommand, Tears
<1> QED
  BY <1>1, <1>2, <1>3, <1>4, <1>5, <1>6, <1>7, <1>8 DEF MainStep, MainNext

(* In the process the main thread behaves as StreamingAgent says: what the *)
(* cursor thread does to the port is what CursorTears allows for.          *)
THEOREM MainThread == AgentSpec => Spec
<1>1. BothInit => Init
  BY DEF BothInit
<1>2. BothNext => [Next]_vars
  <2>1. MainStep => Next
    BY DEF MainStep, Next, Environment
  <2>2. BothHost => Next
    BY DEF BothHost, Next, Environment
  <2>3. CursorStep => CursorTears \/ UNCHANGED vars
    BY CursorOnlyTears DEF CursorStep, Tears, CursorTears, ofMain, vars, host
  <2> QED
    BY <2>1, <2>2, <2>3 DEF BothNext, Next, Environment
<1>3. UNCHANGED agent => UNCHANGED vars
  BY DEF agent
<1> QED
  BY <1>1, <1>2, <1>3, PTL DEF AgentSpec, Spec

(* And the cursor thread as CursorUpdater says, which loses the stream to  *)
(* the main thread: UpToDate and NoRepeat of CursorUpdater hold there too. *)
THEOREM CursorThread == AgentSpec => Cursor!Spec
<1>1. BothInit => Cursor!Init
  BY DEF BothInit
<1>2. BothNext => [Cursor!Next]_(Cursor!vars)
  <2>1. CursorStep => Cursor!Next
    BY DEF CursorStep, Cursor!Next, Cursor!Environment
  <2>2. BothHost => Cursor!Next
    BY DEF BothHost, Cursor!Next, Cursor!Environment
  <2>3. MainStep => Cursor!AgentTears \/ UNCHANGED Cursor!vars
    BY MainOnlyTears DEF MainStep, Tears, Cursor!AgentTears, ofCursor, Cursor!vars
  <2> QED
    BY <2>1, <2>2, <2>3 DEF BothNext, Cursor!Next, Cursor!Environment
<1>3. UNCHANGED agent => UNCHANGED Cursor!vars
  BY DEF agent, vars, host, ofCursor, Cursor!vars
<1> QED
  BY <1>1, <1>2, <1>3, PTL DEF AgentSpec, Cursor!Spec

(* So what holds of the main thread holds in the process: frames match the *)
(* Format the host got, and commands and signals wait for one frame, while *)
(* the cursor thread sends between its messages and fails in between.      *)
THEOREM BothThreads ==
  AgentSpec => []FramesDecodable /\ []CommandLatency /\ []QuitLatency
<1> QED
  BY MainThread, HostDecodes, CommandsWaitForOneFrame, SignalsWaitForOneFrame, PTL
===============================================================================
