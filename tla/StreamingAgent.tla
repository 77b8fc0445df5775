---------------------------- MODULE StreamingAgent ----------------------------
(***************************************************************************)
(* The main thread (spice-streaming-agent.cpp): do_capture, the commands   *)
(* it reads, the signal that ends it, and the host at the other end.       *)
(*                                                                         *)
(* Messages are whole here.  A send has the outcomes of MessageChannel,    *)
(* which StreamPort implements: the message is delivered, or WriteError is *)
(* raised, or it is lost in a torn stream.  A step of the main thread      *)
(* reads a shared variable, makes one system call or one call of a plugin: *)
(* signals, the screen and the host act between any two of them.           *)
(***************************************************************************)
EXTENDS Naturals, Sequences

CONSTANTS
  Codecs,      (* the video codecs a client may know                       *)
  Offered,     (* the codecs the registered plugins produce                *)
  ScreenSizes, (* the sizes the screen can have                            *)
  None,        (* no capture, no frame, no format                          *)
  MaxInbox,    (* bound: commands waiting in the port                      *)
  MaxOpens     (* bound: how often the host opens its end again            *)

ASSUME AgentAssumption ==
  /\ Offered \subseteq Codecs
  /\ None \notin Codecs \cup ScreenSizes
  /\ MaxInbox \in Nat /\ MaxOpens \in Nat

VARIABLES
  pc,                  (* where the main thread is                          *)
  streaming_requested,
  quit_requested,
  client_codecs,
  capture,             (* the codec of the FrameCapture in use, or None     *)
  last,                (* the capture's last_width and last_height, or None *)
  frame,               (* the frame in hand: its size, and stream_start     *)
  screen,              (* external: the size of the screen                  *)
  link,                (* external: "up" while the host has its end open    *)
  torn,                (* external: the host lost its place in the stream   *)
  inbox,               (* external: the host's commands, not yet received   *)
  opens,               (* bounds HostOpen                                   *)
  hostFormat,          (* history: the last Format this connection brought  *)
  anew,                (* history: the host reconnected after that Format   *)
  lag,                 (* history: frames sent while commands wait          *)
  tail                 (* history: frames sent since quit_requested         *)

main == <<pc, streaming_requested, client_codecs, capture, last, frame>>
host == <<link, torn, inbox, opens, hostFormat, anew>>
vars == <<main, quit_requested, screen, host, lag, tail>>

Format(s, c)  == [size |-> s, codec |-> c]
Start(codecs) == [type |-> "START_STOP", codecs |-> codecs]
Stop          == Start({})                 (* no codecs: stop streaming    *)
Other(type)   == [type |-> type, codecs |-> {}]

(* What a host leaves that closes its end in the middle of a command. *)
Truncated == Other("TRUNCATED")

Commands == {Start(cs) : cs \in SUBSET Codecs}
              \cup {Other(ty) : ty \in {"CAPABILITIES", "NOTIFY_ERROR", "MALFORMED"}}

Running == {"test", "poll", "polling", "sleep", "receive", "capabilities", "create",
            "info", "loop", "capture", "format", "frame", "readnow"}
Ended   == pc \notin Running

Init ==
  /\ pc = "test"
  /\ streaming_requested = FALSE /\ quit_requested = FALSE /\ client_codecs = {}
  /\ capture = None /\ last = None
  /\ frame = None
  /\ screen \in ScreenSizes
  /\ link \in {"up", "down"} /\ torn = FALSE /\ inbox = <<>> /\ opens = 0
  /\ hostFormat = None /\ anew = FALSE
  /\ lag = 0 /\ tail = 0

Goto(from, to) == pc = from /\ pc' = to

(* The unique_ptr of do_capture goes out of scope. *)
DropCapture == capture' = None /\ last' = None /\ frame' = None
KeepCapture == UNCHANGED <<capture, last, frame>>

(* An exception reaches main(): EXIT_FAILURE. *)
Throw(from) == Goto(from, "failed") /\ DropCapture

-----------------------------------------------------------------------------
(* The outcomes of StreamPort::send. *)
Delivered == link = "up" /\ ~torn /\ UNCHANGED torn
Vanishes  == link = "up" /\ torn /\ UNCHANGED torn
Raises    == \/ link = "down" /\ UNCHANGED torn
             \/ link = "up" /\ torn' \in {torn, TRUE}

(* A send that main() does not guard. *)
SendOrFail(from, to) ==
  \/ (Delivered \/ Vanishes) /\ Goto(from, to) /\ KeepCapture
  \/ Raises /\ Throw(from)

-----------------------------------------------------------------------------
(* Waiting for the command to start: the inner loop of do_capture and the  *)
(* blocking read_command.                                                  *)
Test ==
  /\ pc = "test"
  /\ pc' = CASE quit_requested                         -> "done"
             [] ~quit_requested /\ streaming_requested -> "create"
             [] OTHER                                  -> "poll"
  /\ UNCHANGED <<streaming_requested, client_codecs, quit_requested, screen, host, lag, tail>>
  /\ KeepCapture

(* poll() with no timeout.  POLLHUP alone is "nothing to read". *)
Poll ==
  /\ pc \in {"poll", "polling"}
  /\ pc' = IF inbox # <<>> THEN "receive" ELSE IF link = "down" THEN "sleep" ELSE "polling"
  /\ KeepCapture
  /\ UNCHANGED <<streaming_requested, client_codecs, quit_requested, screen, host, lag, tail>>

(* Mutant: read_command loops on without a look at quit_requested. *)
Sleep_Retry ==
  /\ Goto("sleep", "poll")
  /\ KeepCapture
  /\ UNCHANGED <<streaming_requested, client_codecs, quit_requested, screen, host, lag, tail>>

Sleep ==
  /\ Goto("sleep", "test")
  /\ KeepCapture
  /\ UNCHANGED <<streaming_requested, client_codecs, quit_requested, screen, host, lag, tail>>

(* poll() or read() fails for good, or receive() finds the port closed. *)
ReadFails ==
  /\ pc \in {"poll", "polling", "readnow", "receive"}
  /\ Throw(pc)
  /\ UNCHANGED <<streaming_requested, client_codecs, quit_requested, screen, host, lag, tail>>

(* Mutant: read_command goes on as long as there are commands. *)
Receive_Drain ==
  /\ pc = "receive"
  /\ Head(inbox).type = "START_STOP"
  /\ streaming_requested' = (Head(inbox).codecs # {})
  /\ client_codecs' = Head(inbox).codecs
  /\ Goto("receive", IF capture = None THEN "test" ELSE "readnow") /\ KeepCapture
  /\ inbox' = Tail(inbox)
  /\ lag' = 0
  /\ UNCHANGED <<quit_requested, screen, link, torn, opens, hostFormat, anew, tail>>

(* read_command_from_device: one command, and back to the loop it is for.  *)
(* A truncated command keeps receive() waiting, until the host closes.     *)
Receive ==
  /\ pc = "receive"
  /\ LET m    == Head(inbox)
         back == IF capture = None THEN "test" ELSE "loop"
     IN
     \/ /\ m.type = "START_STOP"
        /\ streaming_requested' = (m.codecs # {})
        /\ client_codecs' = m.codecs
        /\ Goto("receive", back) /\ KeepCapture
     \/ /\ m.type = "CAPABILITIES"
        /\ Goto("receive", "capabilities") /\ KeepCapture
        /\ UNCHANGED <<streaming_requested, client_codecs>>
     \/ /\ m.type = "NOTIFY_ERROR"
        /\ Goto("receive", back) /\ KeepCapture
        /\ UNCHANGED <<streaming_requested, client_codecs>>
     \/ /\ m.type = "MALFORMED" \/ (m = Truncated /\ link = "down")
        /\ Throw("receive")
        /\ UNCHANGED <<streaming_requested, client_codecs>>
  /\ inbox' = Tail(inbox)
  /\ lag' = 0
  /\ UNCHANGED <<quit_requested, screen, link, torn, opens, hostFormat, anew, tail>>

SendCapabilities ==
  /\ SendOrFail("capabilities", IF capture = None THEN "test" ELSE "loop")
  /\ UNCHANGED <<streaming_requested, client_codecs, quit_requested, screen,
                 link, inbox, opens, hostFormat, anew, lag, tail>>

-----------------------------------------------------------------------------
(* Streaming. *)

(* Mutant: the null pointer is not looked at. *)
CreateCapture_NoCheck ==
  /\ Goto("create", "info")
  /\ capture' \in (client_codecs \cap Offered) \cup {None}
  /\ UNCHANGED <<last, frame, streaming_requested, client_codecs, quit_requested, screen,
                 host, lag, tail>>

(* GetBestFrameCapture: some plugin whose codec the client knows, or none. *)
CreateCapture ==
  /\ pc = "create"
  /\ \/ /\ Goto("create", "failed")
        /\ UNCHANGED capture
     \/ /\ Goto("create", "info")
        /\ capture' \in client_codecs \cap Offered
  /\ UNCHANGED <<last, frame, streaming_requested, client_codecs, quit_requested, screen,
                 host, lag, tail>>

(* get_device_display_info: empty or failing with Error, nothing is sent;  *)
(* otherwise the first device is.                                          *)
DisplayInfo ==
  /\ pc = "info"
  /\ \/ Goto("info", "loop") /\ KeepCapture /\ UNCHANGED torn
     \/ SendOrFail("info", "loop")
     \/ Throw("info") /\ UNCHANGED torn    (* not an Error                 *)
  /\ UNCHANGED <<streaming_requested, client_codecs, quit_requested, screen,
                 link, inbox, opens, hostFormat, anew, lag, tail>>

(* Mutant: the inner loop does not look at quit_requested. *)
Loop_NoQuit ==
  /\ \/ /\ streaming_requested
        /\ Goto("loop", "capture")
        /\ KeepCapture
     \/ /\ ~streaming_requested
        /\ Goto("loop", "test")
        /\ DropCapture
  /\ UNCHANGED <<streaming_requested, client_codecs, quit_requested, screen, host, lag, tail>>

Loop ==
  /\ \/ /\ ~quit_requested /\ streaming_requested
        /\ Goto("loop", "capture")
        /\ KeepCapture
     \/ /\ quit_requested \/ ~streaming_requested
        /\ Goto("loop", "test")
        /\ DropCapture
  /\ UNCHANGED <<streaming_requested, client_codecs, quit_requested, screen, host, lag, tail>>

(* Mutant: only the first frame of a capture starts a stream. *)
CaptureFrame_FirstOnly ==
  /\ Goto("capture", IF last = None THEN "format" ELSE "frame")
  /\ frame' = screen /\ last' = screen
  /\ UNCHANGED capture
  /\ UNCHANGED <<streaming_requested, client_codecs, quit_requested, screen, host, lag, tail>>

(* CaptureFrame: stream_start when the size is not the one of the capture's *)
(* last frame.                                                             *)
CaptureFrame ==
  /\ \/ /\ Goto("capture", IF screen # last THEN "format" ELSE "frame")
        /\ frame' = screen /\ last' = screen
        /\ UNCHANGED capture
     \/ Throw("capture")
  /\ UNCHANGED <<streaming_requested, client_codecs, quit_requested, screen, host, lag, tail>>

SendFormat ==
  /\ SendOrFail("format", "frame")
  /\ IF pc' = "frame" /\ ~torn
     THEN hostFormat' = Format(frame, capture) /\ anew' = FALSE
     ELSE UNCHANGED <<hostFormat, anew>>
  /\ UNCHANGED <<streaming_requested, client_codecs, quit_requested, screen,
                 link, inbox, opens, lag, tail>>

(* A frame whose send fails ends this capture, not the agent. *)
SendFrame ==
  /\ pc = "frame"
  /\ \/ /\ Delivered \/ Vanishes
        /\ Goto("frame", "readnow")
        /\ lag' = IF inbox # <<>> THEN lag + 1 ELSE 0
        /\ tail' = IF quit_requested THEN tail + 1 ELSE 0
        /\ frame' = None
        /\ UNCHANGED <<capture, last>>
     \/ /\ Raises
        /\ Goto("frame", "test")
        /\ DropCapture
        /\ UNCHANGED <<lag, tail>>
  /\ UNCHANGED <<streaming_requested, client_codecs, quit_requested, screen,
                 link, inbox, opens, hostFormat, anew>>

(* Mutant: no command is read while a Format is new. *)
ReadNow_Skip ==
  /\ Goto("readnow", IF ~quit_requested /\ inbox # <<>> /\ screen = last THEN "receive" ELSE "loop")
  /\ KeepCapture
  /\ UNCHANGED <<streaming_requested, client_codecs, quit_requested, screen, host, lag, tail>>

(* read_command without blocking: at most one command between two frames. *)
ReadNow ==
  /\ Goto("readnow", IF ~quit_requested /\ inbox # <<>> THEN "receive" ELSE "loop")
  /\ KeepCapture
  /\ UNCHANGED <<streaming_requested, client_codecs, quit_requested, screen, host, lag, tail>>

-----------------------------------------------------------------------------
(* The environment. *)

(* register_interrupts: the second sigaction is made only if the first one *)
(* fails, so SIGTERM keeps its default.                                    *)
Handled == {"SIGINT"}

(* handle_interrupt.  A poll() under way in the main thread is interrupted, *)
(* and read_command sleeps; unless the cursor thread takes the signal.     *)
Signal(s) ==
  /\ ~Ended
  /\ IF s \in Handled
     THEN /\ quit_requested' = TRUE
          /\ pc' \in {pc, IF pc = "polling" THEN "sleep" ELSE pc}
          /\ KeepCapture
     ELSE /\ Throw(pc)
          /\ UNCHANGED quit_requested
  /\ UNCHANGED <<streaming_requested, client_codecs, screen, host, lag, tail>>

Resize ==
  /\ screen' \in ScreenSizes \ {screen}
  /\ UNCHANGED <<main, quit_requested, host, lag, tail>>

(* Bound: nothing is sent behind a truncated command (its bytes would be    *)
(* taken for the payload that is missing).                                 *)
HostCommand(m) ==
  /\ link = "up"
  /\ \A i \in 1..Len(inbox) : inbox[i] # Truncated
  /\ Len(inbox) < MaxInbox
  /\ inbox' = Append(inbox, m)
  /\ UNCHANGED <<main, quit_requested, screen, link, torn, opens, hostFormat, anew, lag, tail>>

HostClose ==
  /\ link = "up"
  /\ \/ inbox' = inbox
     \/ Len(inbox) < MaxInbox /\ inbox' = Append(inbox, Truncated)
  /\ link' = "down" /\ torn' = FALSE
  /\ hostFormat' = None
  /\ UNCHANGED <<main, quit_requested, screen, opens, anew, lag, tail>>

(* A message of either thread may be half written at this moment. *)
HostOpen ==
  /\ link = "down" /\ opens < MaxOpens
  /\ opens' = opens + 1
  /\ link' = "up" /\ torn' \in BOOLEAN
  /\ anew' = TRUE
  /\ UNCHANGED <<main, quit_requested, screen, inbox, hostFormat, lag, tail>>

(* The cursor thread's send fails for good in the middle of its message. *)
CursorTears ==
  /\ link = "up" /\ torn' = TRUE
  /\ UNCHANGED <<main, quit_requested, screen, link, inbox, opens, hostFormat, anew, lag, tail>>

-----------------------------------------------------------------------------
MainNext ==
  \/ Test \/ Poll \/ Sleep \/ Receive \/ SendCapabilities
  \/ CreateCapture \/ DisplayInfo \/ Loop \/ CaptureFrame
  \/ SendFormat \/ SendFrame \/ ReadNow

Environment ==
  \/ ReadFails \/ Resize \/ HostClose \/ HostOpen \/ CursorTears
  \/ \E s \in {"SIGINT", "SIGTERM"} : Signal(s)
  \/ \E m \in Commands : HostCommand(m)

Next == MainNext \/ Environment

Spec == Init /\ [][Next]_vars

(* The main thread runs: a send ends, as StreamPort's LockReleased says,   *)
(* and CaptureFrame and the plugins' other functions return or raise.      *)
(* Frames do not fail for ever: between two failures no command is read.   *)
FairSpec ==
  /\ Spec
  /\ WF_vars(MainNext)
  /\ SF_vars(SendFrame /\ pc' = "readnow")

-----------------------------------------------------------------------------
(* Every variable has its type, and there is a capture wherever do_capture *)
(* uses one.                                                               *)
Formats == [size : ScreenSizes, codec : Codecs]
TypeOK ==
  /\ pc \in Running \cup {"done", "failed"}
  /\ streaming_requested \in BOOLEAN /\ quit_requested \in BOOLEAN
  /\ client_codecs \in SUBSET Codecs
  /\ capture \in Offered \cup {None}
  /\ pc \in {"info", "loop", "capture", "format", "frame", "readnow"} => capture # None
  /\ last \in ScreenSizes \cup {None} /\ frame \in ScreenSizes \cup {None}
  /\ screen \in ScreenSizes
  /\ link \in {"up", "down"} /\ torn \in BOOLEAN
  /\ inbox \in Seq(Commands \cup {Truncated}) /\ Len(inbox) <= MaxInbox
  /\ opens \in 0..MaxOpens
  /\ hostFormat \in Formats \cup {None}
  /\ anew \in BOOLEAN
  /\ lag \in Nat /\ tail \in Nat

(* A frame that reaches the host has the size and the codec of the last    *)
(* Format the host got: across resizes, restarts of the capture, failed    *)
(* sends and commands.  Only a host that has reconnected since gets frames *)
(* without a Format, because the capture does not know.                    *)
FramesDecodable ==
  pc = "frame" /\ link = "up" /\ ~torn /\ ~anew => hostFormat = Format(frame, capture)

(* A waiting command is read after at most one more frame, although frames *)
(* and commands share one thread.                                          *)
CommandLatency == lag <= 1

(* After the signal at most one more frame is sent. *)
QuitLatency == tail <= 1

(* receive() waits for the rest of a command the host does not owe it. *)
Stuck == pc = "receive" /\ Head(inbox) = Truncated /\ link = "up"

(* A STOP that waits in the port puts an end to the capture, even with a   *)
(* START right behind it: the next stream starts with a new capture.       *)
StopEndsCapture ==
  (\E i \in 1..Len(inbox) : inbox[i] = Stop)
    ~> (capture = None /\ ~streaming_requested) \/ Ended \/ Stuck

(* The signal was seen by no poll(): it came between the test and the      *)
(* poll(), or in the other thread, and only the host can wake the agent.   *)
Parked == pc = "polling" /\ inbox = <<>> /\ link = "up"

(* A signal ends the agent, in whatever it is doing, or it is lost.        *)
QuitEnds == quit_requested ~> Ended \/ Parked \/ Stuck

(* "Do not use an encoding not supported by the client" (NEWS): the codec  *)
(* of a frame that is sent is one of those the client last named.          *)
CodecSupported == pc = "frame" => capture \in client_codecs
===============================================================================
