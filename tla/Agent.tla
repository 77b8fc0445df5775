-------------------------------- MODULE Agent --------------------------------
(***************************************************************************)
(* The agent's process: the main thread (StreamingAgent) and the cursor    *)
(* thread (CursorUpdater), which share the port and nothing else, and end  *)
(* together.  Each thread's module knows the other one only as something   *)
(* that tears the stream; here they are both.                              *)
(***************************************************************************)
EXTENDS StreamingAgent

CONSTANTS Cursors, TooBig, MaxEvents    (* those of CursorUpdater *)

VARIABLES cursor_pc, last_serial, serial, events, hostCursor, missed

Cursor == INSTANCE CursorUpdater WITH pc <- cursor_pc

ofMain   == <<main, quit_requested, screen, inbox, hostFormat, anew, lag, tail>>
ofCursor == <<cursor_pc, last_serial, serial, events, hostCursor, missed>>
agent    == <<vars, ofCursor>>

(* main() opens the port, starts the cursor thread and calls do_capture. *)
BothInit == Init /\ Cursor!Init

MainStep ==
  /\ \/ MainNext \/ ReadFails \/ Resize
     \/ \E s \in {"SIGINT", "SIGTERM"} : Signal(s)
     \/ \E m \in Commands : HostCommand(m)
  /\ UNCHANGED ofCursor

(* The thread is detached, and lasts as long as the process. *)
CursorStep ==
  /\ ~Ended
  /\ \/ Cursor!ThreadNext
     \/ \E c \in Cursors : Cursor!ShowCursor(c)
     \/ \E e \in {"notify", "other"} : Cursor!OtherEvent(e)
  /\ UNCHANGED ofMain

(* The host closes and opens its end for both threads at once. *)
BothHost ==
  \/ HostClose /\ Cursor!HostClose
  \/ HostOpen /\ Cursor!HostOpen

BothNext == MainStep \/ CursorStep \/ BothHost

AgentSpec == BothInit /\ [][BothNext]_agent
===============================================================================
