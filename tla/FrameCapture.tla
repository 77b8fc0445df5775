----------------------------- MODULE FrameCapture -----------------------------
(***************************************************************************)
(* What do_capture relies on when it uses a plugin's capture               *)
(* (frame-capture.hpp), with clocks, X servers and encoders left out: a    *)
(* call of CaptureFrame gives one frame, which is an image of the size it  *)
(* announces and starts a stream exactly if that size is not the one this  *)
(* capture gave before; or it is the last call this capture ever gets.     *)
(***************************************************************************)
CONSTANTS
  Sizes,     (* the sizes a frame can have                                 *)
  None       (* no frame yet                                               *)

VARIABLES
  status,    (* "none" without a capture, "busy" in CaptureFrame, or "idle" *)
  told,      (* the size this capture gave last, or None                   *)
  given      (* the frame the caller may use: a set of one, or of none     *)

vars == <<status, told, given>>

Init ==
  /\ status = "none"
  /\ told = None
  /\ given = {}

(* Plugin::CreateCapture: a new capture has given nothing. *)
Create ==
  /\ status = "none" /\ status' = "idle"
  /\ told' = None
  /\ UNCHANGED given

(* The caller's frame is valid till the next one is read. *)
Begin ==
  /\ status = "idle" /\ status' = "busy"
  /\ given' = {}
  /\ UNCHANGED told

Return(s) ==
  /\ status = "busy" /\ status' = "idle"
  /\ told' = s
  /\ given' = {[image |-> s, size |-> s, stream_start |-> s # told]}

(* The capture is destroyed, after a call that failed or between two calls. *)
End ==
  /\ status # "none" /\ status' = "none"
  /\ given' = {}
  /\ UNCHANGED told

Next == Create \/ Begin \/ (\E s \in Sizes : Return(s)) \/ End

Spec == Init /\ [][Next]_vars
===============================================================================
