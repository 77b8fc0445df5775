------------------------------ MODULE JpegBuffer ------------------------------
(***************************************************************************)
(* The destination of the JPEG compressor (jpeg.cpp): a vector that is     *)
(* used again for each frame, and grows while libjpeg writes to it.        *)
(*                                                                         *)
(* libjpeg keeps a pointer to the next byte and the number of free bytes,  *)
(* and calls empty_output_buffer when there is none; the pointer is an     *)
(* offset here.  std::vector gives at least the capacity it is asked for,  *)
(* and a resize keeps the bytes below the old size.                        *)
(***************************************************************************)
EXTENDS Naturals

CONSTANTS
  MinSize,   (* 32 kB                                                      *)
  Excess,    (* bound: what a vector takes beyond what it needs            *)
  MaxBytes   (* bound: the bytes of a compressed image                     *)

ASSUME BufferAssumption ==
  /\ MinSize \in Nat \ {0}
  /\ Excess \in Nat /\ MaxBytes \in Nat

VARIABLES
  coder,     (* "idle", or "encode" between jpeg_create_ and _finish_      *)
  bytes,     (* buffer.size()                                              *)
  capacity,  (* buffer.capacity()                                          *)
  next,      (* next_output_byte - &buffer[0]                              *)
  free,      (* free_in_buffer                                             *)
  emitted,   (* history: the bytes libjpeg wrote for this image            *)
  intact     (* history: all of them are in the vector, in order           *)

bufferVars == <<coder, bytes, capacity, next, free, emitted, intact>>

InitBuffer ==
  /\ coder = "idle"
  /\ bytes = 0 /\ capacity = 0
  /\ next = 0 /\ free = 0
  /\ emitted = 0 /\ intact = TRUE

(* buffer.resize(n), with offset bytes of the image before it. *)
ResizeTo(n, offset) ==
  /\ bytes' = n
  /\ IF n <= capacity THEN UNCHANGED capacity ELSE capacity' \in n..(n + Excess)
  /\ intact' = (intact /\ offset <= bytes /\ offset <= n)

(* The constructor of JpegBuffer. *)
StartImage ==
  /\ coder = "idle"
  /\ coder' = "encode"
  /\ ResizeTo(IF capacity < MinSize THEN MinSize ELSE capacity, 0)
  /\ next' = 0
  /\ free' = bytes'
  /\ emitted' = 0

(* libjpeg writes a byte. *)
WriteByte ==
  /\ coder = "encode"
  /\ free > 0
  /\ emitted < MaxBytes
  /\ intact' = (intact /\ next = emitted)
  /\ next' = next + 1
  /\ free' = free - 1
  /\ emitted' = emitted + 1
  /\ UNCHANGED <<coder, bytes, capacity>>

(* Mutant: all of the larger buffer counts as free. *)
EmptyOutputBuffer_All ==
  /\ coder = "encode"
  /\ free = 0
  /\ ResizeTo(capacity * 2, next)
  /\ next' = bytes
  /\ free' = bytes'
  /\ UNCHANGED <<coder, emitted>>

(* Mutant: libjpeg goes on at the start of the buffer. *)
EmptyOutputBuffer_Rewind ==
  /\ coder = "encode"
  /\ free = 0
  /\ ResizeTo(capacity * 2, next)
  /\ next' = 0
  /\ free' = bytes'
  /\ UNCHANGED <<coder, emitted>>

(* buf_empty_output_buffer. *)
EmptyOutputBuffer ==
  /\ coder = "encode"
  /\ free = 0
  /\ ResizeTo(capacity * 2, next)
  /\ next' = bytes
  /\ free' = bytes' - bytes
  /\ UNCHANGED <<coder, emitted>>

(* Mutant: the vector keeps the size of the last growth. *)
FinishImage_NoTrim ==
  /\ coder = "encode"
  /\ coder' = "idle"
  /\ UNCHANGED <<bytes, capacity, next, free, emitted, intact>>

(* The destructor of JpegBuffer. *)
FinishImage ==
  /\ coder = "encode"
  /\ coder' = "idle"
  /\ ResizeTo(next, next)
  /\ UNCHANGED <<next, free, emitted>>

NextBuffer == StartImage \/ WriteByte \/ EmptyOutputBuffer \/ FinishImage

BufferSpec == InitBuffer /\ [][NextBuffer]_bufferVars

-----------------------------------------------------------------------------
(* Every variable has its type; between two images the vector ends where   *)
(* libjpeg stopped.                                                        *)
BufferTypeOK ==
  /\ coder \in {"idle", "encode"}
  /\ bytes \in Nat /\ capacity \in Nat /\ bytes <= capacity
  /\ next \in Nat /\ free \in Nat
  /\ emitted \in Nat /\ emitted <= MaxBytes
  /\ intact \in BOOLEAN
  /\ coder = "idle" => bytes = next

(* libjpeg writes inside the vector, and to every byte of it in turn. *)
InBounds ==
  coder = "encode" => capacity >= MinSize /\ next + free = bytes

(* What the capture sends is the image: no byte is lost, overwritten or    *)
(* added, however often the vector grows and whatever image it held before. *)
Complete ==
  coder = "idle" => intact /\ bytes = emitted

(* empty_output_buffer returns with room for a byte at least, or libjpeg   *)
(* would call it for ever.                                                 *)
MakesRoom == [][coder = "encode" /\ free = 0 /\ coder' = "encode" => free' > 0]_bufferVars
===============================================================================
