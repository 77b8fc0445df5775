---------------------------- MODULE CursorUpdater ----------------------------
(***************************************************************************)
(* The cursor thread (cursor-updater.cpp): it waits for the X server to    *)
(* tell that the cursor changed, asks for its image, and sends the image   *)
(* to the host unless it is the one it dealt with last.                    *)
(*                                                                         *)
(* The event and the image are two requests: the cursor may have changed   *)
(* again in between.  XFixes gives each cursor a serial number, and a      *)
(* cursor that is shown again has the serial it had.  A send has the       *)
(* outcomes of MessageChannel.                                             *)
(***************************************************************************)
EXTENDS Naturals, Sequences

CONSTANTS
  Cursors,    (* the serials of the cursors the session shows              *)
  TooBig,     (* those beyond STREAM_MSG_CURSOR_SET_MAX_WIDTH or _HEIGHT   *)
  MaxEvents,  (* bound: X events waiting                                   *)
  MaxOpens    (* bound: how often the host opens its end again             *)

ASSUME CursorAssumption ==
  /\ Cursors \subseteq Nat \ {0}
  /\ TooBig \subseteq Cursors
  /\ MaxEvents \in Nat /\ MaxOpens \in Nat

VARIABLES
  pc,           (* where the thread is                                     *)
  last_serial,  (* 0 until a cursor was dealt with                         *)
  serial,       (* external: the cursor on the screen                      *)
  events,       (* external: the X events the thread has not read          *)
  link,         (* external: "up" while the host has its end open          *)
  torn,         (* external: the host lost its place in the stream         *)
  opens,        (* bounds HostOpen                                         *)
  hostCursor,   (* history: the cursor this connection got last, or 0      *)
  missed        (* history: cursors not delivered since then: the image    *)
                (* could not be had or sent, or an earlier connection got  *)
                (* it, or nobody ever told that it is shown                *)

vars == <<pc, last_serial, serial, events, link, torn, opens, hostCursor, missed>>

Init ==
  /\ pc = "next"
  /\ last_serial = 0
  /\ serial \in Cursors /\ events = <<>>
  /\ link \in {"up", "down"} /\ torn = FALSE /\ opens = 0
  /\ hostCursor = 0
  /\ missed = {serial}

-----------------------------------------------------------------------------
(* XNextEvent; what is not a cursor notification is passed over. *)
NextEvent ==
  /\ pc = "next"
  /\ events # <<>>
  /\ events' = Tail(events)
  /\ pc' = IF Head(events) = "notify" THEN "image" ELSE "next"
  /\ UNCHANGED <<last_serial, serial, link, torn, opens, hostCursor, missed>>

(* XFixesGetCursorImage gives no image. *)
NoImage ==
  /\ pc = "image"
  /\ pc' = "next"
  /\ missed' = missed \cup {serial}
  /\ UNCHANGED <<last_serial, serial, events, link, torn, opens, hostCursor>>

(* CursorMessage's constructor raises CursorError for this cursor. *)
Refused(c) == c \in TooBig

(* Mutant: no comparison with last_serial. *)
SameImage_Resend ==
  /\ pc = "image"
  /\ serial = last_serial
  /\ pc' = IF Refused(serial) THEN "sleep" ELSE "send"
  /\ UNCHANGED <<last_serial, serial, events, link, torn, opens, hostCursor, missed>>

SameImage ==
  /\ pc = "image"
  /\ serial = last_serial
  /\ pc' = "next"
  /\ UNCHANGED <<last_serial, serial, events, link, torn, opens, hostCursor, missed>>

(* Mutant: an older serial counts as seen. *)
NewImage_OnlyNewer ==
  /\ pc = "image"
  /\ serial # last_serial
  /\ IF serial > last_serial
     THEN last_serial' = serial /\ pc' = IF Refused(serial) THEN "sleep" ELSE "send"
     ELSE UNCHANGED last_serial /\ pc' = "next"
  /\ missed' = IF pc' = "sleep" THEN missed \cup {serial} ELSE missed
  /\ UNCHANGED <<serial, events, link, torn, opens, hostCursor>>

(* Mutant: the size is not checked. *)
NewImage_NoLimit ==
  /\ pc = "image"
  /\ serial # last_serial
  /\ last_serial' = serial
  /\ pc' = "send"
  /\ UNCHANGED <<serial, events, link, torn, opens, hostCursor, missed>>

(* The serial is remembered before the image is sent, or refused. *)
NewImage ==
  /\ pc = "image"
  /\ serial # last_serial
  /\ last_serial' = serial
  /\ IF Refused(serial)
     THEN pc' = "sleep" /\ missed' = missed \cup {serial}
     ELSE pc' = "send" /\ UNCHANGED missed
  /\ UNCHANGED <<serial, events, link, torn, opens, hostCursor>>

SendDelivers ==
  /\ pc = "send"
  /\ link = "up" /\ ~torn
  /\ hostCursor' = last_serial
  /\ missed' = {}
  /\ pc' = "next"
  /\ UNCHANGED <<last_serial, serial, events, link, torn, opens>>

SendVanishes ==
  /\ pc = "send"
  /\ link = "up" /\ torn
  /\ missed' = missed \cup {last_serial}
  /\ pc' = "next"
  /\ UNCHANGED <<last_serial, serial, events, link, torn, opens, hostCursor>>

(* Mutant: the exception ends the thread. *)
SendRaises_NoCatch ==
  /\ pc = "send"
  /\ \/ link = "down" /\ UNCHANGED torn
     \/ link = "up" /\ torn' \in {torn, TRUE}
  /\ missed' = missed \cup {last_serial}
  /\ pc' = "gone"
  /\ UNCHANGED <<last_serial, serial, events, link, opens, hostCursor>>

(* WriteError is logged and slept over; the image is not sent again. *)
SendRaises ==
  /\ pc = "send"
  /\ \/ link = "down" /\ UNCHANGED torn
     \/ link = "up" /\ torn' \in {torn, TRUE}
  /\ missed' = missed \cup {last_serial}
  /\ pc' = "sleep"
  /\ UNCHANGED <<last_serial, serial, events, link, opens, hostCursor>>

Sleep ==
  /\ pc = "sleep"
  /\ pc' = "next"
  /\ UNCHANGED <<last_serial, serial, events, link, torn, opens, hostCursor, missed>>

-----------------------------------------------------------------------------
(* The X server shows another cursor and tells so. *)
ShowCursor(c) ==
  /\ c # serial
  /\ Len(events) < MaxEvents
  /\ serial' = c
  /\ events' = Append(events, "notify")
  /\ UNCHANGED <<pc, last_serial, link, torn, opens, hostCursor, missed>>

(* Any other event, or a notification without a change. *)
OtherEvent(e) ==
  /\ Len(events) < MaxEvents
  /\ events' = Append(events, e)
  /\ UNCHANGED <<pc, last_serial, serial, link, torn, opens, hostCursor, missed>>

HostClose ==
  /\ link = "up"
  /\ link' = "down" /\ torn' = FALSE
  /\ hostCursor' = 0
  /\ missed' = missed \cup {last_serial}
  /\ UNCHANGED <<pc, last_serial, serial, events, opens>>

(* A message of either thread may be half written at this moment. *)
HostOpen ==
  /\ link = "down" /\ opens < MaxOpens
  /\ opens' = opens + 1
  /\ link' = "up" /\ torn' \in BOOLEAN
  /\ UNCHANGED <<pc, last_serial, serial, events, hostCursor, missed>>

(* A frame's send fails for good in the middle of the message, and the     *)
(* capture loop goes on.                                                   *)
AgentTears ==
  /\ link = "up" /\ torn' = TRUE
  /\ UNCHANGED <<pc, last_serial, serial, events, link, opens, hostCursor, missed>>

-----------------------------------------------------------------------------
ThreadNext ==
  \/ NextEvent \/ NoImage \/ SameImage \/ NewImage
  \/ SendDelivers \/ SendVanishes \/ SendRaises \/ Sleep

Environment ==
  \/ \E c \in Cursors : ShowCursor(c)
  \/ \E e \in {"notify", "other"} : OtherEvent(e)
  \/ HostClose \/ HostOpen \/ AgentTears

Next == ThreadNext \/ Environment

Spec == Init /\ [][Next]_vars

(* The thread runs, and its sends end (StreamPort's LockReleased). *)
FairSpec == Spec /\ WF_vars(ThreadNext)

-----------------------------------------------------------------------------
(* Every variable has its type, and no cursor beyond the limit is ever on  *)
(* its way to the host.                                                    *)
TypeOK ==
  /\ pc \in {"next", "image", "send", "sleep"}
  /\ last_serial \in Cursors \cup {0}
  /\ pc = "send" => last_serial \in Cursors \ TooBig
  /\ serial \in Cursors
  /\ events \in Seq({"notify", "other"}) /\ Len(events) <= MaxEvents
  /\ link \in {"up", "down"} /\ torn \in BOOLEAN /\ opens \in 0..MaxOpens
  /\ hostCursor \in (Cursors \ TooBig) \cup {0}
  /\ missed \subseteq Cursors \cup {0}

Notified == \E i \in 1..Len(events) : events[i] = "notify"

(* When the thread has no notification left to look at, the host has the   *)
(* cursor that is on the screen, however often it changed between an event *)
(* and its image and whichever serials came back; if not, delivering this  *)
(* very cursor failed, or nobody told the thread or the host of it.        *)
UpToDate == pc = "next" /\ ~Notified => hostCursor = serial \/ serial \in missed

(* The host is not sent again the cursor it has, unless another one could  *)
(* not be delivered in between.                                            *)
NoRepeat == pc = "send" /\ last_serial = hostCursor => missed # {}

(* A cursor whose notification waits reaches the host, unless it is        *)
(* replaced or it is one of those whose delivery failed since the host got *)
(* a cursor: no failure with another cursor stops the thread.              *)
CursorArrives ==
  \A c \in Cursors :
    serial = c /\ Notified ~> hostCursor = c \/ serial # c \/ c \in missed
===============================================================================
