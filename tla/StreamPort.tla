------------------------------ MODULE StreamPort ------------------------------
(***************************************************************************)
(* StreamPort (stream-port.cpp, stream-port.hpp): the virtio-serial port   *)
(* that the capture loop and the cursor thread share.                      *)
(*                                                                         *)
(* send() and receive() hold the same mutex for as long as they run, and   *)
(* the port is non-blocking: write_all and read_all call write()/read(),   *)
(* and poll() without a timeout when the port is not ready.  A message is  *)
(* a number of units, written one at a time: a write() that takes several  *)
(* units is several steps in a row.  The first unit begins the header; the *)
(* header of an inbound message is HeaderUnits long, which is what the     *)
(* first read_all of receive() asks for.                                   *)
(*                                                                         *)
(* The kernel's port and the host behind it are external: the port holds   *)
(* at most Room units the host has not read, and the host may close its    *)
(* end, also in the middle of a message, and open it again.                *)
(***************************************************************************)
EXTENDS Naturals, Sequences, FiniteSets

CONSTANTS
  Threads,    (* the threads that use the port                             *)
  Reader,     (* the one that receives: the capture loop                   *)
  NoThread,   (* nobody holds the mutex                                    *)
  MaxUnits,   (* the longest message sent, and the longest payload received *)
  HeaderUnits,(* the header of a message received                          *)
  Room,       (* units the port holds for the host                         *)
  MaxMsgs,    (* bound: no send() starts once this many messages are out   *)
  MaxIn,      (* bound: inbound units waiting in the port                  *)
  MaxOpens    (* bound: how often the host opens its end again             *)

ASSUME PortAssumption ==
  /\ Reader \in Threads
  /\ NoThread \notin Threads
  /\ MaxUnits \in Nat \ {0}
  /\ HeaderUnits \in Nat \ {0}
  /\ Room \in Nat \ {0}
  /\ MaxMsgs \in Nat
  /\ MaxIn \in Nat
  /\ MaxOpens \in Nat

VARIABLES
  mutex,      (* the thread that holds StreamPort::mutex, or NoThread      *)
  pc,         (* where each thread is                                      *)
  msg,        (* the length of the message each thread is sending          *)
  left,       (* `len' of write_all: units of it not yet written           *)
  part,       (* which read_all the reader is in: "head" or "body"         *)
  want,       (* `len' of that read_all: units not yet read                *)
  header,     (* receive()'s `header', while it is being read              *)
  link,       (* external: "up" while the host has its end open            *)
  pending,    (* external: units accepted by the port, unread by the host  *)
  cur,        (* external: the message the host is in the middle of        *)
  expect,     (* external: units of it still to come, 0 between messages   *)
  lost,       (* external: the host no longer finds the headers            *)
  inq,        (* external: inbound units waiting in the port               *)
  owed,       (* external: units of its message the host has yet to write  *)
  opens,      (* bounds HostOpen                                           *)
  accepted,   (* history: the messages that entered the stream whole       *)
  torn,       (* history: part of a message was left in this stream        *)
  cut,        (* history: the host stopped in the middle of a message      *)
  misread     (* history: receive took a payload for a header or a header  *)
              (* for a payload                                             *)

out == <<cur, expect, lost, accepted, torn>>
in  == <<part, want, header, inq, owed, cut, misread>>
vars == <<mutex, pc, msg, left, link, pending, opens, out, in>>

Messages   == [from : Threads, size : 0..MaxUnits]
Message(t) == [from |-> t, size |-> msg[t]]
NoMessage  == [from |-> Reader, size |-> 0]

(* The first unit of an inbound message, with what its header is going to  *)
(* say, and any other unit.                                                *)
Heads    == [kind : {"head"}, size : 0..MaxUnits, ok : BOOLEAN]
Body     == [kind |-> "body"]
NoHeader == [kind |-> "head", size |-> 0, ok |-> FALSE]

Writing == {"send.write", "send.poll"}
Reading == {"recv.read", "recv.poll"}
Holding == Writing \cup Reading \cup {"send.unlock", "recv.unlock"}
PCs     == Holding \cup {"idle", "send.lock", "recv.lock", "threw", "gone"}

(* The thread has put some but not all of its message into the port. *)
Midway(t) == pc[t] \in Writing /\ left[t] < msg[t]

-----------------------------------------------------------------------------
Init ==
  /\ mutex = NoThread
  /\ pc = [t \in Threads |-> "idle"]
  /\ msg = [t \in Threads |-> 0]
  /\ left = [t \in Threads |-> 0]
  /\ part = "head" /\ want = 0 /\ header = NoHeader
  /\ link \in {"up", "down"}
  /\ pending = 0
  /\ cur = NoMessage /\ expect = 0 /\ lost = FALSE
  /\ inq = <<>> /\ owed = 0
  /\ opens = 0
  /\ accepted = <<>> /\ torn = FALSE /\ cut = FALSE /\ misread = FALSE

Goto(t, l) == pc' = [pc EXCEPT ![t] = l]

(* send() is left: the lock_guard and the message are destroyed. *)
LeaveSend(t, l) ==
  /\ mutex' = NoThread
  /\ msg' = [msg EXCEPT ![t] = 0]
  /\ left' = [left EXCEPT ![t] = 0]
  /\ Goto(t, l)

(* receive() is left. *)
LeaveReceive(l) ==
  /\ mutex' = NoThread
  /\ part' = "head" /\ want' = 0 /\ header' = NoHeader
  /\ Goto(Reader, l)

-----------------------------------------------------------------------------
(* Sending. *)

(* The message is built before the mutex is taken. *)
Send(t, n) ==
  /\ pc[t] = "idle"
  /\ Len(accepted) < MaxMsgs
  /\ msg' = [msg EXCEPT ![t] = n]
  /\ left' = [left EXCEPT ![t] = n]
  /\ Goto(t, "send.lock")
  /\ UNCHANGED <<mutex, link, pending, opens, out, in>>

(* Mutant: no lock_guard in send(). *)
SendLock_NoGuard(t) ==
  /\ pc[t] = "send.lock"
  /\ mutex' = t
  /\ Goto(t, "send.write")
  /\ UNCHANGED <<msg, left, link, pending, opens, out, in>>

SendLock(t) ==
  /\ pc[t] = "send.lock"
  /\ mutex = NoThread
  /\ mutex' = t
  /\ Goto(t, "send.write")
  /\ UNCHANGED <<msg, left, link, pending, opens, out, in>>

(* The host's side of one unit: it is the next unit of the message the      *)
(* host is in, or the header of a new one, or else the host is lost.       *)
InPlace(t) ==
  /\ ~lost
  /\ IF expect = 0 THEN left[t] = msg[t]
                   ELSE cur = Message(t) /\ expect = left[t]

Arrive(t) ==
  \/ /\ InPlace(t)
     /\ cur' = IF left[t] = 1 THEN NoMessage ELSE Message(t)
     /\ expect' = left[t] - 1
     /\ accepted' = IF left[t] = 1 THEN Append(accepted, Message(t)) ELSE accepted
     /\ UNCHANGED lost
  \/ /\ ~InPlace(t)
     /\ lost' = TRUE
     /\ cur' = NoMessage /\ expect' = 0
     /\ UNCHANGED accepted

Write(t) ==
  /\ pc[t] = "send.write"
  /\ link = "up" /\ pending < Room
  /\ pending' = pending + 1
  /\ left' = [left EXCEPT ![t] = @ - 1]
  /\ Arrive(t)
  /\ Goto(t, IF left[t] = 1 THEN "send.unlock" ELSE "send.write")
  /\ UNCHANGED <<mutex, msg, link, opens, torn, in>>

(* write() says EAGAIN: nobody at the other end, or no room. *)
WriteWouldBlock(t) ==
  /\ pc[t] = "send.write"
  /\ link = "down" \/ pending = Room
  /\ Goto(t, "send.poll")
  /\ UNCHANGED <<mutex, msg, left, link, pending, opens, out, in>>

PollOut(t) ==
  /\ pc[t] = "send.poll"
  /\ link = "up" /\ pending < Room
  /\ Goto(t, "send.write")
  /\ UNCHANGED <<mutex, msg, left, link, pending, opens, out, in>>

(* A signal ends a poll() that has nothing to report. *)
PollOutInterrupted(t) ==
  /\ pc[t] = "send.poll"
  /\ link = "up" /\ pending = Room
  /\ Goto(t, "send.write")
  /\ UNCHANGED <<mutex, msg, left, link, pending, opens, out, in>>

(* Mutant: POLLHUP is not looked at, and write() is tried again. *)
PollOutHup_Retry(t) ==
  /\ pc[t] = "send.poll"
  /\ link = "down"
  /\ Goto(t, "send.write")
  /\ UNCHANGED <<mutex, msg, left, link, pending, opens, out, in>>

(* Mutant: POLLHUP makes send() return instead of raising. *)
PollOutHup_Silent(t) ==
  /\ pc[t] = "send.poll"
  /\ link = "down"
  /\ LeaveSend(t, "idle")
  /\ UNCHANGED <<link, pending, opens, out, in>>

(* POLLHUP: WriteError leaves send(), whatever was written already. *)
PollOutHup(t) ==
  /\ pc[t] = "send.poll"
  /\ link = "down"
  /\ LeaveSend(t, "threw")
  /\ UNCHANGED <<link, pending, opens, out, in>>

(* write() or poll() fails for good.  With the host listening, the written *)
(* part of the message stays in the stream.                                *)
WriteFails(t) ==
  /\ pc[t] \in Writing
  /\ torn' = (torn \/ (link = "up" /\ Midway(t)))
  /\ LeaveSend(t, "threw")
  /\ UNCHANGED <<link, pending, opens, cur, expect, lost, accepted, in>>

SendUnlock(t) ==
  /\ pc[t] = "send.unlock"
  /\ LeaveSend(t, "idle")
  /\ UNCHANGED <<link, pending, opens, out, in>>

(* The caller catches the exception: the capture loop around a frame, the  *)
(* cursor thread around everything.                                        *)
Catch(t) ==
  /\ pc[t] = "threw"
  /\ Goto(t, "idle")
  /\ UNCHANGED <<mutex, msg, left, link, pending, opens, out, in>>

(* The other messages of the capture loop are sent without a handler: the  *)
(* exception reaches main and the thread makes no more calls.              *)
Escape(t) ==
  /\ t = Reader
  /\ pc[t] = "threw"
  /\ Goto(t, "gone")
  /\ UNCHANGED <<mutex, msg, left, link, pending, opens, out, in>>

-----------------------------------------------------------------------------
(* Receiving, always by Reader. *)

(* receive() is called when poll() has shown POLLIN. *)
Receive ==
  /\ pc[Reader] = "idle"
  /\ inq # <<>>
  /\ Goto(Reader, "recv.lock")
  /\ UNCHANGED <<mutex, msg, left, link, pending, opens, out, in>>

ReceiveLock ==
  /\ pc[Reader] = "recv.lock"
  /\ mutex = NoThread
  /\ mutex' = Reader
  /\ Goto(Reader, "recv.read")
  /\ part' = "head" /\ want' = HeaderUnits
  /\ UNCHANGED <<msg, left, link, pending, opens, out, header, inq, owed, cut, misread>>

(* An exception leaves receive(), and do_capture: the thread is gone. *)
ReceiveThrows == LeaveReceive("gone")

(* A unit of the header is read, which says h.  A unit that is out of place *)
(* leaves any header.                                                      *)
HeaderUnit(h) ==
  /\ pc[Reader] = "recv.read" /\ part = "head"
  /\ inq # <<>>
  /\ inq' = Tail(inq)
  /\ LET due == IF want = HeaderUnits THEN "head" ELSE "body"
     IN  /\ misread' = (misread \/ Head(inq).kind # due)
         /\ Head(inq).kind = due => h = IF due = "head" THEN Head(inq) ELSE header
  /\ UNCHANGED <<msg, left, link, pending, opens, out, owed, cut>>

ReadHeaderPart ==
  /\ want > 1
  /\ \E h \in Heads : HeaderUnit(h) /\ header' = h
  /\ want' = want - 1
  /\ UNCHANGED <<mutex, pc, part>>

(* Mutant: a rejected header does not end the capture loop. *)
ReadHeader_Resume ==
  /\ want = 1
  /\ \E h \in Heads :
       /\ HeaderUnit(h)
       /\ \/ /\ ~h.ok
             /\ LeaveReceive("idle")
          \/ /\ h.ok
             /\ part' = "body" /\ want' = h.size /\ header' = NoHeader
             /\ Goto(Reader, IF h.size = 0 THEN "recv.unlock" ELSE "recv.read")
             /\ UNCHANGED mutex

(* The header is complete.                                                 *)
ReadHeader ==
  /\ want = 1
  /\ \E h \in Heads :
       /\ HeaderUnit(h)
       /\ \/ /\ ~h.ok                  (* the version or the 4kB limit     *)
             /\ ReceiveThrows
          \/ /\ h.ok
             /\ part' = "body" /\ want' = h.size /\ header' = NoHeader
             /\ Goto(Reader, IF h.size = 0 THEN "recv.unlock" ELSE "recv.read")
             /\ UNCHANGED mutex

(* Mutant: read_all counts one unit too many. *)
ReadBody_OffByOne ==
  /\ pc[Reader] = "recv.read" /\ part = "body"
  /\ inq # <<>>
  /\ inq' = Tail(inq)
  /\ misread' = (misread \/ Head(inq).kind # "body")
  /\ want' = want - 1
  /\ Goto(Reader, IF want = 0 THEN "recv.unlock" ELSE "recv.read")
  /\ UNCHANGED <<mutex, msg, left, link, pending, opens, out, part, header, owed, cut>>

ReadBody ==
  /\ pc[Reader] = "recv.read" /\ part = "body"
  /\ inq # <<>>
  /\ inq' = Tail(inq)
  /\ misread' = (misread \/ Head(inq).kind # "body")
  /\ want' = want - 1
  /\ Goto(Reader, IF want = 1 THEN "recv.unlock" ELSE "recv.read")
  /\ UNCHANGED <<mutex, msg, left, link, pending, opens, out, part, header, owed, cut>>

(* read() says EAGAIN: connected, and nothing there. *)
ReadWouldBlock ==
  /\ pc[Reader] = "recv.read"
  /\ inq = <<>> /\ link = "up"
  /\ Goto(Reader, "recv.poll")
  /\ UNCHANGED <<mutex, msg, left, link, pending, opens, out, in>>

(* read() returns 0, or poll() reports POLLHUP alone. *)
ReadClosed ==
  /\ pc[Reader] \in Reading
  /\ inq = <<>> /\ link = "down"
  /\ ReceiveThrows
  /\ UNCHANGED <<msg, left, link, pending, opens, out, inq, owed, cut, misread>>

PollIn ==
  /\ pc[Reader] = "recv.poll"
  /\ inq # <<>>
  /\ Goto(Reader, "recv.read")
  /\ UNCHANGED <<mutex, msg, left, link, pending, opens, out, in>>

PollInInterrupted ==
  /\ pc[Reader] = "recv.poll"
  /\ inq = <<>> /\ link = "up"
  /\ Goto(Reader, "recv.read")
  /\ UNCHANGED <<mutex, msg, left, link, pending, opens, out, in>>

(* read() or poll() fails for good. *)
ReadFails ==
  /\ pc[Reader] \in Reading
  /\ ReceiveThrows
  /\ UNCHANGED <<msg, left, link, pending, opens, out, inq, owed, cut, misread>>

ReceiveUnlock ==
  /\ pc[Reader] = "recv.unlock"
  /\ LeaveReceive("idle")
  /\ UNCHANGED <<msg, left, link, pending, opens, out, inq, owed, cut, misread>>

-----------------------------------------------------------------------------
(* The host. *)

HostRead ==
  /\ pending > 0
  /\ pending' = pending - 1
  /\ UNCHANGED <<mutex, pc, msg, left, link, opens, out, in>>

(* The host starts a message, whose header may be good or not. *)
HostBegin(h) ==
  /\ link = "up" /\ owed = 0
  /\ Len(inq) < MaxIn
  /\ inq' = Append(inq, h)
  /\ owed' = HeaderUnits - 1 + h.size
  /\ UNCHANGED <<mutex, pc, msg, left, link, pending, opens, out, part, want, header, cut, misread>>

HostContinue ==
  /\ owed > 0
  /\ Len(inq) < MaxIn
  /\ inq' = Append(inq, Body)
  /\ owed' = owed - 1
  /\ UNCHANGED <<mutex, pc, msg, left, link, pending, opens, out, part, want, header, cut, misread>>

(* The host forgets what it has not read, and the message it was in. *)
HostClose ==
  /\ link = "up"
  /\ link' = "down"
  /\ pending' = 0
  /\ cur' = NoMessage /\ expect' = 0 /\ lost' = FALSE
  /\ torn' = FALSE
  /\ cut' = (cut \/ owed > 0)
  /\ owed' = 0
  /\ UNCHANGED <<mutex, pc, msg, left, opens, accepted, part, want, header, inq, misread>>

(* The host opens its end again and expects a header, whatever is half      *)
(* written.                                                                *)
HostOpen ==
  /\ link = "down"
  /\ opens < MaxOpens
  /\ opens' = opens + 1
  /\ link' = "up"
  /\ torn' = \E t \in Threads : Midway(t)
  /\ UNCHANGED <<mutex, pc, msg, left, pending, cur, expect, lost, accepted, in>>

-----------------------------------------------------------------------------
ThreadNext(t) ==
  \/ \E n \in 1..MaxUnits : Send(t, n)
  \/ SendLock(t) \/ SendUnlock(t)
  \/ Write(t) \/ WriteWouldBlock(t) \/ WriteFails(t)
  \/ PollOut(t) \/ PollOutInterrupted(t) \/ PollOutHup(t)
  \/ Catch(t) \/ Escape(t)

ReceiveNext ==
  \/ Receive \/ ReceiveLock \/ ReceiveUnlock
  \/ ReadHeaderPart \/ ReadHeader \/ ReadBody \/ ReadWouldBlock \/ ReadClosed \/ ReadFails
  \/ PollIn \/ PollInInterrupted

HostNext ==
  \/ HostRead \/ HostContinue \/ HostClose \/ HostOpen
  \/ \E h \in Heads : HostBegin(h)

Next == (\E t \in Threads : ThreadNext(t)) \/ ReceiveNext \/ HostNext

Spec == Init /\ [][Next]_vars

(* A thread that can take its next step takes it, unless it is waiting for *)
(* the mutex; the host reads what it is sent and finishes what it starts.  *)
(* Nothing is assumed of calls, signals, failures, closing or reopening.   *)
Fairness ==
  /\ \A t \in Threads :
       WF_vars(Write(t) \/ WriteWouldBlock(t) \/ PollOut(t) \/ PollOutHup(t) \/ SendUnlock(t))
  /\ WF_vars(\/ ReadHeaderPart \/ ReadHeader \/ ReadBody \/ ReadWouldBlock \/ ReadClosed
             \/ PollIn \/ ReceiveUnlock)
  /\ WF_vars(HostRead)
  /\ WF_vars(HostContinue)

FairSpec == Spec /\ Fairness

-----------------------------------------------------------------------------
(* Every variable has its type; the port never holds more than Room units. *)
TypeOK ==
  /\ mutex \in Threads \cup {NoThread}
  /\ pc \in [Threads -> PCs]
  /\ msg \in [Threads -> 0..MaxUnits]
  /\ left \in [Threads -> 0..MaxUnits]
  /\ part \in {"head", "body"} /\ want \in 0..(IF part = "head" THEN HeaderUnits ELSE MaxUnits)
  /\ header \in Heads
  /\ link \in {"up", "down"}
  /\ pending \in 0..Room
  /\ cur \in Messages
  /\ expect \in 0..MaxUnits
  /\ lost \in BOOLEAN
  /\ inq \in Seq(Heads \cup {Body}) /\ Len(inq) <= MaxIn
  /\ owed \in 0..(HeaderUnits - 1 + MaxUnits)
  /\ opens \in 0..MaxOpens
  /\ accepted \in Seq(Messages)
  /\ torn \in BOOLEAN /\ cut \in BOOLEAN /\ misread \in BOOLEAN

(* The mutex is held by the thread that is inside send or receive, for the *)
(* whole of the message.                                                   *)
Ownership == \A t \in Threads : pc[t] \in Holding <=> mutex = t

(* No write_all or read_all runs with nothing left to do, and a message    *)
(* that waits for the mutex is still whole.                                *)
Progress ==
  /\ \A t \in Threads :
       /\ pc[t] \in Writing => left[t] \in 1..msg[t]
       /\ pc[t] = "send.lock" => msg[t] \in 1..MaxUnits /\ left[t] = msg[t]
  /\ pc[Reader] \in Reading => want > 0

(* What the host expects is what the thread in the middle of a message has *)
(* yet to write; a header if there is no such thread.                      *)
Agreement ==
  /\ link = "down" => ~lost /\ expect = 0
  /\ link = "up" /\ ~torn =>
       /\ ~lost
       /\ \A t \in Threads : Midway(t) => expect = left[t] /\ cur = Message(t)
       /\ (\A t \in Threads : ~Midway(t)) => expect = 0

(* The inductive invariant: the lock_guard in send and receive makes the   *)
(* thread in the middle of a message the only one that writes, and         *)
(* write_all never loses count, so that the host and the writer agree.     *)
Inv == Ownership /\ Progress /\ Agreement

(* While the host listens, it finds every header where it expects one: no  *)
(* message of one thread is ever written inside a message of the other,    *)
(* and no interrupted, blocked or failed write_all leaves a gap.  The only *)
(* exceptions are the tears the code cannot repair: a hard write error, or *)
(* a reconnection, in the middle of a message.                             *)
InSync == ~torn => ~lost

(* The reader is in the middle of a message and waits for a part of it     *)
(* that the host does not owe any more (it closed there and opened again). *)
Stranded ==
  /\ pc[Reader] \in Reading /\ (part = "head" => want < HeaderUnits)
  /\ link = "up" /\ inq = <<>> /\ owed = 0

(* receive() reads headers as headers and payloads as payloads, and waits  *)
(* for nothing that nobody owes it, as long as the host finishes its       *)
(* messages: a rejected header leaves its payload in the port, which is    *)
(* harmless only because nobody receives after it.                         *)
InboundAligned == misread \/ Stranded => cut

(* The next step of a thread inside send or receive is one it can take...  *)
CanGoOn(t) ==
  \/ pc[t] \in Holding \ {"send.poll", "recv.poll"}
  \/ pc[t] = "send.poll" /\ (link = "down" \/ pending < Room)
  \/ pc[t] = "recv.poll" /\ (link = "down" \/ inq # <<>>)

(* ... or waits for one the host has to take.                              *)
HostCanGoOn(t) ==
  \/ pc[t] = "send.poll" /\ pending > 0
  \/ pc[t] = "recv.poll" /\ owed > 0

(* A thread never holds the mutex for nothing: it can go on, or the host   *)
(* can, unless it is stranded.  The header that made poll() return POLLIN  *)
(* is still there when receive() has waited for the mutex.                 *)
NeverWedged == \A t \in Threads : mutex = t => CanGoOn(t) \/ HostCanGoOn(t) \/ Stranded

(* send and receive hold the mutex across a poll() without a timeout, and  *)
(* still every holder lets it go, by finishing or by an exception: except  *)
(* a stranded reader, which keeps the cursor thread out for good.          *)
LockReleased ==
  \A t \in Threads : mutex = t ~> mutex # t \/ Stranded

-----------------------------------------------------------------------------
(* What the port's users see of send. *)
Call(t) ==
  CASE pc[t] \in {"send.lock"} \cup Writing -> [st |-> "busy",  size |-> msg[t]]
    [] pc[t] = "threw"                      -> [st |-> "threw", size |-> 0]
    [] OTHER                                -> [st |-> "idle",  size |-> 0]

Channel == INSTANCE MessageChannel WITH
  Sizes  <- 1..MaxUnits,
  call   <- [t \in Threads |-> Call(t)],
  log    <- accepted,
  broken <- torn

(* StreamPort::send is a MessageChannel: a message enters the stream once  *)
(* and whole, before send returns, or send raises and it does not enter;   *)
(* it is lost behind the sender's back only in a torn stream.              *)
ChannelSpec == Channel!Spec
===============================================================================
