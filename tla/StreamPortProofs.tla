--------------------------- MODULE StreamPortProofs ---------------------------
(***************************************************************************)
(* What TLAPS proves of StreamPort for any number of threads, any message  *)
(* length, any room in the port and any number of reconnections.           *)
(***************************************************************************)
EXTENDS StreamPort, TLAPS

(* The sequence operators on the inbound queue. *)
LEMMA QueueTail ==
  ASSUME NEW S, NEW q \in Seq(S), q # <<>>
  PROVE  /\ Head(q) \in S
         /\ Tail(q) \in Seq(S)
         /\ Len(Tail(q)) = Len(q) - 1
         /\ Len(q) \in Nat \ {0}
  OBVIOUS

(* Records of a bounded size are messages. *)
LEMMA MessageType ==
  ASSUME NEW t \in Threads, NEW n \in 0..MaxUnits
  PROVE  [from |-> t, size |-> n] \in Messages
  BY DEF Messages

LEMMA NoMessageType == NoMessage \in Messages
  BY PortAssumption, MessageType DEF NoMessage

LEMMA NoHeaderType == NoHeader \in Heads
  BY PortAssumption DEF NoHeader, Heads

(* What reading a unit of the header does to the reader, and that it does  *)
(* nothing else.                                                           *)
LEMMA HeaderSteps ==
  ASSUME TypeOK, ReadHeaderPart \/ ReadHeader
  PROVE  /\ UNCHANGED <<msg, left, link, pending, opens, out, owed, cut>>
         /\ pc[Reader] = "recv.read" /\ part = "head"
         /\ inq # <<>> /\ inq' = Tail(inq)
         /\ \/ pc' = pc /\ UNCHANGED <<mutex, part>> /\ want > 1 /\ want' = want - 1
            \/ want = 1 /\ ReceiveThrows
            \/ /\ want = 1 /\ part' = "body" /\ want' \in 0..MaxUnits /\ UNCHANGED mutex
               /\ Goto(Reader, IF want' = 0 THEN "recv.unlock" ELSE "recv.read")
<1>1. CASE ReadHeaderPart
  <2>1. PICK h \in Heads : HeaderUnit(h)
    BY <1>1 DEF ReadHeaderPart
  <2> QED
    BY <1>1, <2>1 DEF ReadHeaderPart, HeaderUnit
<1>2. CASE ReadHeader
  <2>1. PICK h \in Heads :
          /\ HeaderUnit(h)
          /\ \/ ReceiveThrows
             \/ /\ part' = "body" /\ want' = h.size
                /\ Goto(Reader, IF h.size = 0 THEN "recv.unlock" ELSE "recv.read")
                /\ UNCHANGED mutex
    BY <1>2 DEF ReadHeader
  <2>2. want = 1 /\ h.size \in 0..MaxUnits
    BY <1>2 DEF ReadHeader, Heads
  <2> QED
    BY <2>1, <2>2 DEF HeaderUnit
<1> QED
  BY <1>1, <1>2

(* The types of the program's state and of the history variables hold at   *)
(* the start and are kept by every step; Inv is what tells that a write or *)
(* a read still has something to do.                                       *)
LEMMA TypeInit == Init => TypeOK
<1> SUFFICES ASSUME Init PROVE TypeOK
  OBVIOUS
<1>1. lost \in BOOLEAN /\ torn \in BOOLEAN /\ cut \in BOOLEAN /\ misread \in BOOLEAN
  BY DEF Init
<1>2. cur \in Messages /\ expect \in 0..MaxUnits
  BY PortAssumption, NoMessageType DEF Init
<1>3. inq \in Seq(Heads \cup {Body}) /\ Len(inq) <= MaxIn /\ accepted \in Seq(Messages)
  BY PortAssumption DEF Init
<1>4. /\ mutex \in Threads \cup {NoThread}
      /\ pc \in [Threads -> PCs]
      /\ msg \in [Threads -> 0..MaxUnits] /\ left \in [Threads -> 0..MaxUnits]
  BY PortAssumption DEF Init, PCs
<1>5. /\ part \in {"head", "body"} /\ want \in 0..(IF part = "head" THEN HeaderUnits ELSE MaxUnits)
      /\ owed \in 0..(HeaderUnits - 1 + MaxUnits) /\ header \in Heads
      /\ link \in {"up", "down"} /\ pending \in 0..Room /\ opens \in 0..MaxOpens
  BY PortAssumption, NoHeaderType DEF Init
<1> QED
  BY <1>1, <1>2, <1>3, <1>4, <1>5 DEF TypeOK

LEMMA TypeStep == TypeOK /\ Inv /\ [Next]_vars => TypeOK'
<1> SUFFICES ASSUME TypeOK, Inv, [Next]_vars PROVE TypeOK'
  OBVIOUS
<1> USE PortAssumption
<1>1. ASSUME NEW t \in Threads, ThreadNext(t) PROVE TypeOK'
  <2>1. ASSUME NEW n \in 1..MaxUnits, Send(t, n) PROVE TypeOK'
    BY <2>1 DEF Send, TypeOK, Goto, PCs, out, in
  <2>2. CASE SendLock(t)
    BY <2>2 DEF SendLock, TypeOK, Goto, PCs, Holding, Writing, out, in
  <2>3. CASE SendUnlock(t)
    BY <2>3 DEF SendUnlock, LeaveSend, TypeOK, Goto, PCs, out, in
  <2>4. CASE Write(t)
    <3>1. left[t] \in 1..msg[t] /\ msg[t] \in 1..MaxUnits
      BY <2>4 DEF Write, Inv, Progress, Writing, TypeOK
    <3>2. cur' \in Messages /\ expect' \in 0..MaxUnits
          /\ lost' \in BOOLEAN
      <4>1. Message(t) \in Messages
        BY <3>1, MessageType DEF Message
      <4>2. lost' \in BOOLEAN
        BY <2>4 DEF Write, Arrive, TypeOK
      <4> QED
        BY <2>4, <3>1, <4>1, <4>2, NoMessageType DEF Write, Arrive, TypeOK
    <3>3. accepted' \in Seq(Messages)
      <4>1. Message(t) \in Messages
        BY <3>1, MessageType DEF Message
      <4>2. accepted' = accepted \/ accepted' = Append(accepted, Message(t))
        BY <2>4 DEF Write, Arrive
      <4>3. accepted \in Seq(Messages)
        BY DEF TypeOK
      <4> QED
        BY <4>1, <4>2, <4>3
    <3>4. pc' \in [Threads -> PCs] /\ left' \in [Threads -> 0..MaxUnits] /\ pending' \in 0..Room
      BY <2>4, <3>1 DEF Write, TypeOK, Goto, PCs, Holding, Writing
    <3> QED
      BY <2>4, <3>2, <3>3, <3>4 DEF Write, TypeOK, in
  <2>5. CASE WriteWouldBlock(t)
    BY <2>5 DEF WriteWouldBlock, TypeOK, Goto, PCs, Holding, Writing, out, in
  <2>6. CASE WriteFails(t)
    BY <2>6 DEF WriteFails, LeaveSend, TypeOK, Goto, PCs, in
  <2>7. CASE PollOut(t)
    BY <2>7 DEF PollOut, TypeOK, Goto, PCs, Holding, Writing, out, in
  <2>8. CASE PollOutInterrupted(t)
    BY <2>8 DEF PollOutInterrupted, TypeOK, Goto, PCs, Holding, Writing, out, in
  <2>9. CASE PollOutHup(t)
    BY <2>9 DEF PollOutHup, LeaveSend, TypeOK, Goto, PCs, out, in
  <2>10. CASE Catch(t)
    BY <2>10 DEF Catch, TypeOK, Goto, PCs, out, in
  <2>11. CASE Escape(t)
    BY <2>11 DEF Escape, TypeOK, Goto, PCs, out, in
  <2> QED
    BY <1>1, <2>1, <2>2, <2>3, <2>4, <2>5, <2>6, <2>7, <2>8, <2>9, <2>10, <2>11 DEF ThreadNext
<1>2. CASE ReceiveNext
  <2>1. CASE Receive
    BY <2>1 DEF Receive, TypeOK, Goto, PCs, out, in
  <2>2. CASE ReceiveLock
    BY <2>2 DEF ReceiveLock, TypeOK, Goto, PCs, Holding, Reading, out
  <2>3. CASE ReceiveUnlock
    BY <2>3, NoHeaderType DEF ReceiveUnlock, LeaveReceive, TypeOK, Goto, PCs, out
  <2>11. CASE ReadHeaderPart
    <3>1. PICK h \in Heads : HeaderUnit(h) /\ header' = h
      BY <2>11 DEF ReadHeaderPart
    <3>2. inq' \in Seq(Heads \cup {Body}) /\ Len(inq') <= MaxIn
      BY <3>1, QueueTail DEF HeaderUnit, TypeOK
    <3>3. misread' \in BOOLEAN
      BY <3>1 DEF HeaderUnit, TypeOK
    <3>4. want' \in 0..(IF part' = "head" THEN HeaderUnits ELSE MaxUnits)
      BY <2>11 DEF ReadHeaderPart, TypeOK
    <3> QED
      BY <2>11, <3>1, <3>2, <3>3, <3>4 DEF ReadHeaderPart, HeaderUnit, TypeOK, out
  <2>4. CASE ReadHeader
    <3>1. PICK h \in Heads :
            /\ HeaderUnit(h)
            /\ \/ ReceiveThrows
               \/ /\ part' = "body" /\ want' = h.size /\ header' = NoHeader
                  /\ Goto(Reader, IF h.size = 0 THEN "recv.unlock" ELSE "recv.read")
                  /\ UNCHANGED mutex
      BY <2>4 DEF ReadHeader
    <3>2. inq' \in Seq(Heads \cup {Body}) /\ Len(inq') <= MaxIn
      BY <3>1, QueueTail DEF HeaderUnit, TypeOK
    <3>3. misread' \in BOOLEAN
      BY <3>1 DEF HeaderUnit, TypeOK
    <3>4. /\ pc' \in [Threads -> PCs] /\ mutex' \in Threads \cup {NoThread}
          /\ part' \in {"head", "body"} /\ header' \in Heads
          /\ want' \in 0..(IF part' = "head" THEN HeaderUnits ELSE MaxUnits)
      <4>1. h.size \in 0..MaxUnits
        BY DEF Heads
      <4>2. CASE ReceiveThrows
        BY <4>2, NoHeaderType DEF ReceiveThrows, LeaveReceive, Goto, TypeOK, PCs
      <4>3. CASE /\ part' = "body" /\ want' = h.size /\ header' = NoHeader
                 /\ Goto(Reader, IF h.size = 0 THEN "recv.unlock" ELSE "recv.read")
                 /\ UNCHANGED mutex
        <5>1. pc' \in [Threads -> PCs]
          BY <4>3 DEF Goto, TypeOK, PCs, Holding, Reading
        <5> QED
          BY <4>1, <4>3, <5>1, NoHeaderType DEF TypeOK
      <4> QED
        BY <3>1, <4>2, <4>3
    <3> QED
      BY <3>1, <3>2, <3>3, <3>4 DEF HeaderUnit, TypeOK, out
  <2>5. CASE ReadBody
    <3>1. inq' \in Seq(Heads \cup {Body}) /\ Len(inq') <= MaxIn
      BY <2>5, QueueTail DEF ReadBody, TypeOK
    <3>2. /\ pc' \in [Threads -> PCs]
          /\ want' \in 0..(IF part' = "head" THEN HeaderUnits ELSE MaxUnits)
      BY <2>5 DEF ReadBody, Goto, TypeOK, PCs, Holding, Reading, Inv, Progress
    <3> QED
      BY <2>5, <3>1, <3>2 DEF ReadBody, TypeOK, out
  <2>6. CASE ReadWouldBlock
    BY <2>6 DEF ReadWouldBlock, TypeOK, Goto, PCs, Holding, Reading, out, in
  <2>7. CASE ReadClosed
    BY <2>7, NoHeaderType DEF ReadClosed, ReceiveThrows, LeaveReceive, TypeOK, Goto, PCs, out
  <2>8. CASE ReadFails
    BY <2>8, NoHeaderType DEF ReadFails, ReceiveThrows, LeaveReceive, TypeOK, Goto, PCs, out
  <2>9. CASE PollIn
    BY <2>9 DEF PollIn, TypeOK, Goto, PCs, Holding, Reading, out, in
  <2>10. CASE PollInInterrupted
    BY <2>10 DEF PollInInterrupted, TypeOK, Goto, PCs, Holding, Reading, out, in
  <2> QED
    BY <1>2, <2>1, <2>2, <2>3, <2>4, <2>5, <2>6, <2>7, <2>8, <2>9, <2>10, <2>11 DEF ReceiveNext
<1>3. CASE HostNext
  <2>1. CASE HostRead
    BY <2>1 DEF HostRead, TypeOK, out, in
  <2>2. CASE HostContinue
    BY <2>2 DEF HostContinue, TypeOK, out
  <2>3. CASE HostClose
    <3>1. lost' \in BOOLEAN /\ torn' \in BOOLEAN /\ cut' \in BOOLEAN
      BY <2>3 DEF HostClose, TypeOK
    <3>2. cur' \in Messages /\ expect' \in 0..MaxUnits
      BY <2>3, NoMessageType DEF HostClose, TypeOK
    <3> QED
      BY <2>3, <3>1, <3>2 DEF HostClose, TypeOK
  <2>4. CASE HostOpen
    BY <2>4 DEF HostOpen, TypeOK, in
  <2>5. ASSUME NEW h \in Heads, HostBegin(h) PROVE TypeOK'
    <3>1. h.size \in 0..MaxUnits
      BY DEF Heads
    <3> QED
      BY <2>5, <3>1 DEF HostBegin, TypeOK, out
  <2> QED
    BY <1>3, <2>1, <2>2, <2>3, <2>4, <2>5 DEF HostNext
<1>4. CASE UNCHANGED vars
  BY <1>4 DEF vars, TypeOK, out, in
<1> QED
  BY <1>1, <1>2, <1>3, <1>4 DEF Next

-----------------------------------------------------------------------------
(* The mutex: every step that enters or leaves Holding takes or releases   *)
(* the mutex in the same step.                                             *)
LEMMA OwnershipStep == TypeOK /\ Inv /\ [Next]_vars => Ownership'
<1> SUFFICES ASSUME TypeOK, Ownership, [Next]_vars PROVE Ownership'
  BY DEF Inv
<1> USE PortAssumption DEF TypeOK, Ownership, Goto, Holding
<1>1. ASSUME NEW t \in Threads, ThreadNext(t) PROVE Ownership'
  <2>1. ASSUME NEW n \in 1..MaxUnits, Send(t, n) PROVE Ownership'
    BY <2>1 DEF Send, Writing, Reading
  <2>2. CASE SendLock(t)
    BY <2>2 DEF SendLock, Writing, Reading
  <2>3. CASE SendUnlock(t)
    BY <2>3 DEF SendUnlock, LeaveSend, Writing, Reading
  <2>4. CASE Write(t)
    BY <2>4 DEF Write, Writing, Reading
  <2>5. CASE WriteWouldBlock(t) \/ PollOut(t) \/ PollOutInterrupted(t)
    BY <2>5 DEF WriteWouldBlock, PollOut, PollOutInterrupted, Writing, Reading
  <2>6. CASE WriteFails(t) \/ PollOutHup(t)
    BY <2>6 DEF WriteFails, PollOutHup, LeaveSend, Writing, Reading
  <2>7. CASE Catch(t) \/ Escape(t)
    BY <2>7 DEF Catch, Escape, Writing, Reading
  <2> QED
    BY <1>1, <2>1, <2>2, <2>3, <2>4, <2>5, <2>6, <2>7 DEF ThreadNext
<1>2. CASE ReceiveNext
  <2>1. CASE Receive \/ ReceiveLock
    BY <2>1 DEF Receive, ReceiveLock, Writing, Reading
  <2>2. CASE ReceiveUnlock
    BY <2>2 DEF ReceiveUnlock, LeaveReceive, Writing, Reading
  <2>3. CASE ReadHeaderPart \/ ReadHeader
    <3>1. \/ ReceiveThrows
          \/ UNCHANGED mutex /\ (pc' = pc \/ \E l \in {"recv.unlock", "recv.read"} : Goto(Reader, l))
      BY <2>3, HeaderSteps
    <3>2. pc[Reader] = "recv.read"
      BY <2>3, HeaderSteps
    <3> QED
      BY <3>1, <3>2 DEF ReceiveThrows, LeaveReceive, Writing, Reading
  <2>4. CASE ReadBody
    BY <2>4 DEF ReadBody, Writing, Reading
  <2>5. CASE ReadWouldBlock \/ PollIn \/ PollInInterrupted
    BY <2>5 DEF ReadWouldBlock, PollIn, PollInInterrupted, Writing, Reading
  <2>6. CASE ReadClosed \/ ReadFails
    BY <2>6 DEF ReadClosed, ReadFails, ReceiveThrows, LeaveReceive, Writing, Reading
  <2> QED
    BY <1>2, <2>1, <2>2, <2>3, <2>4, <2>5, <2>6 DEF ReceiveNext
<1>3. CASE HostNext
  BY <1>3 DEF HostNext, HostRead, HostContinue, HostClose, HostOpen, HostBegin
<1>4. CASE UNCHANGED vars
  BY <1>4 DEF vars
<1> QED
  BY <1>1, <1>2, <1>3, <1>4 DEF Next

(* The counters of write_all and read_all: a loop that goes on has units   *)
(* left, and a message waiting for the mutex is whole.                     *)
LEMMA ProgressStep == TypeOK /\ Inv /\ [Next]_vars => Progress'
<1> SUFFICES ASSUME TypeOK, Ownership, Progress, [Next]_vars PROVE Progress'
  BY DEF Inv
<1> USE PortAssumption DEF TypeOK, Progress, Goto, Writing, Reading
<1>1. ASSUME NEW t \in Threads, ThreadNext(t) PROVE Progress'
  <2>1. ASSUME NEW n \in 1..MaxUnits, Send(t, n) PROVE Progress'
    BY <2>1 DEF Send, out, in
  <2>2. CASE SendLock(t)
    BY <2>2 DEF SendLock, out, in
  <2>3. CASE SendUnlock(t)
    BY <2>3 DEF SendUnlock, LeaveSend, out, in
  <2>4. CASE Write(t)
    BY <2>4 DEF Write, out, in
  <2>5. CASE WriteWouldBlock(t) \/ PollOut(t) \/ PollOutInterrupted(t)
    BY <2>5 DEF WriteWouldBlock, PollOut, PollOutInterrupted, out, in
  <2>6. CASE WriteFails(t) \/ PollOutHup(t)
    BY <2>6 DEF WriteFails, PollOutHup, LeaveSend, out, in
  <2>7. CASE Catch(t) \/ Escape(t)
    BY <2>7 DEF Catch, Escape, out, in
  <2> QED
    BY <1>1, <2>1, <2>2, <2>3, <2>4, <2>5, <2>6, <2>7 DEF ThreadNext
<1>2. CASE ReceiveNext
  <2>1. CASE Receive
    BY <2>1 DEF Receive, out, in
  <2>2. CASE ReceiveLock
    BY <2>2 DEF ReceiveLock
  <2>3. CASE ReceiveUnlock \/ ReadClosed \/ ReadFails
    BY <2>3 DEF ReceiveUnlock, ReadClosed, ReadFails, ReceiveThrows, LeaveReceive
  <2>4. CASE ReadHeaderPart \/ ReadHeader
    <3>1. \/ pc' = pc /\ want > 1 /\ want' = want - 1
          \/ ReceiveThrows
          \/ /\ want' \in 0..MaxUnits
             /\ Goto(Reader, IF want' = 0 THEN "recv.unlock" ELSE "recv.read")
      BY <2>4, HeaderSteps
    <3>2. UNCHANGED <<msg, left>>
      BY <2>4, HeaderSteps
    <3> QED
      BY <3>1, <3>2 DEF ReceiveThrows, LeaveReceive
  <2>5. CASE ReadBody
    BY <2>5 DEF ReadBody
  <2>6. CASE ReadWouldBlock \/ PollIn \/ PollInInterrupted
    BY <2>6 DEF ReadWouldBlock, PollIn, PollInInterrupted, in
  <2> QED
    BY <1>2, <2>1, <2>2, <2>3, <2>4, <2>5, <2>6 DEF ReceiveNext
<1>3. CASE HostNext
  BY <1>3 DEF HostNext, HostRead, HostContinue, HostClose, HostOpen, HostBegin, in
<1>4. CASE UNCHANGED vars
  BY <1>4 DEF vars, in
<1> QED
  BY <1>1, <1>2, <1>3, <1>4 DEF Next

-----------------------------------------------------------------------------
(* Only the owner of the mutex can be in the middle of a message. *)
LEMMA OneWriter ==
  ASSUME Ownership, NEW t \in Threads, NEW u \in Threads, pc[t] \in Writing, Midway(u)
  PROVE  u = t
  BY DEF Ownership, Holding, Midway

(* Agreement survives a step that leaves the stream and every half-written *)
(* message alone.                                                          *)
LEMMA AgreementFrame ==
  ASSUME Agreement, UNCHANGED <<link, cur, expect, lost, torn>>,
         \A t \in Threads :
           /\ Midway(t)' <=> Midway(t)
           /\ Midway(t) => left'[t] = left[t] /\ msg'[t] = msg[t]
  PROVE  Agreement'
  BY DEF Agreement, Message

(* A write puts the unit the host expects. *)
LEMMA WriteInPlace ==
  ASSUME TypeOK, Inv, NEW t \in Threads, pc[t] = "send.write", link = "up", ~torn
  PROVE  InPlace(t)
<1>1. pc[t] \in Writing /\ left[t] \in 1..msg[t] /\ msg[t] \in Nat
  BY DEF Inv, Progress, Writing, TypeOK
<1>2. CASE Midway(t)
  BY <1>1, <1>2 DEF Inv, Agreement, InPlace, TypeOK
<1>3. CASE ~Midway(t)
  <2>1. left[t] = msg[t]
    BY <1>1, <1>3 DEF Midway
  <2>2. expect = 0 /\ ~lost
    BY <1>1, <1>3, OneWriter DEF Inv, Agreement
  <2> QED
    BY <2>1, <2>2 DEF InPlace
<1> QED
  BY <1>2, <1>3

LEMMA AgreementStep == TypeOK /\ Inv /\ [Next]_vars => Agreement'
<1> SUFFICES ASSUME TypeOK, Inv, [Next]_vars PROVE Agreement'
  OBVIOUS
<1>a. Ownership /\ Progress /\ Agreement
  BY DEF Inv
<1> USE DEF Goto
<1>1. ASSUME NEW t \in Threads, ThreadNext(t) PROVE Agreement'
  <2>1. ASSUME NEW n \in 1..MaxUnits, Send(t, n) PROVE Agreement'
    BY <1>a, <2>1, AgreementFrame DEF Send, Midway, Writing, TypeOK, out
  <2>2. CASE SendLock(t)
    <3>1. left[t] = msg[t]
      BY <1>a, <2>2 DEF SendLock, Progress
    <3> QED
      BY <1>a, <2>2, <3>1, AgreementFrame DEF SendLock, Midway, Writing, TypeOK, out
  <2>3. CASE SendUnlock(t)
    BY <1>a, <2>3, AgreementFrame DEF SendUnlock, LeaveSend, Midway, Writing, TypeOK, out
  <2>4. CASE Write(t)
    <3>1. /\ link = "up" /\ link' = "up" /\ torn' = torn
          /\ pc[t] = "send.write" /\ pc[t] \in Writing
          /\ left[t] \in 1..msg[t] /\ msg[t] \in 0..MaxUnits
          /\ left' = [left EXCEPT ![t] = left[t] - 1] /\ msg' = msg
          /\ pc' = [pc EXCEPT ![t] = IF left[t] = 1 THEN "send.unlock" ELSE "send.write"]
      BY <1>a, <2>4 DEF Write, Progress, Writing, TypeOK
    <3>2. ASSUME ~torn PROVE /\ ~lost'
                             /\ \A u \in Threads : Midway(u)' => expect' = left'[u] /\ cur' = Message(u)'
                             /\ (\A u \in Threads : ~Midway(u)') => expect' = 0
      <4>1. InPlace(t)
        BY <3>1, <3>2, WriteInPlace
      <4>2. /\ ~lost'
            /\ cur' = IF left[t] = 1 THEN NoMessage ELSE Message(t)
            /\ expect' = left[t] - 1
        BY <2>4, <4>1 DEF Write, Arrive, InPlace
      <4>3. ASSUME NEW u \in Threads, Midway(u)' PROVE u = t /\ left[t] # 1
        <5>1. CASE u = t
          BY <3>1, <4>3, <5>1 DEF Midway, Writing, TypeOK
        <5>2. CASE u # t
          <6>1. Midway(u)
            BY <3>1, <4>3, <5>2 DEF Midway, TypeOK
          <6> QED
            BY <1>a, <3>1, <5>2, <6>1, OneWriter
        <5> QED
          BY <5>1, <5>2
      <4>4. left'[t] = left[t] - 1 /\ Message(t)' = Message(t)
        BY <3>1 DEF Message, TypeOK
      <4>5. left[t] # 1 => Midway(t)'
        BY <3>1 DEF Midway, Writing, TypeOK
      <4> QED
        BY <3>1, <4>2, <4>3, <4>4, <4>5
    <3> QED
      BY <3>1, <3>2 DEF Agreement
  <2>5. CASE WriteWouldBlock(t) \/ PollOut(t) \/ PollOutInterrupted(t)
    BY <1>a, <2>5, AgreementFrame
       DEF WriteWouldBlock, PollOut, PollOutInterrupted, Midway, Writing, TypeOK, out
  <2>6. CASE WriteFails(t)
    <3>1. /\ pc[t] \in Writing /\ UNCHANGED <<link, cur, expect, lost>>
          /\ torn' = (torn \/ (link = "up" /\ Midway(t)))
          /\ pc' = [pc EXCEPT ![t] = "threw"]
          /\ \A u \in Threads \ {t} : left'[u] = left[u] /\ msg'[u] = msg[u]
      BY <2>6 DEF WriteFails, LeaveSend, TypeOK
    <3>2. \A u \in Threads : ~Midway(u)'
      BY <1>a, <3>1, OneWriter DEF Midway, Writing, TypeOK
    <3>3. ASSUME link = "up", ~torn' PROVE ~torn /\ \A u \in Threads : ~Midway(u)
      BY <1>a, <3>1, <3>3, OneWriter
    <3> QED
      BY <1>a, <3>1, <3>2, <3>3 DEF Agreement
  <2>7. CASE PollOutHup(t)
    BY <1>a, <2>7 DEF PollOutHup, Agreement, out
  <2>8. CASE Catch(t) \/ Escape(t)
    BY <1>a, <2>8, AgreementFrame DEF Catch, Escape, Midway, Writing, TypeOK, out
  <2> QED
    BY <1>1, <2>1, <2>2, <2>3, <2>4, <2>5, <2>6, <2>7, <2>8 DEF ThreadNext
<1>2. CASE ReceiveNext
  <2>1. /\ UNCHANGED <<link, msg, left, out>>
        /\ \E l \in PCs \ Writing : pc[Reader] \notin Writing /\ Goto(Reader, l)
    <3>1. CASE ReadHeaderPart \/ ReadHeader
      <4>1. \E l \in {"recv.read", "recv.unlock", "gone"} : Goto(Reader, l)
        BY <3>1, HeaderSteps, PortAssumption DEF ReceiveThrows, LeaveReceive, TypeOK
      <4> QED
        BY <3>1, <4>1, HeaderSteps DEF PCs, Holding, Reading, Writing
    <3>2. CASE ~(ReadHeaderPart \/ ReadHeader)
      BY <1>2, <3>2 DEF ReceiveNext, Receive, ReceiveLock, ReceiveUnlock, ReadBody,
                  ReadWouldBlock, ReadClosed, ReadFails, ReceiveThrows, LeaveReceive,
                  PollIn, PollInInterrupted, PCs, Holding, Reading, Writing
    <3> QED
      BY <3>1, <3>2
  <2> QED
    BY <1>a, <2>1, AgreementFrame DEF Midway, TypeOK, out
<1>3. CASE HostNext
  <2>1. CASE HostClose
    BY <2>1 DEF HostClose, Agreement
  <2>2. CASE HostOpen
    <3>1. /\ link = "down" /\ link' = "up" /\ UNCHANGED <<expect, lost>>
          /\ torn' = \E t \in Threads : Midway(t)
          /\ \A t \in Threads : Midway(t)' <=> Midway(t)
      BY <2>2 DEF HostOpen, Midway
    <3> QED
      BY <1>a, <3>1 DEF Agreement
  <2>3. CASE HostRead \/ HostContinue \/ \E h \in Heads : HostBegin(h)
    BY <1>a, <2>3, AgreementFrame DEF HostRead, HostContinue, HostBegin, Midway, out
  <2> QED
    BY <1>3, <2>1, <2>2, <2>3 DEF HostNext
<1>4. CASE UNCHANGED vars
  BY <1>a, <1>4, AgreementFrame DEF vars, Midway, out
<1> QED
  BY <1>1, <1>2, <1>3, <1>4 DEF Next

-----------------------------------------------------------------------------
(* The inductive invariant holds. *)
LEMMA InvInit == Init => Inv
  BY PortAssumption
     DEF Init, Inv, Ownership, Progress, Agreement, Midway, Holding, Writing, Reading

LEMMA InvStep == TypeOK /\ Inv /\ [Next]_vars => (TypeOK /\ Inv)'
  BY TypeStep, OwnershipStep, ProgressStep, AgreementStep DEF Inv

(* Every variable keeps its type; in particular write_all never counts     *)
(* below zero, and the port never takes more than it has room for.         *)
THEOREM TypeCorrect == Spec => []TypeOK
<1>1. Init => TypeOK /\ Inv
  BY TypeInit, InvInit
<1> QED
  BY <1>1, InvStep, PTL DEF Spec

(* Mutual exclusion, the counters, and the agreement of the writer and the *)
(* host on what comes next.                                                *)
THEOREM Invariance == Spec => []Inv
<1>1. Init => TypeOK /\ Inv
  BY TypeInit, InvInit
<1> QED
  BY <1>1, InvStep, PTL DEF Spec

(* The host finds every header unless the stream was torn: whatever the    *)
(* interleaving of the threads, the blocking of the port, the signals and  *)
(* the disconnections.                                                     *)
THEOREM StreamInSync == Spec => []InSync
<1>1. TypeOK /\ Inv => InSync
  BY DEF TypeOK, Inv, Agreement, InSync
<1> QED
  BY <1>1, TypeCorrect, Invariance, PTL

-----------------------------------------------------------------------------
(* The refinement of MessageChannel. *)
calls == [t \in Threads |-> Call(t)]

(* A step of one thread changes only what that thread's send is seen to do. *)
LEMMA CallChange ==
  ASSUME NEW t \in Threads,
         \A u \in Threads \ {t} : pc'[u] = pc[u] /\ msg'[u] = msg[u]
  PROVE  calls' = [calls EXCEPT ![t] = Call(t)']
<1>1. ASSUME NEW u \in Threads \ {t} PROVE Call(u)' = Call(u)
  BY DEF Call
<1> QED
  BY <1>1 DEF calls

LEMMA CallStutter ==
  ASSUME \A t \in Threads : Call(t)' = Call(t)
  PROVE  calls' = calls
  BY DEF calls

(* The abstract actions, in terms of the port's state. *)
LEMMA ChannelStutter ==
  ASSUME calls' = calls, UNCHANGED <<accepted, torn>>
  PROVE  UNCHANGED Channel!vars
  BY DEF Channel!vars, calls

LEMMA ChannelInit == Init => Channel!Init
<1> SUFFICES ASSUME Init PROVE Channel!Init
  OBVIOUS
<1>1. \A t \in Threads : Call(t) = [st |-> "idle", size |-> 0]
  BY DEF Init, Call, Writing
<1> QED
  BY <1>1 DEF Init, Channel!Init, Channel!Idle

LEMMA ChannelWrite ==
  ASSUME TypeOK, Inv, NEW t \in Threads, Write(t)
  PROVE  [Channel!Next]_(Channel!vars)
<1>1. /\ pc[t] = "send.write" /\ link = "up" /\ torn' = torn /\ msg' = msg
      /\ pc' = [pc EXCEPT ![t] = IF left[t] = 1 THEN "send.unlock" ELSE "send.write"]
  BY DEF Write, Goto
<1>2. Call(t) = [st |-> "busy", size |-> msg[t]]
  BY <1>1 DEF Call, Writing
<1>3. calls' = [calls EXCEPT ![t] = Call(t)']
  BY <1>1, CallChange DEF TypeOK
<1>4. CASE left[t] # 1
  <2>1. Call(t)' = Call(t)
    BY <1>1, <1>2, <1>4 DEF Call, Writing, TypeOK
  <2>2. accepted' = accepted
    BY <1>4 DEF Write, Arrive
  <2> QED
    BY <1>1, <1>3, <2>1, <2>2, ChannelStutter DEF calls
<1>5. CASE left[t] = 1
  <2>1. Call(t)' = [st |-> "idle", size |-> 0]
    BY <1>1, <1>5 DEF Call, Writing, TypeOK
  <2>2. CASE InPlace(t)
    <3>1. accepted' = Append(accepted, [from |-> t, size |-> msg[t]])
      BY <1>5, <2>2 DEF Write, Arrive, Message
    <3>2. Channel!Deliver(t)
      BY <1>1, <1>2, <1>3, <2>1, <3>1 DEF Channel!Deliver, Channel!Idle, calls
    <3> QED
      BY <3>2 DEF Channel!Next
  <2>3. CASE ~InPlace(t)
    <3>1. accepted' = accepted
      BY <2>3 DEF Write, Arrive
    <3>2. torn
      BY <1>1, <2>3, WriteInPlace
    <3>3. Channel!Lose(t)
      BY <1>1, <1>2, <1>3, <2>1, <3>1, <3>2 DEF Channel!Lose, Channel!Idle, calls
    <3> QED
      BY <3>3 DEF Channel!Next
  <2> QED
    BY <2>2, <2>3
<1> QED
  BY <1>4, <1>5

LEMMA ChannelStep == TypeOK /\ Inv /\ [Next]_vars => [Channel!Next]_(Channel!vars)
<1> SUFFICES ASSUME TypeOK, Inv, [Next]_vars PROVE [Channel!Next]_(Channel!vars)
  OBVIOUS
<1> USE DEF Goto
<1>1. ASSUME NEW t \in Threads, ThreadNext(t) PROVE [Channel!Next]_(Channel!vars)
  <2>1. ASSUME NEW n \in 1..MaxUnits, Send(t, n) PROVE [Channel!Next]_(Channel!vars)
    <3>1. calls' = [calls EXCEPT ![t] = Call(t)']
      BY <2>1, CallChange DEF Send, TypeOK
    <3>2. Call(t) = [st |-> "idle", size |-> 0] /\ Call(t)' = [st |-> "busy", size |-> n]
      BY <2>1 DEF Send, Call, Writing, TypeOK
    <3>3. Channel!Call(t, n)
      BY <2>1, <3>1, <3>2 DEF Send, Channel!Call, Channel!Idle, Channel!Busy, calls, out
    <3> QED
      BY <3>3 DEF Channel!Next
  <2>2. CASE SendLock(t) \/ WriteWouldBlock(t) \/ PollOut(t) \/ PollOutInterrupted(t)
    <3>1. \A u \in Threads : Call(u)' = Call(u)
      BY <2>2 DEF SendLock, WriteWouldBlock, PollOut, PollOutInterrupted, Call, Writing, TypeOK
    <3> QED
      BY <2>2, <3>1, CallStutter, ChannelStutter
         DEF SendLock, WriteWouldBlock, PollOut, PollOutInterrupted, out
  <2>3. CASE SendUnlock(t)
    <3>1. calls' = [calls EXCEPT ![t] = Call(t)']
      BY <2>3, CallChange DEF SendUnlock, LeaveSend, TypeOK
    <3>2. Call(t)' = Call(t)
      BY <2>3 DEF SendUnlock, LeaveSend, Call, Writing, TypeOK
    <3> QED
      BY <2>3, <3>1, <3>2, ChannelStutter DEF SendUnlock, calls, out
  <2>4. CASE Write(t)
    BY <2>4, ChannelWrite
  <2>5. CASE WriteFails(t) \/ PollOutHup(t)
    <3>1. calls' = [calls EXCEPT ![t] = Call(t)']
      BY <2>5, CallChange DEF WriteFails, PollOutHup, LeaveSend, TypeOK
    <3>2. Call(t) = [st |-> "busy", size |-> msg[t]] /\ Call(t)' = [st |-> "threw", size |-> 0]
      BY <2>5 DEF WriteFails, PollOutHup, LeaveSend, Call, Writing, TypeOK
    <3>3. accepted' = accepted /\ torn' \in {torn, TRUE}
      BY <2>5 DEF WriteFails, PollOutHup, TypeOK, out
    <3>4. /\ calls[t].st = "busy"
          /\ calls' = [calls EXCEPT ![t] = [st |-> "threw", size |-> 0]]
      BY <3>1, <3>2 DEF calls
    <3>5. Channel!Raise(t)
      BY <3>3, <3>4, Zenon DEF Channel!Raise, Channel!Threw, calls
    <3> QED
      BY <3>5 DEF Channel!Next
  <2>6. CASE Catch(t) \/ Escape(t)
    <3>1. calls' = [calls EXCEPT ![t] = Call(t)']
      BY <2>6, CallChange DEF Catch, Escape, TypeOK
    <3>2. Call(t) = [st |-> "threw", size |-> 0] /\ Call(t)' = [st |-> "idle", size |-> 0]
      BY <2>6 DEF Catch, Escape, Call, Writing, TypeOK
    <3>3. Channel!Recover(t)
      BY <2>6, <3>1, <3>2
         DEF Catch, Escape, Channel!Recover, Channel!Threw, Channel!Idle, calls, out
    <3> QED
      BY <3>3 DEF Channel!Next
  <2> QED
    BY <1>1, <2>1, <2>2, <2>3, <2>4, <2>5, <2>6 DEF ThreadNext
<1>2. CASE ReceiveNext
  <2>1. /\ UNCHANGED <<msg, out>>
        /\ \E l \in PCs \ Writing :
             /\ l \notin {"send.lock", "threw"}
             /\ pc[Reader] \notin Writing \cup {"send.lock", "threw"}
             /\ Goto(Reader, l)
    <3>1. CASE ReadHeaderPart \/ ReadHeader
      <4>1. \E l \in {"recv.read", "recv.unlock", "gone"} : Goto(Reader, l)
        BY <3>1, HeaderSteps, PortAssumption DEF ReceiveThrows, LeaveReceive, Goto, TypeOK
      <4> QED
        BY <3>1, <4>1, HeaderSteps DEF PCs, Holding, Reading, Writing
    <3>2. CASE ~(ReadHeaderPart \/ ReadHeader)
      BY <1>2, <3>2 DEF ReceiveNext, Receive, ReceiveLock, ReceiveUnlock, ReadBody,
                  ReadWouldBlock, ReadClosed, ReadFails, ReceiveThrows, LeaveReceive,
                  PollIn, PollInInterrupted, PCs, Holding, Reading, Writing
    <3> QED
      BY <3>1, <3>2
  <2>2. \A u \in Threads : Call(u)' = Call(u)
    BY <2>1 DEF Call, TypeOK
  <2> QED
    BY <2>1, <2>2, CallStutter, ChannelStutter DEF out
<1>3. CASE HostNext
  <2>1. UNCHANGED <<pc, msg, accepted>>
    BY <1>3 DEF HostNext, HostRead, HostContinue, HostClose, HostOpen, HostBegin, out
  <2>2. calls' = calls
    BY <2>1, CallStutter DEF Call
  <2>3. CASE HostClose \/ HostOpen
    <3>1. torn' \in BOOLEAN
      BY <2>3 DEF HostClose, HostOpen
    <3>2. Channel!Restart
      BY <2>1, <2>2, <3>1 DEF Channel!Restart, calls
    <3> QED
      BY <3>2 DEF Channel!Next
  <2>4. CASE HostRead \/ HostContinue \/ \E h \in Heads : HostBegin(h)
    BY <2>1, <2>2, <2>4, ChannelStutter DEF HostRead, HostContinue, HostBegin, out
  <2> QED
    BY <1>3, <2>3, <2>4 DEF HostNext
<1>4. CASE UNCHANGED vars
  <2>1. calls' = calls
    BY <1>4, CallStutter DEF vars, Call
  <2> QED
    BY <1>4, <2>1, ChannelStutter DEF vars, out
<1> QED
  BY <1>1, <1>2, <1>3, <1>4 DEF Next

(* StreamPort::send is a MessageChannel, for every instance. *)
THEOREM ChannelRefinement == Spec => ChannelSpec
<1>1. Init => Channel!Init
  BY ChannelInit
<1>2. [](TypeOK /\ Inv) /\ [][Next]_vars => [][Channel!Next]_(Channel!vars)
  BY ChannelStep, PTL
<1> QED
  BY <1>1, <1>2, TypeCorrect, Invariance, PTL DEF Spec, ChannelSpec, Channel!Spec

-----------------------------------------------------------------------------
(* Receiving.  The units that wait in the port can be read one after the   *)
(* other: each begins a message where nothing is due, and says what is due *)
(* behind it, or else is one of the units that are due.                    *)
Queue  == Seq(Heads \cup {Body})
MaxDue == HeaderUnits - 1 + MaxUnits
Behind(h) == HeaderUnits - 1 + h.size

Reads(q, e) ==
  \A i \in 1..Len(q) :
    \/ e[i] = 0 /\ q[i] \in Heads /\ e[i + 1] = Behind(q[i])
    \/ e[i] > 0 /\ q[i] = Body /\ e[i + 1] = e[i] - 1

(* With d units due before the first, o are due behind the last. *)
Framed(q, d, o) ==
  \E e \in [1..(Len(q) + 1) -> 0..MaxDue] :
    e[1] = d /\ e[Len(q) + 1] = o /\ Reads(q, e)

Due == IF part = "body" THEN want
       ELSE IF want \in 1..(HeaderUnits - 1) THEN want + header.size ELSE 0

(* What the reader has yet to read is what the host has sent and owes,     *)
(* until the host breaks off a message or the reader is gone.              *)
Places ==
  /\ pc[Reader] \notin Reading \cup {"recv.unlock"} => part = "head" /\ want = 0
  /\ pc[Reader] = "recv.unlock" => want = 0

Aligned == ~cut /\ pc[Reader] # "gone" => Framed(inq, Due, owed)

LEMMA UnitKinds ==
  /\ \A h \in Heads : h.kind = "head" /\ h # Body /\ h.size \in 0..MaxUnits /\ Behind(h) \in 0..MaxDue
  /\ Body.kind = "body"
<1>1. /\ \A h \in Heads : h.kind = "head" /\ h # Body /\ h.size \in 0..MaxUnits
      /\ Body.kind = "body"
  BY DEF Heads, Body
<1> QED
  BY <1>1, PortAssumption DEF Behind, MaxDue

LEMMA FramedEmpty == Framed(<<>>, 0, 0)
<1> DEFINE e == [i \in 1..1 |-> 0]
<1>1. e \in [1..(Len(<<>>) + 1) -> 0..MaxDue] /\ e[1] = 0
  BY PortAssumption DEF MaxDue
<1>2. Reads(<<>>, e)
  BY DEF Reads
<1> QED
  BY <1>1, <1>2 DEF Framed

(* The first unit is of the kind that is due, and so is the rest. *)
LEMMA FramedTail ==
  ASSUME NEW q \in Queue, NEW d, NEW o, q # <<>>, Framed(q, d, o)
  PROVE  /\ d = 0 => Head(q) \in Heads /\ Framed(Tail(q), Behind(Head(q)), o)
         /\ d # 0 => Head(q) = Body /\ Framed(Tail(q), d - 1, o)
<1>1. PICK e \in [1..(Len(q) + 1) -> 0..MaxDue] :
             e[1] = d /\ e[Len(q) + 1] = o /\ Reads(q, e)
  BY DEF Framed
<1>2. /\ Len(q) \in Nat \ {0} /\ Tail(q) \in Queue /\ Len(Tail(q)) = Len(q) - 1
      /\ Head(q) = q[1] /\ \A i \in 1..(Len(q) - 1) : Tail(q)[i] = q[i + 1]
  BY DEF Queue
<1> DEFINE r == [i \in 1..Len(q) |-> e[i + 1]]
<1>3. r \in [1..(Len(Tail(q)) + 1) -> 0..MaxDue]
  BY <1>1, <1>2
<1>4. Reads(Tail(q), r)
  <2> SUFFICES ASSUME NEW i \in 1..Len(Tail(q))
               PROVE  \/ r[i] = 0 /\ Tail(q)[i] \in Heads /\ r[i + 1] = Behind(Tail(q)[i])
                      \/ r[i] > 0 /\ Tail(q)[i] = Body /\ r[i + 1] = r[i] - 1
    BY DEF Reads
  <2>1. i + 1 \in 1..Len(q) /\ i \in 1..Len(q) /\ Tail(q)[i] = q[i + 1]
    BY <1>2
  <2>2. r[i] = e[i + 1] /\ r[i + 1] = e[i + 1 + 1]
    BY <2>1
  <2>3. \/ e[i + 1] = 0 /\ q[i + 1] \in Heads /\ e[i + 1 + 1] = Behind(q[i + 1])
        \/ e[i + 1] > 0 /\ q[i + 1] = Body /\ e[i + 1 + 1] = e[i + 1] - 1
    BY <1>1, <2>1 DEF Reads
  <2> HIDE DEF r
  <2> QED
    BY <2>1, <2>2, <2>3
<1>5. r[1] = e[2] /\ r[Len(Tail(q)) + 1] = o
  BY <1>1, <1>2
<1>6. \/ d = 0 /\ Head(q) \in Heads /\ e[2] = Behind(Head(q))
      \/ d # 0 /\ Head(q) = Body /\ e[2] = d - 1
  BY <1>1, <1>2 DEF Reads
<1> HIDE DEF r
<1>7. Framed(Tail(q), e[2], o)
  BY <1>3, <1>4, <1>5 DEF Framed
<1> QED
  BY <1>6, <1>7

(* The host adds what is due behind the last unit. *)
LEMMA FramedAppend ==
  ASSUME NEW q \in Queue, NEW d, NEW o \in 0..MaxDue, NEW u \in Heads \cup {Body},
         NEW p \in 0..MaxDue, Framed(q, d, o),
         \/ o = 0 /\ u \in Heads /\ p = Behind(u)
         \/ o > 0 /\ u = Body /\ p = o - 1
  PROVE  Framed(Append(q, u), d, p)
<1>1. PICK e \in [1..(Len(q) + 1) -> 0..MaxDue] :
             e[1] = d /\ e[Len(q) + 1] = o /\ Reads(q, e)
  BY DEF Framed
<1> DEFINE a == Append(q, u)
           n == Len(q)
           r == [i \in 1..(n + 2) |-> IF i <= n + 1 THEN e[i] ELSE p]
<1>2. /\ n \in Nat /\ Len(a) = n + 1 /\ a[n + 1] = u
      /\ \A i \in 1..n : a[i] = q[i]
  BY DEF Queue
<1>3. r \in [1..(Len(a) + 1) -> 0..MaxDue]
  BY <1>1, <1>2
<1>4. /\ \A i \in 1..(n + 1) : r[i] = e[i]
      /\ r[n + 2] = p
  BY <1>2
<1> HIDE DEF r, a
<1>5. Reads(a, r)
  <2> SUFFICES ASSUME NEW i \in 1..Len(a)
               PROVE  \/ r[i] = 0 /\ a[i] \in Heads /\ r[i + 1] = Behind(a[i])
                      \/ r[i] > 0 /\ a[i] = Body /\ r[i + 1] = r[i] - 1
    BY DEF Reads
  <2>1. CASE i = n + 1
    <3>1. r[i] = o /\ a[i] = u /\ r[i + 1] = p
      BY <1>1, <1>2, <1>4, <2>1
    <3> QED
      BY <3>1
  <2>2. CASE i # n + 1
    <3>1. i \in 1..n /\ i + 1 \in 1..(n + 1) /\ i \in 1..(n + 1)
      BY <1>2, <2>2
    <3>2. r[i] = e[i] /\ r[i + 1] = e[i + 1] /\ a[i] = q[i]
      BY <1>2, <1>4, <3>1
    <3>3. \/ e[i] = 0 /\ q[i] \in Heads /\ e[i + 1] = Behind(q[i])
          \/ e[i] > 0 /\ q[i] = Body /\ e[i + 1] = e[i] - 1
      BY <1>1, <3>1 DEF Reads
    <3> QED
      BY <3>2, <3>3
  <2> QED
    BY <2>1, <2>2
<1>6. r[1] = d /\ r[Len(a) + 1] = p
  BY <1>1, <1>2, <1>4
<1>7. Framed(a, d, p)
  BY <1>3, <1>5, <1>6 DEF Framed
<1> QED
  BY <1>7 DEF a

LEMMA AlignedInit == Init => Places /\ Aligned
<1> SUFFICES ASSUME Init PROVE Places /\ Aligned
  OBVIOUS
<1>1. part = "head" /\ want = 0 /\ inq = <<>> /\ owed = 0
  BY DEF Init
<1> QED
  BY <1>1, FramedEmpty DEF Places, Aligned, Due, Init

(* Where the reader is, from the step of any other actor.                  *)
LEMMA ReaderStands ==
  ASSUME TypeOK, Next, ~ReceiveNext
  PROVE  /\ part' = part /\ want' = want
         /\ pc'[Reader] # pc[Reader] =>
              /\ {pc[Reader], pc'[Reader]} \cap (Reading \cup {"recv.unlock"}) = {}
              /\ pc[Reader] # "gone"
<1>1. CASE HostNext
  BY <1>1 DEF HostNext, HostRead, HostContinue, HostClose, HostOpen, HostBegin, in
<1>2. ASSUME NEW t \in Threads, ThreadNext(t)
      PROVE  /\ part' = part /\ want' = want
             /\ pc'[Reader] # pc[Reader] =>
                  /\ {pc[Reader], pc'[Reader]} \cap (Reading \cup {"recv.unlock"}) = {}
                  /\ pc[Reader] # "gone"
  <2>1. \E l \in {"idle", "send.lock", "send.write", "send.poll", "send.unlock", "threw", "gone"} :
          Goto(t, l) /\ pc[t] \in {"idle", "send.lock", "send.write", "send.poll", "send.unlock", "threw"}
    BY <1>2 DEF ThreadNext, Send, SendLock, SendUnlock, Write, WriteWouldBlock, WriteFails, PollOut,
                PollOutInterrupted, PollOutHup, Catch, Escape, LeaveSend, Writing
  <2>2. UNCHANGED in
    BY <1>2 DEF ThreadNext, Send, SendLock, SendUnlock, Write, WriteWouldBlock, WriteFails, PollOut,
                PollOutInterrupted, PollOutHup, Catch, Escape
  <2>3. part' = part /\ want' = want
    BY <2>2 DEF in
  <2>4. CASE t = Reader
    <3>1. pc'[Reader] \in {"idle", "send.lock", "send.write", "send.poll", "send.unlock", "threw", "gone"}
      BY <2>1, <2>4 DEF Goto, TypeOK
    <3>2. pc[Reader] \in {"idle", "send.lock", "send.write", "send.poll", "send.unlock", "threw"}
      BY <2>1, <2>4
    <3> QED
      BY <2>3, <3>1, <3>2 DEF Reading
  <2>5. CASE t # Reader
    <3>1. pc'[Reader] = pc[Reader]
      BY <2>1, <2>5, PortAssumption DEF Goto, TypeOK
    <3> QED
      BY <2>3, <3>1
  <2> QED
    BY <2>4, <2>5
<1> QED
  BY <1>1, <1>2 DEF Next

LEMMA PlacesStep == TypeOK /\ Places /\ [Next]_vars => Places'
<1> SUFFICES ASSUME TypeOK, Places, [Next]_vars PROVE Places'
  OBVIOUS
<1>1. CASE Next /\ ~ReceiveNext
  BY <1>1, ReaderStands DEF Places
<1>2. CASE UNCHANGED vars
  BY <1>2 DEF vars, in, Places
<1>3. CASE ReceiveNext
  <2> USE DEF Places, Reading, TypeOK, Goto
  <2> USE PortAssumption
  <2>1. CASE Receive \/ ReceiveLock \/ ReceiveUnlock
    BY <2>1 DEF Receive, ReceiveLock, ReceiveUnlock, LeaveReceive, in
  <2>2. CASE ReadHeaderPart \/ ReadHeader
    BY <2>2, HeaderSteps DEF ReceiveThrows, LeaveReceive
  <2>3. CASE ReadBody
    BY <2>3 DEF ReadBody
  <2>4. CASE ReadWouldBlock \/ PollIn \/ PollInInterrupted
    BY <2>4 DEF ReadWouldBlock, PollIn, PollInInterrupted, in
  <2>5. CASE ReadClosed \/ ReadFails
    BY <2>5 DEF ReadClosed, ReadFails, ReceiveThrows, LeaveReceive
  <2> QED
    BY <1>3, <2>1, <2>2, <2>3, <2>4, <2>5 DEF ReceiveNext
<1> QED
  BY <1>1, <1>2, <1>3

(* A unit that is read is of the kind that is due. *)
LEMMA ReadsInPlace ==
  ASSUME TypeOK, Inv, Aligned, ~cut, inq # <<>>, pc[Reader] = "recv.read"
  PROVE  /\ part = "head" /\ want = HeaderUnits =>
              /\ Head(inq) \in Heads /\ Head(inq).kind = "head"
              /\ Framed(Tail(inq), Behind(Head(inq)), owed)
         /\ part = "head" /\ want # HeaderUnits =>
              /\ Head(inq) = Body /\ Head(inq).kind = "body"
              /\ Framed(Tail(inq), want + header.size - 1, owed)
         /\ part = "body" => /\ Head(inq) = Body /\ Head(inq).kind = "body"
                             /\ Framed(Tail(inq), want - 1, owed)
<1>1. Framed(inq, Due, owed)
  BY DEF Aligned
<1>2. inq \in Queue
  BY DEF TypeOK, Queue
<1>3. want \in 0..(IF part = "head" THEN HeaderUnits ELSE MaxUnits) /\ want > 0 /\ header.size \in Nat
  BY PortAssumption DEF Inv, Progress, Reading, TypeOK, Heads
<1>4. part = "head" /\ want = HeaderUnits => Due = 0
  BY <1>3, PortAssumption DEF Due
<1>5. part = "head" /\ want # HeaderUnits => Due = want + header.size /\ Due # 0
  BY <1>3, PortAssumption DEF Due
<1>6. part = "body" => Due = want /\ want # 0
  BY <1>3 DEF Due
<1>7. CASE Due = 0
  <2>1. Head(inq) \in Heads /\ Framed(Tail(inq), Behind(Head(inq)), owed)
    BY <1>1, <1>2, <1>7, FramedTail
  <2> QED
    BY <1>5, <1>6, <1>7, <2>1, UnitKinds
<1>8. CASE Due # 0
  <2>1. Head(inq) = Body /\ Framed(Tail(inq), Due - 1, owed)
    BY <1>1, <1>2, <1>8, FramedTail
  <2>2. Head(inq).kind = "body"
    BY <2>1, UnitKinds
  <2>3. part = "head" /\ want # HeaderUnits => Due - 1 = want + header.size - 1
    <3> SUFFICES ASSUME part = "head", want # HeaderUnits
                 PROVE  Due - 1 = want + header.size - 1
      OBVIOUS
    <3>1. Due = want + header.size
      BY <1>5
    <3>2. want \in Nat /\ header.size \in Nat
      BY <1>3, PortAssumption
    <3> QED
      BY <3>1, <3>2
  <2>4. part = "body" => Due - 1 = want - 1
    BY <1>6
  <2>5. part = "head" /\ want # HeaderUnits => Framed(Tail(inq), want + header.size - 1, owed)
    BY <2>1, <2>3
  <2>6. part = "body" => Framed(Tail(inq), want - 1, owed)
    BY <2>1, <2>4
  <2> QED
    BY <1>4, <1>8, <2>1, <2>2, <2>5, <2>6
<1> QED
  BY <1>7, <1>8

(* And the reader makes the header of what its units say. *)
LEMMA HeaderInPlace ==
  ASSUME TypeOK, Inv, Aligned, ~cut, NEW h \in Heads, HeaderUnit(h)
  PROVE  /\ misread' = misread
         /\ Framed(inq', want - 1 + h.size, owed')
<1>1. /\ inq # <<>> /\ pc[Reader] = "recv.read" /\ part = "head"
      /\ inq' = Tail(inq) /\ owed' = owed
  BY DEF HeaderUnit
<1>2. h.size \in 0..MaxUnits /\ want \in 1..HeaderUnits /\ header.size \in 0..MaxUnits
  BY <1>1, PortAssumption DEF Heads, TypeOK, Inv, Progress, Reading
<1>3. CASE want = HeaderUnits
  <2>1. Head(inq).kind = "head" /\ Framed(Tail(inq), Behind(Head(inq)), owed)
    BY <1>1, <1>3, ReadsInPlace
  <2>2. h = Head(inq) /\ misread' = (misread \/ FALSE)
    BY <1>3, <2>1 DEF HeaderUnit
  <2>3. Behind(Head(inq)) = want - 1 + h.size
    BY <1>3, <2>2 DEF Behind
  <2>4. misread' = misread
    BY <2>2 DEF TypeOK
  <2> QED
    BY <1>1, <2>1, <2>3, <2>4
<1>4. CASE want # HeaderUnits
  <2>1. Head(inq).kind = "body" /\ Framed(Tail(inq), want + header.size - 1, owed)
    BY <1>1, <1>4, ReadsInPlace
  <2>2. h = header /\ misread' = (misread \/ FALSE)
    BY <1>4, <2>1 DEF HeaderUnit
  <2>3. want + header.size - 1 = want - 1 + h.size
    BY <1>2, <2>2, PortAssumption
  <2>4. misread' = misread
    BY <2>2 DEF TypeOK
  <2> QED
    BY <1>1, <2>1, <2>3, <2>4
<1> QED
  BY <1>3, <1>4

LEMMA AlignedStep ==
  TypeOK /\ Inv /\ Places /\ Aligned /\ [Next]_vars => Aligned'
<1> SUFFICES ASSUME TypeOK, Inv, Places, Aligned, [Next]_vars, ~cut', pc'[Reader] # "gone"
             PROVE  Framed(inq', Due', owed')
  BY DEF Aligned
<1>8. CASE ReadHeaderPart
  <2>1. PICK h \in Heads : HeaderUnit(h) /\ header' = h
    BY <1>8 DEF ReadHeaderPart
  <2>2. part = "head" /\ part' = part /\ want > 1 /\ want' = want - 1 /\ ~cut
    BY <1>8, <2>1 DEF ReadHeaderPart, HeaderUnit
  <2>3. want \in 1..HeaderUnits
    BY <2>2, PortAssumption DEF TypeOK
  <2>4. Due' = want - 1 + h.size
    BY <2>1, <2>2, <2>3, PortAssumption DEF Due
  <2> QED
    BY <2>1, <2>2, <2>4, HeaderInPlace
<1>1. CASE ReadHeader
  <2>1. PICK h \in Heads :
          /\ HeaderUnit(h)
          /\ \/ ReceiveThrows
             \/ part' = "body" /\ want' = h.size
    BY <1>1 DEF ReadHeader
  <2>2. ~ReceiveThrows
    BY PortAssumption DEF ReceiveThrows, LeaveReceive, Goto, TypeOK
  <2>3. want = 1 /\ ~cut /\ h.size \in Nat
    BY <1>1, <2>1, PortAssumption DEF ReadHeader, HeaderUnit, Heads
  <2>4. Due' = want - 1 + h.size
    BY <2>1, <2>2, <2>3 DEF Due
  <2> QED
    BY <2>1, <2>3, <2>4, HeaderInPlace
<1>2. CASE ReadBody
  <2>1. ~cut /\ inq # <<>> /\ pc[Reader] = "recv.read" /\ part = "body"
        /\ inq' = Tail(inq) /\ owed' = owed /\ part' = part /\ want' = want - 1
    BY <1>2 DEF ReadBody
  <2> QED
    BY <2>1, ReadsInPlace DEF Due
<1>3. CASE Receive \/ ReceiveLock \/ ReceiveUnlock \/ ReadWouldBlock \/ PollIn \/ PollInInterrupted
  <2>1. UNCHANGED <<inq, owed, cut>> /\ pc[Reader] # "gone"
    BY <1>3 DEF Receive, ReceiveLock, ReceiveUnlock, ReadWouldBlock, PollIn, PollInInterrupted, in
  <2>2. Due' = Due
    BY <1>3 DEF Receive, ReceiveLock, ReceiveUnlock, ReadWouldBlock, PollIn, PollInInterrupted, in,
                LeaveReceive, Places, Due, Reading, TypeOK
  <2> QED
    BY <2>1, <2>2 DEF Aligned
<1>4. CASE ReadClosed \/ ReadFails
  <2>1. pc'[Reader] = "gone"
    BY <1>4, PortAssumption DEF ReadClosed, ReadFails, ReceiveThrows, LeaveReceive, Goto, TypeOK
  <2> QED
    BY <2>1
<1>5. CASE HostNext
  <2>1. pc' = pc /\ Due' = Due /\ inq \in Queue /\ owed \in 0..MaxDue
    BY <1>5 DEF HostNext, HostRead, HostContinue, HostClose, HostOpen, HostBegin, in, Due, TypeOK, Queue, MaxDue
  <2>2. CASE HostRead \/ HostOpen
    <3>1. UNCHANGED in
      BY <2>2 DEF HostRead, HostOpen
    <3> QED
      BY <2>1, <3>1 DEF Aligned, in
  <2>3. ASSUME NEW h \in Heads, HostBegin(h) PROVE Framed(inq', Due', owed')
    <3>1. inq' = Append(inq, h) /\ owed = 0 /\ owed' = Behind(h) /\ cut' = cut
      BY <2>3 DEF HostBegin, Behind
    <3>2. Framed(inq, Due, owed)
      BY <2>1, <3>1 DEF Aligned
    <3>3. Behind(h) \in 0..MaxDue
      BY UnitKinds
    <3> QED
      BY <2>1, <3>1, <3>2, <3>3, FramedAppend
  <2>4. CASE HostContinue
    <3>1. inq' = Append(inq, Body) /\ owed > 0 /\ owed' = owed - 1 /\ cut' = cut
      BY <2>4 DEF HostContinue
    <3>2. Framed(inq, Due, owed)
      BY <2>1, <3>1 DEF Aligned
    <3>3. owed - 1 \in 0..MaxDue
      BY <2>1, <3>1, PortAssumption DEF MaxDue
    <3> QED
      BY <2>1, <3>1, <3>2, <3>3, FramedAppend
  <2>5. CASE HostClose
    <3>1. inq' = inq /\ owed' = 0 /\ ~cut /\ ~(owed > 0)
      BY <2>5 DEF HostClose
    <3>2. owed' = owed
      BY <2>1, <3>1
    <3> QED
      BY <2>1, <3>1, <3>2 DEF Aligned
  <2> QED
    BY <1>5, <2>2, <2>3, <2>4, <2>5 DEF HostNext
<1>6. CASE Next /\ ~ReceiveNext /\ ~HostNext
  <2>1. PICK t \in Threads : ThreadNext(t)
    BY <1>6 DEF Next
  <2>2. UNCHANGED in
    BY <2>1 DEF ThreadNext, Send, SendLock, SendUnlock, Write, WriteWouldBlock, WriteFails, PollOut,
                PollOutInterrupted, PollOutHup, Catch, Escape
  <2>3. pc[Reader] # "gone"
    BY <1>6, ReaderStands
  <2> QED
    BY <2>2, <2>3 DEF Aligned, Due, in
<1>7. CASE UNCHANGED vars
  BY <1>7 DEF vars, in, Aligned, Due
<1> QED
  BY <1>1, <1>2, <1>3, <1>4, <1>5, <1>6, <1>7, <1>8 DEF Next, ReceiveNext

ReadsRight == misread => cut

LEMMA InboundStep ==
  TypeOK /\ Inv /\ Aligned /\ ReadsRight /\ [Next]_vars => ReadsRight'
<1> SUFFICES ASSUME TypeOK, Inv, Aligned, ReadsRight, [Next]_vars, ~cut' PROVE ~misread'
  BY DEF ReadsRight
<1>1. ~cut
  BY DEF Next, ThreadNext, Send, SendLock, SendUnlock, Write, WriteWouldBlock, WriteFails, PollOut,
         PollOutInterrupted, PollOutHup, Catch, Escape, ReceiveNext, Receive, ReceiveLock,
         ReceiveUnlock, ReadHeaderPart, ReadHeader, HeaderUnit, ReadBody, ReadWouldBlock, ReadClosed, ReadFails, PollIn,
         PollInInterrupted, HostNext, HostRead, HostContinue, HostClose, HostOpen, HostBegin, in, vars
<1>2. ~misread
  BY <1>1 DEF ReadsRight
<1>3. CASE ReadHeaderPart \/ ReadHeader
  <2>1. PICK h \in Heads : HeaderUnit(h)
    BY <1>3 DEF ReadHeaderPart, ReadHeader
  <2> QED
    BY <1>1, <1>2, <2>1, HeaderInPlace
<1>4. CASE ReadBody
  <2>1. inq # <<>> /\ pc[Reader] = "recv.read" /\ part = "body"
    BY <1>4 DEF ReadBody
  <2>2. Head(inq).kind = "body"
    BY <1>1, <2>1, ReadsInPlace
  <2> QED
    BY <1>2, <1>4, <2>2 DEF ReadBody
<1>5. CASE ~ReadHeaderPart /\ ~ReadHeader /\ ~ReadBody
  <2>1. misread' = misread
    BY <1>5 DEF Next, ThreadNext, Send, SendLock, SendUnlock, Write, WriteWouldBlock, WriteFails,
         PollOut, PollOutInterrupted, PollOutHup, Catch, Escape, ReceiveNext, Receive, ReceiveLock,
         ReceiveUnlock, ReadWouldBlock, ReadClosed, ReadFails, PollIn,
         PollInInterrupted, HostNext, HostRead, HostContinue, HostClose, HostOpen, HostBegin, in, vars
  <2> QED
    BY <1>2, <2>1
<1> QED
  BY <1>3, <1>4, <1>5

(* Only a host that breaks off a message strands the reader: otherwise an  *)
(* empty port means that the host owes all that read_all still wants.      *)
LEMMA NotStranded == TypeOK /\ Inv /\ Aligned /\ ~cut => ~Stranded
<1> SUFFICES ASSUME TypeOK, Inv, Aligned, ~cut, Stranded PROVE FALSE
  OBVIOUS
<1>1. pc[Reader] \in Reading /\ inq = <<>> /\ owed = 0 /\ want > 0
  BY DEF Stranded, Inv, Progress
<1>5. Due > 0
  BY <1>1, PortAssumption DEF Stranded, Due, TypeOK, Heads
<1>2. Framed(<<>>, Due, 0)
  BY <1>1 DEF Aligned, Reading
<1>3. PICK e \in [1..(Len(<<>>) + 1) -> 0..MaxDue] : e[1] = Due /\ e[Len(<<>>) + 1] = 0
  BY <1>2 DEF Framed
<1>4. Len(<<>>) + 1 = 1
  OBVIOUS
<1> QED
  BY <1>3, <1>4, <1>5

(* receive() takes headers for headers and payloads for payloads, whatever *)
(* the host sends, and waits for nothing that is not due, as long as       *)
(* the host finishes what it has begun.                                    *)
THEOREM InboundInStep == Spec => []InboundAligned
<1>1. Init => Places /\ Aligned /\ ReadsRight
  <2>1. Init => ReadsRight
    BY DEF Init, ReadsRight
  <2> QED
    BY <2>1, AlignedInit
<1>2. /\ TypeOK /\ Inv /\ Places /\ Aligned /\ ReadsRight /\ [Next]_vars
      => (Places /\ Aligned /\ ReadsRight)'
  BY PlacesStep, AlignedStep, InboundStep
<1>3. TypeOK /\ Inv /\ Aligned /\ ReadsRight => InboundAligned
  BY NotStranded DEF ReadsRight, InboundAligned
<1> QED
  BY <1>1, <1>2, <1>3, TypeCorrect, Invariance, PTL DEF Spec

-----------------------------------------------------------------------------
(* Waiting.  Only Reader receives, and from poll()'s POLLIN to the header  *)
(* that was there nobody takes anything out of the port.                   *)
HeaderWaits ==
  /\ \A t \in Threads : pc[t] \in Reading \cup {"recv.lock", "recv.unlock"} => t = Reader
  /\ pc[Reader] \in Reading \cup {"recv.lock"} /\ part = "head" =>
       want \in 1..(HeaderUnits - 1) \/ inq # <<>>

LEMMA HeaderWaitsStep == TypeOK /\ HeaderWaits /\ Places /\ [Next]_vars => HeaderWaits'
<1> SUFFICES ASSUME TypeOK, HeaderWaits, Places, [Next]_vars PROVE HeaderWaits'
  OBVIOUS
<1> USE PortAssumption DEF TypeOK, HeaderWaits, Places, Reading, Goto
<1>1. CASE \E t \in Threads : ThreadNext(t)
  <2> SUFFICES ASSUME NEW t \in Threads, ThreadNext(t) PROVE HeaderWaits'
    BY <1>1
  <2>1. UNCHANGED <<part, want, inq>>
    BY DEF ThreadNext, Send, SendLock, SendUnlock, Write, WriteWouldBlock, WriteFails,
           PollOut, PollOutInterrupted, PollOutHup, Catch, Escape, in
  <2>2. PICK l \in {"idle", "send.lock", "send.write", "send.poll", "send.unlock", "threw", "gone"} :
          pc' = [pc EXCEPT ![t] = l]
    BY DEF ThreadNext, Send, SendLock, SendUnlock, Write, WriteWouldBlock, WriteFails,
           PollOut, PollOutInterrupted, PollOutHup, Catch, Escape, LeaveSend
  <2> QED
    BY <2>1, <2>2
<1>2. CASE ReceiveNext
  <2>1. PICK l \in PCs : pc' = [pc EXCEPT ![Reader] = l]
    <3>1. CASE ReadHeaderPart \/ ReadHeader
      <4>1. \E l \in {"recv.read", "recv.unlock", "gone"} : Goto(Reader, l)
        BY <3>1, HeaderSteps DEF ReceiveThrows, LeaveReceive
      <4> QED
        BY <4>1 DEF PCs, Holding
    <3> QED
      BY <1>2, <3>1 DEF ReceiveNext, Receive, ReceiveLock, ReceiveUnlock, ReadBody,
           ReadWouldBlock, ReadClosed, ReadFails, PollIn, PollInInterrupted, ReceiveThrows,
           LeaveReceive, PCs, Holding, Writing
  <2>2. \A t \in Threads : pc'[t] \in Reading \cup {"recv.lock", "recv.unlock"} => t = Reader
    BY <2>1
  <2>3. pc'[Reader] \in Reading \cup {"recv.lock"} /\ part' = "head" =>
          want' \in 1..(HeaderUnits - 1) \/ inq' # <<>>
    <3>1. CASE Receive \/ ReceiveLock \/ PollIn
      BY <3>1 DEF Receive, ReceiveLock, PollIn, in
    <3>2. CASE ReceiveUnlock \/ ReadClosed \/ ReadFails
      BY <3>2 DEF ReceiveUnlock, ReadClosed, ReadFails, ReceiveThrows, LeaveReceive
    <3>3. CASE ReadHeaderPart \/ ReadHeader
      BY <3>3, HeaderSteps DEF ReceiveThrows, LeaveReceive
    <3>4. CASE ReadBody
      BY <3>4 DEF ReadBody
    <3>5. CASE ReadWouldBlock \/ PollInInterrupted
      BY <3>5 DEF ReadWouldBlock, PollInInterrupted, in
    <3> QED
      BY <1>2, <3>1, <3>2, <3>3, <3>4, <3>5 DEF ReceiveNext
  <2> QED
    BY <2>2, <2>3
<1>3. CASE HostNext
  <2>1. pc' = pc /\ part' = part /\ want' = want /\ (inq # <<>> => inq' # <<>>)
    <3>1. CASE HostRead \/ HostClose \/ HostOpen
      BY <3>1 DEF HostRead, HostClose, HostOpen, in
    <3>2. CASE HostContinue
      BY <3>2 DEF HostContinue
    <3>3. ASSUME NEW h \in Heads, HostBegin(h) PROVE pc' = pc /\ part' = part /\ want' = want /\ inq' # <<>>
      BY <3>3 DEF HostBegin
    <3> QED
      BY <1>3, <3>1, <3>2, <3>3 DEF HostNext
  <2> QED
    BY <2>1
<1>4. CASE UNCHANGED vars
  BY <1>4 DEF vars, in
<1> QED
  BY <1>1, <1>2, <1>3, <1>4 DEF Next

(* A thread that holds the mutex can go on, or the host can, unless the    *)
(* host has broken off a message: what LockReleased needs besides fairness.*)
THEOREM HolderGoesOn == Spec => []NeverWedged
<1>1. Init => Places /\ HeaderWaits
  <2>1. Init => HeaderWaits
    BY PortAssumption DEF Init, HeaderWaits, Reading
  <2> QED
    BY <2>1, AlignedInit
<1>2. TypeOK /\ Places /\ HeaderWaits /\ [Next]_vars => (Places /\ HeaderWaits)'
  BY PlacesStep, HeaderWaitsStep
<1>3. TypeOK /\ Inv /\ HeaderWaits => NeverWedged
  <2> SUFFICES ASSUME TypeOK, Inv, HeaderWaits, NEW t \in Threads, mutex = t, ~CanGoOn(t)
               PROVE  HostCanGoOn(t) \/ Stranded
    BY DEF NeverWedged
  <2>1. pc[t] \in Holding
    BY DEF Inv, Ownership
  <2>2. CASE pc[t] = "send.poll"
    BY <2>2, PortAssumption DEF CanGoOn, HostCanGoOn, TypeOK
  <2>3. CASE pc[t] = "recv.poll"
    <3>1. t = Reader /\ link = "up" /\ inq = <<>>
      BY <2>3 DEF HeaderWaits, CanGoOn, TypeOK, Reading
    <3>2. (part = "head" => want < HeaderUnits) /\ owed \in Nat
      BY <2>3, <3>1, PortAssumption DEF HeaderWaits, TypeOK, Reading
    <3> QED
      BY <2>3, <3>1, <3>2 DEF HostCanGoOn, Stranded, Reading
  <2> QED
    BY <2>1, <2>2, <2>3 DEF CanGoOn
<1> QED
  BY <1>1, <1>2, <1>3, TypeCorrect, Invariance, PTL DEF Spec
===============================================================================
