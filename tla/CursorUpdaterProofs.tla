------------------------- MODULE CursorUpdaterProofs -------------------------
(***************************************************************************)
(* The host is up to date whenever the cursor thread has nothing to do,    *)
(* for every set of cursors, any number of waiting events and any number   *)
(* of reconnections.                                                       *)
(***************************************************************************)
EXTENDS CursorUpdater, TLAPS

(* What last_serial stands for: outside a send, that cursor was delivered  *)
(* to this connection, or it is missed.                                    *)
Remembered ==
  /\ last_serial = 0 => hostCursor = 0
  /\ last_serial # 0 /\ pc # "send" => hostCursor = last_serial \/ last_serial \in missed

(* With no notification waiting, the thread has dealt with the cursor on   *)
(* the screen, or is just doing so.                                        *)
Current ==
  ~Notified =>
    /\ pc \in {"next", "sleep"} => serial = last_serial \/ serial \in missed
    /\ pc = "send" => serial = last_serial

CursorInv == TypeOK /\ Remembered /\ Current /\ NoRepeat

-----------------------------------------------------------------------------
LEMMA CursorInit == Init => CursorInv
<1> SUFFICES ASSUME Init PROVE CursorInv
  OBVIOUS
<1>1. torn \in BOOLEAN /\ link \in {"up", "down"}
  BY DEF Init
<1>2. events \in Seq({"notify", "other"}) /\ Len(events) <= MaxEvents
  BY CursorAssumption DEF Init
<1>3. opens \in 0..MaxOpens
  BY CursorAssumption DEF Init
<1>4. TypeOK
  BY <1>1, <1>2, <1>3 DEF Init, TypeOK
<1>5. Remembered /\ Current /\ NoRepeat
  BY DEF Init, Remembered, Current, NoRepeat
<1> QED
  BY <1>4, <1>5 DEF CursorInv

(* Reading an event, and a new one. *)
LEMMA TailEvents ==
  ASSUME events \in Seq({"notify", "other"}), events # <<>>, events' = Tail(events)
  PROVE  /\ events' \in Seq({"notify", "other"}) /\ Len(events') <= Len(events)
         /\ Head(events) \in {"notify", "other"}
         /\ Notified => Head(events) = "notify" \/ Notified'
<1>1. /\ events' \in Seq({"notify", "other"}) /\ Len(events') = Len(events) - 1
      /\ Head(events) = events[1] /\ Len(events) \in Nat /\ Len(events) > 0
      /\ \A i \in 1..Len(events') : events'[i] = events[i + 1]
  OBVIOUS
<1>2. Notified => Head(events) = "notify" \/ Notified'
  <2> SUFFICES ASSUME NEW i \in 1..Len(events), events[i] = "notify", i # 1
               PROVE  Notified'
    BY <1>1 DEF Notified
  <2>1. i - 1 \in 1..Len(events') /\ events'[i - 1] = "notify"
    BY <1>1
  <2> QED
    BY <2>1 DEF Notified
<1> QED
  BY <1>1, <1>2

LEMMA AppendEvents ==
  ASSUME events \in Seq({"notify", "other"}), Len(events) < MaxEvents,
         NEW e \in {"notify", "other"}, events' = Append(events, e)
  PROVE  /\ events' \in Seq({"notify", "other"}) /\ Len(events') <= MaxEvents
         /\ Notified \/ e = "notify" => Notified'
<1>1. /\ events' \in Seq({"notify", "other"}) /\ Len(events') = Len(events) + 1
      /\ events'[Len(events) + 1] = e /\ Len(events) \in Nat
      /\ \A i \in 1..Len(events) : events'[i] = events[i]
  OBVIOUS
<1>2. Len(events') <= MaxEvents
  BY <1>1, CursorAssumption
<1>3. e = "notify" => Notified'
  BY <1>1 DEF Notified
<1>4. Notified => Notified'
  BY <1>1 DEF Notified
<1> QED
  BY <1>1, <1>2, <1>3, <1>4

-----------------------------------------------------------------------------
LEMMA ThreadKeeps == CursorInv /\ ThreadNext => CursorInv'
<1> SUFFICES ASSUME CursorInv, ThreadNext PROVE CursorInv'
  OBVIOUS
<1> USE CursorAssumption DEF CursorInv
<1>1. CASE NextEvent
  <2>1. /\ events' \in Seq({"notify", "other"}) /\ Len(events') <= MaxEvents
        /\ Head(events) \in {"notify", "other"}
        /\ Notified => Head(events) = "notify" \/ Notified'
    BY <1>1, TailEvents DEF NextEvent, TypeOK
  <2>2. /\ pc = "next" /\ UNCHANGED <<last_serial, serial, link, torn, opens, hostCursor, missed>>
        /\ \/ Head(events) = "notify" /\ pc' = "image"
           \/ Head(events) # "notify" /\ pc' = "next"
    BY <1>1 DEF NextEvent
  <2>3. TypeOK'
    BY <2>1, <2>2 DEF TypeOK
  <2>4. Remembered' /\ NoRepeat'
    BY <2>2 DEF Remembered, NoRepeat
  <2>5. Current'
    BY <2>1, <2>2 DEF Current
  <2> QED
    BY <2>3, <2>4, <2>5
<1>2. CASE NoImage \/ SameImage
  <2>1. /\ pc = "image" /\ pc' = "next"
        /\ UNCHANGED <<last_serial, serial, events, link, torn, opens, hostCursor>>
        /\ missed' \in {missed, missed \cup {serial}}
        /\ serial = last_serial \/ serial \in missed'
    BY <1>2 DEF NoImage, SameImage
  <2>2. TypeOK'
    BY <2>1 DEF TypeOK
  <2>3. Remembered' /\ Current' /\ NoRepeat'
    BY <2>1 DEF Remembered, Current, NoRepeat
  <2> QED
    BY <2>2, <2>3
<1>3. CASE NewImage
  <2>1. /\ pc = "image" /\ serial # last_serial /\ last_serial' = serial
        /\ UNCHANGED <<serial, events, link, torn, opens, hostCursor>>
        /\ \/ serial \in TooBig /\ pc' = "sleep" /\ missed' = missed \cup {serial}
           \/ serial \notin TooBig /\ pc' = "send" /\ missed' = missed
    BY <1>3 DEF NewImage, Refused
  <2>2. serial \in Cursors /\ serial # 0
    BY DEF TypeOK
  <2>3. TypeOK'
    BY <2>1, <2>2 DEF TypeOK
  <2>4. Remembered' /\ Current'
    BY <2>1, <2>2 DEF Remembered, Current
  <2>5. hostCursor = serial => missed # {}
    BY <2>1, <2>2 DEF Remembered
  <2>6. NoRepeat'
    BY <2>1, <2>5 DEF NoRepeat
  <2> QED
    BY <2>3, <2>4, <2>6
<1>4. CASE SendDelivers
  <2>1. TypeOK'
    BY <1>4 DEF SendDelivers, TypeOK
  <2>2. Remembered' /\ NoRepeat'
    BY <1>4 DEF SendDelivers, Remembered, NoRepeat
  <2>3. Notified' <=> Notified
    BY <1>4 DEF SendDelivers, Notified
  <2>4. Current'
    BY <1>4, <2>3 DEF SendDelivers, Current
  <2> QED
    BY <2>1, <2>2, <2>4
<1>5. CASE SendVanishes \/ SendRaises
  <2>1. /\ pc = "send" /\ pc' \in {"next", "sleep"} /\ missed' = missed \cup {last_serial}
        /\ UNCHANGED <<last_serial, serial, events, link, opens, hostCursor>>
        /\ torn' \in {torn, TRUE}
    BY <1>5 DEF SendVanishes, SendRaises
  <2>2. last_serial \in Cursors /\ last_serial # 0
    BY <2>1 DEF TypeOK
  <2>3. TypeOK'
    BY <2>1, <2>2 DEF TypeOK
  <2>4. Notified' <=> Notified
    BY <2>1 DEF Notified
  <2>5. Remembered' /\ Current' /\ NoRepeat'
    BY <2>1, <2>2, <2>4 DEF Remembered, Current, NoRepeat
  <2> QED
    BY <2>3, <2>5
<1>6. CASE Sleep
  <2>1. TypeOK'
    BY <1>6 DEF Sleep, TypeOK
  <2>2. Notified' <=> Notified
    BY <1>6 DEF Sleep, Notified
  <2>3. Remembered' /\ Current' /\ NoRepeat'
    BY <1>6, <2>2 DEF Sleep, Remembered, Current, NoRepeat
  <2> QED
    BY <2>1, <2>3
<1> QED
  BY <1>1, <1>2, <1>3, <1>4, <1>5, <1>6 DEF ThreadNext

LEMMA EnvironmentKeeps == CursorInv /\ Environment => CursorInv'
<1> SUFFICES ASSUME CursorInv, Environment PROVE CursorInv'
  OBVIOUS
<1> USE CursorAssumption DEF CursorInv
<1>1. CASE \E c \in Cursors : ShowCursor(c)
  <2>1. PICK c \in Cursors : ShowCursor(c)
    BY <1>1
  <2>2. events' \in Seq({"notify", "other"}) /\ Len(events') <= MaxEvents /\ Notified'
    BY <2>1, AppendEvents DEF ShowCursor, TypeOK
  <2>3. serial' = c /\ UNCHANGED <<pc, last_serial, link, torn, opens, hostCursor, missed>>
    BY <2>1 DEF ShowCursor
  <2>4. TypeOK'
    BY <2>2, <2>3 DEF TypeOK
  <2>5. Remembered' /\ Current' /\ NoRepeat'
    BY <2>2, <2>3 DEF Remembered, Current, NoRepeat
  <2> QED
    BY <2>4, <2>5
<1>2. CASE \E e \in {"notify", "other"} : OtherEvent(e)
  <2>1. PICK e \in {"notify", "other"} : OtherEvent(e)
    BY <1>2
  <2>2. /\ events' \in Seq({"notify", "other"}) /\ Len(events') <= MaxEvents
        /\ Notified => Notified'
    BY <2>1, AppendEvents DEF OtherEvent, TypeOK
  <2>3. UNCHANGED <<pc, last_serial, serial, link, torn, opens, hostCursor, missed>>
    BY <2>1 DEF OtherEvent
  <2>4. TypeOK'
    BY <2>2, <2>3 DEF TypeOK
  <2>5. Remembered' /\ Current' /\ NoRepeat'
    BY <2>2, <2>3 DEF Remembered, Current, NoRepeat
  <2> QED
    BY <2>4, <2>5
<1>3. CASE HostClose \/ HostOpen \/ AgentTears
  <2>1. /\ UNCHANGED <<pc, last_serial, serial, events>>
        /\ \/ hostCursor' = 0 /\ missed' = missed \cup {last_serial}
           \/ hostCursor' = hostCursor /\ missed' = missed
    BY <1>3 DEF HostClose, HostOpen, AgentTears
  <2>2. link' \in {"up", "down"} /\ opens' \in 0..MaxOpens
    BY <1>3 DEF HostClose, HostOpen, AgentTears, TypeOK
  <2>3. torn' \in BOOLEAN
    BY <1>3 DEF HostClose, HostOpen, AgentTears
  <2>4. TypeOK'
    BY <2>1, <2>2, <2>3 DEF TypeOK
  <2>5. Notified' <=> Notified
    BY <2>1 DEF Notified
  <2>6. Remembered' /\ Current' /\ NoRepeat'
    BY <2>1, <2>5 DEF Remembered, Current, NoRepeat
  <2> QED
    BY <2>4, <2>6
<1> QED
  BY <1>1, <1>2, <1>3 DEF Environment

LEMMA CursorInvariant == Spec => []CursorInv
<1>1. CursorInv /\ UNCHANGED vars => CursorInv'
  BY DEF vars, CursorInv, TypeOK, Remembered, Current, NoRepeat, Notified
<1>2. CursorInv /\ [Next]_vars => CursorInv'
  BY <1>1, ThreadKeeps, EnvironmentKeeps DEF Next
<1> QED
  BY <1>2, CursorInit, PTL DEF Spec

-----------------------------------------------------------------------------
(* Types, and no cursor beyond the host's limit is on its way.             *)
THEOREM CursorTypes == Spec => []TypeOK
<1>1. CursorInv => TypeOK
  BY DEF CursorInv
<1> QED
  BY <1>1, CursorInvariant, PTL

(* A thread with no notification left has brought the host the cursor on   *)
(* the screen, unless that very one could not be delivered.                *)
THEOREM HostUpToDate == Spec => []UpToDate
<1>1. CursorInv => UpToDate
  BY CursorAssumption DEF CursorInv, TypeOK, Remembered, Current, UpToDate
<1> QED
  BY <1>1, CursorInvariant, PTL

(* The host is not sent again the cursor it has, unless another one could  *)
(* not be delivered in between.                                            *)
THEOREM NothingRepeated == Spec => []NoRepeat
<1>1. CursorInv => NoRepeat
  BY DEF CursorInv
<1> QED
  BY <1>1, CursorInvariant, PTL
==============================================================================
