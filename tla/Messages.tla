------------------------------- MODULE Messages -------------------------------
(***************************************************************************)
(* What the messages are made of: the commands of the host, from the bytes *)
(* that receive() hands over to what read_command_from_device does, and    *)
(* the agent's messages, whose headers count bytes that are written later. *)
(*                                                                         *)
(* StreamPort says that both arrive whole and in order; it takes for       *)
(* granted, as the host does, that a header counts its message right.      *)
(***************************************************************************)
EXTENDS Integers, Sequences, FiniteSets, Functions

CONSTANTS
  MaxByte,    (* a byte is at most this                                    *)
  SizeT,      (* size_t counts modulo this                                 *)
  Limit,      (* the limit of an inbound message, 4kB                      *)
  CodeSize,       (* sizeof(StreamMsgNotifyError)                              *)
  MaxText,    (* the limit of the text behind it, 1024                     *)
  Sizeof,     (* the size of the structs that start the agent's messages   *)
  MaxAddress, (* max_device_address_len                                    *)
  MaxSide,    (* a cursor this wide or high is too big                     *)
  Lengths,    (* the lengths of frames and of device addresses             *)
  Sides       (* the widths and heights of cursors                         *)

ASSUME MessagesAssumption ==
  /\ MaxByte \in Nat \ {0} /\ SizeT \in Nat /\ MaxByte < SizeT
  /\ Limit \in Nat /\ Limit < SizeT
  /\ CodeSize \in Nat \ {0} /\ MaxText \in Nat /\ MaxAddress \in Nat /\ MaxSide \in Nat
  /\ Sizeof \in Nat
  /\ Lengths \subseteq Nat /\ Sides \subseteq Nat

Byte  == 0..MaxByte
NUL   == 0
Bytes(n) == UNION {[1..k -> Byte] : k \in 0..n}

VARIABLES
  pc,
  header, data,        (* the message that is received: external, and then *)
                       (* the InboundMessage                               *)
  streaming_requested, client_codecs,
  logged,              (* the text of a NotifyError                        *)
  reach,               (* how many bytes of data were looked at            *)
  put,                 (* the highest index of message[] written, or -1    *)
  out,                 (* of a message sent: what its header declares,     *)
                       (* what is written, and device_address_len          *)
  meant,               (* history: the codecs the START_STOP's sender      *)
                       (* meant, or the text of the NotifyError's          *)
  asked,               (* history: the codecs meant by the one obeyed      *)
  junk                 (* history: that one was empty                      *)

inbound == <<header, data, meant>>
command == <<streaming_requested, client_codecs, asked, junk>>
handled == <<logged, reach, put, out>>
vars    == <<pc, inbound, command, handled>>

NoHeader == [version |-> TRUE, type |-> "NONE", size |-> 0]
NoOut    == [declared |-> 0, written |-> 0, address |-> 0]

Init ==
  /\ pc = "idle"
  /\ header = NoHeader /\ data = <<>> /\ meant = <<>>
  /\ streaming_requested = FALSE /\ client_codecs = {}
  /\ logged = <<>> /\ reach = 0 /\ put = -1 /\ out = NoOut
  /\ asked = {} /\ junk = FALSE

-----------------------------------------------------------------------------
(* The host's end.  It writes a START_STOP as a count and as many codecs,  *)
(* and a NotifyError as a code and a text; of either it may announce, and  *)
(* send, less or more than it has.                                         *)
Fit(bytes, n) == [i \in 1..n |-> IF i <= Len(bytes) THEN bytes[i] ELSE 0]

HostSends(type, meaning, bytes) ==
  /\ pc = "idle" /\ pc' = "receive"
  /\ \E n \in 0..Limit + 1, v \in BOOLEAN :
       /\ header' = [version |-> v, type |-> type, size |-> n]
       /\ data' = Fit(bytes, n)
  /\ meant' = meaning
  /\ logged' = <<>> /\ reach' = 0 /\ put' = -1 /\ out' = NoOut
  /\ UNCHANGED command

HostStartStop ==
  \E codecs \in Bytes(MaxByte) :
    HostSends("START_STOP", codecs, <<Len(codecs)>> \o codecs)

HostNotifyError ==
  \E text \in Bytes(Limit + 1 - CodeSize) :
    HostSends("NOTIFY_ERROR", text, [i \in 1..CodeSize |-> 0] \o text)

HostOther == \E type \in {"CAPABILITIES", "UNKNOWN"} : HostSends(type, <<>>, <<>>)

-----------------------------------------------------------------------------
(* An exception, which ends the agent. *)
Raise == pc' = "raised" /\ UNCHANGED <<inbound, command, handled>>

(* The InboundMessage goes out of scope. *)
Done == pc' = "idle" /\ header' = NoHeader /\ data' = <<>> /\ meant' = <<>>

(* Mutant: there is no limit. *)
Receive_NoLimit ==
  /\ pc = "receive"
  /\ IF header.version
     THEN pc' = "decode" /\ UNCHANGED <<inbound, command, handled>>
     ELSE Raise

Receive ==
  /\ pc = "receive"
  /\ IF header.version /\ header.size <= Limit
     THEN pc' = "decode" /\ UNCHANGED <<inbound, command, handled>>
     ELSE Raise

Decode(type) == pc = "decode" /\ header.type = type

(* data[i], which behind the end can be any byte.                          *)
At(i) == IF i < header.size THEN {data[i + 1]} ELSE Byte

(* Unsigned: of an empty message it is the greatest number.                *)
MaxCodecs == (header.size - 1) % SizeT

(* Mutant: streaming starts or stops before the count is checked. *)
MalformedStartStop_Late ==
  /\ Decode("START_STOP")
  /\ \E n \in At(0) : n > MaxCodecs /\ streaming_requested' = (n > 0)
  /\ pc' = "raised"
  /\ UNCHANGED <<inbound, client_codecs, asked, junk, handled>>

MalformedStartStop ==
  /\ Decode("START_STOP")
  /\ \E n \in At(0) : n > MaxCodecs
  /\ Raise

(* get_payload<StartStopMessage>, and what is done with it.                *)
GetStartStop ==
  /\ Decode("START_STOP")
  /\ \E n \in At(0) :
       /\ n <= MaxCodecs
       /\ streaming_requested' = (n > 0)
       /\ \E codecs \in [1..n -> Byte] :
            /\ \A i \in 1..n : codecs[i] \in At(i)
            /\ client_codecs' = Range(codecs)
       /\ reach' = n + 1
  /\ asked' = Range(meant) /\ junk' = (header.size = 0)
  /\ Done
  /\ UNCHANGED <<logged, put, out>>

Strlen(s)  == Cardinality({n \in 1..Len(s) : \A i \in 1..n : s[i] # NUL})
UpToNul(s) == SubSeq(s, 1, Strlen(s))

(* strncpy fills up with NUL. *)
Strncpy(s) == [i \in 1..Len(s) |-> IF i <= Strlen(s) THEN s[i] ELSE NUL]

MsgLen == header.size - CodeSize
Text   == SubSeq(data, CodeSize + 1, header.size)

(* Mutant: the place of the last NUL is forgotten. *)
MessageFits_OffByOne == MsgLen <= MaxText + 1

MessageFits == MsgLen <= MaxText

(* Mutant: nothing terminates a text that has no NUL. *)
Message_Unterminated == {Append(Strncpy(Text), rest) : rest \in Byte}

(* NotifyErrorMessage::message *)
Message == {Append(Strncpy(Text), NUL)}

(* get_payload<NotifyErrorMessage>, whose text is logged up to its NUL.    *)
GetNotifyError ==
  /\ Decode("NOTIFY_ERROR")
  /\ header.size >= CodeSize /\ MessageFits
  /\ reach' = header.size /\ put' = MsgLen
  /\ \E message \in Message : logged' = UpToNul(message)
  /\ Done
  /\ UNCHANGED <<command, out>>

MalformedNotifyError ==
  /\ Decode("NOTIFY_ERROR")
  /\ header.size < CodeSize \/ ~MessageFits
  /\ Raise

UnknownType == Decode("UNKNOWN") /\ Raise

-----------------------------------------------------------------------------
(* The agent's messages. *)

Capabilities == [kind : {"CAPABILITIES"}]
Messages ==
  [kind : {"FORMAT"}] \cup [kind : {"DATA", "DEVICE_DISPLAY_INFO"}, length : Lengths]
    \cup [kind : {"CURSOR_SET"}, width : Sides, height : Sides]

Pixels(m) == 4 * (m.width * m.height)

(* Mutant: an address is counted in full, although it is trimmed. *)
HeaderSize_Full(m) ==
  CASE m.kind = "FORMAT"              -> Sizeof
    [] m.kind = "DATA"                -> m.length
    [] m.kind = "CAPABILITIES"        -> 0
    [] m.kind = "DEVICE_DISPLAY_INFO" -> Sizeof + m.length + 1
    [] m.kind = "CURSOR_SET"          -> Sizeof + Pixels(m)

(* size() of each class; the structs of data and capabilities are empty.   *)
HeaderSize(m) ==
  CASE m.kind = "FORMAT"              -> Sizeof
    [] m.kind = "DATA"                -> m.length
    [] m.kind = "CAPABILITIES"        -> 0
    [] m.kind = "DEVICE_DISPLAY_INFO" -> Sizeof + (IF m.length < MaxAddress THEN m.length ELSE MaxAddress) + 1
    [] m.kind = "CURSOR_SET"          -> Sizeof + Pixels(m)

(* The address is cut at the limit; its NUL is written, too.               *)
DeviceAddressLen(m) == (IF m.length > MaxAddress THEN MaxAddress ELSE m.length) + 1

(* write_message_body: the struct, and what is written behind it.          *)
Written(m) ==
  (IF m.kind \in {"DATA", "CAPABILITIES"} THEN 0 ELSE Sizeof) +
  CASE m.kind \in {"FORMAT", "CAPABILITIES"} -> 0
    [] m.kind = "DATA"                       -> m.length
    [] m.kind = "DEVICE_DISPLAY_INFO"        -> DeviceAddressLen(m)
    [] m.kind = "CURSOR_SET"                 -> Pixels(m)

(* A cursor that is too big raises an exception before anything is written. *)
TooBig(m) == m.kind = "CURSOR_SET" /\ (m.width >= MaxSide \/ m.height >= MaxSide)

Send(m) ==
  /\ ~TooBig(m)
  /\ out' = [declared |-> HeaderSize(m), written |-> Written(m),
             address |-> IF m.kind = "DEVICE_DISPLAY_INFO" THEN DeviceAddressLen(m) ELSE 0]
  /\ logged' = <<>> /\ reach' = 0 /\ put' = -1
  /\ UNCHANGED command

SendMessage ==
  /\ pc = "idle"
  /\ \E m \in Messages : Send(m)
  /\ UNCHANGED <<pc, inbound>>

AnswerCapabilities ==
  /\ Decode("CAPABILITIES")
  /\ \E m \in Capabilities : Send(m)
  /\ Done

-----------------------------------------------------------------------------
Next ==
  \/ HostStartStop \/ HostNotifyError \/ HostOther
  \/ Receive
  \/ GetStartStop \/ MalformedStartStop \/ GetNotifyError \/ MalformedNotifyError
  \/ UnknownType \/ AnswerCapabilities
  \/ SendMessage

Spec == Init /\ [][Next]_vars

-----------------------------------------------------------------------------
(* Every variable has its type, and the array of an InboundMessage is as   *)
(* long as the header says.                                                *)
TypeOK ==
  /\ pc \in {"idle", "receive", "decode", "raised"}
  /\ header.version \in BOOLEAN /\ header.size \in 0..Limit + 1
  /\ data \in Seq(Byte) /\ Len(data) = header.size
  /\ pc = "decode" => header.size <= Limit
  /\ streaming_requested \in BOOLEAN /\ client_codecs \subseteq Byte
  /\ logged \in Seq(Byte) /\ meant \in Seq(Byte)
  /\ reach \in Nat /\ put \in Nat \cup {-1}
  /\ out \in [declared : Nat, written : Nat, address : Nat]
  /\ asked \subseteq Byte /\ junk \in BOOLEAN

(* The agent streams with the codecs the client named, or not at all if it *)
(* named none: a START_STOP that is cut short never changes that for       *)
(* something its sender did not mean.  The exception is one that has not   *)
(* even a count: header.size - 1 wraps, and what the heap holds is obeyed. *)
Obeyed == ~junk => client_codecs = asked /\ streaming_requested = (asked # {})

(* What is read lies in the array that was received, and what is written   *)
(* in message[1025]; again but for an empty START_STOP.                    *)
InsideArrays == [][(reach' <= header.size \/ junk') /\ put' <= MaxText]_vars

(* The text that is logged is the one that was sent, up to its NUL or as   *)
(* far as it came, and nothing of the memory behind it.                    *)
TextKept ==
  [][Decode("NOTIFY_ERROR") /\ pc' = "idle" =>
       logged' = UpToNul(SubSeq(meant, 1, IF MsgLen < Len(meant) THEN MsgLen ELSE Len(meant)))]_vars

(* A header counts as many bytes as are written behind it, the length of   *)
(* an address those of its own: the host finds the next header there.      *)
HeaderCounts ==
  /\ out.declared = out.written
  /\ out.address > 0 => out.declared = Sizeof + out.address
===============================================================================
