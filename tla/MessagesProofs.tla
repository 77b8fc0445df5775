---------------------------- MODULE MessagesProofs ----------------------------
(***************************************************************************)
(* What is read from a message and declared of one, for every size of      *)
(* bytes, messages, structs and limits.                                    *)
(***************************************************************************)
EXTENDS Messages, SequenceTheorems, FiniteSetTheorems, TLAPS

(* A message that is under way holds what its sender meant, or as much of  *)
(* it as the header says.                                                  *)
Meaning ==
  pc \in {"receive", "decode"} =>
    /\ header.type = "START_STOP"   => data = Fit(<<Len(meant)>> \o meant, header.size)
    /\ header.type = "NOTIFY_ERROR" => data = Fit([i \in 1..CodeSize |-> 0] \o meant, header.size)

(* Nothing of a message is looked at before it is decoded.                 *)
Untouched == pc \in {"receive", "decode"} => reach = 0 /\ put = -1

-----------------------------------------------------------------------------
(* Lemmas about the operators. *)

LEMMA StrlenBounds ==
  ASSUME NEW s \in Seq(Byte)
  PROVE  Strlen(s) \in 0..Len(s)
<1> DEFINE S == {n \in 1..Len(s) : \A i \in 1..n : s[i] # NUL}
<1>1. Len(s) \in Nat
  BY LenProperties
<1>2. IsFiniteSet(1..Len(s)) /\ Cardinality(1..Len(s)) = Len(s)
  BY <1>1, FS_Interval
<1>3. S \in SUBSET (1..Len(s))
  OBVIOUS
<1> HIDE DEF S
<1>4. IsFiniteSet(S) /\ Cardinality(S) <= Len(s)
  BY <1>2, <1>3, FS_Subset
<1>5. Cardinality(S) \in Nat
  BY <1>4, FS_CardinalityType
<1> QED
  BY <1>1, <1>4, <1>5 DEF Strlen, S

LEMMA UpToNulType ==
  ASSUME NEW s \in Seq(Byte)
  PROVE  UpToNul(s) \in Seq(Byte)
<1>1. Strlen(s) \in Int /\ Strlen(s) <= Len(s) /\ Len(s) \in Nat
  BY StrlenBounds, LenProperties
<1>2. \A i \in 1..Strlen(s) : s[i] \in Byte
  BY <1>1, ElementOfSeq
<1> QED
  BY <1>1, <1>2, SubSeqProperties DEF UpToNul

LEMMA ZeroIsByte == 0 \in Byte /\ Byte \subseteq Nat
  BY MessagesAssumption DEF Byte

LEMMA StrncpyType ==
  ASSUME NEW s \in Seq(Byte)
  PROVE  Strncpy(s) \in Seq(Byte)
<1>1. Len(s) \in Nat /\ \A i \in 1..Len(s) : s[i] \in Byte
  BY LenProperties, ElementOfSeq
<1>2. Strncpy(s) \in [1..Len(s) -> Byte]
  BY <1>1, ZeroIsByte DEF Strncpy, NUL
<1> QED
  BY <1>1, <1>2, SeqDef

LEMMA FitType ==
  ASSUME NEW s \in Seq(Byte), NEW n \in Nat
  PROVE  Fit(s, n) \in Seq(Byte) /\ Len(Fit(s, n)) = n
<1>1. Len(s) \in Nat /\ \A i \in 1..Len(s) : s[i] \in Byte
  BY LenProperties, ElementOfSeq
<1>2. Fit(s, n) \in [1..n -> Byte]
  BY <1>1, ZeroIsByte DEF Fit
<1> QED
  BY <1>2, SeqDef

LEMMA BytesType ==
  ASSUME NEW n, NEW s \in Bytes(n)
  PROVE  s \in Seq(Byte)
  BY SeqDef DEF Bytes

LEMMA SmallMod ==
  ASSUME NEW a \in Nat, NEW b \in Nat, a < b
  PROVE  a % b = a
  BY Z3

-----------------------------------------------------------------------------
(* Types. *)

LEMMA HostSendsType ==
  ASSUME TypeOK, NEW type, NEW meaning \in Seq(Byte), NEW bytes \in Seq(Byte),
         HostSends(type, meaning, bytes)
  PROVE  TypeOK'
<1>1. PICK n \in 0..Limit + 1, v \in BOOLEAN :
           /\ header' = [version |-> v, type |-> type, size |-> n]
           /\ data' = Fit(bytes, n)
  BY DEF HostSends
<1>2. n \in Nat /\ Limit + 1 \in Nat
  BY MessagesAssumption
<1>3. data' \in Seq(Byte) /\ Len(data') = n
  BY <1>1, <1>2, FitType
<1>4. header'.version \in BOOLEAN
  BY <1>1
<1>5. header'.size = n
  BY <1>1
<1>6. /\ pc' = "receive" /\ meant' = meaning /\ logged' = <<>> /\ reach' = 0 /\ put' = -1
      /\ out' = NoOut /\ UNCHANGED command
  BY DEF HostSends
<1>7. <<>> \in Seq(Byte) /\ NoOut \in [declared : Nat, written : Nat, address : Nat]
  BY EmptySeq DEF NoOut
<1> QED
  BY <1>2, <1>3, <1>4, <1>5, <1>6, <1>7 DEF TypeOK, command

(* What the host has to send is made of bytes. *)
LEMMA HostBytes ==
  /\ \A codecs \in Bytes(MaxByte) :
       codecs \in Seq(Byte) /\ Len(codecs) \in Byte /\ <<Len(codecs)>> \o codecs \in Seq(Byte)
  /\ \A text \in Bytes(Limit + 1 - CodeSize) :
       text \in Seq(Byte) /\ [i \in 1..CodeSize |-> 0] \o text \in Seq(Byte)
  /\ <<>> \in Seq(Byte)
<1>1. ASSUME NEW codecs \in Bytes(MaxByte)
      PROVE  codecs \in Seq(Byte) /\ Len(codecs) \in Byte /\ <<Len(codecs)>> \o codecs \in Seq(Byte)
  <2>1. PICK k \in 0..MaxByte : codecs \in [1..k -> Byte]
    BY DEF Bytes
  <2>2. k \in Nat /\ k \in Byte
    BY <2>1, MessagesAssumption DEF Byte
  <2>3. codecs \in Seq(Byte) /\ Len(codecs) = k
    BY <2>1, <2>2, SeqDef
  <2>4. <<k>> \in Seq(Byte)
    BY <2>2
  <2> QED
    BY <2>2, <2>3, <2>4, ConcatProperties
<1>2. ASSUME NEW text \in Bytes(Limit + 1 - CodeSize)
      PROVE  text \in Seq(Byte) /\ [i \in 1..CodeSize |-> 0] \o text \in Seq(Byte)
  <2>1. [i \in 1..CodeSize |-> 0] \in Seq(Byte)
    BY MessagesAssumption, ZeroIsByte, SeqDef
  <2>2. text \in Seq(Byte)
    BY BytesType
  <2> QED
    BY <2>1, <2>2, ConcatProperties
<1> QED
  BY <1>1, <1>2, EmptySeq

LEMMA HeaderBounds == TypeOK => header.size \in Nat /\ Len(data) \in Nat
  BY MessagesAssumption DEF TypeOK

LEMMA AtIsByte ==
  ASSUME TypeOK, NEW i \in Nat
  PROVE  At(i) \subseteq Byte
<1>1. i < header.size => data[i + 1] \in Byte
  BY HeaderBounds, ElementOfSeq DEF TypeOK
<1> QED
  BY <1>1 DEF At

LEMMA NoHeaderType ==
  /\ NoHeader.version \in BOOLEAN /\ NoHeader.size = 0 /\ 0 \in 0..Limit + 1
  /\ <<>> \in Seq(Byte) /\ Len(<<>>) = 0
<1>1. NoHeader.version \in BOOLEAN
  BY DEF NoHeader
<1>2. NoHeader.size = 0 /\ 0 \in 0..Limit + 1
  BY MessagesAssumption DEF NoHeader
<1> QED
  BY <1>1, <1>2, EmptySeq

LEMMA DoneType ==
  ASSUME Done
  PROVE  /\ pc' = "idle" /\ header'.version \in BOOLEAN /\ header'.size \in 0..Limit + 1
         /\ data' \in Seq(Byte) /\ Len(data') = header'.size /\ meant' \in Seq(Byte)
<1>1. header' = NoHeader /\ data' = <<>> /\ meant' = <<>> /\ pc' = "idle"
  BY DEF Done
<1> HIDE DEF NoHeader
<1> QED
  BY <1>1, NoHeaderType

LEMMA SizesAreNat ==
  ASSUME NEW m \in Messages \cup Capabilities
  PROVE  /\ HeaderSize(m) \in Nat
         /\ Written(m) = HeaderSize(m)
         /\ m.kind = "DEVICE_DISPLAY_INFO" =>
               DeviceAddressLen(m) \in Nat /\ HeaderSize(m) = Sizeof + DeviceAddressLen(m)
<1>1. CASE m.kind = "FORMAT" \/ m.kind = "CAPABILITIES"
  BY <1>1, MessagesAssumption DEF HeaderSize, Written
<1>2. CASE m \in [kind : {"DATA", "DEVICE_DISPLAY_INFO"}, length : Lengths]
  BY <1>2, MessagesAssumption DEF HeaderSize, Written, DeviceAddressLen
<1>3. CASE m \in [kind : {"CURSOR_SET"}, width : Sides, height : Sides]
  <2>0. m.width \in Nat /\ m.height \in Nat /\ m.kind = "CURSOR_SET"
    BY <1>3, MessagesAssumption
  <2>1. \A a, b \in Nat : a * b \in Nat
    OBVIOUS
  <2>2. Pixels(m) \in Nat
    BY <2>0, <2>1 DEF Pixels
  <2> QED
    BY <2>0, <2>2, MessagesAssumption DEF HeaderSize, Written
<1> QED
  BY <1>1, <1>2, <1>3 DEF Messages, Capabilities

(* What a message declares is what is written of it. *)
LEMMA SendDeclares ==
  ASSUME NEW m \in Messages \cup Capabilities, Send(m)
  PROVE  /\ out' \in [declared : Nat, written : Nat, address : Nat]
         /\ HeaderCounts'
<1>1. /\ out'.declared = HeaderSize(m) /\ out'.written = Written(m)
      /\ out'.address = IF m.kind = "DEVICE_DISPLAY_INFO" THEN DeviceAddressLen(m) ELSE 0
      /\ out' = [declared |-> out'.declared, written |-> out'.written, address |-> out'.address]
  BY DEF Send
<1>2. /\ HeaderSize(m) \in Nat /\ Written(m) = HeaderSize(m)
      /\ m.kind = "DEVICE_DISPLAY_INFO" =>
            DeviceAddressLen(m) \in Nat /\ HeaderSize(m) = Sizeof + DeviceAddressLen(m)
  BY SizesAreNat
<1>3. out'.declared \in Nat /\ out'.written \in Nat /\ out'.address \in Nat
  BY <1>1, <1>2
<1> QED
  BY <1>1, <1>2, <1>3 DEF HeaderCounts

LEMMA TypesStep == TypeOK /\ [Next]_vars => TypeOK'
<1> SUFFICES ASSUME TypeOK, [Next]_vars PROVE TypeOK'
  OBVIOUS
<1>1. CASE HostStartStop
  <2>1. PICK codecs \in Bytes(MaxByte) : HostSends("START_STOP", codecs, <<Len(codecs)>> \o codecs)
    BY <1>1 DEF HostStartStop
  <2> QED
    BY <2>1, HostBytes, HostSendsType
<1>2. CASE HostNotifyError
  <2>1. PICK text \in Bytes(Limit + 1 - CodeSize) :
             HostSends("NOTIFY_ERROR", text, [i \in 1..CodeSize |-> 0] \o text)
    BY <1>2 DEF HostNotifyError
  <2> QED
    BY <2>1, HostBytes, HostSendsType
<1>3. CASE HostOther
  BY <1>3, HostBytes, HostSendsType DEF HostOther
<1>4. CASE Receive \/ MalformedStartStop \/ MalformedNotifyError \/ UnknownType
  <2>1. UNCHANGED <<inbound, command, handled>>
    BY <1>4 DEF Receive, MalformedStartStop, MalformedNotifyError, UnknownType, Raise
  <2>2. pc' = "raised" \/ (pc' = "decode" /\ header.size <= Limit)
    BY <1>4 DEF Receive, MalformedStartStop, MalformedNotifyError, UnknownType, Raise
  <2> QED
    BY <2>1, <2>2 DEF TypeOK, inbound, command, handled
<1>5. CASE GetStartStop
  <2>1. PICK n \in At(0) :
          /\ streaming_requested' = (n > 0)
          /\ \E codecs \in [1..n -> Byte] : client_codecs' = Range(codecs)
          /\ reach' = n + 1
    BY <1>5 DEF GetStartStop
  <2>2. n \in Nat
    BY <2>1, AtIsByte, ZeroIsByte
  <2>3. client_codecs' \subseteq Byte /\ streaming_requested' \in BOOLEAN /\ reach' \in Nat
    BY <2>1, <2>2 DEF Range
  <2>4. /\ asked' = Range(meant) /\ junk' = (header.size = 0)
        /\ Done /\ UNCHANGED <<logged, put, out>>
    BY <1>5 DEF GetStartStop
  <2>5. asked' \subseteq Byte
    BY <2>4, LenProperties, ElementOfSeq DEF Range, TypeOK
  <2>6. junk' \in BOOLEAN
    BY <2>4
  <2> QED
    BY <2>3, <2>4, <2>5, <2>6, DoneType DEF TypeOK
<1>6. CASE GetNotifyError
  <2>1. /\ header.size >= CodeSize /\ reach' = header.size /\ put' = MsgLen
        /\ Done /\ UNCHANGED <<streaming_requested, client_codecs, asked, junk, out>>
    BY <1>6 DEF GetNotifyError, command
  <2>2. MsgLen \in Nat /\ header.size \in Nat
    BY <2>1, MessagesAssumption, HeaderBounds DEF MsgLen
  <2>3. Text \in Seq(Byte)
    <3>1. CodeSize + 1 \in Int /\ \A i \in CodeSize + 1..header.size : data[i] \in Byte
      BY MessagesAssumption, HeaderBounds, ElementOfSeq DEF TypeOK
    <3> QED
      BY <2>2, <3>1, SubSeqProperties DEF Text
  <2>4. Append(Strncpy(Text), NUL) \in Seq(Byte)
    BY <2>3, StrncpyType, ZeroIsByte, AppendProperties DEF NUL
  <2>5. logged' \in Seq(Byte)
    BY <1>6, <2>4, UpToNulType DEF GetNotifyError, Message
  <2> QED
    BY <2>1, <2>2, <2>5, DoneType DEF TypeOK
<1>7. CASE SendMessage \/ AnswerCapabilities
  <2>1. PICK m \in Messages \cup Capabilities : Send(m)
    BY <1>7 DEF SendMessage, AnswerCapabilities
  <2>2. out' \in [declared : Nat, written : Nat, address : Nat]
    BY <2>1, SendDeclares
  <2>3. logged' = <<>> /\ reach' = 0 /\ put' = -1 /\ UNCHANGED command
    BY <2>1 DEF Send
  <2>4. (pc' = pc /\ UNCHANGED inbound) \/ Done
    BY <1>7 DEF SendMessage, AnswerCapabilities
  <2>5. <<>> \in Seq(Byte) /\ Len(<<>>) = 0
    BY EmptySeq
  <2>6. CASE pc' = pc /\ UNCHANGED inbound
    BY <2>2, <2>3, <2>5, <2>6 DEF TypeOK, inbound, command
  <2>7. CASE Done
    BY <2>2, <2>3, <2>5, <2>7, DoneType DEF TypeOK, command
  <2> QED
    BY <2>4, <2>6, <2>7
<1>8. CASE UNCHANGED vars
  BY <1>8 DEF TypeOK, vars, inbound, command, handled
<1> QED
  BY <1>1, <1>2, <1>3, <1>4, <1>5, <1>6, <1>7, <1>8 DEF Next

LEMMA TypesInit == Init => TypeOK
<1> SUFFICES ASSUME Init PROVE TypeOK
  OBVIOUS
<1>1. header = NoHeader /\ data = <<>> /\ meant = <<>> /\ logged = <<>>
  BY DEF Init
<1>2. /\ header.version \in BOOLEAN /\ header.size \in 0..Limit + 1
      /\ data \in Seq(Byte) /\ Len(data) = header.size /\ meant \in Seq(Byte) /\ logged \in Seq(Byte)
  BY <1>1, NoHeaderType
<1>3. streaming_requested \in BOOLEAN /\ junk \in BOOLEAN
  BY DEF Init
<1>4. /\ pc = "idle" /\ client_codecs \subseteq Byte /\ asked \subseteq Byte /\ reach = 0 /\ put = -1
      /\ out \in [declared : Nat, written : Nat, address : Nat]
  BY DEF Init, NoOut
<1> QED
  BY <1>2, <1>3, <1>4 DEF TypeOK

(* Every variable keeps its type, and no message beyond the limit is       *)
(* decoded, whatever the host sends.                                       *)
THEOREM MessageTypes == Spec => []TypeOK
  BY TypesInit, TypesStep, PTL DEF Spec

-----------------------------------------------------------------------------
(* The headers of the agent's messages are right, for every length of a    *)
(* frame or an address and every cursor.                                   *)
THEOREM HeadersCount == Spec => []HeaderCounts
<1>1. Init => HeaderCounts
  BY DEF Init, HeaderCounts, NoOut
<1>2. HeaderCounts /\ [Next]_vars => HeaderCounts'
  <2> SUFFICES ASSUME HeaderCounts, [Next]_vars PROVE HeaderCounts'
    OBVIOUS
  <2>1. CASE SendMessage \/ AnswerCapabilities
    <3>1. PICK m \in Messages \cup Capabilities : Send(m)
      BY <2>1 DEF SendMessage, AnswerCapabilities
    <3> QED
      BY <3>1, SendDeclares
  <2>2. CASE HostStartStop \/ HostNotifyError \/ HostOther
    <3>1. out' = NoOut
      BY <2>2 DEF HostStartStop, HostNotifyError, HostOther, HostSends
    <3> QED
      BY <3>1 DEF HeaderCounts, NoOut
  <2>3. CASE Receive \/ MalformedStartStop \/ MalformedNotifyError \/ UnknownType
    BY <2>3 DEF Receive, MalformedStartStop, MalformedNotifyError, UnknownType, Raise, handled,
                HeaderCounts
  <2>4. CASE GetStartStop \/ GetNotifyError \/ UNCHANGED vars
    BY <2>4 DEF GetStartStop, GetNotifyError, vars, handled, HeaderCounts
  <2> QED
    BY <2>1, <2>2, <2>3, <2>4 DEF Next
<1> QED
  BY <1>1, <1>2, PTL DEF Spec

-----------------------------------------------------------------------------
(* What a message on its way holds. *)

LEMMA NotUnderWay ==
  ASSUME pc' \notin {"receive", "decode"}
  PROVE  Meaning' /\ Untouched'
  BY DEF Meaning, Untouched

LEMMA MeaningStep == TypeOK /\ Meaning /\ Untouched /\ [Next]_vars => (Meaning /\ Untouched)'
<1> SUFFICES ASSUME TypeOK, Meaning, Untouched, [Next]_vars PROVE (Meaning /\ Untouched)'
  OBVIOUS
<1>1. CASE HostStartStop
  <2>1. PICK codecs \in Bytes(MaxByte) : HostSends("START_STOP", codecs, <<Len(codecs)>> \o codecs)
    BY <1>1 DEF HostStartStop
  <2>2. /\ header'.type = "START_STOP" /\ meant' = codecs
        /\ data' = Fit(<<Len(codecs)>> \o codecs, header'.size)
        /\ reach' = 0 /\ put' = -1
    BY <2>1 DEF HostSends
  <2> QED
    BY <2>2 DEF Meaning, Untouched
<1>2. CASE HostNotifyError
  <2>1. PICK text \in Bytes(Limit + 1 - CodeSize) :
             HostSends("NOTIFY_ERROR", text, [i \in 1..CodeSize |-> 0] \o text)
    BY <1>2 DEF HostNotifyError
  <2>2. /\ header'.type = "NOTIFY_ERROR" /\ meant' = text
        /\ data' = Fit([i \in 1..CodeSize |-> 0] \o text, header'.size)
        /\ reach' = 0 /\ put' = -1
    BY <2>1 DEF HostSends
  <2> QED
    BY <2>2 DEF Meaning, Untouched
<1>3. CASE HostOther
  <2>1. header'.type \in {"CAPABILITIES", "UNKNOWN"} /\ reach' = 0 /\ put' = -1
    BY <1>3 DEF HostOther, HostSends
  <2> QED
    BY <2>1 DEF Meaning, Untouched
<1>4. CASE Receive
  <2>1. pc = "receive" /\ UNCHANGED <<inbound, handled>>
    BY <1>4 DEF Receive, Raise
  <2> QED
    BY <2>1 DEF Meaning, Untouched, inbound, handled
<1>5. CASE MalformedStartStop \/ MalformedNotifyError \/ UnknownType
           \/ GetStartStop \/ GetNotifyError \/ AnswerCapabilities
  <2>1. pc' \in {"raised", "idle"}
    BY <1>5 DEF MalformedStartStop, MalformedNotifyError, UnknownType, GetStartStop, GetNotifyError,
                AnswerCapabilities, Raise, Done
  <2> QED
    BY <2>1, NotUnderWay
<1>6. CASE SendMessage
  BY <1>6, NotUnderWay DEF SendMessage
<1>7. CASE UNCHANGED vars
  BY <1>7 DEF Meaning, Untouched, vars, inbound, handled
<1> QED
  BY <1>1, <1>2, <1>3, <1>4, <1>5, <1>6, <1>7 DEF Next

-----------------------------------------------------------------------------
(* START_STOP. *)

LEMMA CodecsCounted == TypeOK /\ header.size \in 1..Limit => MaxCodecs = header.size - 1
<1> SUFFICES ASSUME TypeOK, header.size \in 1..Limit PROVE MaxCodecs = header.size - 1
  OBVIOUS
<1>1. header.size - 1 \in Nat /\ SizeT \in Nat /\ header.size - 1 < SizeT
  BY MessagesAssumption
<1> QED
  BY <1>1, SmallMod DEF MaxCodecs

(* One that is not empty is obeyed as it was meant. *)
LEMMA ObeyedAsMeant ==
  ASSUME TypeOK, Meaning, GetStartStop, header.size # 0
  PROVE  client_codecs' = Range(meant) /\ streaming_requested' = (Range(meant) # {})
<1>1. pc = "decode" /\ header.type = "START_STOP"
  BY DEF GetStartStop, Decode
<1>2. header.size \in 1..Limit
  BY <1>1, MessagesAssumption DEF TypeOK
<1>3. meant \in Seq(Byte) /\ Len(meant) \in Nat /\ DOMAIN meant = 1..Len(meant)
  BY LenProperties DEF TypeOK
<1>4. data = Fit(<<Len(meant)>> \o meant, header.size)
  BY <1>1 DEF Meaning
<1> DEFINE sent == <<Len(meant)>> \o meant
<1>5. /\ Len(sent) = 1 + Len(meant) /\ sent[1] = Len(meant)
      /\ \A i \in 1..Len(meant) : sent[i + 1] = meant[i]
  BY <1>3
<1> HIDE DEF sent
<1>6. \A i \in 1..header.size : i <= Len(sent) => data[i] = sent[i]
  BY <1>4, <1>5 DEF Fit, sent
<1>7. At(0) = {Len(meant)}
  <2>1. 1 \in 1..header.size /\ 1 <= Len(sent)
    BY <1>2, <1>3, <1>5, MessagesAssumption
  <2>2. data[1] = Len(meant)
    BY <1>5, <1>6, <2>1
  <2>3. 0 < header.size /\ 0 + 1 = 1
    BY <1>2, MessagesAssumption
  <2> QED
    BY <2>2, <2>3 DEF At
<1>8. PICK codecs \in [1..Len(meant) -> Byte] :
        /\ Len(meant) <= MaxCodecs
        /\ streaming_requested' = (Len(meant) > 0)
        /\ \A i \in 1..Len(meant) : codecs[i] \in At(i)
        /\ client_codecs' = Range(codecs)
  BY <1>7 DEF GetStartStop
<1>9. ASSUME NEW i \in 1..Len(meant) PROVE codecs[i] = meant[i]
  <2>1. Len(meant) <= header.size - 1 /\ header.size \in Nat
    BY <1>2, <1>8, CodecsCounted, MessagesAssumption
  <2>2. i \in Nat /\ i < header.size /\ i + 1 \in 1..header.size /\ i + 1 <= Len(sent)
    BY <1>3, <1>5, <2>1
  <2>3. data[i + 1] = meant[i]
    BY <1>5, <1>6, <2>2
  <2> QED
    BY <1>8, <2>2, <2>3 DEF At
<1>10. Range(codecs) = Range(meant)
  BY <1>3, <1>9 DEF Range
<1>11. Len(meant) > 0 <=> Range(meant) # {}
  BY <1>3 DEF Range
<1>12. client_codecs' = Range(meant)
  BY <1>8, <1>10
<1>13. streaming_requested' = (Range(meant) # {})
  BY <1>8, <1>11
<1> QED
  BY <1>12, <1>13

LEMMA ObeyedStep == TypeOK /\ Meaning /\ Obeyed /\ [Next]_vars => Obeyed'
<1> SUFFICES ASSUME TypeOK, Meaning, Obeyed, [Next]_vars PROVE Obeyed'
  OBVIOUS
<1>1. CASE GetStartStop
  <2>1. asked' = Range(meant) /\ (junk' <=> header.size = 0)
    BY <1>1 DEF GetStartStop
  <2>2. header.size # 0 => client_codecs' = Range(meant) /\ streaming_requested' = (Range(meant) # {})
    BY <1>1, ObeyedAsMeant
  <2> QED
    BY <2>1, <2>2 DEF Obeyed
<1>2. CASE ~GetStartStop
  <2>1. UNCHANGED command
    <3>1. CASE HostStartStop \/ HostNotifyError \/ HostOther
      BY <3>1 DEF HostStartStop, HostNotifyError, HostOther, HostSends
    <3>2. CASE Receive \/ MalformedStartStop \/ MalformedNotifyError \/ UnknownType
      BY <3>2 DEF Receive, MalformedStartStop, MalformedNotifyError, UnknownType, Raise
    <3>3. CASE GetNotifyError \/ SendMessage \/ AnswerCapabilities \/ UNCHANGED vars
      BY <3>3 DEF GetNotifyError, SendMessage, AnswerCapabilities, Send, vars
    <3> QED
      BY <1>2, <3>1, <3>2, <3>3 DEF Next
  <2> QED
    BY <2>1 DEF Obeyed, command
<1> QED
  BY <1>1, <1>2

LEMMA MessageInvariance == Spec => [](TypeOK /\ Meaning /\ Untouched /\ Obeyed)
<1>1. Init => Meaning /\ Untouched /\ Obeyed
  BY DEF Init, Meaning, Untouched, Obeyed
<1>2. TypeOK /\ Meaning /\ Untouched /\ Obeyed /\ [Next]_vars => (TypeOK /\ Meaning /\ Untouched /\ Obeyed)'
  BY TypesStep, MeaningStep, ObeyedStep
<1> QED
  BY <1>1, <1>2, TypesInit, PTL DEF Spec

(* The agent streams with the codecs that were meant, or not at all, for   *)
(* every message but an empty START_STOP.                                  *)
THEOREM CommandsObeyed == Spec => []Obeyed
  BY MessageInvariance, PTL

-----------------------------------------------------------------------------
(* No byte outside the array that was received is looked at, and none      *)
(* outside message[] written, but for an empty START_STOP.                 *)
THEOREM ArraysRespected == Spec => InsideArrays
<1>1. TypeOK /\ Untouched /\ [Next]_vars
      => [(reach' <= header.size \/ junk') /\ put' <= MaxText]_vars
  <2> SUFFICES ASSUME TypeOK, Untouched, [Next]_vars, ~UNCHANGED vars
               PROVE  (reach' <= header.size \/ junk') /\ put' <= MaxText
    OBVIOUS
  <2>0. header.size \in Nat /\ MaxText \in Nat
    BY MessagesAssumption DEF TypeOK
  <2>1. CASE HostStartStop \/ HostNotifyError \/ HostOther \/ SendMessage \/ AnswerCapabilities
    <3>1. reach' = 0 /\ put' = -1
      BY <2>1 DEF HostStartStop, HostNotifyError, HostOther, HostSends, SendMessage,
                  AnswerCapabilities, Send
    <3> QED
      BY <2>0, <3>1
  <2>2. CASE Receive \/ MalformedStartStop \/ MalformedNotifyError \/ UnknownType
    <3>1. reach = 0 /\ put = -1 /\ UNCHANGED handled
      BY <2>2 DEF Receive, MalformedStartStop, MalformedNotifyError, UnknownType, Raise, Decode, Untouched
    <3> QED
      BY <2>0, <3>1 DEF handled
  <2>3. CASE GetStartStop
    <3>1. put' = -1
      BY <2>3 DEF GetStartStop, Decode, Untouched
    <3>2. CASE header.size = 0
      <4>1. junk'
        BY <2>3, <3>2 DEF GetStartStop
      <4> QED
        BY <2>0, <3>1, <4>1
    <3>3. CASE header.size # 0
      <4>1. header.size \in 1..Limit
        BY <2>0, <2>3, <3>3 DEF GetStartStop, Decode, TypeOK
      <4>2. PICK n \in At(0) : n <= MaxCodecs /\ reach' = n + 1
        BY <2>3 DEF GetStartStop
      <4>3. n \in Nat /\ n <= header.size - 1
        BY <4>1, <4>2, CodecsCounted, AtIsByte, ZeroIsByte
      <4> QED
        BY <2>0, <3>1, <4>2, <4>3
    <3> QED
      BY <3>2, <3>3
  <2>4. CASE GetNotifyError
    <3>1. reach' = header.size /\ put' = MsgLen /\ MsgLen <= MaxText
      BY <2>4 DEF GetNotifyError, MessageFits
    <3> QED
      BY <2>0, <3>1
  <2> QED
    BY <2>1, <2>2, <2>3, <2>4 DEF Next
<1> QED
  BY <1>1, MessageInvariance, PTL DEF Spec, InsideArrays

-----------------------------------------------------------------------------
(* The text of a NotifyError. *)

(* What is counted are the bytes up to the first NUL, and no other.        *)
LEMMA StrlenSet ==
  ASSUME NEW s \in Seq(Byte)
  PROVE  {n \in 1..Len(s) : \A i \in 1..n : s[i] # NUL} = 1..Strlen(s)
<1> DEFINE S == {n \in 1..Len(s) : \A i \in 1..n : s[i] # NUL}
<1>1. Strlen(s) \in Nat /\ Strlen(s) <= Len(s) /\ Len(s) \in Nat
  BY StrlenBounds, LenProperties
<1>2. Cardinality(S) = Strlen(s)
  BY DEF Strlen
<1>3. ASSUME NEW n \in S PROVE n \in 1..Strlen(s)
  <2>1. n \in Nat /\ n >= 1 /\ 1..n \in SUBSET S
    BY <1>1
  <2> HIDE DEF S
  <2>2. IsFiniteSet(S)
    <3>1. S \in SUBSET (1..Len(s))
      BY DEF S
    <3>2. IsFiniteSet(1..Len(s))
      BY <1>1, FS_Interval
    <3> QED
      BY <3>1, <3>2, FS_Subset
  <2>3. Cardinality(1..n) = n /\ Cardinality(1..n) <= Cardinality(S)
    BY <2>1, <2>2, FS_Interval, FS_Subset
  <2> QED
    BY <1>1, <1>2, <2>1, <2>3
<1> HIDE DEF S
<1>4. S \in SUBSET (1..Strlen(s))
  BY <1>3
<1>5. IsFiniteSet(1..Strlen(s)) /\ Cardinality(1..Strlen(s)) = Strlen(s)
  BY <1>1, FS_Interval
<1>6. 1..Strlen(s) = S
  BY <1>2, <1>4, <1>5, FS_Subset
<1> QED
  BY <1>6 DEF S

(* Which number that is. *)
LEMMA StrlenIs ==
  ASSUME NEW s \in Seq(Byte), NEW k \in 0..Len(s),
         \A i \in 1..k : s[i] # NUL, k = Len(s) \/ s[k + 1] = NUL
  PROVE  Strlen(s) = k
<1>1. Strlen(s) \in Nat /\ Strlen(s) <= Len(s) /\ Len(s) \in Nat /\ k \in Nat /\ k <= Len(s)
  BY StrlenBounds, LenProperties
<1>2. ~(k < Strlen(s))
  <2> SUFFICES ASSUME k < Strlen(s) PROVE FALSE
    OBVIOUS
  <2>1. k + 1 \in 1..Strlen(s) /\ s[k + 1] = NUL
    BY <1>1
  <2> QED
    BY <2>1, StrlenSet
<1>3. ~(Strlen(s) < k)
  <2> SUFFICES ASSUME Strlen(s) < k PROVE FALSE
    OBVIOUS
  <2>1. k \in 1..Len(s) /\ k \notin 1..Strlen(s)
    BY <1>1
  <2> QED
    BY <2>1, StrlenSet
<1> QED
  BY <1>1, <1>2, <1>3

LEMMA StrlenMeans ==
  ASSUME NEW s \in Seq(Byte)
  PROVE  /\ Strlen(s) \in 0..Len(s)
         /\ \A i \in 1..Strlen(s) : s[i] # NUL
         /\ Strlen(s) = Len(s) \/ s[Strlen(s) + 1] = NUL
<1>1. Strlen(s) \in Nat /\ Strlen(s) <= Len(s) /\ Len(s) \in Nat
  BY StrlenBounds, LenProperties
<1>2. ASSUME NEW i \in 1..Strlen(s) PROVE s[i] # NUL
  <2>1. i \in {n \in 1..Len(s) : \A j \in 1..n : s[j] # NUL}
    BY StrlenSet
  <2> QED
    BY <2>1
<1>3. Strlen(s) = Len(s) \/ s[Strlen(s) + 1] = NUL
  <2> SUFFICES ASSUME Strlen(s) # Len(s), s[Strlen(s) + 1] # NUL PROVE FALSE
    OBVIOUS
  <2>1. \A i \in 1..Strlen(s) + 1 : s[i] # NUL
    BY <1>1, <1>2
  <2>2. Strlen(s) + 1 \in {n \in 1..Len(s) : \A j \in 1..n : s[j] # NUL}
    BY <1>1, <2>1
  <2> QED
    BY <1>1, <2>2, StrlenSet
<1> QED
  BY <1>1, <1>2, <1>3

(* Two that agree up to the NUL, or to the end of the one, are cut alike.  *)
LEMMA SameText ==
  ASSUME NEW s \in Seq(Byte), NEW t \in Seq(Byte), Len(s) <= Len(t),
         \A i \in 1..Strlen(s) : t[i] = s[i],
         Strlen(s) < Len(t) => t[Strlen(s) + 1] = NUL
  PROVE  UpToNul(s) = UpToNul(t)
<1> DEFINE k == Strlen(s)
<1>1. k \in Nat /\ k <= Len(s) /\ Len(s) \in Nat /\ Len(t) \in Nat
  BY StrlenBounds, LenProperties
<1>2. \A i \in 1..k : s[i] # NUL
  BY StrlenMeans
<1>3. k \in 0..Len(t) /\ (\A i \in 1..k : t[i] # NUL) /\ (k = Len(t) \/ t[k + 1] = NUL)
  BY <1>1, <1>2
<1> HIDE DEF k
<1>4. Strlen(t) = k
  BY <1>3, StrlenIs
<1>5. \A i \in 1..k : s[i] \in Byte /\ t[i] \in Byte
  BY <1>1, <1>3, ElementOfSeq
<1>6. SubSeq(s, 1, k) \in Seq(Byte) /\ SubSeq(t, 1, k) \in Seq(Byte)
  BY <1>1, <1>5, SubSeqProperties
<1>7. Len(SubSeq(s, 1, k)) = k /\ Len(SubSeq(t, 1, k)) = k
  BY <1>1, <1>5, SubSeqProperties
<1>8. \A i \in 1..k : SubSeq(s, 1, k)[i] = SubSeq(t, 1, k)[i]
  <2>1. \A i \in 1..k - 1 + 1 : SubSeq(s, 1, k)[i] = s[1 + i - 1] /\ SubSeq(t, 1, k)[i] = t[1 + i - 1]
    BY <1>1, <1>5, SubSeqProperties
  <2> QED
    BY <1>1, <2>1 DEF k
<1>9. SubSeq(s, 1, k) = SubSeq(t, 1, k)
  BY <1>6, <1>7, <1>8, SeqEqual
<1> QED
  BY <1>4, <1>9 DEF UpToNul, k

(* strncpy and the NUL behind it keep the text. *)
LEMMA MessageText ==
  ASSUME NEW s \in Seq(Byte)
  PROVE  UpToNul(Append(Strncpy(s), NUL)) = UpToNul(s)
<1>1. Strlen(s) \in Nat /\ Strlen(s) <= Len(s) /\ Len(s) \in Nat
  BY StrlenBounds, LenProperties
<1> DEFINE t == Append(Strncpy(s), NUL)
<1>2. Strncpy(s) \in Seq(Byte) /\ NUL \in Byte
  BY StrncpyType, ZeroIsByte DEF NUL
<1>3. Len(Strncpy(s)) = Len(s) /\ \A i \in 1..Len(s) : Strncpy(s)[i] = IF i <= Strlen(s) THEN s[i] ELSE NUL
  BY <1>1 DEF Strncpy
<1>4. /\ t \in Seq(Byte) /\ Len(t) = Len(s) + 1 /\ t[Len(s) + 1] = NUL
      /\ \A i \in 1..Len(s) : t[i] = Strncpy(s)[i]
  BY <1>2, <1>3, AppendProperties
<1> HIDE DEF t
<1>5. \A i \in 1..Strlen(s) : t[i] = s[i]
  BY <1>1, <1>3, <1>4
<1>6. t[Strlen(s) + 1] = NUL
  BY <1>1, <1>3, <1>4
<1>7. Len(s) <= Len(t)
  BY <1>1, <1>4
<1> QED
  BY <1>4, <1>5, <1>6, <1>7, SameText DEF t

(* The bytes that are decoded are those of the text as it was meant, with  *)
(* NULs behind it if the header says more.                                 *)
LEMMA TextIsMeant ==
  ASSUME TypeOK, Meaning, Decode("NOTIFY_ERROR"), header.size >= CodeSize
  PROVE  /\ Text \in Seq(Byte) /\ MsgLen \in Nat /\ Len(Text) = MsgLen
         /\ \A i \in 1..MsgLen : Text[i] = IF i <= Len(meant) THEN meant[i] ELSE NUL
<1>1. /\ header.size \in Nat /\ CodeSize \in Nat /\ MsgLen \in Nat /\ header.size = MsgLen + CodeSize
  BY MessagesAssumption DEF TypeOK, MsgLen
<1>2. meant \in Seq(Byte) /\ Len(meant) \in Nat
  BY LenProperties DEF TypeOK
<1>3. data = Fit([i \in 1..CodeSize |-> 0] \o meant, header.size)
  BY DEF Decode, Meaning
<1> DEFINE code == [i \in 1..CodeSize |-> 0]
           sent == code \o meant
<1>4. code \in Seq(Byte) /\ Len(code) = CodeSize
  BY <1>1, ZeroIsByte, SeqDef
<1> HIDE DEF code
<1>5. /\ Len(sent) = CodeSize + Len(meant)
      /\ \A i \in 1..Len(meant) : sent[CodeSize + i] = meant[i]
  BY <1>1, <1>2, <1>4
<1> HIDE DEF sent
<1>6. \A j \in 1..header.size : data[j] = IF j <= Len(sent) THEN sent[j] ELSE 0
  BY <1>1, <1>3 DEF Fit, sent, code
<1>7. \A i \in 1..MsgLen : data[CodeSize + i] = IF i <= Len(meant) THEN meant[i] ELSE NUL
  <2> SUFFICES ASSUME NEW i \in 1..MsgLen
               PROVE  data[CodeSize + i] = IF i <= Len(meant) THEN meant[i] ELSE NUL
    OBVIOUS
  <2>1. CodeSize + i \in 1..header.size /\ (CodeSize + i <= Len(sent) <=> i <= Len(meant))
    BY <1>1, <1>2, <1>5
  <2>2. data[CodeSize + i] = IF CodeSize + i <= Len(sent) THEN sent[CodeSize + i] ELSE 0
    BY <1>6, <2>1
  <2> QED
    BY <1>2, <1>5, <2>1, <2>2 DEF NUL
<1>8. \A j \in CodeSize + 1..header.size : data[j] \in Byte
  BY <1>1, ElementOfSeq DEF TypeOK
<1>9. CodeSize + 1 \in Int /\ header.size \in Int
  BY <1>1
<1>10. /\ Text \in Seq(Byte)
       /\ Len(Text) = IF CodeSize + 1 <= header.size THEN header.size - (CodeSize + 1) + 1 ELSE 0
       /\ \A i \in 1..header.size - (CodeSize + 1) + 1 : Text[i] = data[CodeSize + 1 + i - 1]
  BY <1>8, <1>9, SubSeqProperties DEF Text
<1>11. Len(Text) = MsgLen /\ \A i \in 1..MsgLen : Text[i] = data[CodeSize + i]
  BY <1>1, <1>10
<1> QED
  BY <1>1, <1>7, <1>10, <1>11

(* The text that is logged is the one that was sent, for every text, limit *)
(* and size in the header.                                                 *)
THEOREM TextIsKept == Spec => TextKept
<1>1. TypeOK /\ Meaning /\ [Next]_vars
      => [Decode("NOTIFY_ERROR") /\ pc' = "idle" =>
            logged' = UpToNul(SubSeq(meant, 1, IF MsgLen < Len(meant) THEN MsgLen ELSE Len(meant)))]_vars
  <2> SUFFICES ASSUME TypeOK, Meaning, [Next]_vars, ~UNCHANGED vars, Decode("NOTIFY_ERROR"), pc' = "idle"
               PROVE  logged' = UpToNul(SubSeq(meant, 1, IF MsgLen < Len(meant) THEN MsgLen ELSE Len(meant)))
    OBVIOUS
  <2>1. GetNotifyError
    <3>1. pc = "decode" /\ header.type = "NOTIFY_ERROR"
      BY DEF Decode
    <3>2. ~(HostStartStop \/ HostNotifyError \/ HostOther \/ Receive \/ SendMessage)
      BY <3>1 DEF HostStartStop, HostNotifyError, HostOther, HostSends, Receive, SendMessage
    <3>3. ~(GetStartStop \/ MalformedStartStop \/ MalformedNotifyError \/ UnknownType \/ AnswerCapabilities)
      BY <3>1 DEF GetStartStop, MalformedStartStop, MalformedNotifyError, UnknownType,
                  AnswerCapabilities, Decode, Raise
    <3> QED
      BY <3>2, <3>3 DEF Next
  <2> DEFINE n == IF MsgLen < Len(meant) THEN MsgLen ELSE Len(meant)
             w == SubSeq(meant, 1, n)
  <2>2. /\ Text \in Seq(Byte) /\ MsgLen \in Nat /\ Len(Text) = MsgLen
        /\ \A i \in 1..MsgLen : Text[i] = IF i <= Len(meant) THEN meant[i] ELSE NUL
    BY <2>1, TextIsMeant DEF GetNotifyError
  <2>3. logged' = UpToNul(Text)
    BY <2>1, <2>2, MessageText DEF GetNotifyError, Message
  <2>4. meant \in Seq(Byte) /\ Len(meant) \in Nat
    BY LenProperties DEF TypeOK
  <2>5. n \in Nat /\ n <= Len(meant) /\ n <= MsgLen /\ (n = MsgLen \/ n = Len(meant))
    BY <2>2, <2>4
  <2> HIDE DEF n
  <2>6. \A i \in 1..n : meant[i] \in Byte
    BY <2>4, <2>5, ElementOfSeq
  <2>7. w \in Seq(Byte) /\ Len(w) = n /\ \A i \in 1..n : w[i] = meant[i]
    <3>1. /\ w \in Seq(Byte)
          /\ Len(w) = IF 1 <= n THEN n - 1 + 1 ELSE 0
          /\ \A i \in 1..n - 1 + 1 : w[i] = meant[1 + i - 1]
      BY <2>5, <2>6, SubSeqProperties
    <3> HIDE DEF w
    <3> QED
      BY <2>4, <2>5, <3>1
  <2> HIDE DEF w
  <2>8. Strlen(w) \in 0..n /\ (Strlen(w) = n \/ w[Strlen(w) + 1] = NUL)
    BY <2>7, StrlenMeans
  <2>9. \A i \in 1..Strlen(w) : Text[i] = w[i]
    BY <2>2, <2>4, <2>5, <2>7, <2>8
  <2>10. Strlen(w) < Len(Text) => Text[Strlen(w) + 1] = NUL
    <3> SUFFICES ASSUME Strlen(w) < Len(Text) PROVE Text[Strlen(w) + 1] = NUL
      OBVIOUS
    <3>1. Strlen(w) + 1 \in 1..MsgLen
      BY <2>2, <2>5, <2>8
    <3>2. CASE Strlen(w) < n
      BY <2>2, <2>4, <2>5, <2>7, <2>8, <3>1, <3>2
    <3>3. CASE Strlen(w) = n
      BY <2>2, <2>4, <2>5, <3>1, <3>3
    <3> QED
      BY <2>5, <2>8, <3>2, <3>3
  <2>11. Len(w) <= Len(Text)
    BY <2>2, <2>5, <2>7
  <2>12. UpToNul(w) = UpToNul(Text)
    BY <2>2, <2>7, <2>9, <2>10, <2>11, SameText
  <2> QED
    BY <2>3, <2>12 DEF w, n
<1> QED
  BY <1>1, MessageInvariance, PTL DEF Spec, TextKept
===============================================================================
