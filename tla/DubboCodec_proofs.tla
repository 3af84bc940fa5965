------------------------- MODULE DubboCodec_proofs -------------------------
(***************************************************************************)
(* What DubboCodec keeps for every stream of messages, every header size   *)
(* and every limit of the body size.                                       *)
(***************************************************************************)
EXTENDS DubboCodec, TLAPS

USE DubboAssumption

\* A message of the stream has the fields of a Dubbo message.
LEMMA FrontType ==
  ASSUME TypeOK
  PROVE  /\ front \in DubboMessages
         /\ front.body_size \in Int /\ front.body_offset \in Nat /\ front.request_id \in Nat
         /\ front.request \in BOOLEAN /\ front.event \in BOOLEAN /\ front.two_way \in BOOLEAN
         /\ front.magic \in BOOLEAN
         /\ front.status \in ResponseStatuses \cup {"Other"}
  BY DEF TypeOK, DubboMessages

\* A good header has a type, a size that is not negative, and a status that is known.
LEMMA GoodHeader ==
  ASSUME TypeOK, ~HeaderIsBad(front)
  PROVE  /\ front.body_size \in Nat /\ front.body_size <= MaxBodySize
         /\ HeaderType(front) \in MessageTypes \ {"Exception"}
         /\ FromHeader(front) \in MessageMetadata
         /\ FromHeader(front).message_type = HeaderType(front)
  <1>1. front.body_size \in Nat /\ front.body_size <= MaxBodySize
    BY FrontType DEF HeaderIsBad
  <1>2. HeaderType(front) \in MessageTypes \ {"Exception"}
    BY DEF HeaderType, MessageTypes
  <1>3. (IF front.request THEN "none" ELSE front.status) \in ResponseStatuses \cup {"none"}
    BY DEF HeaderIsBad, ValidStatuses
  <1>4. FromHeader(front) \in MessageMetadata
    BY <1>2, <1>3, FrontType DEF FromHeader, MessageMetadata
  <1>5. FromHeader(front).message_type = HeaderType(front)
    BY DEF FromHeader
  <1> QED BY <1>1, <1>2, <1>4, <1>5

\* Nothing has been received or decoded.
LEMMA InitIInv == Init => IInv
  <1> SUFFICES ASSUME Init PROVE IInv
    OBVIOUS
  <1>1. TypeOK
    BY DEF Init, TypeOK
  <1>2. Aligned
    BY DEF Init, Aligned
  <1>3. MachineOK
    BY DEF Init, MachineOK
  <1> QED BY <1>1, <1>2, <1>3 DEF IInv

\* A step that finishes a message leaves the codec as it began.
LEMMA FinishIInv ==
  ASSUME IInv, NEW mm, NEW n \in Nat, n <= buffer,
         taken + n = HeaderSize + front.body_size, front.body_size \in Nat,
         Finish(mm, n)
  PROVE  IInv'
  <1>1. buffer' \in Nat /\ taken' = 0
    BY DEF IInv, TypeOK, Finish, DubboAssumption
  <1>2. TypeOK'
    <2>1. decoded' \in Nat /\ origin_message' \in Nat /\ taken' \in Nat
      BY <1>1 DEF IInv, TypeOK, Finish
    <2>2. pc' = "idle" /\ result' = "Done" /\ decode_started' = FALSE /\ state' = "null"
      BY DEF Finish, Return
    <2>3. msg_metadata' = NoMetadata /\ front' \in Messages
      BY DEF Finish
    <2> QED BY <1>1, <2>1, <2>2, <2>3 DEF TypeOK
  <1>3. Aligned'
    BY <1>1 DEF Aligned, Finish
  <1>4. MachineOK'
    BY DEF Finish, Return, MachineOK
  <1> QED BY <1>2, <1>3, <1>4 DEF IInv

\* A step that ends decode() for now takes nothing.
LEMMA ReturnIInv ==
  ASSUME IInv, pc = "run", NothingTaken, NEW r \in {"WaitForData", "BadMessage"}, Return(r),
         r = "BadMessage" =>
           \/ state = "OnDecodeStreamHeader" /\ buffer >= HeaderSize /\ HeaderIsBad(front)
           \/ /\ state = "OnDecodeStreamData" /\ buffer >= front.body_size
              /\ BodyIsBad(front, msg_metadata.message_type)
  PROVE  IInv'
  <1>1. TypeOK'
    BY DEF IInv, TypeOK, Return, NothingTaken
  <1>2. Aligned'
    BY DEF IInv, Aligned, NothingTaken
  <1>3. MachineOK'
    BY DEF IInv, MachineOK, IsHeartbeat, Return, NothingTaken
  <1> QED BY <1>1, <1>2, <1>3 DEF IInv

\* Every step keeps the invariant.
LEMMA NextIInv == IInv /\ [Next]_vars => IInv'
  <1> SUFFICES ASSUME IInv, [Next]_vars PROVE IInv'
    OBVIOUS
  <1> USE DEF Run
  <1>1. CASE Decode
    <2>1. TypeOK'
      BY <1>1 DEF IInv, TypeOK, Decode
    <2>2. Aligned'
      BY <1>1 DEF IInv, Aligned, MachineOK, Decode
    <2>3. MachineOK'
      BY <1>1 DEF IInv, TypeOK, MachineOK, IsHeartbeat, Decode
    <2> QED BY <2>1, <2>2, <2>3 DEF IInv
  <1>2. CASE WaitForHeader
    BY <1>2, ReturnIInv DEF WaitForHeader
  <1>3. CASE ThrowBadHeader
    BY <1>3, ReturnIInv DEF ThrowBadHeader
  <1>4. CASE WaitForHeartbeat
    BY <1>4, ReturnIInv DEF WaitForHeartbeat
  <1>5. CASE FinishHeartbeat
    <2>1. front.body_size \in Nat
      BY <1>5, GoodHeader DEF IInv, FinishHeartbeat, HeaderIsGood
    <2>2. taken = 0
      BY <1>5 DEF IInv, Aligned, FinishHeartbeat
    <2> QED BY <1>5, <2>1, <2>2, FinishIInv DEF IInv, TypeOK, FinishHeartbeat
  <1>6. CASE OnDecodeStreamHeader
    <2>1. FromHeader(front) \in MessageMetadata
      BY <1>6, GoodHeader DEF IInv, OnDecodeStreamHeader, HeaderIsGood
    <2>2. TypeOK'
      BY <1>6, <2>1 DEF IInv, TypeOK, OnDecodeStreamHeader, HeaderIsGood
    <2>3. Aligned'
      BY <1>6 DEF IInv, TypeOK, Aligned, OnDecodeStreamHeader
    <2>4. result # "BadMessage"
      BY <1>6 DEF IInv, MachineOK, OnDecodeStreamHeader, HeaderIsGood
    <2>5. MachineOK'
      BY <1>6, <2>4 DEF IInv, MachineOK, IsHeartbeat, OnDecodeStreamHeader, HeaderIsGood
    <2> QED BY <2>2, <2>3, <2>5 DEF IInv
  <1>7. CASE WaitForBody
    BY <1>7, ReturnIInv DEF WaitForBody
  <1>8. CASE ThrowBadBody
    BY <1>8, ReturnIInv DEF ThrowBadBody
  <1>9. CASE OnDecodeStreamData
    <2>1. front.body_size \in Nat
      BY <1>9, GoodHeader DEF IInv, MachineOK, OnDecodeStreamData
    <2>2. taken = HeaderSize
      BY <1>9 DEF IInv, Aligned, OnDecodeStreamData
    <2> QED BY <1>9, <2>1, <2>2, FinishIInv DEF IInv, TypeOK, OnDecodeStreamData
  <1>10. CASE EncodeHeartbeat \/ OnError
    <2>1. UNCHANGED <<pc, result, decode_started, metadata, decoded, state, msg_metadata,
                      origin_message, buffer, front, taken>>
      BY <1>10 DEF EncodeHeartbeat, OnError, Encode
    <2> QED BY <2>1 DEF IInv, TypeOK, Aligned, MachineOK, IsHeartbeat
  <1>11. CASE Receive
    <2>1. TypeOK'
      BY <1>11 DEF IInv, TypeOK, Receive
    <2>2. Aligned'
      BY <1>11 DEF IInv, Aligned, Receive
    <2>3. MachineOK'
      BY <1>11, FrontType DEF IInv, TypeOK, MachineOK, IsHeartbeat, Receive
    <2> QED BY <2>1, <2>2, <2>3 DEF IInv
  <1>12. CASE UNCHANGED vars
    BY <1>12 DEF IInv, TypeOK, Aligned, MachineOK, IsHeartbeat, vars
  <1> QED BY <1>1, <1>2, <1>3, <1>4, <1>5, <1>6, <1>7, <1>8, <1>9, <1>10, <1>11, <1>12
          DEF Next

\* The inductive invariant of DubboCodec: types, framing and the codec's flags.
THEOREM DubboInvariant == Spec => []IInv
  BY InitIInv, NextIInv, PTL DEF Spec

\* Every variable keeps its type: no more bytes are moved than have come.
THEOREM DubboTypeCorrect == Spec => []TypeOK
  <1>1. IInv => TypeOK
    BY DEF IInv
  <1> QED BY <1>1, DubboInvariant, PTL

\* decode() and the stream agree on where messages begin.
THEOREM AlignedCorrect == Spec => []Aligned
  <1>1. IInv => Aligned
    BY DEF IInv
  <1> QED BY <1>1, DubboInvariant, PTL


----------------------------------------------------------------------------
(* Steps.                                                                  *)

\* decodeData changes one field.
LEMMA FromBodyFields ==
  ASSUME NEW mm, NEW m, DOMAIN mm = {"message_type", "request_id", "response_status",
                                     "has_invocation"}
  PROVE  /\ FromBody(mm, m).request_id = mm.request_id
         /\ FromBody(mm, m).response_status = mm.response_status
         /\ FromBody(mm, m).message_type =
              IF mm.message_type = "Response" /\ m.body = "Exception"
              THEN "Exception" ELSE mm.message_type
         /\ FromBody(mm, m).has_invocation =
              IF mm.message_type = "Response" THEN mm.has_invocation ELSE TRUE
  BY DEF FromBody

\* The fields that make up the meaning of a message.
LEMMA ToMeaning ==
  ASSUME NEW mm, NEW m,
         MetaTypeOf[mm.message_type] = MeaningType(m),
         mm.request_id = m.request_id,
         mm.has_invocation = (m.request /\ ~m.event),
         mm.response_status \in {"none", "Ok"} <=> m.request \/ m.status = "Ok"
  PROVE  ToMetadata(mm, m.body_size, HeaderSize + m.body_size) = Meaning(m)
  BY DEF ToMetadata, Meaning

\* What decodeHeader fills in.
LEMMA FromHeaderFields ==
  ASSUME NEW m
  PROVE  /\ DOMAIN FromHeader(m) = {"message_type", "request_id", "response_status",
                                    "has_invocation"}
         /\ FromHeader(m).message_type = HeaderType(m)
         /\ FromHeader(m).request_id = m.request_id
         /\ FromHeader(m).response_status = IF m.request THEN "none" ELSE m.status
         /\ FromHeader(m).has_invocation = FALSE
  BY DEF FromHeader

\* A heartbeat that decode() accepts is a message and has its meaning.
LEMMA HeartbeatMeaning ==
  ASSUME IInv, FinishHeartbeat
  PROVE  IsMessage(front) /\ metadata' = Meaning(front)
  <1>1. taken = 0 /\ origin_message = 0
    BY DEF IInv, Aligned, FinishHeartbeat, Run
  <1>2. ~HeaderIsBad(front) /\ HeaderType(front) \in Heartbeats
    BY DEF FinishHeartbeat, HeaderIsGood, IsHeartbeat
  <1>3. front.event
    BY <1>2, FrontType DEF IInv, HeaderType, Heartbeats
  <1>4. IsMessage(front)
    BY <1>2, <1>3, FrontType DEF IInv, HeaderIsBad, IsMessage, DubboAssumption
  <1>5. MetaTypeOf[HeaderType(front)] = "Heartbeat"
    BY <1>2 DEF Heartbeats, MetaTypeOf
  <1>6. metadata' = ToMetadata(FromHeader(front), front.body_size, HeaderSize + front.body_size)
    BY <1>1, <1>4 DEF FinishHeartbeat, Finish, IsMessage, DubboAssumption
  <1>7. FromHeader(front).response_status \in {"none", "Ok"}
          <=> front.request \/ front.status = "Ok"
    BY FrontType DEF IInv, FromHeader, ResponseStatuses
  <1>8. MeaningType(front) = "Heartbeat"
    BY <1>3 DEF MeaningType
  <1>9. ToMetadata(FromHeader(front), front.body_size, HeaderSize + front.body_size)
          = Meaning(front)
    <2>1. /\ FromHeader(front).message_type = HeaderType(front)
          /\ FromHeader(front).request_id = front.request_id
          /\ FromHeader(front).has_invocation = FALSE
      BY DEF FromHeader
    <2>2. FromHeader(front).has_invocation = (front.request /\ ~front.event)
      BY <2>1, <1>3
    <2> QED BY <2>1, <2>2, <1>5, <1>7, <1>8, ToMeaning
  <1> QED BY <1>4, <1>6, <1>9

\* A message decoded with its body is a message and has its meaning.
LEMMA MessageMeaning ==
  ASSUME IInv, OnDecodeStreamData
  PROVE  IsMessage(front) /\ metadata' = Meaning(front)
  <1> DEFINE type == HeaderType(front)
             mm   == FromBody(FromHeader(front), front)
  <1>1. /\ origin_message = HeaderSize /\ msg_metadata = FromHeader(front)
        /\ ~HeaderIsBad(front) /\ type \notin Heartbeats
    BY DEF IInv, Aligned, MachineOK, OnDecodeStreamData, Run, IsHeartbeat
  <1>2. msg_metadata.message_type = type
    BY <1>1 DEF FromHeader
  <1>3. ~BodyIsBad(front, type)
    BY <1>2 DEF OnDecodeStreamData
  <1>4. /\ ~front.event
        /\ front.request  => type = IF front.two_way THEN "Request" ELSE "Oneway"
        /\ ~front.request => type = "Response"
    BY <1>1, FrontType DEF IInv, HeaderType, Heartbeats
  <1>5. IsMessage(front)
    <2>1. /\ front.magic /\ front.body_size \in 0..MaxBodySize
          /\ IF front.request THEN front.serialization = "Hessian2"
             ELSE front.status \in ValidStatuses
      BY <1>1, FrontType DEF IInv, HeaderIsBad, DubboAssumption
    <2>2. front.body_offset <= front.body_size
      BY <1>3, FrontType DEF IInv, BodyIsBad
    <2>3. IF front.request THEN front.body = "Invocation"
          ELSE \/ front.body \in {"Exception", "Value"}
               \/ front.body = "NullValue" /\ front.body_offset = front.body_size
      BY <1>3, <1>4, FrontType DEF IInv, BodyIsBad
    <2> QED BY <2>1, <2>2, <2>3 DEF IsMessage
  <1>6. metadata' = ToMetadata(mm, front.body_size, HeaderSize + front.body_size)
    BY <1>1 DEF OnDecodeStreamData, Finish
  <1>7. front.status # "none"
    BY FrontType DEF IInv, ResponseStatuses
  <1>8. ToMetadata(mm, front.body_size, HeaderSize + front.body_size) = Meaning(front)
    <2>1. front.request \in BOOLEAN /\ front.two_way \in BOOLEAN
      BY FrontType DEF IInv
    <2> DEFINE h == FromHeader(front)
    <2>2. /\ DOMAIN h = {"message_type", "request_id", "response_status", "has_invocation"}
          /\ h.message_type = HeaderType(front) /\ h.request_id = front.request_id
          /\ h.response_status = IF front.request THEN "none" ELSE front.status
          /\ h.has_invocation = FALSE
      BY FromHeaderFields
    <2>3. /\ ~front.event
          /\ front.request => HeaderType(front) = IF front.two_way THEN "Request" ELSE "Oneway"
          /\ ~front.request => HeaderType(front) = "Response"
      BY <1>4
    <2> HIDE DEF h
    <2> DEFINE b == FromBody(h, front)
    <2>4. /\ b.request_id = h.request_id /\ b.response_status = h.response_status
          /\ b.message_type = IF h.message_type = "Response" /\ front.body = "Exception"
                              THEN "Exception" ELSE h.message_type
          /\ b.has_invocation = IF h.message_type = "Response" THEN h.has_invocation ELSE TRUE
      BY <2>2, FromBodyFields
    <2> HIDE DEF b
    <2>5. MetaTypeOf[b.message_type] = MeaningType(front)
      BY <2>1, <2>2, <2>3, <2>4 DEF MetaTypeOf, MeaningType
    <2>6. b.has_invocation = (front.request /\ ~front.event)
      <3>1. CASE front.request
        BY <2>1, <2>2, <2>3, <2>4, <3>1
      <3>2. CASE ~front.request
        BY <2>2, <2>3, <2>4, <3>2
      <3> QED BY <3>1, <3>2
    <2>7. b.response_status \in {"none", "Ok"} <=> front.request \/ front.status = "Ok"
      BY <1>7, <2>2, <2>4
    <2>8. ToMetadata(b, front.body_size, HeaderSize + front.body_size) = Meaning(front)
      BY <2>2, <2>4, <2>5, <2>6, <2>7, ToMeaning
    <2> QED BY <2>8 DEF b, h
  <1> QED BY <1>5, <1>6, <1>8

\* However the bytes of a stream are cut, decode() hands out each message with its
\* meaning, and throws only for what is no message.
THEOREM DecodesMessagesCorrect == Spec => DecodesMessages
  <1>1. IInv /\ [Next]_vars =>
          [/\ decoded' # decoded => IsMessage(front) /\ metadata' = Meaning(front)
           /\ pc = "run" /\ result' = "BadMessage" => ~IsMessage(front)]_vars
    <2> SUFFICES ASSUME IInv, Next
                 PROVE  /\ decoded' # decoded => IsMessage(front) /\ metadata' = Meaning(front)
                        /\ pc = "run" /\ result' = "BadMessage" => ~IsMessage(front)
      OBVIOUS
    <2>1. ASSUME decoded' # decoded
          PROVE  IsMessage(front) /\ metadata' = Meaning(front)
      <3>1. FinishHeartbeat \/ OnDecodeStreamData
        BY <2>1 DEF Next, Decode, WaitForHeader, ThrowBadHeader, WaitForHeartbeat,
                    OnDecodeStreamHeader, WaitForBody, ThrowBadBody, EncodeHeartbeat,
                    OnError, Encode, Receive, NothingTaken
      <3> QED BY <3>1, HeartbeatMeaning, MessageMeaning
    <2>2. ASSUME pc = "run", result' = "BadMessage"
          PROVE  ~IsMessage(front)
      <3>1. HeaderIsBad(front) \/
              /\ ~HeaderIsBad(front) /\ HeaderType(front) \notin Heartbeats
              /\ BodyIsBad(front, HeaderType(front))
        <4>1. ThrowBadHeader \/ ThrowBadBody \/ result = "BadMessage"
          BY <2>2 DEF Next, Decode, WaitForHeader, WaitForHeartbeat, FinishHeartbeat,
                      OnDecodeStreamHeader, WaitForBody, OnDecodeStreamData,
                      EncodeHeartbeat, OnError, Encode, Receive, Return, Finish
        <4>2. state = "OnDecodeStreamData" =>
                /\ ~HeaderIsBad(front) /\ HeaderType(front) \notin Heartbeats
                /\ msg_metadata.message_type = HeaderType(front)
          BY DEF IInv, MachineOK, IsHeartbeat, FromHeader
        <4> QED BY <4>1, <4>2 DEF IInv, MachineOK, ThrowBadHeader, ThrowBadBody, Run
      <3>2. CASE HeaderIsBad(front)
        BY <3>2, FrontType DEF IInv, HeaderIsBad, IsMessage, DubboAssumption
      <3>3. CASE /\ HeaderType(front) \notin Heartbeats
                 /\ BodyIsBad(front, HeaderType(front))
        <4>1. /\ ~front.event
              /\ front.request <=> HeaderType(front) # "Response"
          BY <3>3, FrontType DEF IInv, HeaderType, Heartbeats
        <4> QED BY <3>3, <4>1, FrontType DEF IInv, BodyIsBad, IsMessage
      <3> QED BY <3>1, <3>2, <3>3
    <2> QED BY <2>1, <2>2
  <1> QED BY <1>1, DubboInvariant, PTL DEF Spec, DecodesMessages

\* decode() asks for more data only while the message is incomplete.
THEOREM NoNeedlessWaitCorrect == Spec => NoNeedlessWait
  <1>1. IInv /\ [Next]_vars =>
          [pc = "run" /\ pc' = "idle" /\ result' = "WaitForData" =>
             \/ taken + buffer < HeaderSize
             \/ taken + buffer < HeaderSize + front.body_size]_vars
    <2> SUFFICES ASSUME IInv, Next, pc = "run", pc' = "idle", result' = "WaitForData"
                 PROVE  \/ taken + buffer < HeaderSize
                        \/ taken + buffer < HeaderSize + front.body_size
      OBVIOUS
    <2>1. WaitForHeader \/ WaitForHeartbeat \/ WaitForBody
      BY DEF Next, Decode, ThrowBadHeader, FinishHeartbeat, OnDecodeStreamHeader,
             ThrowBadBody, OnDecodeStreamData, EncodeHeartbeat, OnError, Encode, Receive,
             Return, Finish
    <2>2. CASE WaitForHeader \/ WaitForHeartbeat
      BY <2>2 DEF IInv, TypeOK, Aligned, WaitForHeader, WaitForHeartbeat, Run
    <2>3. CASE WaitForBody
      BY <2>3, FrontType DEF IInv, TypeOK, Aligned, WaitForBody, Run, DubboAssumption
    <2> QED BY <2>1, <2>2, <2>3
  <1> QED BY <1>1, DubboInvariant, PTL DEF Spec, NoNeedlessWait

\* decode() is right about each message, and waits for no byte it does not need.
THEOREM DecodesPromptlyCorrect == Spec => DecodesPromptly
BY DecodesMessagesCorrect, NoNeedlessWaitCorrect, PTL DEF DecodesPromptly

\* A message that has an error in it has it in every later call of decode().
THEOREM ErrorSticksCorrect == Spec => ErrorSticks
  <1>1. IInv /\ [Next]_vars => [result = "BadMessage" => result' = "BadMessage"]_vars
    <2> SUFFICES ASSUME IInv, Next, result = "BadMessage" PROVE result' = "BadMessage"
      OBVIOUS
    <2>1. \/ /\ state = "OnDecodeStreamHeader"
             /\ buffer >= HeaderSize /\ HeaderIsBad(front)
          \/ /\ state = "OnDecodeStreamData" /\ buffer >= front.body_size
             /\ BodyIsBad(front, msg_metadata.message_type)
      BY DEF IInv, MachineOK
    <2>2. ~WaitForHeader /\ ~WaitForBody
      BY <2>1, FrontType DEF IInv, TypeOK, WaitForHeader, WaitForBody, Run, DubboAssumption
    <2>3. ~WaitForHeartbeat /\ ~FinishHeartbeat /\ ~OnDecodeStreamHeader
      BY <2>1 DEF WaitForHeartbeat, FinishHeartbeat, OnDecodeStreamHeader, HeaderIsGood, Run
    <2>4. ~OnDecodeStreamData
      BY <2>1 DEF OnDecodeStreamData, Run
    <2> QED BY <2>2, <2>3, <2>4 DEF Next, Decode, ThrowBadHeader, ThrowBadBody,
                EncodeHeartbeat, OnError, Encode, Receive, Return
  <1> QED BY <1>1, DubboInvariant, PTL DEF Spec, ErrorSticks

\* What the codec encodes, other than ServerError, a codec decodes, with the id of the
\* message it answers.
THEOREM RepliesDecodeCorrect == Spec => RepliesDecode
  <1> DEFINE Good(r, m) ==
        /\ IsMessage(r) /\ ~r.request
        /\ Meaning(r).request_id = m.request_id
        /\ Meaning(r).message_type = IF m.message_type = "Heartbeat" THEN "Heartbeat" ELSE "Error"
  <1>1. [Next]_vars => [reply' # reply /\ reply'.status # "ServerError" =>
                          Good(reply', metadata)]_vars
    <2> SUFFICES ASSUME Next, reply' # reply, reply'.status # "ServerError"
                 PROVE  Good(reply', metadata)
      OBVIOUS
    <2>1. EncodeHeartbeat \/ OnError
      BY DEF Next, Decode, WaitForHeader, ThrowBadHeader, WaitForHeartbeat, FinishHeartbeat,
             OnDecodeStreamHeader, WaitForBody, ThrowBadBody, OnDecodeStreamData, Receive,
             NothingTaken, Finish
    <2>2. CASE EncodeHeartbeat
      <3>1. /\ reply'.magic /\ ~reply'.request /\ reply'.event
            /\ reply'.status = "Ok" /\ reply'.body_size = 0
            /\ reply'.request_id = metadata.request_id
        BY <2>2 DEF EncodeHeartbeat, Encode
      <3>2. IsMessage(reply')
        BY <3>1 DEF IsMessage, ValidStatuses, ResponseStatuses, DubboAssumption
      <3>3. /\ Meaning(reply').request_id = metadata.request_id
            /\ Meaning(reply').message_type = "Heartbeat"
        BY <3>1 DEF Meaning, MeaningType
      <3> QED BY <2>2, <3>1, <3>2, <3>3 DEF EncodeHeartbeat
    <2>3. CASE OnError
      <3>1. PICK error \in DOMAIN StatusOf : Encode(FALSE, StatusOf[error], "Exception", 1, 2)
        BY <2>3 DEF OnError
      <3>2. /\ reply'.magic /\ ~reply'.request /\ ~reply'.event
            /\ reply'.body_size = 2 /\ reply'.body_offset = 1 /\ reply'.body = "Exception"
            /\ reply'.request_id = metadata.request_id
            /\ reply'.status = StatusOf[error]
        BY <3>1 DEF Encode
      <3>3. reply'.status \in {"ServiceNotFound", "BadResponse"}
        BY <3>2 DEF StatusOf
      <3>4. IsMessage(reply')
        BY <3>2, <3>3 DEF IsMessage, ValidStatuses, ResponseStatuses, DubboAssumption
      <3>5. /\ Meaning(reply').request_id = metadata.request_id
            /\ Meaning(reply').message_type = "Error"
        BY <3>2 DEF Meaning, MeaningType
      <3> QED BY <2>3, <3>2, <3>4, <3>5 DEF OnError
    <2> QED BY <2>1, <2>2, <2>3
  <1> QED BY <1>1, PTL DEF Spec, RepliesDecode
=============================================================================
