---------------------------- MODULE DubboCodec ----------------------------
(***************************************************************************)
(* DubboCodec: decode() over a stream of Dubbo messages that arrives in    *)
(* pieces of any size, and the messages it encodes itself, error replies   *)
(* and heartbeat responses.                                                *)
(*                                                                         *)
(* The stream is modelled by lengths: buffer is how many bytes wait in the *)
(* request buffer, front the message whose bytes come first, taken how     *)
(* many of its bytes have left the buffer already.  Hessian2 is a library; *)
(* of a body the model has what the deserializer finds in it, and the      *)
(* offset behind what it has read.                                         *)
(*                                                                         *)
(* Left out: the parameters and attachments of an invocation, which nobody *)
(* reads; Timeout and TwoWay, which decoding never sets.                   *)
(***************************************************************************)
EXTENDS Integers

CONSTANTS
    HeaderSize,     \* DubboProtocolImpl::MessageSize
    MaxBodySize,    \* DubboProtocolImpl::MaxBodySize
    Messages,       \* the messages that the peer sends
    MaxBuffer,      \* bound: bytes in the buffer
    MaxMessages     \* bound: messages decoded

\* Status values that the code names.
ResponseStatuses ==
    {"Ok", "ClientTimeout", "ServerTimeout", "BadRequest", "BadResponse",
     "ServiceNotFound", "ServiceError", "ServerError", "ClientError",
     "ServerThreadpoolExhaustedError"}

\* What a body begins with: the four strings of an invocation, the type of a result
\* (with or without attachments), another integer, or nothing that can be read.
BodyKinds == {"Invocation", "Exception", "Value", "NullValue", "UnknownType", "Unreadable"}

DubboMessages ==
    [magic : BOOLEAN, request : BOOLEAN, event : BOOLEAN, two_way : BOOLEAN,
     serialization : {"Hessian2", "Other"}, status : ResponseStatuses \cup {"Other"},
     request_id : Nat, body_size : Int, body : BodyKinds, body_offset : Nat]

ASSUME DubboAssumption ==
    /\ HeaderSize \in Nat \ {0}
    /\ MaxBodySize \in Nat /\ MaxBodySize >= 2     \* an error reply fits
    /\ Messages \subseteq DubboMessages
    /\ MaxBuffer \in Nat /\ MaxMessages \in Nat

VARIABLES
    \* --- DubboCodec
    pc,             \* "run": decode() is running; "idle": it is not
    result,         \* how the latest decode() ended
    decode_started, \* decode_started_
    metadata,       \* the Metadata handed out with the latest message
    decoded,        \* messages decoded
    reply,          \* what onError or encodeHeartbeat has encoded last
    \* --- DecoderStateMachine
    state,          \* state_; "null": there is no state machine
    msg_metadata,   \* metadata_, once the header has been taken
    origin_message, \* length of the context's origin message
    \* --- the stream
    buffer, front, taken

vars == <<pc, result, decode_started, metadata, decoded, reply,
          state, msg_metadata, origin_message, buffer, front, taken>>

----------------------------------------------------------------------------
(* Headers and bodies, and what becomes of them.                           *)

MessageTypes == {"Request", "Response", "Oneway", "Exception",
                 "HeartbeatRequest", "HeartbeatResponse"}

Heartbeats == {"HeartbeatRequest", "HeartbeatResponse"}

\* isValidResponseStatus does not know ServerError.
ValidStatuses == ResponseStatuses \ {"ServerError"}

\* decodeHeader with the parse functions: when it throws, and the type it finds.
\* The serialization of a response is not looked at.
HeaderIsBad(m) ==
    \/ ~m.magic
    \/ m.body_size > MaxBodySize \/ m.body_size < 0
    \/ m.request /\ m.serialization # "Hessian2"
    \/ ~m.request /\ m.status \notin ValidStatuses

HeaderType(m) ==
    CASE m.request /\ m.event -> "HeartbeatRequest"
      [] m.request /\ ~m.event -> IF m.two_way THEN "Request" ELSE "Oneway"
      [] ~m.request /\ m.event -> "HeartbeatResponse"
      [] OTHER -> "Response"

\* MessageMetadata as decodeHeader fills it.
FromHeader(m) ==
    [message_type |-> HeaderType(m), request_id |-> m.request_id,
     response_status |-> IF m.request THEN "none" ELSE m.status,
     has_invocation |-> FALSE]

\* Fault: deserializeRpcInvocation does not compare its offset with the body size.
BodyIsBad_NoSizeCheck(m, type) ==
    IF type = "Response"
    THEN \/ m.body \notin {"Exception", "Value", "NullValue"}
         \/ m.body_offset > m.body_size
         \/ m.body = "NullValue" /\ m.body_offset # m.body_size
    ELSE m.body # "Invocation"

\* deserializeRpcInvocation and deserializeRpcResult: when they throw.
BodyIsBad(m, type) ==
    \/ m.body_offset > m.body_size
    \/ IF type = "Response"
       THEN \/ m.body \notin {"Exception", "Value", "NullValue"}
            \/ m.body = "NullValue" /\ m.body_offset # m.body_size
       ELSE m.body # "Invocation"

\* MessageMetadata after decodeData.
FromBody(mm, m) ==
    IF mm.message_type = "Response"
    THEN [mm EXCEPT !.message_type = IF m.body = "Exception" THEN "Exception" ELSE @]
    ELSE [mm EXCEPT !.has_invocation = TRUE]

MetaTypeOf == [Request |-> "Request", Response |-> "Response", Oneway |-> "Oneway",
               Exception |-> "Error", HeartbeatRequest |-> "Heartbeat",
               HeartbeatResponse |-> "Heartbeat"]

\* toMetadata, with the length of the message that it copies.
ToMetadata(mm, body_size, length) ==
    [message_type |-> MetaTypeOf[mm.message_type],
     request_id |-> mm.request_id,
     response_status |-> IF mm.response_status \in {"none", "Ok"} THEN "Ok" ELSE "Error",
     has_invocation |-> mm.has_invocation,
     header_size |-> HeaderSize, body_size |-> body_size, origin_message |-> length]

NoMetadata == [message_type |-> "none"]
NoReply == [request_id |-> 0]

Init ==
    /\ pc = "idle" /\ result = "none"
    /\ decode_started = FALSE /\ state = "null"
    /\ metadata = NoMetadata /\ decoded = 0 /\ reply = NoReply
    /\ msg_metadata = NoMetadata /\ origin_message = 0
    /\ buffer = 0 /\ taken = 0 /\ front \in Messages

----------------------------------------------------------------------------
(* The state machine under decode().                                       *)

Run(s) == pc = "run" /\ state = s

Return(r) == pc' = "idle" /\ result' = r

NothingTaken == UNCHANGED <<decode_started, metadata, decoded, reply, state,
                            msg_metadata, origin_message, buffer, front, taken>>

HeaderIsGood == buffer >= HeaderSize /\ ~HeaderIsBad(front)

IsHeartbeat == HeaderType(front) \in Heartbeats

\* run() reaches Done: toMetadata() and complete().  The last n bytes of the message
\* leave the buffer; the peer's next message comes to the front.
Finish(mm, n) ==
    /\ Return("Done")
    /\ metadata' = ToMetadata(mm, front.body_size, origin_message + n)
    /\ decoded' = decoded + 1
    /\ decode_started' = FALSE /\ state' = "null"
    /\ msg_metadata' = NoMetadata /\ origin_message' = 0
    /\ buffer' = buffer - n
    /\ taken' = taken + n - (HeaderSize + front.body_size)
    /\ front' \in Messages
    /\ UNCHANGED reply

\* onDecodeStreamHeader, each way it ends.  The header is only peeked at: while the
\* rest of a heartbeat is missing, and after an exception, it is decoded again.
WaitForHeader ==
    /\ Run("OnDecodeStreamHeader") /\ buffer < HeaderSize
    /\ Return("WaitForData")
    /\ NothingTaken

ThrowBadHeader ==
    /\ Run("OnDecodeStreamHeader") /\ buffer >= HeaderSize /\ HeaderIsBad(front)
    /\ Return("BadMessage")
    /\ NothingTaken

WaitForHeartbeat ==
    /\ Run("OnDecodeStreamHeader") /\ HeaderIsGood /\ IsHeartbeat
    /\ buffer < HeaderSize + front.body_size
    /\ Return("WaitForData")
    /\ NothingTaken

\* Fault: a heartbeat is taken to be its header.
FinishHeartbeat_HeaderOnly ==
    /\ Run("OnDecodeStreamHeader") /\ HeaderIsGood /\ IsHeartbeat
    /\ buffer >= HeaderSize + front.body_size
    /\ Finish(FromHeader(front), HeaderSize)

FinishHeartbeat ==
    /\ Run("OnDecodeStreamHeader") /\ HeaderIsGood /\ IsHeartbeat
    /\ buffer >= HeaderSize + front.body_size
    /\ Finish(FromHeader(front), HeaderSize + front.body_size)

OnDecodeStreamHeader ==
    /\ Run("OnDecodeStreamHeader") /\ HeaderIsGood /\ ~IsHeartbeat
    /\ state' = "OnDecodeStreamData"
    /\ msg_metadata' = FromHeader(front)
    /\ origin_message' = origin_message + HeaderSize
    /\ buffer' = buffer - HeaderSize
    /\ taken' = taken + HeaderSize
    /\ UNCHANGED <<pc, result, decode_started, metadata, decoded, reply, front>>

\* onDecodeStreamData, each way it ends.
WaitForBody ==
    /\ Run("OnDecodeStreamData") /\ buffer < front.body_size
    /\ Return("WaitForData")
    /\ NothingTaken

\* Fault: the body is dropped before the exception.
ThrowBadBody_Drains ==
    /\ Run("OnDecodeStreamData") /\ buffer >= front.body_size
    /\ BodyIsBad(front, msg_metadata.message_type)
    /\ Return("BadMessage")
    /\ buffer' = buffer - front.body_size
    /\ taken' = taken + front.body_size
    /\ UNCHANGED <<decode_started, metadata, decoded, reply, state, msg_metadata,
                   origin_message, front>>

ThrowBadBody ==
    /\ Run("OnDecodeStreamData") /\ buffer >= front.body_size
    /\ BodyIsBad(front, msg_metadata.message_type)
    /\ Return("BadMessage")
    /\ NothingTaken

\* Fault: the body is decoded before it has come.
OnDecodeStreamData_Early ==
    /\ Run("OnDecodeStreamData")
    /\ ~BodyIsBad(front, msg_metadata.message_type)
    /\ Finish(FromBody(msg_metadata, front), front.body_size)

OnDecodeStreamData ==
    /\ Run("OnDecodeStreamData") /\ buffer >= front.body_size
    /\ ~BodyIsBad(front, msg_metadata.message_type)
    /\ Finish(FromBody(msg_metadata, front), front.body_size)

----------------------------------------------------------------------------
(* The calls of the codec.                                                 *)

\* decode() begins, with start() if the message is new.
Decode ==
    /\ pc = "idle" /\ decoded < MaxMessages
    /\ pc' = "run"
    /\ decode_started' = TRUE
    /\ state' = IF decode_started THEN state ELSE "OnDecodeStreamHeader"
    /\ UNCHANGED <<result, metadata, decoded, reply, msg_metadata, origin_message,
                   buffer, front, taken>>

\* Fault: the flag is written with MessageTypeMask set.
Encode_AsRequest(event, status, body, body_offset, body_size) ==
    /\ pc = "idle" /\ metadata # NoMetadata
    /\ reply' = [magic |-> TRUE, request |-> TRUE, event |-> event, two_way |-> FALSE,
                 serialization |-> "Hessian2", status |-> status,
                 request_id |-> metadata.request_id,
                 body_size |-> body_size, body |-> body, body_offset |-> body_offset]
    /\ UNCHANGED <<pc, result, decode_started, metadata, decoded, state, msg_metadata,
                   origin_message, buffer, front, taken>>

\* DubboProtocolImpl::encode: both cases answer the message decoded last.
Encode(event, status, body, body_offset, body_size) ==
    /\ pc = "idle" /\ metadata # NoMetadata
    /\ reply' = [magic |-> TRUE, request |-> FALSE, event |-> event, two_way |-> FALSE,
                 serialization |-> "Hessian2", status |-> status,
                 request_id |-> metadata.request_id,
                 body_size |-> body_size, body |-> body, body_offset |-> body_offset]
    /\ UNCHANGED <<pc, result, decode_started, metadata, decoded, state, msg_metadata,
                   origin_message, buffer, front, taken>>

EncodeHeartbeat ==
    /\ metadata.message_type = "Heartbeat"
    /\ Encode(TRUE, "Ok", "Unreadable", 0, 0)

StatusOf == [RouteNotFound |-> "ServiceNotFound", BadResponse |-> "BadResponse",
             ClusterNotFound |-> "ServerError", NoHealthyUpstream |-> "ServerError",
             Unspecified |-> "ServerError"]

\* The router and the message answer requests, also one-way requests.  The body is the
\* type of the result and a text: one byte and more than none.
OnError ==
    /\ metadata.message_type \in {"Request", "Oneway"}
    /\ \E error \in DOMAIN StatusOf : Encode(FALSE, StatusOf[error], "Exception", 1, 2)

\* More bytes have come.
Receive ==
    /\ pc = "idle" /\ buffer < MaxBuffer
    /\ buffer' = buffer + 1
    /\ UNCHANGED <<pc, result, decode_started, metadata, decoded, reply, state,
                   msg_metadata, origin_message, front, taken>>

Next ==
    \/ Decode
    \/ WaitForHeader \/ ThrowBadHeader \/ WaitForHeartbeat \/ FinishHeartbeat
    \/ OnDecodeStreamHeader
    \/ WaitForBody \/ ThrowBadBody \/ OnDecodeStreamData
    \/ EncodeHeartbeat \/ OnError
    \/ Receive

Spec == Init /\ [][Next]_vars

----------------------------------------------------------------------------
(* Properties.                                                             *)

MessageMetadata ==
    [message_type : MessageTypes, request_id : Nat, has_invocation : BOOLEAN,
     response_status : ResponseStatuses \cup {"none"}]

\* Every variable has its type; no more is moved out of the buffer than is in it.
TypeOK ==
    /\ pc \in {"idle", "run"}
    /\ result \in {"none", "WaitForData", "BadMessage", "Done"}
    /\ decode_started \in BOOLEAN
    /\ decoded \in Nat
    /\ state \in {"null", "OnDecodeStreamHeader", "OnDecodeStreamData"}
    /\ msg_metadata \in MessageMetadata \cup {NoMetadata}
    /\ origin_message \in Nat /\ buffer \in Nat /\ taken \in Nat
    /\ front \in Messages

\* decode() and the stream agree on where messages begin: a header is read from the
\* first byte of a message, a body from the byte behind its header, and the message
\* copied for the upstream begins at its beginning.
Aligned ==
    /\ origin_message = taken
    /\ taken = IF state = "OnDecodeStreamData" THEN HeaderSize ELSE 0

\* The state machine exists while a message is decoded, and knows its header while
\* the body is awaited.
MachineOK ==
    /\ decode_started <=> state # "null"
    /\ pc = "run" => decode_started
    /\ msg_metadata = IF state = "OnDecodeStreamData" THEN FromHeader(front) ELSE NoMetadata
    /\ state = "OnDecodeStreamData" => ~HeaderIsBad(front) /\ ~IsHeartbeat
    /\ result = "BadMessage" =>
         \/ state = "OnDecodeStreamHeader" /\ buffer >= HeaderSize /\ HeaderIsBad(front)
         \/ /\ state = "OnDecodeStreamData" /\ buffer >= front.body_size
            /\ BodyIsBad(front, msg_metadata.message_type)

IInv == TypeOK /\ Aligned /\ MachineOK

\* The Dubbo format: what a message is and what it means, whatever way it comes.
IsMessage(m) ==
    /\ m.magic /\ m.body_size \in 0..MaxBodySize
    /\ IF m.request THEN m.serialization = "Hessian2" ELSE m.status \in ValidStatuses
    /\ \/ m.event
       \/ /\ m.body_offset <= m.body_size
          /\ IF m.request THEN m.body = "Invocation"
             ELSE \/ m.body \in {"Exception", "Value"}
                  \/ m.body = "NullValue" /\ m.body_offset = m.body_size

MeaningType(m) ==
    CASE m.event -> "Heartbeat"
      [] ~m.event /\ m.request -> IF m.two_way THEN "Request" ELSE "Oneway"
      [] OTHER -> IF m.body = "Exception" THEN "Error" ELSE "Response"

Meaning(m) ==
    [message_type |-> MeaningType(m),
     request_id |-> m.request_id,
     response_status |-> IF m.request \/ m.status = "Ok" THEN "Ok" ELSE "Error",
     has_invocation |-> m.request /\ ~m.event,
     header_size |-> HeaderSize, body_size |-> m.body_size,
     origin_message |-> HeaderSize + m.body_size]

\* However the bytes are cut, decode() hands out each message with its meaning and
\* the whole of it for the upstream, and throws only for what is no message: the
\* deserializer, which may look past the body into the next message, is not misled.
DecodesMessages ==
    [][/\ decoded' # decoded => IsMessage(front) /\ metadata' = Meaning(front)
       /\ pc = "run" /\ result' = "BadMessage" => ~IsMessage(front)]_vars

\* decode() asks for more data only while the message is incomplete: the peer, which
\* has sent all of it, would wait for an answer and send no more.
NoNeedlessWait ==
    [][pc = "run" /\ pc' = "idle" /\ result' = "WaitForData" =>
         \/ taken + buffer < HeaderSize
         \/ taken + buffer < HeaderSize + front.body_size]_vars

\* decode() is right about each message, and says so as soon as the message is there.
DecodesPromptly == DecodesMessages /\ NoNeedlessWait

\* A message that has an error in it has it for ever, also when decode() is called
\* again: it never goes on behind the error.
ErrorSticks == [][result = "BadMessage" => result' = "BadMessage"]_vars

\* What the codec encodes is a message that a codec at the other end decodes: a
\* heartbeat is answered by a heartbeat, a request by an exception, with its id.
\* (Replies with ServerError are the exception; see ErrorRepliesDecode.)
RepliesDecode ==
    [][reply' # reply /\ reply'.status # "ServerError" =>
         /\ IsMessage(reply') /\ ~reply'.request
         /\ Meaning(reply').request_id = metadata.request_id
         /\ Meaning(reply').message_type =
              IF metadata.message_type = "Heartbeat" THEN "Heartbeat" ELSE "Error"]_vars
=============================================================================
