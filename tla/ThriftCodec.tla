---------------------------- MODULE ThriftCodec ----------------------------
(***************************************************************************)
(* ThriftCodec::decode and the DecoderStateMachine under it, for one       *)
(* stream of Thrift messages that arrives in pieces of any size, and       *)
(* onError, which encodes an exception.                                    *)
(*                                                                         *)
(* A token is what one read call of the Thrift protocol takes from the     *)
(* buffer, or one write call puts there.  Every read finds its token       *)
(* complete or returns false and takes nothing: then decode() returns      *)
(* WaitForData, and is called again when more bytes have come.  Which      *)
(* token the peer has sent is chosen when it is read.                      *)
(*                                                                         *)
(* The protocol and the transport are Envoy's; the code knows them by the  *)
(* interfaces in protocol.h and transport.h; which of its protocols Auto   *)
(* finds is left out.  All scalar types are one type, "Scalar"; "Other" is *)
(* every type that handleValue does not know.                              *)
(* passthrough_enabled_ is never set and frame_ended_ never seen TRUE, so  *)
(* PassthroughData and the continuation of an ended frame are left out.    *)
(***************************************************************************)
EXTENDS Integers, Sequences

CONSTANTS
    Headers,        \* the message types and sequence ids the peer sends
    SentTypes,      \* the types of the fields and elements it sends
    MaxSize,        \* bound: elements of a list, set or map
    MaxDepth,       \* bound: frames on the decoder's stack, to within two
    MaxTokens,      \* bound: tokens of a message after which the peer begins no
                    \* field and sends no container but empty ones
    MaxMessages     \* bound: messages decoded

MessageTypes == {"Call", "Reply", "Oneway", "Exception"}
ContainerTypes == {"Struct", "Map", "List", "Set"}
FieldTypes == ContainerTypes \cup {"Scalar", "Other"}

ASSUME ThriftAssumption ==
    /\ Headers \subseteq MessageTypes \X Nat
    /\ SentTypes \subseteq FieldTypes
    /\ MaxSize \in Nat /\ MaxDepth \in Nat
    /\ MaxTokens \in Nat /\ MaxMessages \in Nat

VARIABLES
    \* --- ThriftCodec
    pc,             \* "run": decode() is running; "idle": it is not
    result,         \* how the latest decode() ended
    frame_started,  \* frame_started_
    msg_metadata,   \* metadata_, what messageBegin read
    metadata,       \* the Metadata handed out with the latest message
    decoded,        \* messages decoded
    error_reply,    \* what onError has encoded last
    \* --- DecoderStateMachine
    state,          \* state_; "null": there is no state machine
    stack,          \* stack_
    origin_message, \* origin_message_, the tokens written
    \* --- the peer
    consumed        \* the tokens of the message read so far

codecVars == <<frame_started, metadata, decoded, error_reply>>
machineVars == <<state, stack, origin_message, consumed, msg_metadata>>
vars == <<pc, result, codecVars, machineVars>>

----------------------------------------------------------------------------
(* Types, frames and tokens.                                               *)

\* Lists and sets are decoded alike.
Sequentials == {"List", "Set"}

\* The states in which a value of the container begins, goes on and ends.
BeginOf == [Struct |-> "StructBegin", Map |-> "MapBegin",
            List |-> "ListBegin", Set |-> "SetBegin"]
ValueOf == [List |-> "ListValue", Set |-> "SetValue"]
EndOf   == [List |-> "ListEnd", Set |-> "SetEnd", Map |-> "MapEnd"]

States == {"null", "MessageBegin", "MessageEnd", "StructBegin", "StructEnd",
           "FieldBegin", "FieldValue", "FieldEnd", "MapBegin", "MapKey", "MapValue",
           "MapEnd", "ListBegin", "ListValue", "ListEnd", "SetBegin", "SetValue",
           "SetEnd", "Done"}

\* A field type that Frame's constructor leaves at its default.
NoType == "none"

Frame(return_state, elem_type, value_type, remaining) ==
    [return_state |-> return_state, elem_type |-> elem_type,
     value_type |-> value_type, remaining |-> remaining]

ReturnFrame(return_state) == Frame(return_state, NoType, NoType, 0)

Top == stack[Len(stack)]
Pop == SubSeq(stack, 1, Len(stack) - 1)

\* toMetadata's translation of the message type.
MetaTypeOf == [Call |-> "Request", Reply |-> "Response",
               Oneway |-> "Oneway", Exception |-> "Error"]

NoMetadata == [message_type |-> "none", request_id |-> 0]

StopField == <<"FieldBegin", "Stop">>

----------------------------------------------------------------------------
(* Initially the codec has seen nothing.                                   *)

Init ==
    /\ pc = "idle" /\ result = "none"
    /\ frame_started = FALSE
    /\ msg_metadata = NoMetadata /\ metadata = NoMetadata
    /\ decoded = 0 /\ error_reply = <<>>
    /\ state = "null" /\ stack = <<>>
    /\ origin_message = <<>> /\ consumed = <<>>

----------------------------------------------------------------------------
(* The state machine.  Each action is one handler that did not run out of  *)
(* data; RunOutOfData is every handler that did.                           *)

In(s) == pc = "run" /\ state = s

Read(token) == consumed' = Append(consumed, token)

Write(token) == origin_message' = Append(origin_message, token)

Forward(token) == Read(token) /\ Write(token)

\* The bounds: the types the peer may send now, and the sizes of containers.
TypesNow == IF Len(stack) + 2 <= MaxDepth THEN SentTypes ELSE SentTypes \ ContainerTypes
SizesNow == IF Len(consumed) < MaxTokens THEN 0..MaxSize ELSE {0}

Goto(s) == state' = s /\ UNCHANGED <<pc, result, codecVars>>

MessageBegin ==
    /\ In("MessageBegin")
    /\ \E h \in Headers :
         /\ Forward(<<"MessageBegin", h[1], h[2]>>)
         /\ msg_metadata' = [message_type |-> h[1], request_id |-> h[2]]
    /\ stack' = <<ReturnFrame("MessageEnd")>>
    /\ Goto("StructBegin")

MessageEnd ==
    /\ In("MessageEnd")
    /\ Forward(<<"MessageEnd">>)
    /\ Goto("Done")
    /\ UNCHANGED <<stack, msg_metadata>>

StructBegin ==
    /\ In("StructBegin")
    /\ Forward(<<"StructBegin">>)
    /\ Goto("FieldBegin")
    /\ UNCHANGED <<stack, msg_metadata>>

\* The stop field, read in FieldBegin, is only written here.
StructEnd ==
    /\ In("StructEnd")
    /\ Read(<<"StructEnd">>)
    /\ origin_message' = Append(Append(origin_message, StopField), <<"StructEnd">>)
    /\ Goto(Top.return_state)
    /\ stack' = Pop
    /\ UNCHANGED msg_metadata

FieldBegin ==
    /\ In("FieldBegin")
    /\ UNCHANGED msg_metadata
    /\ \/ /\ Read(StopField)
          /\ Goto("StructEnd")
          /\ UNCHANGED <<stack, origin_message>>
       \/ \E type \in TypesNow :
            /\ Len(consumed) < MaxTokens
            /\ Forward(<<"FieldBegin", type>>)
            /\ stack' = Append(stack, Frame("FieldEnd", type, NoType, 0))
            /\ Goto("FieldValue")

\* handleValue for a type it knows: a scalar is read, a container is entered.
\* below is the stack the value lies on.
HandleValue(type, return_state, below) ==
    /\ UNCHANGED msg_metadata
    /\ \/ /\ type = "Scalar"
          /\ Forward(<<"Value">>)
          /\ Goto(return_state)
          /\ stack' = below
       \/ /\ type \in ContainerTypes
          /\ Goto(BeginOf[type])
          /\ stack' = Append(below, ReturnFrame(return_state))
          /\ UNCHANGED <<origin_message, consumed>>

FieldValue ==
    /\ In("FieldValue")
    /\ HandleValue(Top.elem_type, Top.return_state, stack)

\* Fault: fieldEnd leaves the frame of the field on the stack.
FieldEnd_NoPop ==
    /\ In("FieldEnd")
    /\ Forward(<<"FieldEnd">>)
    /\ Goto("FieldBegin")
    /\ UNCHANGED <<stack, msg_metadata>>

FieldEnd ==
    /\ In("FieldEnd")
    /\ Forward(<<"FieldEnd">>)
    /\ Goto("FieldBegin")
    /\ stack' = Pop
    /\ UNCHANGED msg_metadata

\* Fault: at the end of a container the value state is entered again.
LeaveContainer_Stays ==
    /\ Top.remaining = 0
    /\ Goto(state)
    /\ UNCHANGED <<stack, origin_message, consumed, msg_metadata>>

\* The value state at the end of a container: nothing is read.
LeaveContainer ==
    /\ Top.remaining = 0
    /\ Goto(Top.return_state)
    /\ stack' = Pop
    /\ UNCHANGED <<origin_message, consumed, msg_metadata>>

\* The stack after one element of the container on top has been counted.
OneLess == [stack EXCEPT ![Len(stack)].remaining = @ - 1]

\* listBegin and setBegin.
SequentialBegin(c) ==
    /\ In(BeginOf[c])
    /\ \E type \in TypesNow, size \in SizesNow :
         /\ Forward(<<BeginOf[c], type, size>>)
         /\ stack' = Append(stack, Frame(EndOf[c], type, NoType, size))
    /\ Goto(ValueOf[c])
    /\ UNCHANGED msg_metadata

\* listValue and setValue.
SequentialValue(c) ==
    /\ In(ValueOf[c])
    /\ \/ LeaveContainer
       \/ /\ Top.remaining # 0
          /\ HandleValue(Top.elem_type, ValueOf[c], OneLess)

\* listEnd, setEnd and mapEnd.
ContainerEnd(c) ==
    /\ In(EndOf[c])
    /\ Forward(<<EndOf[c]>>)
    /\ Goto(Top.return_state)
    /\ stack' = Pop
    /\ UNCHANGED msg_metadata

MapBegin ==
    /\ In("MapBegin")
    /\ \E key \in TypesNow, value \in TypesNow, size \in SizesNow :
         /\ Forward(<<"MapBegin", key, value, size>>)
         /\ stack' = Append(stack, Frame("MapEnd", key, value, size))
    /\ Goto("MapKey")
    /\ UNCHANGED msg_metadata

\* Fault: the entry is counted with its key as well as with its value.
MapKey_Counts ==
    /\ In("MapKey")
    /\ \/ LeaveContainer
       \/ /\ Top.remaining # 0
          /\ HandleValue(Top.elem_type, "MapValue", OneLess)

MapKey ==
    /\ In("MapKey")
    /\ \/ LeaveContainer
       \/ /\ Top.remaining # 0
          /\ HandleValue(Top.elem_type, "MapValue", stack)

MapValue ==
    /\ In("MapValue")
    /\ HandleValue(Top.value_type, "MapKey", OneLess)

----------------------------------------------------------------------------
(* How decode() ends.                                                      *)

Return(r) == pc' = "idle" /\ result' = r

\* The type handleValue is called with next; NoType if it is not called.
NextValueType ==
    CASE state = "FieldValue" -> Top.elem_type
      [] state \in {"ListValue", "SetValue", "MapKey"} /\ Top.remaining # 0 -> Top.elem_type
      [] state = "MapValue" -> Top.value_type
      [] OTHER -> NoType

ValueStates == {"FieldValue", "ListValue", "SetValue", "MapKey", "MapValue"}

\* Does the next handler read from the buffer?
ReadsNext ==
    IF state \in ValueStates THEN NextValueType = "Scalar" ELSE state # "null"

\* Fault: listValue and setValue count an element that has not come yet.
RunOutOfData_Counts ==
    /\ pc = "run" /\ ReadsNext
    /\ Return("WaitForData")
    /\ stack' = IF state \in {"ListValue", "SetValue"} THEN OneLess ELSE stack
    /\ UNCHANGED <<codecVars, state, origin_message, consumed, msg_metadata>>

\* A handler, or decodeFrameEnd, needs more data: nothing has been changed.
RunOutOfData ==
    /\ pc = "run" /\ ReadsNext
    /\ Return("WaitForData")
    /\ UNCHANGED <<codecVars, machineVars>>

\* handleValue throws: the exception leaves decode() without a trace.
ThrowUnknownType ==
    /\ pc = "run" /\ NextValueType = "Other"
    /\ Return("BadMessage")
    /\ UNCHANGED <<codecVars, machineVars>>

\* The message and its frame are complete: toMetadata() and complete().
DecodeFrameEnd ==
    /\ In("Done")
    /\ Return("Done")
    /\ metadata' = [message_type |-> MetaTypeOf[msg_metadata.message_type],
                    request_id |-> msg_metadata.request_id]
    /\ decoded' = decoded + 1
    /\ frame_started' = FALSE
    /\ msg_metadata' = NoMetadata
    /\ state' = "null" /\ stack' = <<>>
    /\ origin_message' = <<>> /\ consumed' = <<>>
    /\ UNCHANGED error_reply

----------------------------------------------------------------------------
(* How decode() begins, and onError.                                       *)

\* A message has begun: its state machine goes on where it stopped.
DecodeResume ==
    /\ pc = "idle" /\ frame_started
    /\ pc' = "run"
    /\ UNCHANGED <<result, codecVars, machineVars>>

\* Fault: decode() starts a frame whether or not one has been started.
DecodeFrameStart_Always ==
    /\ pc = "idle" /\ decoded < MaxMessages
    /\ pc' = "run"
    /\ frame_started' = TRUE
    /\ state' = "MessageBegin" /\ stack' = <<>> /\ origin_message' = <<>>
    /\ UNCHANGED <<result, metadata, decoded, error_reply, consumed, msg_metadata>>

\* decodeFrameStart finds the start of a frame.
DecodeFrameStart ==
    /\ pc = "idle" /\ ~frame_started /\ decoded < MaxMessages
    /\ pc' = "run"
    /\ frame_started' = TRUE
    /\ state' = "MessageBegin" /\ stack' = <<>> /\ origin_message' = <<>>
    /\ UNCHANGED <<result, metadata, decoded, error_reply, consumed, msg_metadata>>

\* decodeFrameStart needs more data; or it reports a protocol other than the one
\* in use, or an AppException.
DecodeFrameStartFails ==
    /\ pc = "idle" /\ ~frame_started /\ decoded < MaxMessages
    /\ result' \in {"WaitForData", "BadFrame"}
    /\ UNCHANGED <<pc, codecVars, machineVars>>

\* A TApplicationException: its message, a string, and its type, an I32.
ErrorMessage(sequence_id) ==
    << <<"MessageBegin", "Exception", sequence_id>>, <<"StructBegin">>,
       <<"FieldBegin", "Scalar">>, <<"Value">>, <<"FieldEnd">>,
       <<"FieldBegin", "Scalar">>, <<"Value">>, <<"FieldEnd">>,
       StopField, <<"StructEnd">>, <<"MessageEnd">> >>

\* toMsgMetadata copies the method name and nothing else, so hasSequenceId() is
\* false and the sequence id becomes 0.
OnError ==
    /\ pc = "idle" /\ metadata # NoMetadata
    /\ error_reply' = ErrorMessage(0)
    /\ UNCHANGED <<pc, result, frame_started, metadata, decoded, machineVars>>

----------------------------------------------------------------------------
(* The codec.                                                              *)

Handle ==
    \/ MessageBegin \/ MessageEnd
    \/ StructBegin \/ StructEnd
    \/ FieldBegin \/ FieldValue \/ FieldEnd
    \/ \E c \in Sequentials : SequentialBegin(c) \/ SequentialValue(c)
    \/ \E c \in Sequentials \cup {"Map"} : ContainerEnd(c)
    \/ MapBegin \/ MapKey \/ MapValue

Run == Handle \/ RunOutOfData \/ ThrowUnknownType \/ DecodeFrameEnd

Next ==
    \/ Run
    \/ DecodeResume \/ DecodeFrameStart \/ DecodeFrameStartFails
    \/ OnError

Spec == Init /\ [][Next]_vars

\* decode() runs on one thread and never blocks, so once called it goes on.
FairSpec == Spec /\ WF_vars(Run)

----------------------------------------------------------------------------
(* Properties.                                                             *)

Frames == [return_state : States, elem_type : FieldTypes \cup {NoType},
           value_type : FieldTypes \cup {NoType}, remaining : Nat]

\* Every variable has its type.
TypeOK ==
    /\ pc \in {"idle", "run"}
    /\ result \in {"none", "WaitForData", "BadFrame", "BadMessage", "Done"}
    /\ frame_started \in BOOLEAN
    /\ msg_metadata \in [message_type : MessageTypes \cup {"none"}, request_id : Nat]
    /\ metadata \in [message_type : {"none", "Request", "Response", "Oneway", "Error"},
                     request_id : Nat]
    /\ decoded \in Nat
    /\ state \in States
    /\ stack \in Seq(Frames)

IsReturnFrame(f) == f.elem_type = NoType
IsFieldFrame(f) == f.return_state = "FieldEnd" /\ f.elem_type # NoType
IsContainerFrame(f, c) == f.return_state = EndOf[c] /\ f.elem_type # NoType

\* What lies on top of the stack when a value returns to return_state.
ReturnsOnto(f, return_state) ==
    CASE return_state = "FieldEnd"  -> IsFieldFrame(f)
      [] return_state = "ListValue" -> IsContainerFrame(f, "List")
      [] return_state = "SetValue"  -> IsContainerFrame(f, "Set")
      [] return_state = "MapKey"    -> IsContainerFrame(f, "Map") /\ f.value_type # NoType
      [] return_state = "MapValue"  -> /\ IsContainerFrame(f, "Map") /\ f.value_type # NoType
                                       /\ f.remaining # 0
      [] OTHER -> FALSE

ValueReturns == {"FieldEnd", "ListValue", "SetValue", "MapKey", "MapValue"}

\* The frames nest: at the bottom the message's struct; a value's frame lies on the
\* frame of what holds it, and a field's or a container's on the frame of the struct
\* or value that it belongs to.
Nested(s) ==
    /\ s # <<>> => IsReturnFrame(s[1]) /\ s[1].return_state = "MessageEnd"
    /\ \A i \in 2..Len(s) :
         IF IsReturnFrame(s[i])
         THEN s[i].return_state \in ValueReturns /\ ReturnsOnto(s[i-1], s[i].return_state)
         ELSE IsReturnFrame(s[i-1])

\* The states without a frame, and those between the frames of a value.
RootStates == {"null", "MessageBegin", "MessageEnd", "Done"}
StructStates == {"StructBegin", "StructEnd", "FieldBegin", "MapBegin", "ListBegin",
                 "SetBegin", "ListEnd", "SetEnd", "MapEnd"}

\* The state agrees with the top of the stack: every handler finds the frame it
\* expects.
Matches(s, st) ==
    CASE st \in RootStates   -> s = <<>>
      [] st \in StructStates -> s # <<>> /\ IsReturnFrame(s[Len(s)])
      [] st = "FieldValue"   -> s # <<>> /\ IsFieldFrame(s[Len(s)])
      [] OTHER               -> s # <<>> /\ ReturnsOnto(s[Len(s)], st)

\* DecoderStateMachine keeps its stack and its state in step, however deeply values
\* nest: thrift_codec.cc's ASSERTs on stack_ and remaining_ never fail (the stack is
\* not empty when a handler uses it, mapValue finds no exhausted map), and fieldEnd pops
\* the frame of its own field.
StackDiscipline == Nested(stack) /\ Matches(stack, state)

\* origin_message_ is what has been read, token by token, so what is forwarded is the
\* message that came.  Only between FieldBegin and StructEnd is the stop field, read
\* already, not yet written.
OriginIsRead ==
    consumed = IF state = "StructEnd" THEN Append(origin_message, StopField)
               ELSE origin_message

\* Wherever a message is cut, what is kept of it fits: the place in it (the stack) and
\* the part that has been read (the buffer to forward).
PlaceIsKept == StackDiscipline /\ OriginIsRead

\* The flags of the codec agree with its state machine, and the header of the message
\* is known once its struct is being read.
MachineOK ==
    /\ frame_started <=> state # "null"
    /\ pc = "run" => frame_started
    /\ state = "null" => consumed = <<>>
    /\ state \notin {"null", "MessageBegin"} => msg_metadata.message_type # "none"
    /\ result = "BadMessage" => frame_started /\ NextValueType = "Other"

\* What the proofs need to hold together.
IInv == TypeOK /\ StackDiscipline /\ MachineOK /\ OriginIsRead

\* A message that has an error in it has it for ever: decode() throws again each time
\* it is called and never takes the rest of the message for a new one.  (The
\* ConnectionManager may call it again while the connection closes.)
ErrorSticks ==
    [][result = "BadMessage" => result' = "BadMessage"]_vars

\* run() does not loop without reading: every call of decode() returns.
DecodeReturns == (pc = "run") ~> (pc = "idle")
=============================================================================
