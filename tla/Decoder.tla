------------------------------ MODULE Decoder ------------------------------
(***************************************************************************)
(* Decoder: from the bytes of a client to the messages of its connection   *)
(* (ConnectionManager's request_buffer_ and dispatch(), DecoderBase and    *)
(* its DecoderStateMachine).                                               *)
(*                                                                         *)
(* The stream is a sequence of frames of any size, cut into reads anywhere *)
(* and decoded by a codec of which nothing is assumed but what codec.h     *)
(* says, and that both codecs of the repository use: it may take a part of *)
(* a frame from the buffer and wait for the rest.                          *)
(*                                                                         *)
(* Two callbacks enter dispatch(): a read, and the pool's answer to a      *)
(* message that waits for a connection.  The second can come after the     *)
(* connection has been closed, as long as the message is not deleted, and  *)
(* finds the decoder as the exception or the read before left it.          *)
(***************************************************************************)
EXTENDS Integers, Sequences

CONSTANTS
    MaxFrames,      \* bound: frames of the stream
    MaxSize         \* bound: bytes of a frame

ASSUME DecoderAssumption == MaxFrames \in Nat \ {0} /\ MaxSize \in Nat \ {0}

Frames == 1..MaxFrames
Kinds == {"Message", "Heartbeat", "Bad", "BadStart"}
Valid == {"Message", "Heartbeat"}

VARIABLES
    \* --- the stream of the client; it does not change
    kinds,              \* what the frames are
    ends,               \* ends[i]: the bytes up to the end of frame i
    \* --- ConnectionManager
    arrived,            \* bytes moved to request_buffer_
    open,               \* connection().state() is Open
    waiting,            \* messages the pool may still call back for
    request_decoding_error,
    pc,                 \* where dispatch() is; "idle": it is not running
    \* --- DecoderBase and DecoderStateMachine
    decode_started,
    state,              \* state_ of state_machine_; "null": there is none
    stream,             \* stream_: the frame it was made of, or null
    \* --- the codec
    taken,              \* bytes it has taken from request_buffer_
    frame,              \* the frame it reads
    error,              \* "none"; or "kept" or "taken", what it has thrown at
    \* --- history
    delivered,          \* frames handed over: a new stream or a heartbeat
    strays              \* messages found behind a taken error

theStream == <<kinds, ends>>
decoderVars == <<decode_started, state, stream>>
codecVars == <<taken, frame, error>>
history == <<delivered, strays>>
vars == <<theStream, arrived, open, waiting, request_decoding_error, pc, decoderVars,
          codecVars, history>>

null == 0
Stray == MaxFrames + 1

\* request_buffer_.length()
Buffered == arrived - taken

----------------------------------------------------------------------------
Init ==
    /\ kinds \in [Frames -> Kinds]
    /\ ends \in [0..MaxFrames -> 0..MaxFrames * MaxSize]
    /\ ends[0] = 0
    /\ \A i \in Frames : ends[i] \in ends[i - 1] + 1..ends[i - 1] + MaxSize
    /\ arrived = 0 /\ open = TRUE /\ waiting = 0 /\ request_decoding_error = 0
    /\ pc = "idle"
    /\ decode_started = FALSE /\ state = "null" /\ stream = null
    /\ taken = 0 /\ frame = 1 /\ error = "none"
    /\ delivered = <<>> /\ strays = 0

----------------------------------------------------------------------------
(* The callbacks that enter dispatch(), and the end of the connection.     *)

\* dispatch() has nothing to do for an empty buffer; stopped_ is never set.
EnterDispatch(length) == pc' = IF length = 0 THEN "idle" ELSE "onData"

\* Fault: the data of the read replace what is left in the buffer.
OnData_Assigns(n) ==
    /\ pc = "idle" /\ open
    /\ arrived + n <= ends[MaxFrames]
    /\ arrived' = n
    /\ EnterDispatch(arrived' - taken)
    /\ UNCHANGED <<theStream, open, waiting, request_decoding_error, decoderVars, codecVars,
                   history>>

\* ConnectionManager::onData: n bytes are read.
OnData(n) ==
    /\ pc = "idle" /\ open
    /\ arrived + n <= ends[MaxFrames]
    /\ arrived' = arrived + n
    /\ EnterDispatch(arrived' - taken)
    /\ UNCHANGED <<theStream, open, waiting, request_decoding_error, decoderVars, codecVars,
                   history>>

\* ConnectionManager::continueDecoding, for a message that has waited.
ContinueDecoding ==
    /\ pc = "idle" /\ waiting > 0
    /\ waiting' = waiting - 1
    /\ EnterDispatch(Buffered)
    /\ UNCHANGED <<theStream, arrived, open, request_decoding_error, decoderVars, codecVars,
                   history>>

\* The client has gone, or has ended its side.
Close ==
    /\ pc = "idle" /\ open
    /\ open' = FALSE
    /\ UNCHANGED <<theStream, arrived, waiting, request_decoding_error, pc, decoderVars,
                   codecVars, history>>

\* The dispatcher deletes the messages of a closed connection.
DeferredDelete ==
    /\ pc = "idle" /\ ~open /\ waiting > 0
    /\ waiting' = 0
    /\ UNCHANGED <<theStream, arrived, open, request_decoding_error, pc, decoderVars,
                   codecVars, history>>

----------------------------------------------------------------------------
(* DecoderBase::onData, called until there is an underflow.                *)

\* start(), unless a message has been started.
Start ==
    /\ pc = "onData"
    /\ pc' = "run"
    /\ decode_started' = TRUE
    /\ state' = IF decode_started THEN state ELSE "OnDecodeStreamData"
    /\ UNCHANGED <<theStream, arrived, open, waiting, request_decoding_error, stream,
                   codecVars, history>>

\* The frame under the codec has arrived.
Whole == frame \in Frames /\ ends[frame] <= arrived

\* Some of it has.
Begun == frame \in Frames /\ ends[frame - 1] < arrived

\* decode() returns WaitForData, and has taken what it likes of the frame.
DecodeWaits ==
    /\ pc = "run" /\ error # "kept"
    /\ error = "none" => ~Whole
    /\ taken' \in taken..arrived
    /\ state' = "WaitForData"
    /\ pc' = "idle"
    /\ UNCHANGED <<theStream, arrived, open, waiting, request_decoding_error,
                   decode_started, stream, frame, error, history>>

\* decode() returns Done.
TakeFrame(types) ==
    /\ pc = "run" /\ error = "none"
    /\ Whole /\ kinds[frame] \in types
    /\ taken' = ends[frame]
    /\ frame' = frame + 1
    /\ UNCHANGED <<theStream, arrived, request_decoding_error, decode_started, error>>

\* Fault: a heartbeat is answered, and then taken for a message.
DecodeHeartbeat_FallsThrough ==
    /\ TakeFrame({"Heartbeat"})
    /\ delivered' = Append(delivered, frame)
    /\ stream' = frame
    /\ pc' = "onStreamDecoded"
    /\ UNCHANGED <<open, waiting, state, strays>>

\* onHeartbeat: the delegate answers it.
DecodeHeartbeat ==
    /\ TakeFrame({"Heartbeat"})
    /\ delivered' = Append(delivered, frame)
    /\ state' = "Done" /\ pc' = "complete"
    /\ UNCHANGED <<open, waiting, stream, strays>>

\* newStream
DecodeMessage ==
    /\ TakeFrame({"Message"})
    /\ stream' = frame
    /\ pc' = "onStreamDecoded"
    /\ UNCHANGED <<open, waiting, state, history>>

\* Bytes behind a taken error that happen to be a message.
DecodeStray ==
    /\ pc = "run" /\ error = "taken"
    /\ taken' \in taken + 1..arrived
    /\ stream' = Stray
    /\ pc' = "onStreamDecoded"
    /\ UNCHANGED <<theStream, arrived, open, waiting, request_decoding_error,
                   decode_started, state, frame, error, history>>

\* The filters get the message: it may wait for the pool, and a filter may close
\* the connection (sendLocalReply with end_stream, resetDownstreamConnection).
OnStreamDecoded ==
    /\ pc = "onStreamDecoded"
    /\ IF stream = Stray
       THEN strays' = strays + 1 /\ UNCHANGED delivered
       ELSE delivered' = Append(delivered, stream) /\ UNCHANGED strays
    /\ waiting' \in {waiting, waiting + 1}
    /\ open' \in {open, FALSE}
    /\ state' = "Done" /\ pc' = "complete"
    /\ UNCHANGED <<theStream, arrived, request_decoding_error, decode_started, stream,
                   codecVars>>

\* Fault: complete() does not clear decode_started_.
Complete_StaysStarted ==
    /\ pc = "complete"
    /\ state' = "null" /\ stream' = null /\ UNCHANGED decode_started
    /\ pc' = IF Buffered = 0 THEN "idle" ELSE "onData"
    /\ UNCHANGED <<theStream, arrived, open, waiting, request_decoding_error, codecVars,
                   history>>

\* Fault: an underflow is reported after each message.
Complete_OnceARead ==
    /\ pc = "complete"
    /\ state' = "null" /\ stream' = null /\ decode_started' = FALSE
    /\ pc' = "idle"
    /\ UNCHANGED <<theStream, arrived, open, waiting, request_decoding_error, codecVars,
                   history>>

\* complete(), and the underflow that ends the loop of dispatch().
Complete ==
    /\ pc = "complete"
    /\ state' = "null" /\ stream' = null /\ decode_started' = FALSE
    /\ pc' = IF Buffered = 0 THEN "idle" ELSE "onData"
    /\ UNCHANGED <<theStream, arrived, open, waiting, request_decoding_error, codecVars,
                   history>>

----------------------------------------------------------------------------
(* decode() throws.  dispatch() closes the connection and counts the       *)
(* error; the decoder stays as it is.                                      *)

Throw ==
    /\ pc = "run"
    /\ open' = FALSE
    /\ request_decoding_error' = request_decoding_error + 1
    /\ pc' = "idle"
    /\ UNCHANGED <<theStream, arrived, waiting, decoderVars, frame, history>>

\* The error is found as soon as the codec has seen enough of the frame, and
\* again whenever it is asked.
ThrowAndKeep ==
    /\ Throw
    /\ \/ error = "none" /\ Begun /\ kinds[frame] = "Bad"
       \/ error = "kept"
    /\ error' = "kept"
    /\ taken' \in taken..arrived /\ taken' <= ends[frame]

\* The codec throws with the start of the frame taken, or at what it reads there.
ThrowAndTake ==
    /\ Throw
    /\ \/ error = "none" /\ Begun /\ kinds[frame] = "BadStart"
       \/ error = "taken"
    /\ error' = "taken"
    /\ taken' \in taken..arrived

----------------------------------------------------------------------------
DecodeStep ==
    \/ Start
    \/ DecodeWaits \/ DecodeHeartbeat \/ DecodeMessage \/ DecodeStray
    \/ ThrowAndKeep \/ ThrowAndTake
    \/ OnStreamDecoded
    \/ Complete

Next ==
    \/ \E n \in 0..ends[MaxFrames] : OnData(n)
    \/ ContinueDecoding
    \/ Close
    \/ DeferredDelete
    \/ DecodeStep

Spec == Init /\ [][Next]_vars

\* A callback that has begun runs on: no other event of the thread comes between.
FairSpec == Spec /\ WF_vars(DecodeStep)

----------------------------------------------------------------------------
(* Properties.                                                             *)

\* The type invariant; no more is taken from the buffer than was put there.
TypeOK ==
    /\ kinds \in [Frames -> Kinds]
    /\ ends \in [0..MaxFrames -> Nat]
    /\ arrived \in 0..ends[MaxFrames] /\ taken \in 0..arrived
    /\ open \in BOOLEAN
    /\ waiting \in Nat /\ request_decoding_error \in Nat
    /\ pc \in {"idle", "onData", "run", "onStreamDecoded", "complete"}
    /\ decode_started \in BOOLEAN
    /\ state \in {"null", "OnDecodeStreamData", "WaitForData", "Done"}
    /\ stream \in {null, Stray} \cup Frames
    /\ frame \in 1..MaxFrames + 1
    /\ error \in {"none", "kept", "taken"}
    /\ delivered \in Seq(Frames) /\ strays \in Nat

\* What the code asserts: onData runs a machine that exists and is not done, also
\* after an exception or a wait has left it; newStream finds no other stream; and
\* a message that is handed over has its stream.
AssertsHold ==
    /\ pc = "run" => state \notin {"null", "Done"} /\ stream = null
    /\ pc = "onStreamDecoded" => stream # null
    /\ pc \in {"idle", "onData"} /\ decode_started => state \notin {"null", "Done"}

\* Between events no whole frame is left in the buffer, unless it lies behind an
\* error: no event would come to decode it.
NothingHeldBack == pc = "idle" /\ error = "none" => ~Whole
=============================================================================
