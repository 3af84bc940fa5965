--------------------------- MODULE Decoder_proofs ---------------------------
(***************************************************************************)
(* Decoder for every number and size of frames: the inductive invariant,   *)
(* the safety invariants, and the safety part of the refinement of         *)
(* FrameStream.                                                            *)
(***************************************************************************)
EXTENDS MCDecoder, TLAPS

\* The frames follow each other and have at least one byte.
StreamInv ==
    /\ ends[0] = 0
    /\ \A i \in Frames : ends[i - 1] < ends[i]

\* Without an error the codec is inside the frame it reads.
Inside ==
    error = "none" =>
        /\ ends[frame - 1] <= taken
        /\ frame \in Frames => taken < ends[frame]

\* What the codec has thrown at is the frame it reads, for good.
ErrorInv ==
    /\ error = "kept" => frame \in Frames /\ kinds[frame] = "Bad"
    /\ error = "taken" => frame \in Frames /\ kinds[frame] = "BadStart"

\* The stream exists while a message is handed over, and no longer.
StreamOfMessage ==
    /\ pc \in {"idle", "onData", "run"} => stream = null
    /\ pc = "onStreamDecoded" => stream # null
    /\ stream = Stray => error = "taken"
    /\ pc = "onStreamDecoded" /\ stream \in Frames =>
          /\ error = "none" /\ stream = frame - 1
          /\ kinds[stream] = "Message" /\ ends[stream] <= arrived

\* The frames before the one the codec reads are delivered, but for the one whose
\* filters are about to run.
Delivered ==
    Len(delivered) =
        IF pc = "onStreamDecoded" /\ stream \in Frames THEN frame - 2 ELSE frame - 1

\* The machine: it exists while decode_started_, and is done only in complete().
MachineInv ==
    /\ pc \in {"run", "onStreamDecoded", "complete"} => decode_started
    /\ pc = "complete" <=> state = "Done"
    /\ decode_started => state # "null"

DecoderInv ==
    /\ TypeOK
    /\ StreamInv
    /\ Inside
    /\ ErrorInv
    /\ StreamOfMessage
    /\ Delivered
    /\ MachineInv
    /\ NothingHeldBack

----------------------------------------------------------------------------
\* Before the first read nothing is decoded and nothing can be.
LEMMA InitInv == Init => DecoderInv
<1>. SUFFICES ASSUME Init PROVE DecoderInv
  OBVIOUS
<1>1. TypeOK
  <2>1. ends \in [0..MaxFrames -> Nat]
    BY DecoderAssumption DEF Init
  <2>2. MaxFrames \in 0..MaxFrames /\ ends[MaxFrames] \in Nat
    BY <2>1, DecoderAssumption
  <2>3. arrived \in 0..ends[MaxFrames] /\ taken \in 0..arrived
    BY <2>2 DEF Init
  <2>4. stream \in {null, Stray} \cup Frames /\ frame \in 1..MaxFrames + 1
    BY DecoderAssumption DEF Init
  <2>5. delivered \in Seq(Frames) /\ frame \in 1..MaxFrames + 1
    BY <2>4 DEF Init
  <2>6. open \in BOOLEAN /\ waiting \in Nat /\ request_decoding_error \in Nat /\ strays \in Nat
        /\ decode_started \in BOOLEAN
    BY DEF Init
  <2>7. kinds \in [Frames -> Kinds] /\ pc = "idle" /\ state = "null" /\ error = "none"
    BY DEF Init
  <2>. QED
    BY <2>1, <2>3, <2>4, <2>5, <2>6, <2>7 DEF TypeOK
<1>2. StreamInv
  <2>1. ASSUME NEW i \in Frames PROVE ends[i - 1] < ends[i]
    <3>1. i \in 0..MaxFrames /\ i - 1 \in 0..MaxFrames
      BY DecoderAssumption DEF Frames
    <3>2. ends[i] \in Nat /\ ends[i - 1] \in Nat /\ ends[i] \in ends[i - 1] + 1..ends[i - 1] + MaxSize
      BY <3>1, DecoderAssumption DEF Init
    <3>. QED
      BY <3>2, DecoderAssumption
  <2>. QED
    BY <2>1 DEF Init, StreamInv
<1>3. Inside /\ NothingHeldBack
  <2>1. 1 \in Frames /\ ends[0] < ends[1] /\ ends[1] \in Nat /\ 1 - 1 = 0
    BY <1>1, <1>2, DecoderAssumption DEF StreamInv, Frames, TypeOK
  <2>. QED
    BY <2>1 DEF Init, Inside, NothingHeldBack, Whole
<1>4. ErrorInv /\ StreamOfMessage /\ Delivered /\ MachineInv
  BY DecoderAssumption
  DEF Init, ErrorInv, StreamOfMessage, Delivered, MachineInv, Frames, null, Stray
<1>. QED
  BY <1>1, <1>2, <1>3, <1>4 DEF DecoderInv

----------------------------------------------------------------------------
\* What the invariant gives each step: the numbers are numbers.
LEMMA Numbers ==
    ASSUME DecoderInv
    PROVE  /\ arrived \in Nat /\ taken \in Nat /\ taken <= arrived
           /\ MaxFrames \in Nat /\ ends[MaxFrames] \in Nat /\ arrived <= ends[MaxFrames]
           /\ frame \in Nat /\ frame >= 1 /\ frame <= MaxFrames + 1
           /\ ends[frame - 1] \in Nat
           /\ frame \in Frames => ends[frame] \in Nat /\ ends[frame - 1] < ends[frame]
           /\ frame \notin Frames => frame = MaxFrames + 1
           /\ frame + 1 \in Frames => ends[frame] < ends[frame + 1] /\ ends[frame + 1] \in Nat
<1>1. MaxFrames \in Nat /\ frame \in 1..MaxFrames + 1 /\ ends \in [0..MaxFrames -> Nat]
  BY DecoderAssumption DEF DecoderInv, TypeOK
<1>2. frame - 1 \in 0..MaxFrames /\ MaxFrames \in 0..MaxFrames
  BY <1>1
<1>3. ends[MaxFrames] \in Nat /\ ends[frame - 1] \in Nat
  BY <1>1, <1>2
<1>4. arrived \in 0..ends[MaxFrames] /\ taken \in 0..arrived
  BY DEF DecoderInv, TypeOK
<1>5. frame \in Frames => frame \in 0..MaxFrames /\ ends[frame - 1] < ends[frame]
  BY <1>1 DEF DecoderInv, StreamInv, Frames
<1>6. frame + 1 \in Frames => frame + 1 \in 0..MaxFrames /\ ends[frame + 1 - 1] < ends[frame + 1]
  BY <1>1 DEF DecoderInv, StreamInv, Frames
<1>7. frame + 1 - 1 = frame
  BY <1>1
<1>. QED
  BY <1>1, <1>2, <1>3, <1>4, <1>5, <1>6, <1>7 DEF Frames

\* Without an error and between messages, an empty buffer holds no whole frame.
LEMMA EmptyHoldsNothing ==
    ASSUME DecoderInv, error = "none", NEW length, length \in Nat, length = taken
    PROVE  ~(frame \in Frames /\ ends[frame] <= length)
BY Numbers DEF DecoderInv, Inside

----------------------------------------------------------------------------
\* One lemma for each kind of step.

\* A step that only lets bytes arrive, or changes what the manager counts, and
\* enters dispatch() unless the buffer is empty.
LEMMA EnterInv ==
    ASSUME DecoderInv, pc = "idle",
           UNCHANGED <<theStream, decoderVars, codecVars, history, request_decoding_error>>,
           arrived' \in arrived..ends[MaxFrames], open' \in BOOLEAN, waiting' \in Nat,
           \/ EnterDispatch(arrived' - taken)
           \/ pc' = "idle" /\ arrived' = arrived
    PROVE  DecoderInv'
<1>. USE Numbers
<1>1. pc' \in {"idle", "onData"}
  BY DEF EnterDispatch
<1>2. TypeOK'
  <2>1. taken' \in 0..arrived' /\ arrived' \in 0..ends'[MaxFrames]
    BY DEF theStream, codecVars
  <2>. QED
    BY <1>1, <2>1 DEF DecoderInv, TypeOK, theStream, decoderVars, codecVars, history
<1>3. StreamInv' /\ Inside' /\ ErrorInv'
  BY DEF DecoderInv, StreamInv, Inside, ErrorInv, theStream, codecVars
<1>4. StreamOfMessage' /\ Delivered' /\ MachineInv'
  BY <1>1 DEF DecoderInv, TypeOK, StreamOfMessage, Delivered, MachineInv, theStream, decoderVars,
              codecVars, history
<1>5. NothingHeldBack'
  <2>1. CASE arrived' = arrived /\ pc' = "idle" /\ arrived' # taken
    BY <2>1 DEF DecoderInv, NothingHeldBack, Whole, theStream, codecVars
  <2>2. CASE pc' = "idle" /\ arrived' = taken
    BY <2>2, EmptyHoldsNothing DEF NothingHeldBack, Whole, theStream, codecVars
  <2>3. CASE pc' # "idle"
    BY <2>3 DEF NothingHeldBack
  <2>. QED
    BY <2>1, <2>2, <2>3 DEF EnterDispatch
<1>. QED
  BY <1>2, <1>3, <1>4, <1>5 DEF DecoderInv

\* start() makes a machine, unless the last call has left one.
LEMMA StartInv == DecoderInv /\ Start => DecoderInv'
<1>. SUFFICES ASSUME DecoderInv, Start PROVE DecoderInv'
  OBVIOUS
<1>1. TypeOK'
  BY DEF DecoderInv, TypeOK, Start, theStream, codecVars, history
<1>2. StreamInv' /\ Inside' /\ ErrorInv'
  BY DEF DecoderInv, StreamInv, Inside, ErrorInv, Start, theStream, codecVars
<1>3. StreamOfMessage' /\ Delivered' /\ MachineInv' /\ NothingHeldBack'
  BY DEF DecoderInv, TypeOK, StreamOfMessage, Delivered, MachineInv, NothingHeldBack, Start,
         theStream, codecVars, history
<1>. QED
  BY <1>1, <1>2, <1>3 DEF DecoderInv

\* The codec waits inside a frame that is not whole, and keeps what it has taken.
LEMMA DecodeWaitsInv == DecoderInv /\ DecodeWaits => DecoderInv'
<1>. SUFFICES ASSUME DecoderInv, DecodeWaits PROVE DecoderInv'
  OBVIOUS
<1>. USE Numbers
<1>1. taken' \in 0..arrived /\ taken <= taken'
  BY DEF DecodeWaits
<1>2. TypeOK'
  BY <1>1 DEF DecoderInv, TypeOK, DecodeWaits, theStream, history
<1>3. StreamInv' /\ ErrorInv'
  BY DEF DecoderInv, StreamInv, ErrorInv, DecodeWaits, theStream
<1>4. Inside' /\ NothingHeldBack'
  BY <1>1 DEF DecoderInv, Inside, NothingHeldBack, Whole, DecodeWaits, theStream
<1>5. StreamOfMessage' /\ Delivered' /\ MachineInv'
  BY DEF DecoderInv, StreamOfMessage, Delivered, MachineInv, DecodeWaits, theStream, history
<1>. QED
  BY <1>2, <1>3, <1>4, <1>5 DEF DecoderInv

\* decode() returns Done: the codec is at the start of the next frame.
LEMMA TakeFrameInv ==
    ASSUME DecoderInv, NEW types, types \subseteq Valid, TakeFrame(types)
    PROVE  /\ frame \in Frames /\ frame' = frame + 1 /\ frame' \in 1..MaxFrames + 1
           /\ kinds[frame] \in types /\ ends[frame] <= arrived
           /\ StreamInv' /\ Inside' /\ ErrorInv'
           /\ taken' \in 0..arrived' /\ arrived' = arrived
<1>. USE Numbers
<1>1. /\ frame \in Frames /\ frame' = frame + 1 /\ frame' \in 1..MaxFrames + 1
      /\ kinds[frame] \in types /\ ends[frame] <= arrived
      /\ taken' \in 0..arrived' /\ arrived' = arrived
  BY DEF TakeFrame, Whole, Frames
<1>2. StreamInv' /\ ErrorInv'
  BY DEF DecoderInv, StreamInv, ErrorInv, TakeFrame, theStream
<1>3. Inside'
  <2>1. taken' = ends[frame] /\ ends' = ends /\ frame' - 1 = frame
    BY <1>1 DEF TakeFrame, theStream
  <2>2. frame' \in Frames => taken' < ends[frame']
    BY <1>1, <2>1
  <2>. QED
    BY <1>1, <2>1, <2>2 DEF Inside
<1>. QED
  BY <1>1, <1>2, <1>3

\* A heartbeat is handed over at once, and the machine is done.
LEMMA DecodeHeartbeatInv == DecoderInv /\ DecodeHeartbeat => DecoderInv'
<1>. SUFFICES ASSUME DecoderInv, DecodeHeartbeat PROVE DecoderInv'
  OBVIOUS
<1>1. TakeFrame({"Heartbeat"}) /\ {"Heartbeat"} \subseteq Valid
  BY DEF DecodeHeartbeat, Valid
<1>2. /\ frame \in Frames /\ frame' = frame + 1 /\ frame' \in 1..MaxFrames + 1
      /\ StreamInv' /\ Inside' /\ ErrorInv'
      /\ taken' \in 0..arrived' /\ arrived' = arrived
  BY <1>1, TakeFrameInv
<1>3. delivered' = Append(delivered, frame) /\ delivered \in Seq(Frames) /\ pc = "run"
  BY <1>1 DEF DecodeHeartbeat, TakeFrame, DecoderInv, TypeOK
<1>4. TypeOK'
  BY <1>1, <1>2, <1>3 DEF DecoderInv, TypeOK, DecodeHeartbeat, TakeFrame, theStream
<1>5. Delivered'
  <2>1. Len(delivered) = frame - 1 /\ Len(delivered') = Len(delivered) + 1
    BY <1>3 DEF DecoderInv, Delivered
  <2>. QED
    BY <1>2, <2>1, Numbers DEF Delivered, DecodeHeartbeat
<1>6. StreamOfMessage' /\ MachineInv' /\ NothingHeldBack'
  BY <1>1, <1>3, DecoderAssumption
  DEF DecoderInv, StreamOfMessage, MachineInv, NothingHeldBack, DecodeHeartbeat, TakeFrame,
      null, Stray
<1>. QED
  BY <1>2, <1>4, <1>5, <1>6 DEF DecoderInv

\* A message has its stream before the filters get it.
LEMMA DecodeMessageInv == DecoderInv /\ DecodeMessage => DecoderInv'
<1>. SUFFICES ASSUME DecoderInv, DecodeMessage PROVE DecoderInv'
  OBVIOUS
<1>1. TakeFrame({"Message"}) /\ {"Message"} \subseteq Valid
  BY DEF DecodeMessage, Valid
<1>2. /\ frame \in Frames /\ frame' = frame + 1 /\ frame' \in 1..MaxFrames + 1
      /\ kinds[frame] = "Message" /\ ends[frame] <= arrived
      /\ StreamInv' /\ Inside' /\ ErrorInv'
      /\ taken' \in 0..arrived' /\ arrived' = arrived
  BY <1>1, TakeFrameInv
<1>3. TypeOK'
  BY <1>1, <1>2 DEF DecoderInv, TypeOK, DecodeMessage, TakeFrame, theStream, history
<1>4. StreamOfMessage'
  <2>1. stream' = frame /\ frame # null /\ frame # Stray /\ error' = "none"
        /\ kinds' = kinds /\ ends' = ends
    BY <1>1, <1>2, DecoderAssumption DEF DecodeMessage, TakeFrame, theStream, Frames, null, Stray
  <2>. QED
    BY <1>2, <2>1, Numbers DEF StreamOfMessage, DecodeMessage
<1>5. Delivered'
  BY <1>1, <1>2, Numbers DEF DecoderInv, Delivered, DecodeMessage, TakeFrame, history
<1>6. MachineInv' /\ NothingHeldBack'
  BY <1>1 DEF DecoderInv, MachineInv, NothingHeldBack, DecodeMessage, TakeFrame
<1>. QED
  BY <1>2, <1>3, <1>4, <1>5, <1>6 DEF DecoderInv

\* Behind a taken error nothing is said of the place of the codec.
LEMMA DecodeStrayInv == DecoderInv /\ DecodeStray => DecoderInv'
<1>. SUFFICES ASSUME DecoderInv, DecodeStray PROVE DecoderInv'
  OBVIOUS
<1>1. taken' \in 0..arrived' /\ stream' = Stray /\ Stray # null /\ Stray \notin Frames
  BY Numbers DEF DecodeStray, null, Stray, Frames
<1>2. TypeOK'
  BY <1>1 DEF DecoderInv, TypeOK, DecodeStray, theStream, history
<1>3. StreamInv' /\ Inside' /\ ErrorInv'
  BY DEF DecoderInv, StreamInv, Inside, ErrorInv, DecodeStray, theStream
<1>4. StreamOfMessage' /\ Delivered' /\ MachineInv' /\ NothingHeldBack'
  BY <1>1 DEF DecoderInv, StreamOfMessage, Delivered, MachineInv, NothingHeldBack, DecodeStray,
              theStream, history
<1>. QED
  BY <1>2, <1>3, <1>4 DEF DecoderInv

\* The frame of the stream is the next one to hand over.
LEMMA OnStreamDecodedInv == DecoderInv /\ OnStreamDecoded => DecoderInv'
<1>. SUFFICES ASSUME DecoderInv, OnStreamDecoded PROVE DecoderInv'
  OBVIOUS
<1>1. stream \in Frames <=> stream # Stray
  BY Numbers DEF DecoderInv, TypeOK, StreamOfMessage, OnStreamDecoded, Stray, Frames
<1>2. TypeOK'
  <2>1. delivered' \in Seq(Frames) /\ strays' \in Nat
    BY <1>1 DEF DecoderInv, TypeOK, OnStreamDecoded
  <2>2. waiting' \in Nat /\ open' \in BOOLEAN
    <3>1. waiting \in Nat /\ waiting' \in {waiting, waiting + 1}
      BY DEF DecoderInv, TypeOK, OnStreamDecoded
    <3>2. open \in BOOLEAN /\ open' \in {open, FALSE}
      BY DEF DecoderInv, TypeOK, OnStreamDecoded
    <3>3. waiting' \in Nat
      BY <3>1
    <3>4. open' \in BOOLEAN
      BY <3>2
    <3>. QED
      BY <3>3, <3>4
  <2>3. state' = "Done" /\ pc' = "complete"
        /\ UNCHANGED <<theStream, arrived, request_decoding_error, decode_started, stream,
                       codecVars>>
    BY DEF OnStreamDecoded
  <2>. QED
    BY <2>1, <2>2, <2>3 DEF DecoderInv, TypeOK, theStream, codecVars
<1>3. StreamInv' /\ Inside' /\ ErrorInv'
  BY DEF DecoderInv, StreamInv, Inside, ErrorInv, OnStreamDecoded, theStream, codecVars
<1>4. Delivered'
  <2>1. CASE stream = Stray
    BY <1>1, <2>1 DEF DecoderInv, Delivered, OnStreamDecoded, codecVars
  <2>2. CASE stream # Stray
    <3>1. Len(delivered') = Len(delivered) + 1
      BY <2>2 DEF DecoderInv, TypeOK, OnStreamDecoded
    <3>. QED
      BY <1>1, <2>2, <3>1, Numbers DEF DecoderInv, Delivered, OnStreamDecoded, codecVars
  <2>. QED
    BY <2>1, <2>2
<1>5. StreamOfMessage' /\ MachineInv' /\ NothingHeldBack'
  BY DEF DecoderInv, StreamOfMessage, MachineInv, NothingHeldBack, OnStreamDecoded, codecVars
<1>. QED
  BY <1>2, <1>3, <1>4, <1>5 DEF DecoderInv

\* complete() leaves no machine and no stream.
LEMMA CompleteInv == DecoderInv /\ Complete => DecoderInv'
<1>. SUFFICES ASSUME DecoderInv, Complete PROVE DecoderInv'
  OBVIOUS
<1>1. TypeOK'
  BY DEF DecoderInv, TypeOK, Complete, theStream, codecVars, history
<1>2. StreamInv' /\ Inside' /\ ErrorInv'
  BY DEF DecoderInv, StreamInv, Inside, ErrorInv, Complete, theStream, codecVars
<1>3. StreamOfMessage' /\ Delivered' /\ MachineInv'
  BY Numbers DEF DecoderInv, StreamOfMessage, Delivered, MachineInv, Complete, theStream, codecVars,
                 history, null, Stray
<1>4. NothingHeldBack'
  <2>1. CASE arrived = taken
    BY <2>1, Numbers, EmptyHoldsNothing DEF NothingHeldBack, Whole, Complete, theStream, codecVars
  <2>2. CASE arrived # taken
    BY <2>2, Numbers DEF NothingHeldBack, Complete, Buffered
  <2>. QED
    BY <2>1, <2>2
<1>. QED
  BY <1>1, <1>2, <1>3, <1>4 DEF DecoderInv

\* Both ways to throw leave everything but the position of the codec.
LEMMA ThrowInv == DecoderInv /\ (ThrowAndKeep \/ ThrowAndTake) => DecoderInv'
<1>. SUFFICES ASSUME DecoderInv, ThrowAndKeep \/ ThrowAndTake PROVE DecoderInv'
  OBVIOUS
<1>1. /\ Throw /\ taken' \in 0..arrived
      /\ error' \in {"kept", "taken"}
  BY Numbers DEF ThrowAndKeep, ThrowAndTake
<1>2. TypeOK'
  <2>1. open' \in BOOLEAN /\ request_decoding_error' \in Nat /\ pc' = "idle"
    <3>1. open' = FALSE /\ request_decoding_error' = request_decoding_error + 1 /\ pc' = "idle"
      BY <1>1 DEF Throw
    <3>2. request_decoding_error \in Nat
      BY DEF DecoderInv, TypeOK
    <3>3. request_decoding_error' \in Nat
      BY <3>1, <3>2
    <3>. QED
      BY <3>1, <3>3
  <2>2. UNCHANGED <<theStream, arrived, waiting, decoderVars, frame, history>>
    BY <1>1 DEF Throw
  <2>. QED
    BY <1>1, <2>1, <2>2 DEF DecoderInv, TypeOK, theStream, decoderVars, history
<1>3. StreamInv' /\ Inside' /\ NothingHeldBack'
  BY <1>1 DEF DecoderInv, StreamInv, Inside, NothingHeldBack, Throw, theStream
<1>4. ErrorInv'
  BY <1>1 DEF DecoderInv, ErrorInv, Throw, ThrowAndKeep, ThrowAndTake, Begun, theStream
<1>5. StreamOfMessage' /\ Delivered' /\ MachineInv'
  BY <1>1, Numbers DEF DecoderInv, StreamOfMessage, Delivered, MachineInv, Throw, theStream,
                       decoderVars, history, null, Stray
<1>. QED
  BY <1>2, <1>3, <1>4, <1>5 DEF DecoderInv

\* Every step keeps the invariant.
LEMMA NextInv == DecoderInv /\ [Next]_vars => DecoderInv'
<1>. SUFFICES ASSUME DecoderInv, [Next]_vars PROVE DecoderInv'
  OBVIOUS
<1>1. ASSUME NEW n \in 0..ends[MaxFrames], OnData(n) PROVE DecoderInv'
  <2>1. arrived' \in arrived..ends[MaxFrames]
    BY <1>1, Numbers DEF OnData
  <2>. QED
    BY <1>1, <2>1, EnterInv DEF OnData, DecoderInv, TypeOK
<1>2. CASE ContinueDecoding
  <2>1. waiting' \in Nat /\ arrived' \in arrived..ends[MaxFrames] /\ EnterDispatch(arrived' - taken)
    BY <1>2, Numbers DEF ContinueDecoding, Buffered, DecoderInv, TypeOK
  <2>. QED
    BY <1>2, <2>1, EnterInv DEF ContinueDecoding, DecoderInv, TypeOK
<1>3. CASE Close
  <2>1. arrived' = arrived /\ waiting' = waiting /\ open' = FALSE /\ pc' = "idle" /\ pc = "idle"
        /\ UNCHANGED <<theStream, decoderVars, codecVars, history, request_decoding_error>>
    BY <1>3 DEF Close
  <2>2. arrived' \in arrived..ends[MaxFrames] /\ waiting' \in Nat
    BY <2>1, Numbers DEF DecoderInv, TypeOK
  <2>. QED
    BY <2>1, <2>2, EnterInv
<1>4. CASE DeferredDelete
  BY <1>4, EnterInv, Numbers DEF DeferredDelete, DecoderInv, TypeOK
<1>5. CASE DecodeStep
  BY <1>5, StartInv, DecodeWaitsInv, DecodeHeartbeatInv, DecodeMessageInv, DecodeStrayInv,
     ThrowInv, OnStreamDecodedInv, CompleteInv DEF DecodeStep
<1>6. CASE UNCHANGED vars
  BY <1>6
  DEF DecoderInv, TypeOK, StreamInv, Inside, ErrorInv, StreamOfMessage, Delivered, MachineInv,
      NothingHeldBack, Whole, vars, theStream, decoderVars, codecVars, history
<1>. QED
  BY <1>1, <1>2, <1>3, <1>4, <1>5, <1>6 DEF Next

----------------------------------------------------------------------------
(* The invariants, for every stream, however it is cut.                    *)

\* The inductive invariant holds in every state: the codec is inside the frame after
\* those handed over, and a started machine is never done.
THEOREM DecoderInvariant == Spec => []DecoderInv
BY InitInv, NextInv, PTL DEF Spec

\* Types, and no byte is taken from the buffer that has not arrived.
THEOREM DecoderTypeCorrect == Spec => []TypeOK
<1>1. DecoderInv => TypeOK
  BY DEF DecoderInv
<1>. QED
  BY <1>1, DecoderInvariant, PTL

\* The assertions of DecoderStateMachine::run, DecoderBase::onData and onNewStream
\* hold, also after an exception or a wait has left the decoder in the middle.
THEOREM DecoderAsserts == Spec => []AssertsHold
<1>1. DecoderInv => AssertsHold
  BY DecoderAssumption
  DEF DecoderInv, TypeOK, MachineInv, StreamOfMessage, AssertsHold, null, Stray
<1>. QED
  BY <1>1, DecoderInvariant, PTL

\* No whole frame is left behind when dispatch() has returned.
THEOREM DecoderHoldsNothingBack == Spec => []NothingHeldBack
<1>1. DecoderInv => NothingHeldBack
  BY DEF DecoderInv
<1>. QED
  BY <1>1, DecoderInvariant, PTL

----------------------------------------------------------------------------
(* Decoder implements the safety part of FrameStream.  The frames that     *)
(* have arrived to the last byte are `whole`, and `broken` says that the   *)
(* codec has thrown.                                                       *)

\* A step with which bytes arrive, or nothing that FrameStream sees changes.
LEMMA ArriveStep ==
    ASSUME DecoderInv, UNCHANGED <<theStream, delivered, strays, error>>,
           arrived' \in arrived..ends[MaxFrames]
    PROVE  [Promise!Next]_(Promise!vars)
<1>1. WholeFrames' = WholeFrames \cup (WholeFrames' \ WholeFrames)
  <2>1. ASSUME NEW i \in Frames, ends[i] <= arrived PROVE ends'[i] <= arrived'
    <3>1. i \in 0..MaxFrames /\ ends[i] \in Nat
      BY DecoderAssumption DEF DecoderInv, TypeOK, Frames
    <3>. QED
      BY <2>1, <3>1, Numbers DEF theStream
  <2>. QED
    BY <2>1 DEF WholeFrames
<1>2. WholeFrames' \ WholeFrames \in SUBSET Frames
  BY DEF WholeFrames, Frames
<1>3. Promise!Arrive
  BY <1>1, <1>2 DEF Promise!Arrive, Promise!Frames, Frames, WholeFrames, theStream
<1>. QED
  BY <1>3 DEF Promise!Next

\* The frame after those delivered is handed over.
LEMMA DeliverStep ==
    ASSUME DecoderInv, UNCHANGED <<theStream, arrived, strays, error>>, error = "none",
           NEW f \in Frames, f = Len(delivered) + 1,
           kinds[f] \in Valid, ends[f] <= arrived, delivered' = Append(delivered, f)
    PROVE  [Promise!Next]_(Promise!vars)
<1>1. Promise!Deliver
  BY DEF WholeFrames, Promise!Deliver, Promise!Upcoming, Promise!Valid, Promise!Frames, Frames,
         Valid, theStream
<1>. QED
  BY <1>1 DEF Promise!Next

\* Every step of the decoder is a step of the promise, or none.
LEMMA DecoderStepRefines == DecoderInv /\ [Next]_vars => [Promise!Next]_(Promise!vars)
<1>. SUFFICES ASSUME DecoderInv, [Next]_vars PROVE [Promise!Next]_(Promise!vars)
  OBVIOUS
<1>. USE Numbers
<1>1. ASSUME NEW n \in 0..ends[MaxFrames], OnData(n) PROVE [Promise!Next]_(Promise!vars)
  <2>1. arrived' \in arrived..ends[MaxFrames]
    BY <1>1 DEF OnData
  <2>. QED
    BY <1>1, <2>1, ArriveStep DEF OnData, codecVars, history
<1>2. CASE ContinueDecoding \/ Close \/ DeferredDelete \/ Start \/ DecodeWaits \/ DecodeMessage
           \/ Complete \/ DecodeStray \/ UNCHANGED vars
  <2>1. /\ UNCHANGED <<theStream, delivered, strays, error>>
        /\ arrived' = arrived
    BY <1>2
    DEF ContinueDecoding, Close, DeferredDelete, Start, DecodeWaits, DecodeMessage, Complete,
        DecodeStray, TakeFrame, vars, theStream, codecVars, history
  <2>2. arrived' \in arrived..ends[MaxFrames]
    BY <2>1
  <2>. QED
    BY <2>1, <2>2, ArriveStep
<1>3. CASE DecodeHeartbeat
  <2>1. /\ UNCHANGED <<theStream, arrived, strays, error>> /\ error = "none"
        /\ frame \in Frames /\ kinds[frame] \in Valid /\ ends[frame] <= arrived
        /\ delivered' = Append(delivered, frame) /\ pc = "run"
    BY <1>3 DEF DecodeHeartbeat, TakeFrame, Whole, Valid, theStream
  <2>2. frame = Len(delivered) + 1
    BY <2>1 DEF DecoderInv, Delivered
  <2>. QED
    BY <2>1, <2>2, DeliverStep
<1>4. CASE OnStreamDecoded /\ stream \in Frames
  <2>1. stream # Stray
    BY <1>4 DEF Frames, Stray
  <2>2. /\ UNCHANGED <<theStream, arrived, strays, error>>
        /\ delivered' = Append(delivered, stream) /\ pc = "onStreamDecoded"
    BY <1>4, <2>1 DEF OnStreamDecoded, codecVars
  <2>3. error = "none" /\ kinds[stream] \in Valid /\ ends[stream] <= arrived
    BY <1>4, <2>2 DEF DecoderInv, StreamOfMessage, Valid
  <2>4. stream = Len(delivered) + 1
    BY <1>4, <2>2 DEF DecoderInv, StreamOfMessage, Delivered
  <2>. QED
    BY <1>4, <2>2, <2>3, <2>4, DeliverStep
<1>5. CASE OnStreamDecoded /\ stream \notin Frames
  <2>1. stream = Stray /\ error = "taken" /\ pc = "onStreamDecoded"
    BY <1>5 DEF OnStreamDecoded, DecoderInv, TypeOK, StreamOfMessage
  <2>2. frame \in Frames /\ kinds[frame] = "BadStart"
    BY <2>1 DEF DecoderInv, ErrorInv
  <2>3. frame = Len(delivered) + 1
    BY <1>5, <2>1 DEF DecoderInv, Delivered
  <2>4. strays' = strays + 1 /\ UNCHANGED <<theStream, arrived, error, delivered>>
    BY <1>5, <2>1 DEF OnStreamDecoded, codecVars
  <2>5. Promise!Stray
    BY <2>1, <2>2, <2>3, <2>4 DEF WholeFrames, Promise!Stray, Promise!Upcoming, theStream
  <2>. QED
    BY <2>5 DEF Promise!Next
<1>6. CASE ThrowAndKeep \/ ThrowAndTake
  <2>1. /\ Throw /\ error' # "none" /\ UNCHANGED <<theStream, arrived, delivered, strays>>
        /\ pc = "run"
    BY <1>6 DEF ThrowAndKeep, ThrowAndTake, Throw, history
  <2>2. CASE error # "none"
    BY <2>1, <2>2 DEF WholeFrames, Promise!vars, theStream
  <2>3. CASE error = "none"
    <3>1. frame \in Frames /\ kinds[frame] \notin Valid
      BY <1>6, <2>3 DEF ThrowAndKeep, ThrowAndTake, Begun, Valid
    <3>2. frame = Len(delivered) + 1
      BY <2>1 DEF DecoderInv, Delivered
    <3>3. Promise!Break
      BY <2>1, <2>3, <3>1, <3>2
      DEF WholeFrames, Promise!Break, Promise!Upcoming, Promise!Valid, Promise!Frames, Frames, Valid, theStream
    <3>. QED
      BY <3>3 DEF Promise!Next
  <2>. QED
    BY <2>2, <2>3
<1>. QED
  BY <1>1, <1>2, <1>3, <1>4, <1>5, <1>6 DEF Next, DecodeStep

\* However the stream is cut and whichever callback enters dispatch(), the frames
\* handed over are whole, valid, in order and never twice, and end at the first that
\* is not valid.
THEOREM DecoderRefines == Spec => Promise!Safety
<1>1. Init => Promise!Init
  <2>. SUFFICES ASSUME Init PROVE Promise!Init
    OBVIOUS
  <2>1. ASSUME NEW i \in Frames PROVE ~(ends[i] <= arrived)
    <3>1. DecoderInv
      BY InitInv
    <3>2. i \in 1..MaxFrames /\ i - 1 \in 0..MaxFrames /\ i \in 0..MaxFrames
      BY DecoderAssumption DEF Frames
    <3>3. ends[i - 1] \in Nat /\ ends[i] \in Nat /\ ends[i - 1] < ends[i]
      BY <3>1, <3>2 DEF DecoderInv, TypeOK, StreamInv, Frames
    <3>. QED
      BY <3>3 DEF Init
  <2>. QED
    BY <2>1 DEF Init, WholeFrames, Promise!Init, Promise!Frames, Promise!Kinds, Frames, Kinds
<1>. QED
  BY <1>1, DecoderStepRefines, DecoderInvariant, PTL DEF Spec, Promise!Safety
=============================================================================
