---------------------- MODULE MetaProtocolProxy_proofs ----------------------
(***************************************************************************)
(* Proofs about MetaProtocolProxy, for every value of its bounds.           *)
(***************************************************************************)
EXTENDS MetaProtocolProxy, FiniteSetTheorems, TLAPS

\* What the control state implies: a dispatch() that runs has a frame to decode,
\* and a callback of the pool that runs is about a message that exists.
ControlOK ==
    /\ pc = "dispatch" => request_buffer # <<>>
    /\ call.from \in {"onPoolReady", "onPoolFailure"} => call.msg \in 1..created
    /\ pc = "idle" <=> call.from = "none"

\* What dispatch() leaves in the buffer: nothing, or a frame it closed the
\* connection for, which every later dispatch() meets first.  stopped_ is never set.
BufferOK ==
    /\ stopped = FALSE
    /\ down # "Open" \/ pc # "dispatch" =>
           request_buffer = <<>> \/ (down # "Open" /\ Head(request_buffer) = "Bad")

\* The gauge is the number of messages that are not destroyed.
GaugeExact ==
    stats.request_active = Cardinality(active_message_list) + Cardinality(deferred)

\* What a step other than a new request or a deletion does to the messages: some
\* of them move from the list to the deferred ones.
MovesOnly ==
    /\ UNCHANGED <<created, destroyed>>
    /\ stats'.request_active = stats.request_active
    /\ \E S \in SUBSET Messages : DeferredMessage(active_message_list, S)

\* The inductive invariant: the safety invariants proved below need each other,
\* and the control state that the callbacks run in.
IInv ==
    /\ TypeOK /\ ControlOK /\ BufferOK /\ GaugeExact
    /\ Ownership /\ PoolAgreement /\ CallbackSafety
    /\ EncodeHasConnection /\ NoOrphans

----------------------------------------------------------------------------
(* Lemmas about the data.                                                  *)

\* Any set of messages is finite, so its cardinality is a natural number.
LEMMA MessagesFinite ==
    ASSUME NEW S \in SUBSET Messages
    PROVE  IsFiniteSet(S) /\ Cardinality(S) \in Nat
<1>1. IsFiniteSet(Messages)
  BY BoundsAssumption, FS_Interval DEF Messages
<1>2. IsFiniteSet(S)
  BY <1>1, FS_Subset
<1> QED
  BY <1>2, FS_CardinalityType

\* The cardinality of a disjoint union of sets of messages.
LEMMA DisjointUnion ==
    ASSUME NEW A \in SUBSET Messages, NEW B \in SUBSET Messages, A \cap B = {}
    PROVE  Cardinality(A \cup B) = Cardinality(A) + Cardinality(B)
<1>1. /\ IsFiniteSet(A) /\ Cardinality(A) \in Nat
      /\ IsFiniteSet(B) /\ Cardinality(B) \in Nat
  BY MessagesFinite
<1>2. Cardinality(A \cup B) = Cardinality(A) + Cardinality(B) - Cardinality(A \cap B)
  BY <1>1, FS_Union
<1>3. Cardinality(A \cap B) = 0
  BY FS_EmptySet
<1> QED
  BY <1>1, <1>2, <1>3

\* What the client sends in one read is a sequence of frames.
LEMMA FrameSequencesAreSequences ==
    ASSUME NEW frames \in FrameSequences
    PROVE  frames \in Seq(Frames)
<1>1. PICK n \in 0..MaxFrames : frames \in [1..n -> Frames]
  BY DEF FrameSequences
<1>2. n \in Nat
  BY BoundsAssumption
<1> QED
  BY <1>1, <1>2

\* Counting the frames of a buffer gives a natural number.
LEMMA CountFramesType ==
    ASSUME NEW buffer \in Seq(Frames), NEW types
    PROVE  CountFrames(buffer, types) \in Nat
<1>1. IsFiniteSet(DOMAIN buffer)
  <2>1. DOMAIN buffer = 1..Len(buffer) /\ Len(buffer) \in Nat
    OBVIOUS
  <2> QED
    BY <2>1, FS_Interval
<1>2. IsFiniteSet({i \in DOMAIN buffer : buffer[i] \in types})
  BY <1>1, FS_Subset
<1> QED
  BY <1>2, FS_CardinalityType DEF CountFrames

\* deferredMessage moves messages from the list to the deferred ones: none is
\* lost, and the two sets stay disjoint.
LEMMA DeferredMessageMoves ==
    ASSUME NEW list \in SUBSET Messages, NEW S \in SUBSET Messages,
           deferred \in SUBSET Messages, list \cap deferred = {},
           DeferredMessage(list, S)
    PROVE  /\ active_message_list' \in SUBSET Messages
           /\ deferred' \in SUBSET Messages
           /\ active_message_list' \cup deferred' = list \cup deferred
           /\ active_message_list' \cap deferred' = {}
           /\ deferred \subseteq deferred'
           /\ \A m \in Messages : deferrals'[m] =
                  IF m \in deferred' \ deferred THEN deferrals[m] + 1 ELSE deferrals[m]
           /\ Cardinality(active_message_list') + Cardinality(deferred')
                = Cardinality(list) + Cardinality(deferred)
<1>1. /\ active_message_list' \in SUBSET Messages
      /\ deferred' \in SUBSET Messages
      /\ active_message_list' \cup deferred' = list \cup deferred
      /\ active_message_list' \cap deferred' = {}
      /\ deferred' = deferred \cup (S \cap list)
  BY DEF DeferredMessage, HandOver
<1>2. \A m \in Messages : deferrals'[m] =
          IF m \in deferred' \ deferred THEN deferrals[m] + 1 ELSE deferrals[m]
  BY <1>1 DEF DeferredMessage, HandOver
<1>3. Cardinality(active_message_list') + Cardinality(deferred')
        = Cardinality(list \cup deferred)
  BY <1>1, DisjointUnion
<1>4. Cardinality(list) + Cardinality(deferred) = Cardinality(list \cup deferred)
  BY DisjointUnion
<1> QED
  BY <1>1, <1>2, <1>3, <1>4

\* Handing messages over keeps the types of the two sets and the count.
LEMMA DeferredMessageType ==
    ASSUME TypeOK, NEW list \in SUBSET Messages, NEW S, DeferredMessage(list, S)
    PROVE  /\ active_message_list' \in SUBSET Messages
           /\ deferred' \in SUBSET Messages
           /\ deferrals' \in [Messages -> Nat]
<1>1. deferrals \in [Messages -> Nat] /\ deferred \in SUBSET Messages
  BY DEF TypeOK
<1> QED
  BY <1>1 DEF DeferredMessage, HandOver

\* resetAllMessages empties the list into the deferred messages.
LEMMA ResetAllMessagesEmpties ==
    ASSUME TypeOK, NEW local \in BOOLEAN, ResetAllMessages(local)
    PROVE  /\ active_message_list' = {}
           /\ deferred' \in SUBSET Messages
           /\ deferrals' \in [Messages -> Nat]
           /\ stats' \in Stats
           /\ stats'.request_active = stats.request_active
<1> DEFINE n == Cardinality(active_message_list)
<1>1. n \in Nat /\ stats \in Stats
  BY MessagesFinite DEF TypeOK
<1>2. stats' = IF local
                 THEN [stats EXCEPT !.cx_destroy_local = @ + n]
                 ELSE [stats EXCEPT !.cx_destroy_remote = @ + n]
  BY DEF ResetAllMessages
<1>3. stats' \in Stats /\ stats'.request_active = stats.request_active
  <2> HIDE DEF n
  <2> QED
    BY <1>1, <1>2 DEF Stats
<1>4. DeferredMessage(active_message_list, active_message_list)
  BY DEF ResetAllMessages
<1>5. active_message_list' = {}
  BY <1>4 DEF DeferredMessage
<1>6. active_message_list \in SUBSET Messages
  BY DEF TypeOK
<1> QED
  BY <1>3, <1>4, <1>5, <1>6, DeferredMessageType

\* Updates of the functions that the state is made of keep their type.
LEMMA Increment ==
    ASSUME NEW f \in [Messages -> Nat], NEW m \in Messages
    PROVE  [f EXCEPT ![m] = @ + 1] \in [Messages -> Nat]
OBVIOUS

\* A local reply is one more of the message, or none when the connection is not open.
LEMMA SendLocalReplyType ==
    ASSUME TypeOK, NEW m \in Messages, SendLocalReply(m) \/ NoLocalReply
    PROVE  /\ local_response_sent' \in [Messages -> BOOLEAN]
           /\ local_replies' \in [Messages -> Nat]
<1>1. /\ local_response_sent \in [Messages -> BOOLEAN]
      /\ local_replies \in [Messages -> Nat]
  BY DEF TypeOK
<1>2. CASE NoLocalReply
  BY <1>1, <1>2 DEF NoLocalReply
<1>3. CASE SendLocalReply(m)
  BY <1>1, <1>3, Increment DEF SendLocalReply
<1> QED
  BY <1>2, <1>3

----------------------------------------------------------------------------
(* The type invariant.                                                     *)

\* The initial values have their types, and nothing runs.
LEMMA InitType == Init => TypeOK /\ ControlOK
<1> SUFFICES ASSUME Init PROVE TypeOK /\ ControlOK
  OBVIOUS
<1>1. 0 \in 0..MaxMessages
  BY BoundsAssumption
<1>2. TypeOK
  <2>1. request_buffer \in Seq(Frames)
    BY DEF Init
  <2>2. call \in [from : Callers, msg : 0..MaxMessages, end_stream : BOOLEAN]
    BY <1>1 DEF Init, NoCall, Callers
  <2>3. stats \in Stats
    BY DEF Init, NoStats, Stats
  <2> QED
    BY <1>1, <2>1, <2>2, <2>3
       DEF Init, TypeOK, UpstreamRequests, UpstreamConnections, Received
<1>3. ControlOK
  BY DEF Init, ControlOK, NoCall
<1> QED
  BY <1>2, <1>3

\* Each group of steps keeps the type invariant.
LEMMA DownstreamKeepsType ==
    ASSUME TypeOK, DownstreamEvent
    PROVE  TypeOK'
<1>1. ASSUME NEW frames \in FrameSequences, NEW end_stream \in BOOLEAN,
             DownstreamData(frames, end_stream)
      PROVE  TypeOK'
  <2>1. /\ frames \in Seq(Frames)
        /\ request_buffer' \in Seq(Frames)
    BY <1>1, FrameSequencesAreSequences DEF TypeOK, DownstreamData
  <2>2. heartbeats' \in Nat
    BY <1>1, <2>1, CountFramesType DEF TypeOK, DownstreamData
  <2>3. call' \in [from : Callers, msg : 0..MaxMessages, end_stream : BOOLEAN]
    BY <1>1, BoundsAssumption DEF DownstreamData, Callers
  <2>4. pc' \in {"idle", "dispatch", "return"}
    BY <1>1 DEF DownstreamData, EnterDispatch
  <2> QED
    BY <1>1, <2>1, <2>2, <2>3, <2>4
       DEF TypeOK, DownstreamData, connVars, listVars, msgVars, envVars, replyVars
<1>2. ASSUME NEW local \in BOOLEAN, DownstreamClose(local)
      PROVE  TypeOK'
  BY <1>2, ResetAllMessagesEmpties
     DEF TypeOK, DownstreamClose, msgVars, envVars, replyVars, beatVars
<1>3. CASE WriteBufferWatermark
  BY <1>3 DEF TypeOK, WriteBufferWatermark, listVars, msgVars, envVars, replyVars, beatVars
<1> QED
  BY <1>1, <1>2, <1>3 DEF DownstreamEvent

\* The effects that the four outcomes of a decoded request share.
LEMMA NewStreamType ==
    ASSUME TypeOK, ControlOK, NEW m \in Messages, NewStream(m)
    PROVE  /\ m \in Messages /\ NextFrame \in MessageKinds
           /\ created' \in 0..MaxMessages
           /\ kind' \in [Messages -> MessageKinds \cup {"none"}]
           /\ request_buffer' \in Seq(Frames)
           /\ pc' \in {"idle", "dispatch", "return"}
           /\ NewList(m) \in SUBSET Messages
<1>1. request_buffer # <<>> /\ request_buffer \in Seq(Frames)
  BY DEF TypeOK, ControlOK, NewStream
<1>2. request_buffer' \in Seq(Frames)
  BY <1>1 DEF NewStream, ConsumeFrame
<1>3. m \in 1..MaxMessages
  BY DEF Messages
<1> QED
  BY <1>2, <1>3 DEF TypeOK, NewStream, ConsumeFrame, EnterDispatch, Messages, NewList

\* finalizeRequest counts up.
LEMMA CountRequestType ==
    ASSUME stats \in Stats, NEW finalized \in Nat, CountRequest(finalized)
    PROVE  /\ stats' \in Stats
           /\ stats'.request_active = stats.request_active + 1
<1>1. stats' = [request_active   |-> stats.request_active + 1,
                request          |-> stats.request + finalized,
                cx_destroy_local |-> stats.cx_destroy_local,
                cx_destroy_remote |-> stats.cx_destroy_remote]
  BY DEF Stats, CountRequest
<1> QED
  BY <1>1 DEF Stats

\* A new message is a number in the bounds.
LEMMA DecodeKeepsType ==
    ASSUME TypeOK, ControlOK, NEW m \in Messages, DecodeMessage(m)
    PROVE  TypeOK'
<1>1. NewStream(m)
  BY DEF DecodeMessage, DecodeUnroutable, DecodePoolOverflow, DecodePoolReady,
         DecodePoolPending
<1>2. /\ created' \in 0..MaxMessages
      /\ kind' \in [Messages -> MessageKinds \cup {"none"}]
      /\ request_buffer' \in Seq(Frames)
      /\ pc' \in {"idle", "dispatch", "return"}
      /\ NewList(m) \in SUBSET Messages
  BY <1>1, NewStreamType
<1>3. stats' \in Stats
  BY CountRequestType DEF TypeOK, DecodeMessage, DecodeUnroutable, DecodePoolOverflow,
     DecodePoolReady, DecodePoolPending
<1>4. \E S \in {{}, {m}} : DeferredMessage(NewList(m), S)
  BY DEF DecodeMessage, DecodeUnroutable, DecodePoolOverflow, DecodePoolReady,
         DecodePoolPending, Finished
<1>5. /\ active_message_list' \in SUBSET Messages /\ deferred' \in SUBSET Messages
      /\ deferrals' \in [Messages -> Nat]
  BY <1>2, <1>4, DeferredMessageType
<1>6. SendLocalReply(m) \/ NoLocalReply
  BY DEF DecodeMessage, DecodeUnroutable, DecodePoolOverflow, DecodePoolReady,
     DecodePoolPending
<1>7. /\ upstream_request' \in [Messages -> UpstreamRequests]
      /\ pool' \in [Messages -> {"none", "pending"}]
      /\ upstream' \in [Messages -> UpstreamConnections]
  BY DEF TypeOK, DecodeMessage, DecodeUnroutable, DecodePoolOverflow,
     DecodePoolReady, DecodePoolPending, UpstreamRequests, UpstreamConnections
<1>8. pending_stream_decoded' \in [Messages -> BOOLEAN]
  BY DEF TypeOK, DecodeMessage, DecodeUnroutable, DecodePoolOverflow,
     DecodePoolReady, DecodePoolPending
<1>9. sent' = sent \/ sent' = [sent EXCEPT ![m] = @ + 1]
  BY DEF DecodeMessage, DecodeUnroutable, DecodePoolOverflow, DecodePoolReady,
     DecodePoolPending
<1>10. sent' \in [Messages -> Nat]
  <2>1. sent \in [Messages -> Nat]
    BY DEF TypeOK
  <2> QED
    BY <1>9, <2>1
<1> QED
  BY <1>1, <1>2, <1>3, <1>5, <1>6, <1>7, <1>8, <1>10, SendLocalReplyType
     DEF TypeOK, NewStream, connVars, beatVars

\* The steps while a callback runs: dispatch() and what returns from it.
LEMMA CallbackKeepsType ==
    ASSUME TypeOK, ControlOK, CallbackStep
    PROVE  TypeOK'
<1>1. CASE DecodeHeartbeat
  <2>1. request_buffer # <<>> /\ request_buffer \in Seq(Frames)
    BY <1>1 DEF TypeOK, ControlOK, DecodeHeartbeat
  <2>2. request_buffer' \in Seq(Frames) /\ pc' \in {"idle", "dispatch", "return"}
    BY <1>1, <2>1 DEF DecodeHeartbeat, ConsumeFrame, EnterDispatch
  <2>3. heartbeat_replies' \in Nat
    BY <1>1 DEF TypeOK, DecodeHeartbeat
  <2> QED
    BY <1>1, <2>2, <2>3
       DEF TypeOK, DecodeHeartbeat, connVars, listVars, msgVars, envVars, replyVars
<1>2. CASE DecodeError
  BY <1>2, ResetAllMessagesEmpties
     DEF TypeOK, DecodeError, msgVars, envVars, replyVars, beatVars
<1>3. ASSUME NEW m \in Messages, DecodeMessage(m)
      PROVE  TypeOK'
  BY <1>3, DecodeKeepsType
<1>4. NoCall \in [from : Callers, msg : 0..MaxMessages, end_stream : BOOLEAN]
  BY BoundsAssumption DEF NoCall, Callers
<1>5. ASSUME \/ ResetAllMessages(FALSE) /\ CloseFlushWrite
             \/ UNCHANGED <<down, active_message_list, deferred, deferrals, stats>>
      PROVE  /\ down' \in {"Open", "Closing", "Closed"}
             /\ active_message_list' \in SUBSET Messages
             /\ deferred' \in SUBSET Messages
             /\ deferrals' \in [Messages -> Nat]
             /\ stats' \in Stats
  <2>1. CASE ResetAllMessages(FALSE) /\ CloseFlushWrite
    BY <2>1, ResetAllMessagesEmpties DEF TypeOK, CloseFlushWrite
  <2>2. CASE UNCHANGED <<down, active_message_list, deferred, deferrals, stats>>
    BY <2>2 DEF TypeOK
  <2> QED
    BY <1>5, <2>1, <2>2
<1>6. CASE ReturnToOnData
  <2>1. half_closed' \in BOOLEAN
    BY <1>6 DEF TypeOK, ReturnToOnData
  <2> QED
    BY <1>4, <1>5, <1>6, <2>1
       DEF TypeOK, ReturnToOnData, msgVars, envVars, replyVars, beatVars
<1>7. CASE ReturnToOnPoolReady
  <2>1. sent \in [Messages -> Nat]
    BY DEF TypeOK
  <2>2. sent' = [sent EXCEPT ![call.msg] = @ + 1]
    BY <1>7 DEF ReturnToOnPoolReady
  <2>3. call.msg \in Messages
    BY <1>7, BoundsAssumption DEF TypeOK, ControlOK, ReturnToOnPoolReady, Messages
  <2>4. sent' \in [Messages -> Nat]
    BY <2>1, <2>2, <2>3
  <2> QED
    BY <1>4, <1>5, <1>7, <2>4
       DEF TypeOK, ReturnToOnPoolReady, FinishContinueDecoding, msgVars, envVars,
           replyVars, beatVars
<1>8. CASE ReturnToOnPoolFailure
  BY <1>4, <1>5, <1>8
     DEF TypeOK, ReturnToOnPoolFailure, FinishContinueDecoding, msgVars, envVars,
         replyVars, beatVars
<1> QED
  BY <1>1, <1>2, <1>3, <1>6, <1>7, <1>8 DEF CallbackStep

\* What continueDecoding() leaves behind for the dispatch() it enters.
LEMMA ContinueDecodingType ==
    ASSUME TypeOK, NEW m \in Messages, NEW caller \in Callers, ContinueDecoding(m, caller)
    PROVE  /\ pending_stream_decoded' \in [Messages -> BOOLEAN]
           /\ stats' \in Stats /\ stats'.request_active = stats.request_active
           /\ stopped' \in BOOLEAN
           /\ call' \in [from : Callers, msg : 0..MaxMessages, end_stream : BOOLEAN]
           /\ pc' \in {"idle", "dispatch", "return"}
<1>1. stats \in Stats
  BY DEF TypeOK
<1>2. PICK n \in Nat : stats' = [stats EXCEPT !.request = @ + n]
  BY DEF ContinueDecoding, CountFinalized
<1>3. stats' \in Stats /\ stats'.request_active = stats.request_active
  BY <1>1, <1>2 DEF Stats
<1>4. m \in 0..MaxMessages
  BY DEF Messages
<1> QED
  BY <1>3, <1>4 DEF TypeOK, ContinueDecoding, EnterDispatch

\* The steps of the pool.
LEMMA PoolKeepsType ==
    ASSUME TypeOK, NEW m \in Messages, PoolCallback(m)
    PROVE  TypeOK'
<1>1. "onPoolReady" \in Callers /\ "onPoolFailure" \in Callers
  BY DEF Callers
<1>2. CASE OnPoolReady(m)
  <2>1. /\ active_message_list' \in SUBSET Messages /\ deferred' \in SUBSET Messages
        /\ deferrals' \in [Messages -> Nat]
    BY <1>2, DeferredMessageType DEF TypeOK, OnPoolReady
  <2>2. /\ pool' \in [Messages -> {"none", "pending"}]
        /\ upstream' \in [Messages -> UpstreamConnections]
        /\ upstream_request' \in [Messages -> UpstreamRequests]
    BY <1>2 DEF TypeOK, OnPoolReady, UpstreamConnections, UpstreamRequests
  <2>3. ContinueDecoding(m, "onPoolReady")
    BY <1>2 DEF OnPoolReady
  <2> QED
    BY <1>1, <1>2, <2>1, <2>2, <2>3, ContinueDecodingType
       DEF TypeOK, OnPoolReady, replyVars, beatVars
<1>3. CASE OnPoolFailure(m)
  <2>1. /\ active_message_list' \in SUBSET Messages /\ deferred' \in SUBSET Messages
        /\ deferrals' \in [Messages -> Nat]
    BY <1>3, DeferredMessageType DEF TypeOK, OnPoolFailure
  <2>2. /\ pool' \in [Messages -> {"none", "pending"}]
        /\ upstream_request' \in [Messages -> UpstreamRequests]
    BY <1>3 DEF TypeOK, OnPoolFailure, UpstreamRequests
  <2>3. ContinueDecoding(m, "onPoolFailure")
    BY <1>3 DEF OnPoolFailure
  <2>4. SendLocalReply(m) \/ NoLocalReply
    BY <1>3 DEF OnPoolFailure
  <2> QED
    BY <1>1, <1>3, <2>1, <2>2, <2>3, <2>4, ContinueDecodingType, SendLocalReplyType
       DEF TypeOK, OnPoolFailure, beatVars
<1> QED
  BY <1>2, <1>3 DEF PoolCallback

\* The steps of a connection to a server.
LEMMA UpstreamKeepsType ==
    ASSUME TypeOK, NEW m \in Messages, OnUpstreamData(m) \/ OnUpstreamClose(m)
    PROVE  TypeOK'
<1> USE DEF TypeOK
<1>1. /\ active_message_list' \in SUBSET Messages /\ deferred' \in SUBSET Messages
      /\ deferrals' \in [Messages -> Nat]
  <2>1. \/ UNCHANGED <<active_message_list, deferred, deferrals>>
        \/ \E S \in {{}, {m}} : DeferredMessage(active_message_list, S)
    BY DEF OnUpstreamData, OnUpstreamMoreData, OnUpstreamTruncated, OnUpstreamResponse,
       OnUpstreamForeignResponse, OnUpstreamResponseTooLate, OnUpstreamBadResponse,
       OnUpstreamClose, OnResetStream, listVars, filter_complete
  <2> QED
    BY <2>1, DeferredMessageType
<1>2. SendLocalReply(m) \/ NoLocalReply
  BY DEF OnUpstreamData, OnUpstreamMoreData, OnUpstreamTruncated, OnUpstreamResponse,
     OnUpstreamForeignResponse, OnUpstreamResponseTooLate, OnUpstreamBadResponse,
     OnUpstreamClose, OnResetStream, NoLocalReply, msgVars, replyVars
<1>3. /\ local_response_sent' \in [Messages -> BOOLEAN]
      /\ local_replies' \in [Messages -> Nat]
  BY <1>2, SendLocalReplyType
<1>4. received' \in [Messages -> Received]
  BY DEF OnUpstreamData, OnUpstreamMoreData, OnUpstreamTruncated, OnUpstreamResponse,
     OnUpstreamForeignResponse, OnUpstreamResponseTooLate, OnUpstreamBadResponse,
     OnUpstreamClose, Received
<1>5. /\ upstream' \in [Messages -> UpstreamConnections]
      /\ upstream_request' \in [Messages -> UpstreamRequests]
  BY DEF OnUpstreamData, OnUpstreamMoreData, OnUpstreamTruncated, OnUpstreamResponse,
     OnUpstreamForeignResponse, OnUpstreamResponseTooLate, OnUpstreamBadResponse,
     OnUpstreamClose, ReleaseConnection, CloseConnection, UpstreamConnections,
     UpstreamRequests
<1>6. upstream_replies' = upstream_replies
      \/ upstream_replies' = [upstream_replies EXCEPT ![m] = @ + 1]
  BY DEF OnUpstreamData, OnUpstreamMoreData, OnUpstreamTruncated, OnUpstreamResponse,
     OnUpstreamForeignResponse, OnUpstreamResponseTooLate, OnUpstreamBadResponse,
     OnUpstreamClose, replyVars
<1>7. upstream_replies \in [Messages -> Nat]
  OBVIOUS
<1>8. upstream_replies' \in [Messages -> Nat]
  <2> HIDE DEF TypeOK
  <2> QED
    BY <1>6, <1>7
<1>9. UNCHANGED <<connVars, request_buffer, pc, call, created, destroyed, kind,
                  pending_stream_decoded, pool, sent, beatVars, stats>>
  BY DEF OnUpstreamData, OnUpstreamMoreData, OnUpstreamTruncated, OnUpstreamResponse,
     OnUpstreamForeignResponse, OnUpstreamResponseTooLate, OnUpstreamBadResponse,
     OnUpstreamClose, msgVars, listVars
<1> QED
  BY <1>1, <1>3, <1>4, <1>5, <1>8, <1>9 DEF connVars, beatVars

\* The gauge has a message for each that is deleted.
LEMMA DeferredDeleteKeepsType ==
    ASSUME TypeOK, GaugeExact, DeferredDelete
    PROVE  TypeOK'
<1>1. /\ upstream_request' \in [Messages -> UpstreamRequests]
      /\ pool' \in [Messages -> {"none", "pending"}]
      /\ upstream' \in [Messages -> UpstreamConnections]
  BY DEF TypeOK, DeferredDelete, Cancelled, Disconnected, UpstreamRequests,
         UpstreamConnections
<1>2. stats' \in Stats
  <2> DEFINE n == Cardinality(deferred)
  <2>0. /\ active_message_list \in SUBSET Messages /\ deferred \in SUBSET Messages
        /\ stats \in Stats
    BY DEF TypeOK
  <2>1. /\ n \in Nat /\ Cardinality(active_message_list) \in Nat
        /\ stats.request_active - n = Cardinality(active_message_list)
    BY <2>0, MessagesFinite DEF GaugeExact
  <2>2. stats' = [stats EXCEPT !.request_active = @ - n]
    BY DEF DeferredDelete
  <2> HIDE DEF n
  <2> QED
    BY <2>0, <2>1, <2>2 DEF Stats
<1> QED
  BY <1>1, <1>2 DEF TypeOK, DeferredDelete, connVars, msgVars, replyVars, beatVars

\* Every step keeps the types and the control state.
LEMMA NextKeepsType ==
    ASSUME TypeOK, ControlOK, GaugeExact, [Next]_vars
    PROVE  TypeOK'
<1>1. CASE UNCHANGED vars
  BY <1>1 DEF TypeOK, vars, connVars, listVars, msgVars, envVars, replyVars, beatVars
<1> QED
  BY <1>1, DownstreamKeepsType, CallbackKeepsType, PoolKeepsType, UpstreamKeepsType,
     DeferredDeleteKeepsType DEF Next

----------------------------------------------------------------------------
(* Where the messages are.                                                 *)

\* Every step but a new request and a deletion only moves messages.
LEMMA NextMovesOnly ==
    ASSUME TypeOK, [Next]_vars
    PROVE  MovesOnly \/ DeferredDelete \/ \E m \in Messages : DecodeMessage(m)
<1>1. ASSUME UNCHANGED <<active_message_list, deferred, deferrals>>
      PROVE  \E S \in SUBSET Messages : DeferredMessage(active_message_list, S)
  <2>1. DeferredMessage(active_message_list, {})
    BY <1>1 DEF TypeOK, DeferredMessage, HandOver
  <2> QED
    BY <2>1
<1>2. ASSUME NEW local \in BOOLEAN, ResetAllMessages(local)
      PROVE  /\ stats'.request_active = stats.request_active
             /\ \E S \in SUBSET Messages : DeferredMessage(active_message_list, S)
  BY <1>2, ResetAllMessagesEmpties DEF ResetAllMessages, TypeOK
<1>3. ASSUME NEW m \in Messages, NEW c, DeferredMessage(active_message_list, IF c THEN {m} ELSE {})
      PROVE  \E S \in SUBSET Messages : DeferredMessage(active_message_list, S)
  BY <1>3
<1>4. CASE DownstreamEvent
  <2>1. ASSUME NEW frames \in FrameSequences, NEW end_stream \in BOOLEAN,
               DownstreamData(frames, end_stream)
        PROVE  MovesOnly
    BY <2>1, <1>1 DEF DownstreamData, MovesOnly, listVars
  <2>2. ASSUME NEW local \in BOOLEAN, DownstreamClose(local)
        PROVE  MovesOnly
    BY <2>2, <1>2 DEF DownstreamClose, MovesOnly
  <2>3. CASE WriteBufferWatermark
    BY <2>3, <1>1 DEF WriteBufferWatermark, MovesOnly, listVars
  <2> QED
    BY <1>4, <2>1, <2>2, <2>3 DEF DownstreamEvent
<1>5. CASE DecodeHeartbeat
  BY <1>5, <1>1 DEF DecodeHeartbeat, MovesOnly, listVars
<1>6. CASE DecodeError
  BY <1>6, <1>2 DEF DecodeError, MovesOnly
<1>7. CASE ReturnToOnData
  BY <1>7, <1>1, <1>2 DEF ReturnToOnData, MovesOnly
<1>8. CASE ReturnToOnPoolReady
  BY <1>8, <1>1, <1>2 DEF ReturnToOnPoolReady, FinishContinueDecoding, MovesOnly
<1>9. CASE ReturnToOnPoolFailure
  BY <1>9, <1>1, <1>2 DEF ReturnToOnPoolFailure, FinishContinueDecoding, MovesOnly
<1>10. ASSUME NEW m \in Messages, PoolCallback(m)
       PROVE  MovesOnly
  <2>1. \E caller \in Callers : ContinueDecoding(m, caller)
    BY <1>10 DEF PoolCallback, OnPoolReady, OnPoolFailure, Callers
  <2>2. stats'.request_active = stats.request_active
    BY <2>1, ContinueDecodingType
  <2>3. UNCHANGED <<created, destroyed>>
    BY <1>10 DEF PoolCallback, OnPoolReady, OnPoolFailure
  <2>4. \E S \in SUBSET Messages : DeferredMessage(active_message_list, S)
    BY <1>10 DEF PoolCallback, OnPoolReady, OnPoolFailure, Finished
  <2> QED
    BY <2>2, <2>3, <2>4 DEF MovesOnly
<1>11. ASSUME NEW m \in Messages, OnUpstreamData(m) \/ OnUpstreamClose(m)
       PROVE  MovesOnly
  <2>1. UNCHANGED <<created, destroyed, stats>>
    BY <1>11 DEF OnUpstreamData, OnUpstreamMoreData, OnUpstreamTruncated,
       OnUpstreamResponse, OnUpstreamForeignResponse, OnUpstreamResponseTooLate,
       OnUpstreamBadResponse, OnUpstreamClose, listVars
  <2>2. \/ UNCHANGED <<active_message_list, deferred, deferrals>>
        \/ DeferredMessage(active_message_list, {m})
        \/ DeferredMessage(active_message_list, {})
    BY <1>11 DEF OnUpstreamData, OnUpstreamMoreData, OnUpstreamTruncated,
       OnUpstreamResponse, OnUpstreamForeignResponse, OnUpstreamResponseTooLate,
       OnUpstreamBadResponse, OnUpstreamClose, OnResetStream, filter_complete, listVars
  <2> QED
    BY <2>1, <2>2, <1>1 DEF MovesOnly
<1>12. CASE UNCHANGED vars
  BY <1>12, <1>1 DEF vars, MovesOnly, listVars
<1> QED
  BY <1>4, <1>5, <1>6, <1>7, <1>8, <1>9, <1>10, <1>11, <1>12 DEF Next, CallbackStep

\* What the four outcomes of a decoded request have in common: the new message
\* is in the list or deferred, and the gauge counts it.
LEMMA DecodeMessageParts ==
    ASSUME TypeOK, ControlOK, NEW m \in Messages, DecodeMessage(m)
    PROVE  /\ NewStream(m)
           /\ created' = created + 1 /\ m = created + 1 /\ created \in Nat
           /\ stats'.request_active = stats.request_active + 1
           /\ \E S \in SUBSET Messages : DeferredMessage(active_message_list \cup {m}, S)
<1>1. NewStream(m)
  BY DEF DecodeMessage, DecodeUnroutable, DecodePoolOverflow, DecodePoolReady,
         DecodePoolPending
<1>2. created' = created + 1 /\ m = created + 1 /\ created \in Nat
  BY <1>1, BoundsAssumption DEF NewStream, TypeOK
<1>3. \E n \in Nat : CountRequest(n)
  BY DEF DecodeMessage, DecodeUnroutable, DecodePoolOverflow, DecodePoolReady,
         DecodePoolPending
<1>4. stats'.request_active = stats.request_active + 1
  BY <1>3, CountRequestType DEF TypeOK
<1>5. \E S \in {{}, {m}} : DeferredMessage(active_message_list \cup {m}, S)
  BY DEF DecodeMessage, DecodeUnroutable, DecodePoolOverflow, DecodePoolReady,
         DecodePoolPending, Finished, NewList
<1> QED
  BY <1>1, <1>2, <1>4, <1>5

\* A message that leaves the list is handed over for the first time.
LEMMA OwnershipStep ==
    ASSUME \A m \in Messages : deferrals[m] = IF m \in deferred \cup destroyed THEN 1 ELSE 0,
           deferred' \cap destroyed = {}, deferred \subseteq deferred', destroyed' = destroyed,
           \A m \in Messages : deferrals'[m] =
               IF m \in deferred' \ deferred THEN deferrals[m] + 1 ELSE deferrals[m]
    PROVE  \A m \in Messages : deferrals'[m] = IF m \in deferred' \cup destroyed' THEN 1 ELSE 0
<1> TAKE m \in Messages
<1>1. CASE m \in deferred' \ deferred
  BY <1>1
<1>2. CASE m \notin deferred' \ deferred
  BY <1>2
<1> QED
  BY <1>1, <1>2

\* Every message is in one place, and the gauge counts those that are not gone.
LEMMA NextKeepsOwnership ==
    ASSUME TypeOK, ControlOK, Ownership, GaugeExact, [Next]_vars
    PROVE  Ownership' /\ GaugeExact'
<1>1. /\ active_message_list \in SUBSET Messages /\ deferred \in SUBSET Messages
      /\ stats.request_active \in Nat
  BY DEF TypeOK, Stats
<1>2. CASE MovesOnly
  <2>1. PICK S \in SUBSET Messages : DeferredMessage(active_message_list, S)
    BY <1>2 DEF MovesOnly
  <2>2. /\ active_message_list' \cup deferred' = active_message_list \cup deferred
        /\ active_message_list' \cap deferred' = {}
        /\ deferred \subseteq deferred'
        /\ \A m \in Messages : deferrals'[m] =
               IF m \in deferred' \ deferred THEN deferrals[m] + 1 ELSE deferrals[m]
        /\ Cardinality(active_message_list') + Cardinality(deferred')
             = Cardinality(active_message_list) + Cardinality(deferred)
    BY <1>1, <2>1, DeferredMessageMoves DEF Ownership
  <2>3. /\ created' = created /\ destroyed' = destroyed
        /\ stats'.request_active = stats.request_active
    BY <1>2 DEF MovesOnly
  <2>4. Ownership'
    BY <2>2, <2>3, OwnershipStep DEF Ownership
  <2> QED
    BY <2>2, <2>3, <2>4 DEF GaugeExact
<1>3. ASSUME NEW m \in Messages, DecodeMessage(m)
      PROVE  Ownership' /\ GaugeExact'
  <2>1. /\ created' = created + 1 /\ m = created + 1 /\ created \in Nat
        /\ stats'.request_active = stats.request_active + 1
        /\ destroyed' = destroyed
    BY <1>3, DecodeMessageParts DEF NewStream
  <2>2. PICK S \in SUBSET Messages : DeferredMessage(active_message_list \cup {m}, S)
    BY <1>3, DecodeMessageParts
  <2>3. m \notin active_message_list /\ m \notin deferred /\ m \notin destroyed
    BY <2>1 DEF Ownership
  <2>4. /\ active_message_list' \cup deferred' = active_message_list \cup {m} \cup deferred
        /\ active_message_list' \cap deferred' = {}
        /\ deferred \subseteq deferred'
        /\ \A n \in Messages : deferrals'[n] =
               IF n \in deferred' \ deferred THEN deferrals[n] + 1 ELSE deferrals[n]
        /\ Cardinality(active_message_list') + Cardinality(deferred')
             = Cardinality(active_message_list \cup {m}) + Cardinality(deferred)
    <3>1. active_message_list \cup {m} \in SUBSET Messages
      BY <1>1
    <3>2. (active_message_list \cup {m}) \cap deferred = {}
      BY <2>3 DEF Ownership
    <3> QED
      BY <1>1, <2>2, <3>1, <3>2, DeferredMessageMoves
  <2>5. Cardinality(active_message_list \cup {m}) = Cardinality(active_message_list) + 1
    BY <1>1, <2>3, MessagesFinite, FS_AddElement
  <2>6. 1..created' = 1..created \cup {m}
    BY <2>1
  <2>7. Ownership'
    BY <2>1, <2>3, <2>4, <2>6, OwnershipStep DEF Ownership
  <2>8. /\ Cardinality(active_message_list) \in Nat /\ Cardinality(deferred) \in Nat
    BY <1>1, MessagesFinite
  <2>9. GaugeExact'
    BY <1>1, <2>1, <2>4, <2>5, <2>8 DEF GaugeExact
  <2> QED
    BY <2>7, <2>9
<1>4. CASE DeferredDelete
  <2>1. /\ Cardinality(active_message_list) \in Nat /\ Cardinality(deferred) \in Nat
        /\ Cardinality({}) = 0
    BY <1>1, MessagesFinite, FS_EmptySet
  <2>2. Ownership'
    BY <1>4 DEF DeferredDelete, Ownership
  <2>3. stats'.request_active = stats.request_active - Cardinality(deferred)
    BY <1>4 DEF DeferredDelete, TypeOK, Stats
  <2>4. GaugeExact'
    BY <1>1, <1>4, <2>1, <2>3 DEF GaugeExact, DeferredDelete
  <2> QED
    BY <2>2, <2>4
<1> QED
  BY <1>2, <1>3, <1>4, NextMovesOnly


----------------------------------------------------------------------------
(* The Router, the pool and the upstream connections.                       *)

\* A message that is not known yet has no pool request and no connection.
LEMMA FreshMessage ==
    ASSUME TypeOK, ControlOK, Ownership, CallbackSafety,
           NEW m \in Messages, DecodeMessage(m)
    PROVE  pool[m] # "pending" /\ upstream[m] # "attached"
<1>1. m = created + 1 /\ created \in Nat
  BY DecodeMessageParts
<1>2. m \notin active_message_list \cup deferred
  BY <1>1 DEF Ownership
<1> QED
  BY <1>2 DEF CallbackSafety

\* Every step keeps the Router's idea of its handle and its connection right.
LEMMA NextKeepsPoolAgreement ==
    ASSUME TypeOK, ControlOK, Ownership, CallbackSafety, PoolAgreement, [Next]_vars
    PROVE  PoolAgreement'
<1> SUFFICES ASSUME NEW n \in Messages
             PROVE  /\ (upstream_request'[n] = "waiting") <=> (pool'[n] = "pending")
                    /\ (upstream'[n] = "attached") => (upstream_request'[n] = "connected")
                    /\ (upstream_request'[n] = "connected")
                         => (upstream'[n] \in {"attached", "closed"})
  BY DEF PoolAgreement
<1>1. /\ upstream_request \in [Messages -> UpstreamRequests]
      /\ pool \in [Messages -> {"none", "pending"}]
      /\ upstream \in [Messages -> UpstreamConnections]
  BY DEF TypeOK
<1>2. /\ (upstream_request[n] = "waiting") <=> (pool[n] = "pending")
      /\ (upstream[n] = "attached") => (upstream_request[n] = "connected")
      /\ (upstream_request[n] = "connected") => (upstream[n] \in {"attached", "closed"})
  BY DEF PoolAgreement
<1>3. CASE UNCHANGED <<upstream_request, pool, upstream>>
  BY <1>2, <1>3
<1>4. ASSUME NEW m \in Messages, DecodeMessage(m)
      PROVE  /\ (upstream_request'[n] = "waiting") <=> (pool'[n] = "pending")
             /\ (upstream'[n] = "attached") => (upstream_request'[n] = "connected")
             /\ (upstream_request'[n] = "connected")
                  => (upstream'[n] \in {"attached", "closed"})
  <2>1. pool[m] # "pending" /\ upstream[m] # "attached"
    BY <1>4, FreshMessage
  <2> QED
    BY <1>1, <1>2, <1>4, <2>1 DEF DecodeMessage, DecodeUnroutable, DecodePoolOverflow,
       DecodePoolReady, DecodePoolPending
<1>5. ASSUME NEW m \in Messages, PoolCallback(m)
      PROVE  /\ (upstream_request'[n] = "waiting") <=> (pool'[n] = "pending")
             /\ (upstream'[n] = "attached") => (upstream_request'[n] = "connected")
             /\ (upstream_request'[n] = "connected")
                  => (upstream'[n] \in {"attached", "closed"})
  <2>1. upstream[m] # "attached"
    BY <1>5 DEF PoolCallback, OnPoolReady, OnPoolFailure, PoolAgreement
  <2> QED
    BY <1>1, <1>2, <1>5, <2>1 DEF PoolCallback, OnPoolReady, OnPoolFailure
<1>6. ASSUME NEW m \in Messages, OnUpstreamData(m) \/ OnUpstreamClose(m)
      PROVE  /\ (upstream_request'[n] = "waiting") <=> (pool'[n] = "pending")
             /\ (upstream'[n] = "attached") => (upstream_request'[n] = "connected")
             /\ (upstream_request'[n] = "connected")
                  => (upstream'[n] \in {"attached", "closed"})
  <2>1. upstream[m] = "attached" /\ pool' = pool
    BY <1>6 DEF OnUpstreamData, OnUpstreamMoreData, OnUpstreamTruncated,
       OnUpstreamResponse, OnUpstreamForeignResponse, OnUpstreamResponseTooLate,
       OnUpstreamBadResponse, OnUpstreamClose, Awaits
  <2>2. upstream_request[m] = "connected" /\ pool[m] # "pending"
    BY <2>1 DEF PoolAgreement
  <2>3. \/ UNCHANGED <<upstream, upstream_request>>
        \/ ReleaseConnection(m)
        \/ CloseConnection(m)
        \/ upstream' = [upstream EXCEPT ![m] = "closed"] /\ upstream_request' = upstream_request
    BY <1>6 DEF OnUpstreamData, OnUpstreamMoreData, OnUpstreamTruncated,
       OnUpstreamResponse, OnUpstreamForeignResponse, OnUpstreamResponseTooLate,
       OnUpstreamBadResponse, OnUpstreamClose
  <2> QED
    BY <1>1, <1>2, <2>1, <2>2, <2>3 DEF ReleaseConnection, CloseConnection
<1>7. CASE DeferredDelete
  BY <1>1, <1>2, <1>7 DEF DeferredDelete, Cancelled, Disconnected
<1>8. CASE \/ DownstreamEvent \/ DecodeHeartbeat \/ DecodeError \/ ReturnToOnData
           \/ ReturnToOnPoolReady \/ ReturnToOnPoolFailure \/ UNCHANGED vars
  <2>1. UNCHANGED <<upstream_request, pool, upstream>>
    BY <1>8 DEF DownstreamEvent, DownstreamData, DownstreamClose, WriteBufferWatermark,
       DecodeHeartbeat, DecodeError, ReturnToOnData, ReturnToOnPoolReady,
       ReturnToOnPoolFailure, vars, envVars
  <2> QED
    BY <2>1, <1>3
<1> QED
  BY <1>4, <1>5, <1>6, <1>7, <1>8 DEF Next, CallbackStep

\* A step other than a new request and a deletion calls for no new callback: only
\* a message with a pool request or a connection can have one after the step.
LEMMA NoNewCallbacks ==
    ASSUME TypeOK, [Next]_vars, ~DeferredDelete,
           \A m \in Messages : ~DecodeMessage(m),
           NEW n \in Messages, pool'[n] = "pending" \/ upstream'[n] = "attached"
    PROVE  pool[n] = "pending" \/ upstream[n] = "attached"
<1>1. /\ pool \in [Messages -> {"none", "pending"}]
      /\ upstream \in [Messages -> UpstreamConnections]
  BY DEF TypeOK
<1>2. ASSUME NEW m \in Messages, PoolCallback(m)
      PROVE  pool[n] = "pending" \/ upstream[n] = "attached"
  BY <1>1, <1>2 DEF PoolCallback, OnPoolReady, OnPoolFailure
<1>3. ASSUME NEW m \in Messages, OnUpstreamData(m) \/ OnUpstreamClose(m)
      PROVE  pool[n] = "pending" \/ upstream[n] = "attached"
  BY <1>1, <1>3 DEF OnUpstreamData, OnUpstreamMoreData, OnUpstreamTruncated,
     OnUpstreamResponse, OnUpstreamForeignResponse, OnUpstreamResponseTooLate,
     OnUpstreamBadResponse, OnUpstreamClose, ReleaseConnection, CloseConnection
<1>4. CASE \/ DownstreamEvent \/ DecodeHeartbeat \/ DecodeError \/ ReturnToOnData
           \/ ReturnToOnPoolReady \/ ReturnToOnPoolFailure \/ UNCHANGED vars
  BY <1>4 DEF DownstreamEvent, DownstreamData, DownstreamClose, WriteBufferWatermark,
     DecodeHeartbeat, DecodeError, ReturnToOnData, ReturnToOnPoolReady,
     ReturnToOnPoolFailure, vars, envVars
<1> QED
  BY <1>2, <1>3, <1>4 DEF Next, CallbackStep

\* No step leaves the pool or a connection with a callback to a deleted Router.
LEMMA NextKeepsCallbackSafety ==
    ASSUME TypeOK, ControlOK, Ownership, PoolAgreement, CallbackSafety, [Next]_vars
    PROVE  CallbackSafety'
<1> SUFFICES ASSUME NEW n \in Messages, pool'[n] = "pending" \/ upstream'[n] = "attached"
             PROVE  n \in active_message_list' \cup deferred'
  BY DEF CallbackSafety
<1>1. /\ upstream_request \in [Messages -> UpstreamRequests]
      /\ pool \in [Messages -> {"none", "pending"}]
      /\ upstream \in [Messages -> UpstreamConnections]
      /\ active_message_list \in SUBSET Messages /\ deferred \in SUBSET Messages
  BY DEF TypeOK
<1>2. ASSUME NEW m \in Messages, DecodeMessage(m)
      PROVE  n \in active_message_list' \cup deferred'
  <2>1. PICK S \in SUBSET Messages : DeferredMessage(active_message_list \cup {m}, S)
    BY <1>2, DecodeMessageParts
  <2>2. active_message_list \cup {m} \cup deferred \subseteq active_message_list' \cup deferred'
    BY <2>1 DEF DeferredMessage, HandOver
  <2>3. n # m => pool'[n] = pool[n] /\ upstream'[n] = upstream[n]
    BY <1>1, <1>2 DEF DecodeMessage, DecodeUnroutable, DecodePoolOverflow,
       DecodePoolReady, DecodePoolPending
  <2> QED
    BY <2>2, <2>3 DEF CallbackSafety
<1>3. CASE DeferredDelete
  <2>1. n \notin deferred
    <3>1. n \in deferred => pool'[n] # "pending"
      BY <1>1, <1>3 DEF DeferredDelete, Cancelled, PoolAgreement
    <3>2. n \in deferred => upstream'[n] # "attached"
      BY <1>1, <1>3 DEF DeferredDelete, Disconnected, PoolAgreement
    <3> QED
      BY <3>1, <3>2
  <2>2. pool[n] = "pending" \/ upstream[n] = "attached"
    BY <1>1, <1>3, <2>1 DEF DeferredDelete, Cancelled, Disconnected
  <2> QED
    BY <1>3, <2>1, <2>2 DEF DeferredDelete, CallbackSafety
<1>4. CASE MovesOnly /\ ~DeferredDelete /\ \A m \in Messages : ~DecodeMessage(m)
  <2>1. n \in active_message_list \cup deferred
    BY <1>4, NoNewCallbacks DEF CallbackSafety
  <2>2. active_message_list \cup deferred \subseteq active_message_list' \cup deferred'
    BY <1>4 DEF MovesOnly, DeferredMessage, HandOver
  <2> QED
    BY <2>1, <2>2
<1> QED
  BY <1>2, <1>3, <1>4, NextMovesOnly


----------------------------------------------------------------------------
(* The control state, the buffer and the close of the connection.           *)

\* A callback that starts is recorded, and one that ends is not running.
LEMMA NextKeepsControl ==
    ASSUME TypeOK, ControlOK, Ownership, CallbackSafety, [Next]_vars
    PROVE  ControlOK'
<1>1. CASE DownstreamEvent
  <2>1. ASSUME NEW frames \in FrameSequences, NEW end_stream \in BOOLEAN,
               DownstreamData(frames, end_stream)
        PROVE  ControlOK'
    BY <2>1 DEF DownstreamData, EnterDispatch, ControlOK
  <2>2. ASSUME NEW local \in BOOLEAN, DownstreamClose(local)
        PROVE  ControlOK'
    BY <2>2 DEF DownstreamClose, ControlOK
  <2>3. CASE WriteBufferWatermark
    BY <2>3 DEF WriteBufferWatermark, listVars, ControlOK
  <2> QED
    BY <1>1, <2>1, <2>2, <2>3 DEF DownstreamEvent
<1>2. ASSUME NEW m \in Messages, DecodeMessage(m)
      PROVE  ControlOK'
  <2>1. /\ NewStream(m) /\ created' = created + 1 /\ created \in Nat
    BY <1>2, DecodeMessageParts
  <2>2. /\ call' = call /\ call.from # "none"
        /\ pc' = "dispatch" => request_buffer' # <<>>
        /\ pc' # "idle"
    BY <2>1 DEF NewStream, ConsumeFrame, EnterDispatch, ControlOK
  <2>3. call.msg \in 1..created => call.msg \in 1..created'
    BY <2>1
  <2> QED
    BY <2>2, <2>3 DEF ControlOK
<1>3. CASE DecodeHeartbeat
  BY <1>3 DEF DecodeHeartbeat, ConsumeFrame, EnterDispatch, listVars, ControlOK
<1>4. CASE DecodeError
  BY <1>4 DEF DecodeError, ControlOK
<1>5. CASE ReturnToOnData \/ ReturnToOnPoolReady \/ ReturnToOnPoolFailure
  <2>1. pc' = "idle" /\ call' = NoCall
    BY <1>5 DEF ReturnToOnData, ReturnToOnPoolReady, ReturnToOnPoolFailure
  <2> QED
    BY <2>1 DEF ControlOK, NoCall
<1>6. ASSUME NEW m \in Messages, PoolCallback(m)
      PROVE  ControlOK'
  <2>1. pool[m] = "pending" /\ UNCHANGED <<created, request_buffer>>
    BY <1>6 DEF PoolCallback, OnPoolReady, OnPoolFailure
  <2>2. m \in 1..created
    BY <2>1 DEF CallbackSafety, Ownership
  <2>3. PICK caller \in {"onPoolReady", "onPoolFailure"} : ContinueDecoding(m, caller)
    BY <1>6 DEF PoolCallback, OnPoolReady, OnPoolFailure
  <2> QED
    BY <2>1, <2>2, <2>3 DEF ContinueDecoding, EnterDispatch, ControlOK
<1>7. ASSUME NEW m \in Messages, OnUpstreamData(m) \/ OnUpstreamClose(m)
      PROVE  ControlOK'
  <2>1. UNCHANGED <<pc, call, created, request_buffer>>
    BY <1>7 DEF OnUpstreamData, OnUpstreamMoreData, OnUpstreamTruncated,
       OnUpstreamResponse, OnUpstreamForeignResponse, OnUpstreamResponseTooLate,
       OnUpstreamBadResponse, OnUpstreamClose, listVars
  <2> QED
    BY <2>1 DEF ControlOK
<1>8. CASE DeferredDelete \/ UNCHANGED vars
  BY <1>8 DEF DeferredDelete, vars, listVars, ControlOK
<1> QED
  BY <1>1, <1>2, <1>3, <1>4, <1>5, <1>6, <1>7, <1>8 DEF Next, CallbackStep

\* A running dispatch() decodes messages and heartbeats only of an open connection.
LEMMA DecodesWhenOpen ==
    ASSUME ControlOK, BufferOK, pc = "dispatch", NextFrame # "Bad"
    PROVE  down = "Open"
BY DEF ControlOK, BufferOK, NextFrame

\* dispatch() ends with an empty buffer, or with the frame it closed for.
LEMMA NextKeepsBuffer ==
    ASSUME TypeOK, ControlOK, BufferOK, [Next]_vars
    PROVE  BufferOK'
<1>1. stopped = FALSE
  BY DEF BufferOK
<1>2. CASE DownstreamEvent
  <2>1. ASSUME NEW frames \in FrameSequences, NEW end_stream \in BOOLEAN,
               DownstreamData(frames, end_stream)
        PROVE  BufferOK'
    BY <1>1, <2>1 DEF DownstreamData, EnterDispatch, connVars, BufferOK
  <2>2. ASSUME NEW local \in BOOLEAN, DownstreamClose(local)
        PROVE  BufferOK'
    BY <2>2 DEF DownstreamClose, BufferOK
  <2>3. CASE WriteBufferWatermark
    BY <2>3 DEF WriteBufferWatermark, BufferOK
  <2> QED
    BY <1>2, <2>1, <2>2, <2>3 DEF DownstreamEvent
<1>3. ASSUME pc = "dispatch", NextFrame # "Bad", ConsumeFrame, UNCHANGED connVars
      PROVE  BufferOK'
  <2>1. down = "Open"
    BY <1>3, DecodesWhenOpen
  <2> QED
    BY <1>1, <1>3, <2>1 DEF ConsumeFrame, EnterDispatch, connVars, BufferOK
<1>4. ASSUME NEW m \in Messages, DecodeMessage(m)
      PROVE  BufferOK'
  BY <1>3, <1>4, DecodeMessageParts DEF NewStream, MessageKinds
<1>5. CASE DecodeHeartbeat
  BY <1>3, <1>5 DEF DecodeHeartbeat
<1>6. CASE DecodeError
  BY <1>6 DEF DecodeError, BufferOK, NextFrame
<1>7. CASE ReturnToOnData \/ ReturnToOnPoolReady \/ ReturnToOnPoolFailure
  <2>1. UNCHANGED <<stopped, request_buffer>> /\ (down # "Open" => down' # "Open") /\ pc = "return"
    BY <1>7 DEF ReturnToOnData, ReturnToOnPoolReady, ReturnToOnPoolFailure,
       FinishContinueDecoding, CloseFlushWrite
  <2> QED
    BY <2>1 DEF BufferOK
<1>8. ASSUME NEW m \in Messages, PoolCallback(m)
      PROVE  BufferOK'
  <2>1. pc = "idle" /\ UNCHANGED <<down, request_buffer>>
    BY <1>8 DEF PoolCallback, OnPoolReady, OnPoolFailure
  <2>2. stopped' = FALSE
    BY <1>8 DEF PoolCallback, OnPoolReady, OnPoolFailure, ContinueDecoding
  <2> QED
    BY <2>1, <2>2 DEF BufferOK
<1>9. ASSUME NEW m \in Messages, OnUpstreamData(m) \/ OnUpstreamClose(m)
      PROVE  BufferOK'
  <2>1. UNCHANGED <<down, stopped, pc, request_buffer>>
    BY <1>9 DEF OnUpstreamData, OnUpstreamMoreData, OnUpstreamTruncated,
       OnUpstreamResponse, OnUpstreamForeignResponse, OnUpstreamResponseTooLate,
       OnUpstreamBadResponse, OnUpstreamClose, connVars
  <2> QED
    BY <2>1 DEF BufferOK
<1>10. CASE DeferredDelete \/ UNCHANGED vars
  BY <1>10 DEF DeferredDelete, vars, connVars, BufferOK
<1> QED
  BY <1>2, <1>4, <1>5, <1>6, <1>7, <1>8, <1>9, <1>10 DEF Next, CallbackStep

\* Whatever closes the connection takes every message off the list, and no message
\* is put on it afterwards.
LEMMA NextKeepsNoOrphans ==
    ASSUME TypeOK, ControlOK, BufferOK, NoOrphans, [Next]_vars
    PROVE  NoOrphans'
<1>1. ASSUME MovesOnly, down' = down
      PROVE  NoOrphans'
  BY <1>1 DEF MovesOnly, DeferredMessage, NoOrphans
<1>2. ASSUME NEW local \in BOOLEAN, ResetAllMessages(local)
      PROVE  NoOrphans'
  BY <1>2, ResetAllMessagesEmpties DEF NoOrphans
<1>3. ASSUME NEW m \in Messages, DecodeMessage(m)
      PROVE  NoOrphans'
  <2>1. NewStream(m)
    BY <1>3, DecodeMessageParts
  <2>2. down = "Open"
    BY <2>1, DecodesWhenOpen DEF NewStream, MessageKinds
  <2> QED
    BY <2>1, <2>2 DEF NewStream, connVars, NoOrphans
<1>4. CASE DeferredDelete
  BY <1>4 DEF DeferredDelete, connVars, NoOrphans
<1>5. ASSUME MovesOnly
      PROVE  down' = down \/ \E local \in BOOLEAN : ResetAllMessages(local)
  <2>1. CASE DownstreamEvent
    BY <2>1 DEF DownstreamEvent, DownstreamData, DownstreamClose, WriteBufferWatermark,
       connVars
  <2>2. CASE DecodeError \/ ReturnToOnData \/ ReturnToOnPoolReady \/ ReturnToOnPoolFailure
    BY <2>2 DEF DecodeError, ReturnToOnData, ReturnToOnPoolReady, ReturnToOnPoolFailure,
       FinishContinueDecoding
  <2>3. CASE DecodeHeartbeat
    BY <2>3 DEF DecodeHeartbeat, connVars
  <2>4. ASSUME NEW m \in Messages, DecodeMessage(m)
        PROVE  down' = down
    BY <2>4, DecodeMessageParts DEF NewStream, connVars
  <2>5. ASSUME NEW m \in Messages, PoolCallback(m)
        PROVE  down' = down
    BY <2>5 DEF PoolCallback, OnPoolReady, OnPoolFailure
  <2>6. ASSUME NEW m \in Messages, OnUpstreamData(m) \/ OnUpstreamClose(m)
        PROVE  down' = down
    BY <2>6 DEF OnUpstreamData, OnUpstreamMoreData, OnUpstreamTruncated,
       OnUpstreamResponse, OnUpstreamForeignResponse, OnUpstreamResponseTooLate,
       OnUpstreamBadResponse, OnUpstreamClose, connVars
  <2>7. CASE DeferredDelete \/ UNCHANGED vars
    BY <2>7 DEF DeferredDelete, vars, connVars
  <2> QED
    BY <2>1, <2>2, <2>3, <2>4, <2>5, <2>6, <2>7 DEF Next, CallbackStep
<1> QED
  BY <1>1, <1>2, <1>3, <1>4, <1>5, NextMovesOnly


\* The connection that onPoolReady resumes with is still there when it writes.
LEMMA NextKeepsEncodeConnection ==
    ASSUME TypeOK, ControlOK, Ownership, CallbackSafety, EncodeHasConnection, [Next]_vars
    PROVE  EncodeHasConnection'
<1>1. /\ upstream_request \in [Messages -> UpstreamRequests]
      /\ upstream \in [Messages -> UpstreamConnections]
  BY DEF TypeOK
<1>2. ASSUME \/ pc' = "idle"
             \/ call'.from # "onPoolReady"
             \/ pc # "idle" /\ UNCHANGED <<call, upstream_request, upstream, destroyed>>
      PROVE  EncodeHasConnection'
  BY <1>2 DEF EncodeHasConnection
<1>3. CASE DownstreamEvent
  <2>1. \/ call'.from # "onPoolReady"
        \/ UNCHANGED <<pc, call>> /\ pc = "idle"
    BY <1>3 DEF DownstreamEvent, DownstreamData, DownstreamClose, WriteBufferWatermark
  <2> QED
    BY <2>1, <1>2
<1>4. ASSUME NEW m \in Messages, DecodeMessage(m)
      PROVE  EncodeHasConnection'
  <2>1. /\ NewStream(m) /\ m = created + 1 /\ created \in Nat
    BY <1>4, DecodeMessageParts
  <2>2. /\ pc # "idle" /\ UNCHANGED <<call, destroyed>>
        /\ call.from = "onPoolReady" => call.msg \in 1..created
    BY <2>1 DEF NewStream, ControlOK
  <2>3. call.from = "onPoolReady" => call.msg # m /\ call.msg \in Messages
    BY <2>1, <2>2, BoundsAssumption DEF TypeOK, Messages
  <2>4. call.from = "onPoolReady"
          => /\ upstream_request'[call.msg] = upstream_request[call.msg]
             /\ upstream'[call.msg] = upstream[call.msg]
    BY <1>1, <1>4, <2>3 DEF DecodeMessage, DecodeUnroutable, DecodePoolOverflow,
       DecodePoolReady, DecodePoolPending
  <2> QED
    BY <2>2, <2>4 DEF EncodeHasConnection
<1>5. CASE DecodeHeartbeat \/ DecodeError
  BY <1>2, <1>5 DEF DecodeHeartbeat, DecodeError, listVars, envVars
<1>6. CASE ReturnToOnData \/ ReturnToOnPoolReady \/ ReturnToOnPoolFailure
  BY <1>2, <1>6 DEF ReturnToOnData, ReturnToOnPoolReady, ReturnToOnPoolFailure
<1>7. ASSUME NEW m \in Messages, OnPoolReady(m)
      PROVE  EncodeHasConnection'
  <2>1. /\ upstream' = [upstream EXCEPT ![m] = "attached"]
        /\ upstream_request' = [upstream_request EXCEPT ![m] = "connected"]
        /\ destroyed' = destroyed /\ pool[m] = "pending"
        /\ call'.msg = m
    BY <1>7 DEF OnPoolReady, ContinueDecoding
  <2>2. m \notin destroyed
    BY <2>1 DEF CallbackSafety, Ownership
  <2> QED
    BY <1>1, <2>1, <2>2 DEF EncodeHasConnection
<1>8. ASSUME NEW m \in Messages, OnPoolFailure(m)
      PROVE  EncodeHasConnection'
  <2>1. call'.from = "onPoolFailure"
    BY <1>8 DEF OnPoolFailure, ContinueDecoding
  <2> QED
    BY <1>2, <2>1
<1>9. ASSUME NEW m \in Messages, OnUpstreamData(m) \/ OnUpstreamClose(m)
      PROVE  EncodeHasConnection'
  <2>1. pc' = "idle"
    BY <1>9 DEF OnUpstreamData, OnUpstreamMoreData, OnUpstreamTruncated,
       OnUpstreamResponse, OnUpstreamForeignResponse, OnUpstreamResponseTooLate,
       OnUpstreamBadResponse, OnUpstreamClose, Awaits
  <2> QED
    BY <2>1, <1>2
<1>10. CASE DeferredDelete
  BY <1>10 DEF DeferredDelete, EncodeHasConnection
<1>11. CASE UNCHANGED vars
  BY <1>11 DEF vars, listVars, envVars, EncodeHasConnection
<1> QED
  BY <1>3, <1>4, <1>5, <1>6, <1>7, <1>8, <1>9, <1>10, <1>11
     DEF Next, CallbackStep, PoolCallback

----------------------------------------------------------------------------
(* The theorems.                                                           *)

\* Nothing exists but an open connection.
LEMMA InitInv == Init => IInv
<1> SUFFICES ASSUME Init PROVE IInv
  OBVIOUS
<1>1. TypeOK /\ ControlOK
  BY InitType
<1>2. BufferOK /\ EncodeHasConnection /\ NoOrphans
  BY DEF Init, BufferOK, EncodeHasConnection, NoOrphans
<1>3. GaugeExact
  <2>1. Cardinality({}) = 0
    BY FS_EmptySet
  <2> QED
    BY <2>1 DEF Init, NoStats, GaugeExact
<1>4. Ownership
  BY DEF Init, Ownership
<1>5. PoolAgreement /\ CallbackSafety
  BY DEF Init, PoolAgreement, CallbackSafety
<1> QED
  BY <1>1, <1>2, <1>3, <1>4, <1>5 DEF IInv

\* Every step keeps the invariant.
LEMMA NextKeepsInv == IInv /\ [Next]_vars => IInv'
<1> SUFFICES ASSUME IInv, [Next]_vars PROVE IInv'
  OBVIOUS
<1> QED
  BY NextKeepsType, NextKeepsControl, NextKeepsBuffer, NextKeepsOwnership,
     NextKeepsPoolAgreement, NextKeepsCallbackSafety, NextKeepsEncodeConnection,
     NextKeepsNoOrphans DEF IInv

\* The inductive invariant holds in every reachable state.
THEOREM InductiveInvariant == Spec => []IInv
  BY InitInv, NextKeepsInv, PTL DEF Spec

\* Every variable keeps its type; the active-request gauge never goes negative.
THEOREM TypeCorrect == Spec => []TypeOK
<1>1. IInv => TypeOK
  BY DEF IInv
<1> QED
  BY <1>1, InductiveInvariant, PTL

\* deferredMessage, whoever calls it and however often, loses no message and hands
\* none to the dispatcher twice.
THEOREM OwnershipCorrect == Spec => []Ownership
<1>1. IInv => Ownership
  BY DEF IInv
<1> QED
  BY <1>1, InductiveInvariant, PTL

\* UpstreamRequest holds a pool handle, or a connection, exactly when the pool, or
\* the connection, still knows it.
THEOREM PoolAgreementCorrect == Spec => []PoolAgreement
<1>1. IInv => PoolAgreement
  BY DEF IInv
<1> QED
  BY <1>1, InductiveInvariant, PTL

\* ~ActiveMessage leaves nothing behind that could call the deleted Router.
THEOREM CallbackSafetyCorrect == Spec => []CallbackSafety
<1>1. IInv => CallbackSafety
  BY DEF IInv
<1> QED
  BY <1>1, InductiveInvariant, PTL

\* encodeData in onPoolReady has a connection, though continueDecoding() ran first.
THEOREM EncodeHasConnectionCorrect == Spec => []EncodeHasConnection
<1>1. IInv => EncodeHasConnection
  BY DEF IInv
<1> QED
  BY <1>1, InductiveInvariant, PTL

\* Neither the pool nor a connection calls a Router that is gone, and onPoolReady writes
\* to a connection it has.
THEOREM CallbacksOfLivingCorrect == Spec => []CallbacksOfLiving
BY CallbackSafetyCorrect, EncodeHasConnectionCorrect, PTL DEF CallbacksOfLiving

\* However the downstream connection is closed, its list of messages is empty.
THEOREM NoOrphansCorrect == Spec => []NoOrphans
<1>1. IInv => NoOrphans
  BY DEF IInv
<1> QED
  BY <1>1, InductiveInvariant, PTL
=============================================================================
