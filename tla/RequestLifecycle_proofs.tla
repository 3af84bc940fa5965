----------------------- MODULE RequestLifecycle_proofs -----------------------
(***************************************************************************)
(* Proofs about the life of each message of MetaProtocolProxy: where it is *)
(* answered, sent and counted, and that the connection implements          *)
(* RequestLifecycle.  They rest on the invariant of                        *)
(* MetaProtocolProxy_proofs.                                               *)
(***************************************************************************)
EXTENDS MCMetaProtocolProxy, MetaProtocolProxy_proofs

Known == 1..created

Unanswered(m) ==
    ~local_response_sent[m] /\ upstream_replies[m] = 0 /\ local_replies[m] = 0

Answered(m) == upstream_replies[m] + local_replies[m] > 0

\* Nothing has happened to a message that has not been decoded.
Untouched(m) ==
    /\ kind[m] = "none" /\ ~pending_stream_decoded[m]
    /\ pool[m] = "none" /\ upstream[m] = "none"
    /\ sent[m] = 0 /\ Unanswered(m)

\* As long as the pool may call back the message is paused, and nothing was sent.
PoolOwesAnswer(m) ==
    pool[m] = "pending" => pending_stream_decoded[m] /\ sent[m] = 0 /\ Unanswered(m)

\* As long as the server may answer nobody has.
ServerOwesAnswer(m) == upstream[m] = "attached" => Unanswered(m)

RepliesBounded(m) ==
    upstream_replies[m] + local_replies[m] <= (IF received[m] = "foreign" THEN 2 ELSE 1)

ReusedClean(m) == upstream[m] = "released" => received[m] \in {"response", "ended"}

\* A request leaves the list unanswered only with the connection.
NotDropped(m) ==
    kind[m] = "Request" /\ ~Answered(m) /\ down = "Open" => m \in active_message_list

Waits(m) ==
    m \in active_message_list =>
        \/ pool[m] = "pending"
        \/ upstream[m] = "attached" /\ kind[m] = "Request"
        \/ local_response_sent[m] /\ local_replies[m] = 1

\* The invariant of one message.
LifeOf(m) ==
    /\ m \in Known => kind[m] \in MessageKinds
    /\ m \notin Known => Untouched(m)
    /\ PoolOwesAnswer(m) /\ ServerOwesAnswer(m)
    /\ RepliesBounded(m) /\ ReusedClean(m)
    /\ NotDropped(m) /\ Waits(m)

\* What encodeData writes has not been written.
EncodesOnce == pc # "idle" /\ call.from = "onPoolReady" => sent[call.msg] = 0

\* The heartbeats that are not answered are in the buffer.
HeartbeatsExact ==
    down = "Open" =>
        heartbeats = heartbeat_replies + CountFrames(request_buffer, {"Heartbeat"})

LifeInv ==
    /\ IInv
    /\ \A m \in Messages : LifeOf(m)
    /\ EncodesOnce /\ HeartbeatsExact /\ RequestsCountedOnce /\ DropsAreCounted

----------------------------------------------------------------------------
(* One message.                                                            *)

\* The types of what a message consists of.
LEMMA MessageTypes ==
    ASSUME TypeOK
    PROVE  /\ kind \in [Messages -> MessageKinds \cup {"none"}]
           /\ pending_stream_decoded \in [Messages -> BOOLEAN]
           /\ local_response_sent \in [Messages -> BOOLEAN]
           /\ pool \in [Messages -> {"none", "pending"}]
           /\ upstream_request \in [Messages -> UpstreamRequests]
           /\ upstream \in [Messages -> UpstreamConnections]
           /\ received \in [Messages -> Received]
           /\ sent \in [Messages -> Nat]
           /\ upstream_replies \in [Messages -> Nat]
           /\ local_replies \in [Messages -> Nat]
           /\ active_message_list \in SUBSET Messages
           /\ created \in Nat
BY BoundsAssumption DEF TypeOK

\* A message that the step does not touch, but for taking it off the list of a
\* connection that closes, and writing what is written at most once.
LEMMA LifeUntouched ==
    ASSUME NEW n \in Messages, LifeOf(n),
           kind'[n] = kind[n],
           pending_stream_decoded'[n] = pending_stream_decoded[n],
           local_response_sent'[n] = local_response_sent[n],
           pool'[n] = pool[n], upstream'[n] = upstream[n], received'[n] = received[n],
           upstream_replies'[n] = upstream_replies[n], local_replies'[n] = local_replies[n],
           n \in Known' <=> n \in Known,
           sent'[n] = sent[n] \/ (n \in Known /\ pool[n] # "pending"),
           n \in active_message_list' => n \in active_message_list,
           down' = "Open" => down = "Open" /\ (n \in active_message_list => n \in active_message_list')
    PROVE  LifeOf(n)'
BY DEF LifeOf, Untouched, Unanswered, Answered, PoolOwesAnswer, ServerOwesAnswer,
       RepliesBounded, ReusedClean, NotDropped, Waits

\* A callback is about a message that has been decoded.
LEMMA CallbackKnown ==
    ASSUME IInv, NEW m \in Messages, pool[m] = "pending" \/ upstream[m] = "attached"
    PROVE  m \in Known
BY DEF IInv, CallbackSafety, Ownership, Known

\* A step that is about one message does not touch the others.
LEMMA OthersUntouched ==
    ASSUME IInv, NEW m \in Messages, NEW n \in Messages, n # m,
           \/ DecodeMessage(m) \/ PoolCallback(m)
           \/ OnUpstreamData(m) \/ OnUpstreamClose(m)
    PROVE  /\ kind'[n] = kind[n]
           /\ pending_stream_decoded'[n] = pending_stream_decoded[n]
           /\ local_response_sent'[n] = local_response_sent[n]
           /\ pool'[n] = pool[n] /\ upstream'[n] = upstream[n] /\ received'[n] = received[n]
           /\ upstream_replies'[n] = upstream_replies[n] /\ local_replies'[n] = local_replies[n]
           /\ sent'[n] = sent[n]
           /\ n \in active_message_list' <=> n \in active_message_list
<1> USE MessageTypes DEF IInv
<1>1. CASE DecodeMessage(m)
  BY <1>1 DEF DecodeMessage, DecodeUnroutable, DecodePoolOverflow, DecodePoolReady,
     DecodePoolPending, NewStream, DeferredMessage, NewList, Finished, SendLocalReply,
     NoLocalReply
<1>2. CASE PoolCallback(m)
  <2>1. n \in active_message_list' <=> n \in active_message_list
    BY <1>2 DEF PoolCallback, OnPoolReady, OnPoolFailure, DeferredMessage, Finished
  <2>2. /\ local_response_sent'[n] = local_response_sent[n]
        /\ local_replies'[n] = local_replies[n]
    BY <1>2 DEF PoolCallback, OnPoolReady, OnPoolFailure, SendLocalReply, NoLocalReply,
       replyVars
  <2>3. /\ pool'[n] = pool[n] /\ upstream'[n] = upstream[n]
        /\ pending_stream_decoded'[n] = pending_stream_decoded[n]
        /\ UNCHANGED <<kind, received, upstream_replies, sent>>
    BY <1>2 DEF PoolCallback, OnPoolReady, OnPoolFailure, ContinueDecoding, replyVars
  <2> QED
    BY <2>1, <2>2, <2>3
<1>3. CASE OnUpstreamData(m) \/ OnUpstreamClose(m)
  <2> USE DEF OnUpstreamData, OnUpstreamMoreData, OnUpstreamTruncated, OnUpstreamResponse,
          OnUpstreamForeignResponse, OnUpstreamResponseTooLate, OnUpstreamBadResponse,
          OnUpstreamClose
  <2>1. n \in active_message_list' <=> n \in active_message_list
    BY <1>3 DEF DeferredMessage, OnResetStream, listVars, filter_complete
  <2>2. /\ local_response_sent'[n] = local_response_sent[n]
        /\ local_replies'[n] = local_replies[n]
    BY <1>3 DEF OnResetStream, SendLocalReply, NoLocalReply, msgVars, replyVars
  <2>3. /\ upstream'[n] = upstream[n] /\ received'[n] = received[n]
        /\ upstream_replies'[n] = upstream_replies[n]
        /\ UNCHANGED <<kind, pending_stream_decoded, pool, sent>>
    BY <1>3 DEF ReleaseConnection, CloseConnection, msgVars, replyVars
  <2> QED
    BY <2>1, <2>2, <2>3
<1> QED
  BY <1>1, <1>2, <1>3

\* A new message.
LEMMA DecodeLife ==
    ASSUME IInv, \A n \in Messages : LifeOf(n), NEW m \in Messages, DecodeMessage(m),
           NEW n \in Messages
    PROVE  LifeOf(n)'
<1>1. /\ NewStream(m) /\ created' = created + 1 /\ m = created + 1 /\ created \in Nat
  BY DecodeMessageParts DEF IInv
<1>2. down = "Open" /\ down' = down /\ NextFrame \in MessageKinds
  BY <1>1, DecodesWhenOpen DEF IInv, NewStream, MessageKinds, connVars
<1>3. CASE n # m
  <2>1. n \in Known' <=> n \in Known
    BY <1>1, <1>3 DEF Known, Messages
  <2> QED
    BY <1>2, <1>3, <2>1, OthersUntouched, LifeUntouched
<1>4. CASE n = m
  <2>1. Untouched(m) /\ m \in Known'
    BY <1>1 DEF LifeOf, Known
  <2>2. kind'[m] = NextFrame /\ upstream_replies'[m] = 0
    BY <1>1, <2>1, MessageTypes DEF IInv, NewStream, Untouched, Unanswered
  <2>3. CASE DecodeUnroutable(m)
    <3>1. m \notin active_message_list'
      BY <2>3 DEF DecodeUnroutable, DeferredMessage, Finished
    <3>2. local_replies'[m] = 1
      BY <1>2, <2>1, <2>3, MessageTypes
         DEF IInv, DecodeUnroutable, SendLocalReply, Untouched, Unanswered
    <3>3. pool'[m] = "none" /\ upstream'[m] = "none"
      BY <2>1, <2>3 DEF DecodeUnroutable, Untouched
    <3> QED
      BY <1>2, <1>4, <2>1, <2>2, <3>1, <3>2, <3>3 DEF LifeOf, PoolOwesAnswer,
         ServerOwesAnswer, RepliesBounded, ReusedClean, NotDropped, Answered, Waits
  <2>4. CASE DecodePoolOverflow(m)
    <3>1. m \notin active_message_list'
      BY <1>2, <2>4 DEF DecodePoolOverflow, DeferredMessage, Finished, MessageKinds
    <3>2. local_replies'[m] = IF NextFrame = "Oneway" THEN 0 ELSE 1
      BY <1>2, <2>1, <2>4, MessageTypes
         DEF IInv, DecodePoolOverflow, SendLocalReply, NoLocalReply, Untouched, Unanswered
    <3>3. pool'[m] = "none" /\ upstream'[m] = "none"
      BY <2>1, <2>4 DEF DecodePoolOverflow, Untouched
    <3> QED
      BY <1>2, <1>4, <2>1, <2>2, <3>1, <3>2, <3>3 DEF LifeOf, PoolOwesAnswer, MessageKinds,
         ServerOwesAnswer, RepliesBounded, ReusedClean, NotDropped, Answered, Waits
  <2>5. CASE DecodePoolReady(m)
    <3>1. m \in active_message_list' <=> NextFrame = "Request"
      BY <1>2, <2>5 DEF DecodePoolReady, DeferredMessage, NewList, Finished, MessageKinds
    <3>2. /\ upstream'[m] = "attached" /\ pool'[m] = "none"
          /\ local_replies'[m] = 0 /\ local_response_sent'[m] = FALSE
      BY <2>1, <2>5, MessageTypes DEF IInv, DecodePoolReady, NoLocalReply, Untouched, Unanswered
    <3> QED
      BY <1>2, <1>4, <2>1, <2>2, <3>1, <3>2 DEF LifeOf, PoolOwesAnswer, Unanswered,
         ServerOwesAnswer, RepliesBounded, ReusedClean, NotDropped, Answered, Waits
  <2>6. CASE DecodePoolPending(m)
    <3>1. m \in active_message_list'
      BY <2>6 DEF DecodePoolPending, DeferredMessage, NewList
    <3>2. /\ upstream'[m] = "none" /\ pool'[m] = "pending" /\ pending_stream_decoded'[m] = TRUE
          /\ sent'[m] = 0 /\ local_replies'[m] = 0 /\ local_response_sent'[m] = FALSE
      BY <2>1, <2>6, MessageTypes DEF IInv, DecodePoolPending, NoLocalReply, Untouched, Unanswered
    <3> QED
      BY <1>2, <1>4, <2>1, <2>2, <3>1, <3>2 DEF LifeOf, PoolOwesAnswer, Unanswered,
         ServerOwesAnswer, RepliesBounded, ReusedClean, NotDropped, Answered, Waits
  <2> QED
    BY <2>3, <2>4, <2>5, <2>6 DEF DecodeMessage
<1> QED
  BY <1>3, <1>4

\* The pool answers.
LEMMA PoolLife ==
    ASSUME IInv, \A n \in Messages : LifeOf(n), NEW m \in Messages, PoolCallback(m),
           NEW n \in Messages
    PROVE  LifeOf(n)'
<1>1. pool[m] = "pending" /\ UNCHANGED <<down, created, kind, received, sent, upstream_replies>>
  BY DEF PoolCallback, OnPoolReady, OnPoolFailure, replyVars
<1>2. m \in Known /\ Known' = Known
  BY <1>1, CallbackKnown DEF Known
<1>3. CASE n # m
  BY <1>1, <1>2, <1>3, OthersUntouched, LifeUntouched
<1>4. CASE n = m
  <2>1. /\ pending_stream_decoded[m] /\ Unanswered(m) /\ upstream[m] # "attached"
        /\ kind[m] \in MessageKinds
    BY <1>1, <1>2 DEF LifeOf, PoolOwesAnswer, IInv, PoolAgreement
  <2>2. CASE OnPoolReady(m)
    <3>1. /\ upstream'[m] = "attached" /\ pool'[m] = "none"
          /\ UNCHANGED <<local_replies, local_response_sent>>
      BY <2>2, MessageTypes DEF IInv, OnPoolReady, replyVars
    <3>2. /\ m \in active_message_list' => kind[m] = "Request"
          /\ kind[m] = "Request" /\ m \in active_message_list => m \in active_message_list'
      BY <2>1, <2>2 DEF OnPoolReady, DeferredMessage, Finished, Unanswered, MessageKinds
    <3>3. NotDropped(m)'
      BY <1>1, <3>1, <3>2 DEF LifeOf, NotDropped, Answered
    <3> QED
      BY <1>1, <1>2, <1>4, <2>1, <3>1, <3>2, <3>3 DEF LifeOf, PoolOwesAnswer, Unanswered,
         ServerOwesAnswer, RepliesBounded, ReusedClean, Waits
  <2>3. CASE OnPoolFailure(m)
    <3>1. /\ upstream'[m] = upstream[m] /\ pool'[m] = "none"
          /\ m \notin active_message_list'
      BY <2>1, <2>3, MessageTypes DEF IInv, OnPoolFailure, DeferredMessage
    <3>2. /\ local_replies'[m] \in {0, 1}
          /\ kind[m] = "Request" /\ down = "Open" => local_replies'[m] = 1
      BY <2>1, <2>3, MessageTypes
         DEF IInv, OnPoolFailure, SendLocalReply, NoLocalReply, Unanswered
    <3> QED
      BY <1>1, <1>2, <1>4, <2>1, <3>1, <3>2 DEF LifeOf, PoolOwesAnswer, Unanswered, Answered,
         ServerOwesAnswer, RepliesBounded, ReusedClean, NotDropped, Waits
  <2> QED
    BY <2>2, <2>3 DEF PoolCallback
<1> QED
  BY <1>3, <1>4

\* The connection to the server delivers, or closes.
LEMMA UpstreamLife ==
    ASSUME IInv, \A n \in Messages : LifeOf(n),
           NEW m \in Messages, OnUpstreamData(m) \/ OnUpstreamClose(m),
           NEW n \in Messages
    PROVE  LifeOf(n)'
<1> USE DEF OnUpstreamData, OnUpstreamMoreData, OnUpstreamTruncated, OnUpstreamResponse,
        OnUpstreamForeignResponse, OnUpstreamResponseTooLate, OnUpstreamBadResponse,
        OnUpstreamClose
<1>1. /\ upstream[m] = "attached"
      /\ UNCHANGED <<down, created, kind, pending_stream_decoded, pool, sent>>
  BY DEF Awaits, connVars, listVars, msgVars
<1>2. /\ m \in Known /\ Known' = Known /\ kind[m] \in MessageKinds
      /\ pool[m] # "pending" /\ Unanswered(m)
  BY <1>1, CallbackKnown DEF Known, LifeOf, ServerOwesAnswer, IInv, PoolAgreement
<1>3. CASE n # m
  BY <1>1, <1>2, <1>3, OthersUntouched, LifeUntouched
<1>4. CASE n = m
  \* Nobody has answered, and who does so answers once.
  <2>1. CASE OnUpstreamMoreData(m)
    <3>1. /\ UNCHANGED <<upstream, replyVars, local_response_sent, active_message_list>>
      BY <2>1 DEF listVars, msgVars
    <3> QED
      BY <1>1, <1>2, <1>4, <3>1 DEF LifeOf, PoolOwesAnswer, Unanswered, Answered, replyVars,
         ServerOwesAnswer, RepliesBounded, ReusedClean, NotDropped, Waits
  <2>2. CASE OnUpstreamTruncated(m) \/ OnUpstreamClose(m)
    <3>1. /\ upstream'[m] \in {"released", "closed"}
          /\ upstream'[m] = "released" => received'[m] = "ended"
          /\ upstream_replies'[m] = 0
      BY <1>2, <2>2, MessageTypes DEF IInv, ReleaseConnection, Unanswered
    <3>2. OnResetStream(m)
      BY <2>2
    <3>3. CASE kind[m] = "Oneway"
      <4>1. local_replies'[m] = 0 /\ m \notin active_message_list'
        BY <1>2, <3>2, <3>3 DEF OnResetStream, NoLocalReply, DeferredMessage, Unanswered
      <4> QED
        BY <1>1, <1>2, <1>4, <3>1, <3>3, <4>1 DEF LifeOf, PoolOwesAnswer, Unanswered, Answered,
           ServerOwesAnswer, RepliesBounded, ReusedClean, NotDropped, Waits
    <3>4. CASE kind[m] # "Oneway"
      <4>1. /\ local_response_sent'[m] = TRUE
            /\ local_replies'[m] = IF down = "Open" THEN 1 ELSE 0
            /\ m \in active_message_list' <=> m \in active_message_list
        BY <1>2, <3>2, <3>4, MessageTypes DEF IInv, OnResetStream, SendLocalReply,
           DeferredMessage, Unanswered, filter_complete
      <4>2. m \in active_message_list' => down = "Open"
        BY <4>1 DEF IInv, NoOrphans
      <4> QED
        BY <1>1, <1>2, <1>4, <3>1, <3>4, <4>1, <4>2 DEF LifeOf, PoolOwesAnswer, Unanswered,
           Answered, ServerOwesAnswer, RepliesBounded, ReusedClean, NotDropped, Waits
    <3> QED
      BY <3>3, <3>4
  <2>3. CASE \/ OnUpstreamResponse(m) \/ OnUpstreamForeignResponse(m)
             \/ OnUpstreamResponseTooLate(m) \/ OnUpstreamBadResponse(m)
    <3>1. /\ upstream'[m] \in {"released", "closed"}
          /\ upstream'[m] = "released" => received'[m] = "response"
      BY <2>3, MessageTypes DEF IInv, ReleaseConnection, CloseConnection
    <3>2. m \notin active_message_list'
      BY <2>3 DEF DeferredMessage
    <3>3. /\ upstream_replies'[m] \in {0, 1} /\ local_replies'[m] \in {0, 1}
          /\ received'[m] # "foreign" => upstream_replies'[m] + local_replies'[m] \in {0, 1}
          /\ down = "Open" => upstream_replies'[m] = 1 \/ local_replies'[m] = 1
      BY <1>2, <2>3, MessageTypes DEF IInv, SendLocalReply, Unanswered, replyVars
    <3> QED
      BY <1>1, <1>2, <1>4, <3>1, <3>2, <3>3 DEF LifeOf, PoolOwesAnswer, Unanswered, Answered,
         ServerOwesAnswer, RepliesBounded, ReusedClean, NotDropped, Waits
  <2> QED
    BY <2>1, <2>2, <2>3
<1> QED
  BY <1>3, <1>4

\* The dispatcher deletes messages that are not in the list.
LEMMA DeleteLife ==
    ASSUME IInv, \A n \in Messages : LifeOf(n), DeferredDelete, NEW n \in Messages
    PROVE  LifeOf(n)'
<1>1. UNCHANGED <<down, created, active_message_list, msgVars, received, sent, replyVars>>
  BY DEF DeferredDelete, connVars
<1>2. Known' = Known
  BY <1>1 DEF Known
<1>3. CASE n \in deferred
  <2>1. n \notin active_message_list
    BY <1>3 DEF IInv, Ownership
  <2>2. /\ pool'[n] \in {pool[n], "none"} /\ upstream'[n] \in {upstream[n], "closed"}
    BY DEF DeferredDelete, Cancelled, Disconnected
  <2>3. n \in Known
    BY <1>3 DEF IInv, Ownership, Known
  <2> QED
    BY <1>1, <1>2, <2>1, <2>2, <2>3 DEF LifeOf, PoolOwesAnswer, Unanswered, Answered,
       ServerOwesAnswer, RepliesBounded, ReusedClean, NotDropped, Waits, msgVars, replyVars
<1>4. CASE n \notin deferred
  <2>1. pool'[n] = pool[n] /\ upstream'[n] = upstream[n]
    BY <1>4 DEF DeferredDelete, Cancelled, Disconnected
  <2> QED
    BY <1>1, <1>2, <2>1, LifeUntouched DEF msgVars, replyVars
<1> QED
  BY <1>3, <1>4

\* The other steps leave the messages alone, or reset those of the list as the
\* connection closes.
LEMMA QuietLife ==
    ASSUME IInv, \A n \in Messages : LifeOf(n), NEW n \in Messages,
           \/ DownstreamEvent \/ DecodeHeartbeat \/ DecodeError \/ ReturnToOnData
           \/ ReturnToOnPoolReady \/ ReturnToOnPoolFailure \/ UNCHANGED vars
    PROVE  LifeOf(n)'
<1>1. UNCHANGED <<created, msgVars, envVars, replyVars>>
  BY DEF DownstreamEvent, DownstreamData, DownstreamClose, WriteBufferWatermark,
     DecodeHeartbeat, DecodeError, ReturnToOnData, ReturnToOnPoolReady,
     ReturnToOnPoolFailure, vars, listVars
<1>2. \/ UNCHANGED <<down, active_message_list>>
      \/ down' # "Open" /\ active_message_list' = {}
  BY DEF DownstreamEvent, DownstreamData, DownstreamClose, WriteBufferWatermark,
     DecodeHeartbeat, DecodeError, ReturnToOnData, ReturnToOnPoolReady,
     ReturnToOnPoolFailure, FinishContinueDecoding, ResetAllMessages, DeferredMessage,
     CloseFlushWrite, vars, connVars, listVars, IInv, TypeOK
<1>3. sent'[n] = sent[n] \/ (n \in Known /\ pool[n] # "pending")
  <2>1. CASE ReturnToOnPoolReady
    <3>1. /\ pc # "idle" /\ call.from = "onPoolReady"
          /\ sent' = [sent EXCEPT ![call.msg] = @ + 1]
      BY <2>1 DEF ReturnToOnPoolReady
    <3>2. call.msg \in Known /\ upstream_request[call.msg] = "connected"
      BY <3>1 DEF IInv, ControlOK, EncodeHasConnection, Known
    <3> QED
      BY <3>1, <3>2, MessageTypes DEF IInv, PoolAgreement
  <2>2. CASE ~ReturnToOnPoolReady
    BY <2>2 DEF DownstreamEvent, DownstreamData, DownstreamClose, WriteBufferWatermark,
       DecodeHeartbeat, DecodeError, ReturnToOnData, ReturnToOnPoolFailure, vars
  <2> QED
    BY <2>1, <2>2
<1>4. Known' = Known
  BY <1>1 DEF Known
<1> QED
  BY <1>1, <1>2, <1>3, <1>4, LifeUntouched DEF msgVars, envVars, replyVars

\* Every step keeps the invariant of every message.
LEMMA NextKeepsLife ==
    ASSUME IInv, \A n \in Messages : LifeOf(n), [Next]_vars
    PROVE  \A n \in Messages : LifeOf(n)'
BY DecodeLife, PoolLife, UpstreamLife, DeleteLife, QuietLife DEF Next, CallbackStep

----------------------------------------------------------------------------
(* What is sent.                                                           *)

\* What onPoolReady is going to write has not been written when a step ends.
LEMMA NextKeepsEncodesOnce ==
    ASSUME IInv, \A n \in Messages : LifeOf(n), EncodesOnce, [Next]_vars
    PROVE  EncodesOnce'
<1>1. ASSUME NEW m \in Messages, DecodeMessage(m)
      PROVE  EncodesOnce'
  <2>1. /\ NewStream(m) /\ m = created + 1 /\ created \in Nat
    BY <1>1, DecodeMessageParts DEF IInv
  <2>2. call' = call /\ pc # "idle"
    BY <2>1 DEF NewStream
  <2>3. ASSUME call.from = "onPoolReady"
        PROVE  sent'[call.msg] = sent[call.msg]
    <3>1. call.msg \in 1..created
      BY <2>3 DEF IInv, ControlOK
    <3>2. call.msg \in Messages /\ call.msg # m
      BY <2>1, <3>1, BoundsAssumption DEF IInv, TypeOK, Messages
    <3> QED
      BY <1>1, <3>2, MessageTypes DEF IInv, DecodeMessage, DecodeUnroutable,
         DecodePoolOverflow, DecodePoolReady, DecodePoolPending
  <2> QED
    BY <2>2, <2>3 DEF EncodesOnce
<1>2. ASSUME NEW m \in Messages, PoolCallback(m)
      PROVE  EncodesOnce'
  <2>1. pool[m] = "pending" /\ sent' = sent
    BY <1>2 DEF PoolCallback, OnPoolReady, OnPoolFailure
  <2>2. PICK caller \in {"onPoolReady", "onPoolFailure"} : ContinueDecoding(m, caller)
    BY <1>2 DEF PoolCallback, OnPoolReady, OnPoolFailure
  <2>3. call'.msg = m
    BY <2>2 DEF ContinueDecoding
  <2> QED
    BY <2>1, <2>3 DEF LifeOf, PoolOwesAnswer, EncodesOnce
<1>3. CASE DecodeHeartbeat \/ DecodeError
  BY <1>3 DEF DecodeHeartbeat, DecodeError, EncodesOnce
<1>4. ASSUME \/ DownstreamEvent \/ ReturnToOnData \/ ReturnToOnPoolReady
             \/ ReturnToOnPoolFailure \/ DeferredDelete
             \/ \E m \in Messages : OnUpstreamData(m) \/ OnUpstreamClose(m)
      PROVE  pc' = "idle" \/ call'.from = "onData"
  <2>1. CASE DownstreamEvent
    BY <2>1 DEF DownstreamEvent, DownstreamData, DownstreamClose, WriteBufferWatermark
  <2>2. CASE \/ ReturnToOnData \/ ReturnToOnPoolReady \/ ReturnToOnPoolFailure
             \/ DeferredDelete
    BY <2>2 DEF ReturnToOnData, ReturnToOnPoolReady, ReturnToOnPoolFailure, DeferredDelete
  <2>3. ASSUME NEW m \in Messages, OnUpstreamData(m) \/ OnUpstreamClose(m)
        PROVE  pc' = "idle"
    BY <2>3 DEF OnUpstreamData, OnUpstreamMoreData, OnUpstreamTruncated, OnUpstreamResponse,
       OnUpstreamForeignResponse, OnUpstreamResponseTooLate, OnUpstreamBadResponse,
       OnUpstreamClose, Awaits
  <2> QED
    BY <1>4, <2>1, <2>2, <2>3
<1>5. CASE UNCHANGED vars
  BY <1>5 DEF vars, EncodesOnce
<1> QED
  BY <1>1, <1>2, <1>3, <1>4, <1>5 DEF Next, CallbackStep, EncodesOnce

\* A request is written when it is decoded or when the pool is ready, and either
\* way for the first time, and before any reply.
LEMMA SendsFirst ==
    ASSUME IInv, \A n \in Messages : LifeOf(n), EncodesOnce, [Next]_vars,
           NEW n \in Messages, sent'[n] # sent[n]
    PROVE  sent[n] = 0 /\ local_replies'[n] = 0
<1>1. CASE \E m \in Messages : DecodePoolReady(m)
  <2>1. PICK m \in Messages : DecodePoolReady(m)
    BY <1>1
  <2>2. n = m /\ local_replies' = local_replies
    BY <2>1, MessageTypes DEF IInv, DecodePoolReady, NoLocalReply
  <2>3. m = created + 1 /\ created \in Nat
    BY <2>1, DecodeMessageParts DEF IInv, DecodeMessage
  <2>4. m \notin Known
    BY <2>3 DEF Known
  <2> QED
    BY <2>2, <2>4 DEF LifeOf, Untouched, Unanswered
<1>2. CASE ReturnToOnPoolReady
  <2>1. n = call.msg /\ local_replies' = local_replies /\ pc # "idle" /\ call.from = "onPoolReady"
    BY <1>2, MessageTypes DEF IInv, ReturnToOnPoolReady, replyVars
  <2> QED
    BY <2>1 DEF IInv, EncodeHasConnection, EncodesOnce, LifeOf, ServerOwesAnswer, Unanswered
<1>3. CASE ~ReturnToOnPoolReady /\ \A m \in Messages : ~DecodePoolReady(m)
  BY <1>3 DEF Next, CallbackStep, DownstreamEvent, DownstreamData, DownstreamClose,
     WriteBufferWatermark, DecodeHeartbeat, DecodeError, DecodeMessage, DecodeUnroutable,
     DecodePoolOverflow, DecodePoolPending, ReturnToOnData, ReturnToOnPoolFailure,
     PoolCallback, OnPoolReady, OnPoolFailure, OnUpstreamData, OnUpstreamMoreData,
     OnUpstreamTruncated, OnUpstreamResponse, OnUpstreamForeignResponse,
     OnUpstreamResponseTooLate, OnUpstreamBadResponse, OnUpstreamClose, DeferredDelete, vars
<1> QED
  BY <1>1, <1>2, <1>3

----------------------------------------------------------------------------
(* The buffer and the heartbeats.                                          *)

\* What counting the frames of a buffer says of its first one and the others.
LEMMA CountFramesTail ==
    ASSUME NEW buffer \in Seq(Frames), buffer # <<>>, NEW types
    PROVE  CountFrames(buffer, types)
             = CountFrames(Tail(buffer), types) + (IF Head(buffer) \in types THEN 1 ELSE 0)
<1> DEFINE all == {i \in DOMAIN buffer : buffer[i] \in types}
           rest == {i \in DOMAIN Tail(buffer) : Tail(buffer)[i] \in types}
           moved == all \ {1}
           up == [i \in rest |-> i + 1]
<1>1. /\ Len(buffer) \in Nat \ {0} /\ DOMAIN buffer = 1..Len(buffer)
      /\ DOMAIN Tail(buffer) = 1..Len(buffer) - 1
      /\ \A i \in 1..Len(buffer) - 1 : Tail(buffer)[i] = buffer[i + 1]
      /\ Head(buffer) = buffer[1]
  OBVIOUS
<1>2. IsFiniteSet(all) /\ IsFiniteSet(rest)
  <2>1. IsFiniteSet(DOMAIN buffer) /\ IsFiniteSet(DOMAIN Tail(buffer))
    BY <1>1, FS_Interval
  <2> QED
    BY <2>1, FS_Subset
<1>3. Cardinality(moved) = Cardinality(rest)
  <2>1. up \in [rest -> moved]
    BY <1>1
  <2>2. \A i, j \in rest : up[i] = up[j] => i = j
    BY <1>1
  <2>3. \A j \in moved : \E i \in rest : up[i] = j
    <3> TAKE j \in moved
    <3>1. j - 1 \in rest
      BY <1>1
    <3>2. up[j - 1] = j
      BY <1>1, <3>1
    <3> QED
      BY <3>1, <3>2
  <2>4. ExistsBijection(rest, moved)
    BY <2>1, <2>2, <2>3 DEF ExistsBijection, Bijection, Injection, Surjection, IsInjective
  <2> QED
    BY <1>2, <2>4, FS_Bijection
<1>4. Cardinality(all) = Cardinality(moved) + (IF 1 \in all THEN 1 ELSE 0)
  <2>1. IsFiniteSet(moved) /\ Cardinality(moved) \in Nat
    BY <1>2, FS_Subset, FS_CardinalityType
  <2>2. CASE 1 \in all
    <3>1. all = moved \cup {1} /\ 1 \notin moved
      BY <2>2
    <3> HIDE DEF moved, all
    <3>2. Cardinality(all) = Cardinality(moved) + 1
      BY <2>1, <3>1, FS_AddElement
    <3> QED
      BY <2>2, <3>2
  <2>3. CASE 1 \notin all
    <3>1. all = moved
      BY <2>3
    <3> HIDE DEF moved, all
    <3> QED
      BY <2>1, <2>3, <3>1
  <2> QED
    BY <2>2, <2>3
<1>5. 1 \in all <=> Head(buffer) \in types
  BY <1>1
<1> QED
  BY <1>3, <1>4, <1>5 DEF CountFrames

\* There is nothing to count in an empty buffer.
LEMMA CountFramesEmpty ==
    ASSUME NEW types
    PROVE  CountFrames(<<>>, types) = 0
BY FS_EmptySet DEF CountFrames

\* A heartbeat moves from the buffer to the replies.
LEMMA NextKeepsHeartbeats ==
    ASSUME IInv, HeartbeatsExact, [Next]_vars
    PROVE  HeartbeatsExact'
<1>1. /\ request_buffer \in Seq(Frames)
      /\ heartbeats \in Nat /\ heartbeat_replies \in Nat
      /\ CountFrames(request_buffer, {"Heartbeat"}) \in Nat
  BY CountFramesType DEF IInv, TypeOK
<1>2. ASSUME NEW frames \in FrameSequences, NEW end_stream \in BOOLEAN,
             DownstreamData(frames, end_stream)
      PROVE  HeartbeatsExact'
  <2>1. request_buffer = <<>> /\ down = "Open"
    BY <1>2 DEF DownstreamData, IInv, BufferOK
  <2>2. frames \in Seq(Frames) /\ request_buffer' = frames
    BY <1>2, <2>1, FrameSequencesAreSequences DEF DownstreamData
  <2>3. CountFrames(frames, {"Heartbeat"}) \in Nat
    BY <2>2, CountFramesType
  <2>4. /\ heartbeats' = heartbeats + CountFrames(frames, {"Heartbeat"})
        /\ heartbeat_replies' = heartbeat_replies
    BY <1>2 DEF DownstreamData
  <2> QED
    BY <1>1, <2>1, <2>2, <2>3, <2>4, CountFramesEmpty DEF HeartbeatsExact
<1>3. ASSUME pc = "dispatch", NextFrame # "Bad", request_buffer' = Tail(request_buffer),
             UNCHANGED <<down, heartbeats>>,
             heartbeat_replies' = heartbeat_replies + (IF NextFrame = "Heartbeat" THEN 1 ELSE 0)
      PROVE  HeartbeatsExact'
  <2>1. request_buffer # <<>>
    BY <1>3 DEF IInv, ControlOK
  <2>2. CountFrames(request_buffer, {"Heartbeat"})
          = CountFrames(Tail(request_buffer), {"Heartbeat"})
              + (IF NextFrame = "Heartbeat" THEN 1 ELSE 0)
    BY <1>1, <2>1, CountFramesTail DEF NextFrame
  <2>3. Tail(request_buffer) \in Seq(Frames)
    BY <1>1, <2>1
  <2>4. CountFrames(Tail(request_buffer), {"Heartbeat"}) \in Nat
    BY <2>3, CountFramesType
  <2> QED
    BY <1>1, <1>3, <2>2, <2>4 DEF HeartbeatsExact
<1>4. CASE DecodeHeartbeat
  <2>1. down = "Open"
    BY <1>4, DecodesWhenOpen DEF DecodeHeartbeat, IInv
  <2> QED
    BY <1>3, <1>4, <2>1 DEF DecodeHeartbeat, ConsumeFrame, connVars
<1>5. ASSUME NEW m \in Messages, DecodeMessage(m)
      PROVE  HeartbeatsExact'
  <2>1. NewStream(m)
    BY <1>5, DecodeMessageParts DEF IInv
  <2> QED
    BY <1>1, <1>3, <2>1 DEF NewStream, ConsumeFrame, connVars, beatVars, MessageKinds
<1>6. ASSUME \/ \E local \in BOOLEAN : DownstreamClose(local)
             \/ WriteBufferWatermark \/ DecodeError \/ ReturnToOnData
             \/ ReturnToOnPoolReady \/ ReturnToOnPoolFailure \/ DeferredDelete \/ UNCHANGED vars
             \/ \E m \in Messages : PoolCallback(m) \/ OnUpstreamData(m) \/ OnUpstreamClose(m)
      PROVE  /\ UNCHANGED <<request_buffer, heartbeats, heartbeat_replies>>
             /\ down' = "Open" => down = "Open"
  BY <1>6 DEF DownstreamClose, WriteBufferWatermark, DecodeError, ReturnToOnData,
     ReturnToOnPoolReady, ReturnToOnPoolFailure, FinishContinueDecoding, CloseFlushWrite,
     DeferredDelete, PoolCallback, OnPoolReady, OnPoolFailure, OnUpstreamData,
     OnUpstreamMoreData, OnUpstreamTruncated, OnUpstreamResponse, OnUpstreamForeignResponse,
     OnUpstreamResponseTooLate, OnUpstreamBadResponse, OnUpstreamClose, vars, connVars, beatVars
<1> QED
  BY <1>2, <1>4, <1>5, <1>6 DEF Next, CallbackStep, DownstreamEvent, HeartbeatsExact

----------------------------------------------------------------------------
(* The stats.                                                              *)

\* What RequestsCountedOnce counts: the messages whose decoding is over.
Settled == {m \in 1..created : ~pending_stream_decoded[m]}

\* What DropsAreCounted counts.
Dropped ==
    {m \in deferred \cup destroyed :
        kind[m] = "Request" /\ upstream_replies[m] + local_replies[m] = 0}

\* finalizeRequest counts what the dispatcher deletes.
LEMMA NextKeepsRequestCount ==
    ASSUME IInv, \A n \in Messages : LifeOf(n), RequestsCountedOnce, [Next]_vars
    PROVE  RequestsCountedOnce'
<1> SUFFICES stats'.request = Cardinality(Settled')
  BY DEF RequestsCountedOnce, Settled
<1>1. /\ stats \in Stats /\ created \in 0..MaxMessages
      /\ stats.request = Cardinality(Settled)
  BY DEF IInv, TypeOK, RequestsCountedOnce, Settled
<1>2. /\ Settled \in SUBSET Messages
      /\ IsFiniteSet(Settled) /\ Cardinality(Settled) \in Nat
  <2>1. Settled \in SUBSET Messages
    BY <1>1, BoundsAssumption DEF Settled, Messages
  <2> QED
    BY <2>1, MessagesFinite
<1>3. ASSUME NEW m \in Messages, DecodeMessage(m)
      PROVE  stats'.request = Cardinality(Settled')
  <2>1. /\ m = created + 1 /\ created' = created + 1 /\ created \in Nat
    BY <1>3, DecodeMessageParts DEF IInv
  <2>2. m \notin Known /\ ~pending_stream_decoded[m]
    BY <2>1 DEF Known, LifeOf, Untouched
  <2>3. CASE DecodePoolPending(m)
    <3>1. pending_stream_decoded' = [pending_stream_decoded EXCEPT ![m] = TRUE] /\ CountRequest(0)
      BY <2>3 DEF DecodePoolPending
    <3>2. Settled' = Settled
      BY <1>1, <2>1, <3>1, MessageTypes, BoundsAssumption DEF IInv, Settled, Messages
    <3>3. stats'.request = stats.request
      BY <1>1, <3>1 DEF CountRequest, Stats
    <3> QED
      BY <1>1, <3>2, <3>3
  <2>4. CASE ~DecodePoolPending(m)
    <3>1. pending_stream_decoded' = pending_stream_decoded /\ CountRequest(1)
      BY <1>3, <2>4 DEF DecodeMessage, DecodeUnroutable, DecodePoolOverflow, DecodePoolReady
    <3>2. Settled' = Settled \cup {m} /\ m \notin Settled
      BY <1>1, <2>1, <2>2, <3>1 DEF Settled
    <3>3. stats'.request = stats.request + 1
      BY <1>1, <3>1 DEF CountRequest, Stats
    <3>4. Cardinality(Settled') = Cardinality(Settled) + 1
      BY <1>2, <3>2, FS_AddElement
    <3> QED
      BY <1>1, <3>3, <3>4
  <2> QED
    BY <2>3, <2>4
<1>4. ASSUME NEW m \in Messages, PoolCallback(m)
      PROVE  stats'.request = Cardinality(Settled')
  <2>1. pool[m] = "pending" /\ created' = created
    BY <1>4 DEF PoolCallback, OnPoolReady, OnPoolFailure
  <2>2. m \in 1..created /\ pending_stream_decoded[m] = TRUE
    BY <2>1, CallbackKnown, MessageTypes DEF IInv, Known, LifeOf, PoolOwesAnswer
  <2>3. \E caller \in Callers : ContinueDecoding(m, caller)
    BY <1>4 DEF PoolCallback, OnPoolReady, OnPoolFailure, Callers
  <2>4. /\ pending_stream_decoded' = [pending_stream_decoded EXCEPT ![m] = FALSE]
        /\ stats' = [stats EXCEPT !.request = @ + 1]
    BY <2>2, <2>3 DEF ContinueDecoding, CountFinalized
  <2>5. Settled' = Settled \cup {m} /\ m \notin Settled
    <3>1. \A n \in 1..created : n \in Messages
      BY <1>1, BoundsAssumption DEF Messages
    <3>2. pending_stream_decoded \in [Messages -> BOOLEAN]
      BY MessageTypes DEF IInv
    <3> QED
      BY <2>1, <2>2, <2>4, <3>1, <3>2 DEF Settled
  <2>6. Cardinality(Settled') = Cardinality(Settled) + 1
    BY <1>2, <2>5, FS_AddElement
  <2>7. stats'.request = stats.request + 1
    BY <1>1, <2>4 DEF Stats
  <2> QED
    BY <1>1, <2>6, <2>7
<1>5. ASSUME UNCHANGED <<created, pending_stream_decoded>>, stats'.request = stats.request
      PROVE  stats'.request = Cardinality(Settled')
  BY <1>1, <1>5 DEF Settled
<1>6. ASSUME NEW local \in BOOLEAN, ResetAllMessages(local)
      PROVE  stats'.request = stats.request
  BY <1>1, <1>6 DEF ResetAllMessages, Stats
<1>7. CASE \/ DownstreamEvent \/ DecodeHeartbeat \/ DecodeError \/ ReturnToOnData
           \/ ReturnToOnPoolReady \/ ReturnToOnPoolFailure \/ UNCHANGED vars
  <2>1. /\ UNCHANGED <<created, pending_stream_decoded>>
        /\ stats' = stats \/ \E local \in BOOLEAN : ResetAllMessages(local)
    BY <1>7 DEF DownstreamEvent, DownstreamData, DownstreamClose, WriteBufferWatermark,
       DecodeHeartbeat, DecodeError, ReturnToOnData, ReturnToOnPoolReady,
       ReturnToOnPoolFailure, FinishContinueDecoding, vars, listVars, msgVars
  <2> QED
    BY <2>1, <1>5, <1>6
<1>8. ASSUME NEW m \in Messages, OnUpstreamData(m) \/ OnUpstreamClose(m)
      PROVE  stats'.request = Cardinality(Settled')
  <2>1. UNCHANGED <<created, pending_stream_decoded, stats>>
    BY <1>8 DEF OnUpstreamData, OnUpstreamMoreData, OnUpstreamTruncated, OnUpstreamResponse,
       OnUpstreamForeignResponse, OnUpstreamResponseTooLate, OnUpstreamBadResponse,
       OnUpstreamClose, listVars, msgVars
  <2> QED
    BY <2>1, <1>5
<1>9. CASE DeferredDelete
  <2>1. UNCHANGED <<created, pending_stream_decoded>> /\ stats'.request = stats.request
    BY <1>1, <1>9 DEF DeferredDelete, Stats, msgVars
  <2> QED
    BY <2>1, <1>5
<1> QED
  BY <1>3, <1>4, <1>7, <1>8, <1>9 DEF Next, CallbackStep

\* What a callback about a message does to the replies; nothing is written to a
\* connection that is not open.
LEMMA CallbackReplies ==
    ASSUME IInv, NEW m \in Messages,
           PoolCallback(m) \/ OnUpstreamData(m) \/ OnUpstreamClose(m)
    PROVE  /\ UNCHANGED <<kind, down>>
           /\ \/ upstream_replies' = upstream_replies
              \/ upstream_replies' = [upstream_replies EXCEPT ![m] = @ + 1]
           /\ \/ local_replies' = local_replies
              \/ local_replies' = [local_replies EXCEPT ![m] = @ + 1]
           /\ down # "Open" => UNCHANGED <<upstream_replies, local_replies>>
<1>1. SendLocalReply(m) \/ local_replies' = local_replies
  BY DEF PoolCallback, OnPoolReady, OnPoolFailure, OnUpstreamData, OnUpstreamMoreData,
     OnUpstreamTruncated, OnUpstreamResponse, OnUpstreamForeignResponse,
     OnUpstreamResponseTooLate, OnUpstreamBadResponse, OnUpstreamClose, OnResetStream,
     NoLocalReply, replyVars
<1>2. /\ UNCHANGED <<kind, down>>
      /\ \/ upstream_replies' = upstream_replies
         \/ down = "Open" /\ upstream_replies' = [upstream_replies EXCEPT ![m] = @ + 1]
  BY DEF PoolCallback, OnPoolReady, OnPoolFailure, OnUpstreamData, OnUpstreamMoreData,
     OnUpstreamTruncated, OnUpstreamResponse, OnUpstreamForeignResponse,
     OnUpstreamResponseTooLate, OnUpstreamBadResponse, OnUpstreamClose, connVars, msgVars,
     replyVars
<1> QED
  BY <1>1, <1>2 DEF SendLocalReply

\* No step but the decoding of a message changes its kind, and none takes a reply back.
LEMMA RepliesStay ==
    ASSUME IInv, [Next]_vars, \A m \in Messages : ~DecodeMessage(m), NEW n \in Messages
    PROVE  /\ kind'[n] = kind[n]
           /\ Answered(n) => Answered(n)'
<1>1. /\ upstream_replies \in [Messages -> Nat] /\ local_replies \in [Messages -> Nat]
      /\ local_response_sent \in [Messages -> BOOLEAN]
  BY MessageTypes DEF IInv
<1>2. CASE \/ DownstreamEvent \/ DecodeHeartbeat \/ DecodeError \/ ReturnToOnData
           \/ ReturnToOnPoolReady \/ ReturnToOnPoolFailure \/ DeferredDelete \/ UNCHANGED vars
  <2>1. UNCHANGED <<kind, upstream_replies, local_replies>>
    BY <1>2 DEF DownstreamEvent, DownstreamData, DownstreamClose, WriteBufferWatermark,
       DecodeHeartbeat, DecodeError, ReturnToOnData, ReturnToOnPoolReady,
       ReturnToOnPoolFailure, DeferredDelete, vars, msgVars, replyVars
  <2> QED
    BY <2>1 DEF Answered
<1>3. ASSUME NEW m \in Messages, PoolCallback(m) \/ OnUpstreamData(m) \/ OnUpstreamClose(m)
      PROVE  kind'[n] = kind[n] /\ (Answered(n) => Answered(n)')
  BY <1>1, <1>3, CallbackReplies DEF Answered
<1> QED
  BY <1>2, <1>3 DEF Next, CallbackStep

\* A connection closes with a reset of its messages.
LEMMA CloseResets ==
    ASSUME IInv, [Next]_vars, down = "Open", down' # "Open"
    PROVE  \E local \in BOOLEAN : ResetAllMessages(local)
<1>1. CASE DownstreamEvent \/ DecodeHeartbeat \/ UNCHANGED vars
  BY <1>1 DEF DownstreamEvent, DownstreamData, DownstreamClose, WriteBufferWatermark,
     DecodeHeartbeat, vars, connVars
<1>2. CASE DecodeError \/ ReturnToOnData \/ ReturnToOnPoolReady \/ ReturnToOnPoolFailure
  BY <1>2 DEF DecodeError, ReturnToOnData, ReturnToOnPoolReady, ReturnToOnPoolFailure,
     FinishContinueDecoding
<1>3. ASSUME NEW m \in Messages, DecodeMessage(m)
      PROVE  down' = down
  BY <1>3, DecodeMessageParts DEF IInv, NewStream, connVars
<1>4. ASSUME NEW m \in Messages, PoolCallback(m) \/ OnUpstreamData(m) \/ OnUpstreamClose(m)
      PROVE  down' = down
  BY <1>4 DEF PoolCallback, OnPoolReady, OnPoolFailure, OnUpstreamData, OnUpstreamMoreData,
     OnUpstreamTruncated, OnUpstreamResponse, OnUpstreamForeignResponse,
     OnUpstreamResponseTooLate, OnUpstreamBadResponse, OnUpstreamClose, connVars
<1>5. CASE DeferredDelete
  BY <1>5 DEF DeferredDelete, connVars
<1> QED
  BY <1>1, <1>2, <1>3, <1>4, <1>5 DEF Next, CallbackStep

\* The counters of the connection's end grow by the requests they drop.
LEMMA NextKeepsDrops ==
    ASSUME LifeInv, IInv', \A n \in Messages : LifeOf(n)', [Next]_vars
    PROVE  DropsAreCounted'
<1> DEFINE counted == stats.cx_destroy_local + stats.cx_destroy_remote
<1> SUFFICES Cardinality(Dropped') <= counted'
  BY DEF DropsAreCounted, Dropped
<1>1. /\ stats \in Stats /\ stats' \in Stats /\ Cardinality(Dropped) <= counted
      /\ counted \in Nat /\ counted' \in Nat
  BY DEF LifeInv, IInv, TypeOK, Stats, DropsAreCounted, Dropped
<1>2. /\ Dropped \in SUBSET Messages /\ Dropped' \in SUBSET Messages
      /\ active_message_list \in SUBSET Messages
  BY DEF LifeInv, IInv, TypeOK, Dropped
<1>3. /\ IsFiniteSet(Dropped) /\ Cardinality(Dropped) \in Nat
      /\ IsFiniteSet(Dropped') /\ Cardinality(Dropped') \in Nat
      /\ IsFiniteSet(active_message_list) /\ Cardinality(active_message_list) \in Nat
  BY <1>2, MessagesFinite
<1>4. CASE down' = "Open"
  \* Nothing can have been dropped.
  <2>1. Dropped' = {}
    <3> SUFFICES ASSUME NEW n \in Dropped' PROVE FALSE
      OBVIOUS
    <3>1. n \in Messages /\ n \notin active_message_list'
      BY <1>2 DEF Dropped, IInv, Ownership
    <3>2. upstream_replies'[n] \in Nat /\ local_replies'[n] \in Nat
      BY <3>1 DEF IInv, TypeOK
    <3> QED
      BY <1>4, <3>1, <3>2 DEF Dropped, LifeOf, NotDropped, Answered
  <2> QED
    BY <1>1, <2>1, FS_EmptySet
<1>5. CASE down = "Open" /\ down' # "Open"
  \* The messages of the list are dropped, and counted.
  <2>1. PICK local \in BOOLEAN : ResetAllMessages(local)
    BY <1>5, CloseResets DEF LifeInv
  <2>2. counted' = counted + Cardinality(active_message_list)
    BY <1>1, <1>3, <2>1 DEF ResetAllMessages, Stats
  <2>3. Dropped' \subseteq active_message_list
    <3>1. \A m \in Messages : ~DecodeMessage(m)
      BY <1>5, DecodeMessageParts DEF LifeInv, IInv, NewStream, connVars
    <3> SUFFICES ASSUME NEW n \in Dropped', n \notin active_message_list PROVE FALSE
      OBVIOUS
    <3>2. n \in Messages /\ kind'[n] = kind[n] /\ (Answered(n) => Answered(n)')
      BY <1>2, <3>1, RepliesStay DEF LifeInv
    <3>3. ~Answered(n)' /\ kind'[n] = "Request"
      BY <3>2 DEF Dropped, Answered, IInv, TypeOK
    <3> QED
      BY <1>5, <3>2, <3>3 DEF LifeInv, LifeOf, NotDropped
  <2>4. Cardinality(Dropped') <= Cardinality(active_message_list)
    BY <1>3, <2>3, FS_Subset
  <2> QED
    BY <1>1, <1>3, <2>2, <2>4
<1>6. CASE down # "Open" /\ down' # "Open"
  \* The list is empty: there is nothing to drop.
  <2>1. \A m \in Messages : ~DecodeMessage(m)
    BY <1>6, DecodeMessageParts, DecodesWhenOpen
       DEF LifeInv, IInv, NewStream, MessageKinds
  <2>2. active_message_list = {} /\ Cardinality(active_message_list) = 0
    BY <1>6, FS_EmptySet DEF LifeInv, IInv, NoOrphans
  <2>3. deferred' \cup destroyed' = deferred \cup destroyed
    <3>1. CASE MovesOnly
      BY <2>2, <3>1 DEF MovesOnly, DeferredMessage, HandOver
    <3>2. CASE DeferredDelete
      BY <3>2 DEF DeferredDelete
    <3> QED
      BY <2>1, <3>1, <3>2, NextMovesOnly DEF LifeInv, IInv
  <2>4. Dropped' \subseteq Dropped
    <3> SUFFICES ASSUME NEW n \in Dropped' PROVE n \in Dropped
      OBVIOUS
    <3>1. n \in Messages /\ kind'[n] = kind[n] /\ (Answered(n) => Answered(n)')
      BY <1>2, <2>1, RepliesStay DEF LifeInv
    <3>2. /\ upstream_replies[n] \in Nat /\ local_replies[n] \in Nat
          /\ ~Answered(n)'
      BY <3>1 DEF Dropped, Answered, LifeInv, IInv, TypeOK
    <3> QED
      BY <2>3, <3>1, <3>2 DEF Dropped, Answered
  <2>5. counted' = counted
    <3>1. CASE \E local \in BOOLEAN : ResetAllMessages(local)
      BY <1>1, <2>2, <3>1 DEF ResetAllMessages, Stats
    <3>2. CASE \A local \in BOOLEAN : ~ResetAllMessages(local)
      <4>1. \/ stats' = stats
            \/ \E n \in Nat : stats' = [stats EXCEPT !.request = @ + n]
            \/ stats' = [stats EXCEPT !.request_active = @ - Cardinality(deferred)]
        BY <2>1, <3>2 DEF Next, CallbackStep, DownstreamEvent, DownstreamData, DownstreamClose,
           WriteBufferWatermark, DecodeHeartbeat, DecodeError, ReturnToOnData,
           ReturnToOnPoolReady, ReturnToOnPoolFailure, FinishContinueDecoding, PoolCallback,
           OnPoolReady, OnPoolFailure, ContinueDecoding, CountFinalized, OnUpstreamData,
           OnUpstreamMoreData, OnUpstreamTruncated, OnUpstreamResponse,
           OnUpstreamForeignResponse, OnUpstreamResponseTooLate, OnUpstreamBadResponse,
           OnUpstreamClose, DeferredDelete, vars
      <4> QED
        BY <1>1, <4>1 DEF Stats
    <3> QED
      BY <3>1, <3>2
  <2>6. Cardinality(Dropped') <= Cardinality(Dropped)
    BY <1>3, <2>4, FS_Subset
  <2> QED
    BY <1>1, <1>3, <2>5, <2>6
<1> QED
  BY <1>4, <1>5, <1>6

----------------------------------------------------------------------------
(* The invariant, and what follows from it.                                *)

\* Nothing has happened yet.
LEMMA InitLife == Init => LifeInv
<1> SUFFICES ASSUME Init PROVE LifeInv
  OBVIOUS
<1>1. IInv
  BY InitInv
<1>2. \A m \in Messages : LifeOf(m)
  BY DEF Init, LifeOf, Known, Untouched, Unanswered, PoolOwesAnswer, ServerOwesAnswer,
     RepliesBounded, ReusedClean, NotDropped, Waits
<1>3. EncodesOnce
  BY DEF Init, EncodesOnce
<1>4. HeartbeatsExact
  BY CountFramesEmpty DEF Init, HeartbeatsExact
<1>5. Cardinality({}) = 0
  BY FS_EmptySet
<1>6. RequestsCountedOnce
  <2>1. {m \in 1..created : ~pending_stream_decoded[m]} = {}
    BY DEF Init
  <2> QED
    BY <1>5, <2>1 DEF Init, NoStats, RequestsCountedOnce
<1>7. DropsAreCounted
  <2>1. {m \in deferred \cup destroyed :
             kind[m] = "Request" /\ upstream_replies[m] + local_replies[m] = 0} = {}
    BY DEF Init
  <2> QED
    BY <1>5, <2>1 DEF Init, NoStats, DropsAreCounted
<1> QED
  BY <1>1, <1>2, <1>3, <1>4, <1>6, <1>7 DEF LifeInv

\* The invariant is inductive.
LEMMA NextKeepsLifeInv == LifeInv /\ [Next]_vars => LifeInv'
<1> SUFFICES ASSUME LifeInv, [Next]_vars PROVE LifeInv'
  OBVIOUS
<1>1. IInv'
  BY NextKeepsInv DEF LifeInv
<1>2. \A m \in Messages : LifeOf(m)'
  BY NextKeepsLife DEF LifeInv
<1>3. EncodesOnce' /\ HeartbeatsExact' /\ RequestsCountedOnce'
  BY NextKeepsEncodesOnce, NextKeepsHeartbeats, NextKeepsRequestCount DEF LifeInv
<1>4. DropsAreCounted'
  BY <1>1, <1>2, NextKeepsDrops
<1> QED
  BY <1>1, <1>2, <1>3, <1>4 DEF LifeInv

\* The life of every message is what LifeOf says, and the stats agree with it.
THEOREM LifeInvariant == Spec => []LifeInv
  BY InitLife, NextKeepsLifeInv, PTL DEF Spec

\* dispatch() leaves no frame of an open connection in the buffer, and no heartbeat
\* without an answer.
THEOREM NoFrameLeftBehindCorrect == Spec => []NoFrameLeftBehind
<1>1. LifeInv => NoFrameLeftBehind
  <2> SUFFICES ASSUME LifeInv, pc = "idle", down = "Open"
               PROVE  request_buffer = <<>> /\ heartbeats = heartbeat_replies
    BY DEF NoFrameLeftBehind
  <2>1. request_buffer = <<>>
    BY DEF LifeInv, IInv, BufferOK
  <2>2. heartbeats = heartbeat_replies + 0 /\ heartbeat_replies \in Nat
    BY <2>1, CountFramesEmpty DEF LifeInv, HeartbeatsExact, IInv, TypeOK
  <2> QED
    BY <2>1, <2>2
<1> QED
  BY <1>1, LifeInvariant, PTL

\* A message is in active_message_list_ only while somebody is going to call back for
\* it, or when it has been answered.
THEOREM ActiveIsWaitingCorrect == Spec => []ActiveIsWaiting
<1>1. LifeInv => ActiveIsWaiting
  BY DEF LifeInv, IInv, TypeOK, LifeOf, Waits, ActiveIsWaiting
<1> QED
  BY <1>1, LifeInvariant, PTL

\* Whoever answers a request, the pool's failure, the server, its error or its close, is
\* the only one, but for a response of another id.
THEOREM AtMostOneReplyCorrect == Spec => []AtMostOneReply
<1>1. LifeInv => AtMostOneReply
  BY DEF LifeInv, LifeOf, RepliesBounded, AtMostOneReply
<1> QED
  BY <1>1, LifeInvariant, PTL

\* cleanup() gives a connection back only when its response has ended.
THEOREM CleanReuseCorrect == Spec => []CleanReuse
<1>1. LifeInv => CleanReuse
  BY DEF LifeInv, LifeOf, ReusedClean, CleanReuse
<1> QED
  BY <1>1, LifeInvariant, PTL

\* finalizeRequest counts each message once, and no request is missing from the
\* counters of the connection's end.
THEOREM StatsExactCorrect == Spec => []StatsExact
<1>1. LifeInv => StatsExact
  BY DEF LifeInv, StatsExact
<1> QED
  BY <1>1, LifeInvariant, PTL

\* encodeData writes a request once, and not after a local reply.
THEOREM NoSendAfterReplyCorrect == Spec => NoSendAfterReply
<1>1. LifeInv /\ [Next]_vars =>
          [\A m \in Messages :
               sent'[m] # sent[m] => sent[m] = 0 /\ local_replies'[m] = 0]_vars
  BY SendsFirst DEF LifeInv
<1> QED
  BY <1>1, LifeInvariant, PTL DEF Spec, NoSendAfterReply

----------------------------------------------------------------------------
(* The connection implements RequestLifecycle.                             *)

\* A message that is still of its kind, where it was, and answered as before is
\* in the same phase.
LEMMA PhaseKept ==
    ASSUME NEW n \in Messages, kind'[n] = kind[n], Answered(n)' <=> Answered(n),
           \/ n \in active_message_list' <=> n \in active_message_list
           \/ kind[n] = "Request" /\ Answered(n)
    PROVE  Phase(n)' = Phase(n)
BY DEF Phase, Answered

\* A new request is received.
LEMMA DecodeRefines ==
    ASSUME LifeInv, LifeInv', NEW m \in Messages, DecodeMessage(m)
    PROVE  Lifecycle!Receive(m)
<1>1. /\ NewStream(m) /\ m = created + 1 /\ created \in Nat
  BY DecodeMessageParts DEF LifeInv, IInv
<1>2. down = "Open" /\ down' = down /\ NextFrame \in MessageKinds
  BY <1>1, DecodesWhenOpen DEF LifeInv, IInv, NewStream, MessageKinds, connVars
<1>3. kind[m] = "none" /\ kind' = [kind EXCEPT ![m] = NextFrame] /\ kind'[m] = NextFrame
  BY <1>1, MessageTypes DEF LifeInv, IInv, LifeOf, Known, Untouched, NewStream
<1>4. Phase(m) = "unseen"
  BY <1>3 DEF Phase
<1>5. Phase(m)' \in IF NextFrame = "Request" THEN {"inFlight", "answered"}
                                            ELSE {"inFlight", "gone"}
  BY <1>2, <1>3 DEF Phase, LifeInv, LifeOf, NotDropped, Answered, MessageKinds
<1>6. [n \in Messages |-> Phase(n)]'
        = [[n \in Messages |-> Phase(n)] EXCEPT ![m] = Phase(m)']
  <2>1. ASSUME NEW n \in Messages, n # m PROVE Phase(n)' = Phase(n)
    BY <2>1, OthersUntouched, PhaseKept DEF LifeInv, Answered
  <2> QED
    BY <2>1
<1> QED
  BY <1>2, <1>3, <1>4, <1>5, <1>6 DEF Lifecycle!Receive, MessageKinds

\* A callback of the pool or of the server answers, finishes a one-way request, or
\* is not seen by the client.
LEMMA CallbackRefines ==
    ASSUME LifeInv, LifeInv', NEW m \in Messages,
           PoolCallback(m) \/ OnUpstreamData(m) \/ OnUpstreamClose(m)
    PROVE  \/ Lifecycle!Answer(m) \/ Lifecycle!FinishOneway(m)
           \/ UNCHANGED Lifecycle!lifecycleVars
<1>1. pool[m] = "pending" \/ upstream[m] = "attached"
  BY DEF PoolCallback, OnPoolReady, OnPoolFailure, OnUpstreamData, OnUpstreamMoreData,
     OnUpstreamTruncated, OnUpstreamResponse, OnUpstreamForeignResponse,
     OnUpstreamResponseTooLate, OnUpstreamBadResponse, OnUpstreamClose, Awaits
<1>2. /\ m \in Known /\ kind[m] \in MessageKinds /\ ~Answered(m)
  BY <1>1, CallbackKnown DEF LifeInv, LifeOf, PoolOwesAnswer, ServerOwesAnswer, Unanswered,
     Answered
<1>3. /\ kind' = kind /\ down' = down
      /\ down # "Open" => ~Answered(m)'
  BY <1>2, CallbackReplies DEF LifeInv, Answered
<1>4. ASSUME NEW n \in Messages, n # m PROVE Phase(n)' = Phase(n)
  BY <1>4, OthersUntouched, PhaseKept DEF LifeInv, Answered
<1>5. [n \in Messages |-> Phase(n)]'
        = [[n \in Messages |-> Phase(n)] EXCEPT ![m] = Phase(m)']
  BY <1>4
<1>6. CASE Phase(m)' = Phase(m)
  BY <1>3, <1>4, <1>6 DEF Lifecycle!lifecycleVars
<1>7. CASE Phase(m)' # Phase(m) /\ kind[m] = "Request"
  <2>1. down = "Open"
    BY <1>2, <1>3, <1>7 DEF Phase, Answered, LifeInv, IInv, NoOrphans
  <2>2. Phase(m) = "inFlight"
    BY <1>2, <1>7, <2>1 DEF Phase, Answered, LifeInv, LifeOf, NotDropped
  <2>3. Phase(m)' \in {"inFlight", "answered"}
    BY <1>3, <1>7, <2>1 DEF Phase, Answered, LifeInv, LifeOf, NotDropped
  <2> QED
    BY <1>3, <1>5, <1>7, <2>1, <2>2, <2>3 DEF Lifecycle!Answer
<1>8. CASE Phase(m)' # Phase(m) /\ kind[m] = "Oneway"
  <2>1. m \in active_message_list' => m \in active_message_list
    BY DEF PoolCallback, OnPoolReady, OnPoolFailure, OnUpstreamData, OnUpstreamMoreData,
       OnUpstreamTruncated, OnUpstreamResponse, OnUpstreamForeignResponse,
       OnUpstreamResponseTooLate, OnUpstreamBadResponse, OnUpstreamClose, OnResetStream,
       DeferredMessage, listVars
  <2>2. Phase(m) = "inFlight" /\ Phase(m)' = "gone"
    BY <1>3, <1>8, <2>1 DEF Phase
  <2> QED
    BY <1>3, <1>5, <1>8, <2>2 DEF Lifecycle!FinishOneway
<1> QED
  BY <1>2, <1>6, <1>7, <1>8 DEF MessageKinds

\* Any other step closes the connection or is not seen by the client.
LEMMA QuietRefines ==
    ASSUME LifeInv, [Next]_vars,
           \/ DownstreamEvent \/ DecodeHeartbeat \/ DecodeError \/ ReturnToOnData
           \/ ReturnToOnPoolReady \/ ReturnToOnPoolFailure \/ DeferredDelete \/ UNCHANGED vars
    PROVE  Lifecycle!Close \/ UNCHANGED Lifecycle!lifecycleVars
<1>1. UNCHANGED <<kind, upstream_replies, local_replies>>
  BY DEF DownstreamEvent, DownstreamData, DownstreamClose, WriteBufferWatermark,
     DecodeHeartbeat, DecodeError, ReturnToOnData, ReturnToOnPoolReady,
     ReturnToOnPoolFailure, DeferredDelete, vars, msgVars, replyVars
<1>2. \/ UNCHANGED <<down, active_message_list>>
      \/ down' # "Open" /\ active_message_list' = {}
  BY DEF DownstreamEvent, DownstreamData, DownstreamClose, WriteBufferWatermark,
     DecodeHeartbeat, DecodeError, ReturnToOnData, ReturnToOnPoolReady,
     ReturnToOnPoolFailure, FinishContinueDecoding, ResetAllMessages, DeferredMessage,
     CloseFlushWrite, DeferredDelete, vars, connVars, listVars, LifeInv, IInv, TypeOK
<1>3. CASE (down' = "Open" <=> down = "Open") /\ active_message_list' = active_message_list
  <2>1. ASSUME NEW n \in Messages PROVE Phase(n)' = Phase(n)
    BY <1>1, <1>3, PhaseKept DEF Answered
  <2> QED
    BY <1>1, <1>3, <2>1 DEF Lifecycle!lifecycleVars
<1>4. CASE down = "Open" /\ down' # "Open" /\ active_message_list' = {}
  <2>1. ASSUME NEW n \in Messages
        PROVE  Phase(n)' = IF Phase(n) = "inFlight" THEN "gone" ELSE Phase(n)
    BY <1>1, <1>4 DEF Phase
  <2> QED
    BY <1>1, <1>4, <2>1 DEF Lifecycle!Close
<1>5. down # "Open" => active_message_list = {}
  BY DEF LifeInv, IInv, NoOrphans
<1> QED
  BY <1>2, <1>3, <1>4, <1>5

\* Every step is one of RequestLifecycle or a stutter.
LEMMA StepRefines ==
    LifeInv /\ LifeInv' /\ [Next]_vars => [Lifecycle!Next]_(Lifecycle!lifecycleVars)
<1> SUFFICES ASSUME LifeInv, LifeInv', [Next]_vars
             PROVE  Lifecycle!Next \/ UNCHANGED Lifecycle!lifecycleVars
  OBVIOUS
<1>1. ASSUME NEW m \in Messages, DecodeMessage(m)
      PROVE  Lifecycle!Next
  BY <1>1, DecodeRefines DEF Lifecycle!Next
<1>2. ASSUME NEW m \in Messages, PoolCallback(m) \/ OnUpstreamData(m) \/ OnUpstreamClose(m)
      PROVE  Lifecycle!Next \/ UNCHANGED Lifecycle!lifecycleVars
  BY <1>2, CallbackRefines DEF Lifecycle!Next
<1>3. CASE \/ DownstreamEvent \/ DecodeHeartbeat \/ DecodeError \/ ReturnToOnData
           \/ ReturnToOnPoolReady \/ ReturnToOnPoolFailure \/ DeferredDelete \/ UNCHANGED vars
  BY <1>3, QuietRefines DEF Lifecycle!Next
<1> QED
  BY <1>1, <1>2, <1>3 DEF Next, CallbackStep

\* A new connection is a new connection of RequestLifecycle.
LEMMA InitRefines == Init => Lifecycle!Init
<1> SUFFICES ASSUME Init PROVE Lifecycle!Init
  OBVIOUS
<1>1. \A m \in Messages : Phase(m) = "unseen"
  BY DEF Init, Phase
<1> QED
  BY <1>1 DEF Init, Lifecycle!Init

\* Whatever pools, servers and the order of callbacks do, the client sees a connection
\* of RequestLifecycle.
THEOREM KeepsLifecycleCorrect == Spec => KeepsLifecycle
  BY InitRefines, StepRefines, LifeInvariant, PTL DEF Spec, KeepsLifecycle, Lifecycle!Spec
=============================================================================
