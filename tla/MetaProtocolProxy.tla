------------------------- MODULE MetaProtocolProxy -------------------------
(***************************************************************************)
(* One downstream connection of the meta protocol proxy: the              *)
(* ConnectionManager that decodes its requests, the ActiveMessage it keeps *)
(* for each of them, and the Router filter that carries each message to an *)
(* upstream connection (the default chain: config.cc adds the router when  *)
(* no filter is configured).                                               *)
(*                                                                         *)
(* Envoy runs the connection on one event loop, so every callback of the   *)
(* code runs to its end before the next event.  A callback that enters     *)
(* ConnectionManager::dispatch() is cut into its start, one step for each  *)
(* frame decoded, and its return; pc says how far it is, and no event      *)
(* happens until pc is "idle" again.                                       *)
(*                                                                         *)
(* The environment is what the code calls and is called by: the client,    *)
(* Envoy's TCP connection pool, the upstream connections it hands out, and *)
(* the dispatcher's deferred deletion.  It is modelled from that use.      *)
(*                                                                         *)
(* A decode error leaves the offending frame where it was, as the Dubbo    *)
(* codec does: decoding again raises the same error.                       *)
(***************************************************************************)
EXTENDS Integers, Sequences, FiniteSets

CONSTANTS
    MaxMessages,    \* bound: requests one downstream connection carries
    MaxFrames,      \* bound: frames one read from the client delivers
    MaxHeartbeats   \* bound: heartbeats the client sends

ASSUME BoundsAssumption ==
    /\ MaxMessages \in Nat \ {0}
    /\ MaxFrames \in Nat
    /\ MaxHeartbeats \in Nat

\* Messages are numbered in the order they are decoded.
Messages == 1..MaxMessages

MessageKinds == {"Request", "Oneway"}
Frames == MessageKinds \cup {"Heartbeat", "Bad"}

VARIABLES
    \* --- ConnectionManager and its connection
    down,                   \* read_callbacks_->connection().state()
    readable,               \* not readDisable()d by the write watermarks
    request_buffer,         \* the whole frames in request_buffer_
    stopped,                \* stopped_
    half_closed,            \* half_closed_
    active_message_list,    \* active_message_list_ (the newest is in front)
    pc,                     \* where the running callback is; "idle": none runs
    call,                   \* the callback that runs, and what it was called with
    \* --- ActiveMessage
    created,                \* messages created so far
    deferred,               \* handed to dispatcher().deferredDelete()
    deferrals,              \* how often it was handed over
    destroyed,              \* deleted
    kind,                   \* metadata_->getMessageType()
    pending_stream_decoded, \* pending_stream_decoded_
    local_response_sent,    \* local_response_sent_
    \* --- Router
    upstream_request,       \* upstream_request_: null, or what it holds
    \* --- the connection pool and the upstream server
    pool,                   \* is a newConnection() request outstanding?
    upstream,               \* the upstream connection used for the message
    received,               \* what that connection has delivered so far
    \* --- what crossed the wire, and the stats
    sent,                   \* times the request was written upstream
    upstream_replies,       \* upstream responses forwarded to the client
    local_replies,          \* replies of the proxy itself to the client
    heartbeats,             \* heartbeats the client sent
    heartbeat_replies,      \* heartbeats answered
    stats

connVars == <<down, readable, stopped, half_closed>>
beatVars == <<heartbeats, heartbeat_replies>>
msgVars  == <<kind, pending_stream_decoded, local_response_sent>>
listVars == <<created, active_message_list, deferred, deferrals, destroyed>>
envVars  == <<pool, upstream, received>>
replyVars == <<upstream_replies, local_replies>>
vars == <<connVars, request_buffer, pc, call, listVars, msgVars,
          upstream_request, envVars, sent, replyVars, beatVars, stats>>

----------------------------------------------------------------------------
(* State.                                                                  *)

NoCall == [from |-> "none", msg |-> 0, end_stream |-> FALSE]

Callers == {"none", "onData", "onPoolReady", "onPoolFailure"}

\* "spent": the UpstreamRequest exists but holds neither a pool handle nor a
\* connection.  conn_pool_handle_ and conn_data_ exclude each other (the code
\* asserts it in resetStream and encodeData).
UpstreamRequests == {"null", "waiting", "connected", "spent"}

\* "attached": open, with the Router registered for its callbacks.
UpstreamConnections == {"none", "attached", "released", "closed"}

Received == {"nothing", "partial", "response", "foreign", "garbage", "ended"}

Stats == [request_active : Nat, request : Nat,
          cx_destroy_local : Nat, cx_destroy_remote : Nat]

NoStats == [request_active |-> 0, request |-> 0,
            cx_destroy_local |-> 0, cx_destroy_remote |-> 0]

Init ==
    /\ down = "Open" /\ readable = TRUE
    /\ stopped = FALSE /\ half_closed = FALSE
    /\ request_buffer = <<>>
    /\ pc = "idle" /\ call = NoCall
    /\ created = 0
    /\ active_message_list = {} /\ deferred = {} /\ destroyed = {}
    /\ deferrals = [m \in Messages |-> 0]
    /\ kind = [m \in Messages |-> "none"]
    /\ pending_stream_decoded = [m \in Messages |-> FALSE]
    /\ local_response_sent = [m \in Messages |-> FALSE]
    /\ upstream_request = [m \in Messages |-> "null"]
    /\ pool = [m \in Messages |-> "none"]
    /\ upstream = [m \in Messages |-> "none"]
    /\ received = [m \in Messages |-> "nothing"]
    /\ sent = [m \in Messages |-> 0]
    /\ upstream_replies = [m \in Messages |-> 0]
    /\ local_replies = [m \in Messages |-> 0]
    /\ heartbeats = 0 /\ heartbeat_replies = 0
    /\ stats = NoStats

----------------------------------------------------------------------------
(* ConnectionManager and ActiveMessage, the parts several callbacks use.    *)

\* deferredDelete() of the messages of S.
HandOver(S) ==
    /\ deferred' = deferred \cup S
    /\ deferrals' = [m \in Messages |-> IF m \in S THEN deferrals[m] + 1 ELSE deferrals[m]]

\* Fault: deferredMessage without its inserted() guard.
DeferredMessage_NoGuard(list, S) ==
    active_message_list' = list \ S /\ HandOver(S)

\* ConnectionManager::deferredMessage for every message of S.  Only a message
\* that is in the list is moved: the inserted() guard.
DeferredMessage(list, S) ==
    active_message_list' = list \ S /\ HandOver(S \cap list)

\* Fault: only a local close counts the active requests.
ResetAllMessages_Uncounted(local) ==
    /\ DeferredMessage(active_message_list, active_message_list)
    /\ stats' = IF local
                  THEN [stats EXCEPT !.cx_destroy_local = @ + Cardinality(active_message_list)]
                  ELSE stats

\* Fault: a reset message is no longer active; its destructor says so again.
ResetAllMessages_Inactive(local) ==
    /\ DeferredMessage(active_message_list, active_message_list)
    /\ stats' = [stats EXCEPT !.request_active = @ - Cardinality(active_message_list)]

\* ConnectionManager::resetAllMessages; local says who closed.
ResetAllMessages(local) ==
    /\ DeferredMessage(active_message_list, active_message_list)
    /\ LET n == Cardinality(active_message_list) IN
       stats' = IF local
                  THEN [stats EXCEPT !.cx_destroy_local = @ + n]
                  ELSE [stats EXCEPT !.cx_destroy_remote = @ + n]

\* connection().close(FlushWrite): at once when nothing is left to write.
\* The LocalClose event of an immediate close finds the list already empty.
CloseFlushWrite ==
    down' \in (IF down = "Open" THEN {"Closing", "Closed"} ELSE {down})

\* ActiveMessage::sendLocalReply; the manager writes only to an open connection.
SendLocalReply(m) ==
    /\ local_response_sent' = [local_response_sent EXCEPT ![m] = TRUE]
    /\ local_replies' = IF down = "Open"
                          THEN [local_replies EXCEPT ![m] = @ + 1]
                          ELSE local_replies

NoLocalReply == UNCHANGED <<local_response_sent, local_replies>>

\* UpstreamRequest::onResetStream: a one-way request is reset, any other is
\* answered.  The release of the answered message that follows in the code is
\* guarded by filter_complete_, which nothing ever sets.
filter_complete == FALSE

\* Fault: a reset that tells the client nothing.
OnResetStream_Silent(m) ==
    DeferredMessage(active_message_list, {m}) /\ NoLocalReply

OnResetStream(m) ==
    IF kind[m] = "Oneway"
      THEN /\ DeferredMessage(active_message_list, {m})
           /\ NoLocalReply
      ELSE /\ SendLocalReply(m)
           /\ DeferredMessage(active_message_list, IF filter_complete THEN {m} ELSE {})

\* Fault: finalizeRequest releases only what was answered.
Finished_AnsweredOnly(m, type, answered) == IF answered THEN {m} ELSE {}

\* Which messages ActiveMessage::finalizeRequest hands to deferredMessage.
Finished(m, type, answered) == IF type = "Oneway" \/ answered THEN {m} ELSE {}

\* dispatch() decodes unless the buffer is empty or stopped_ is set.
EnterDispatch(buffer, stop) ==
    pc' = IF stop \/ buffer = <<>> THEN "return" ELSE "dispatch"

----------------------------------------------------------------------------
(* Events of the downstream connection.                                    *)

\* Frames of the given types in a buffer.
CountFrames(buffer, types) ==
    Cardinality({i \in DOMAIN buffer : buffer[i] \in types})

\* ConnectionManager::onData up to its call of dispatch().
DownstreamData(frames, end_stream) ==
    /\ pc = "idle" /\ down = "Open" /\ readable
    /\ created + CountFrames(request_buffer \o frames, MessageKinds) <= MaxMessages
    /\ heartbeats + CountFrames(frames, {"Heartbeat"}) <= MaxHeartbeats
    /\ request_buffer' = request_buffer \o frames
    /\ heartbeats' = heartbeats + CountFrames(frames, {"Heartbeat"})
    /\ call' = [from |-> "onData", msg |-> 0, end_stream |-> end_stream]
    /\ EnterDispatch(request_buffer \o frames, stopped)
    /\ UNCHANGED <<connVars, listVars, msgVars, upstream_request, envVars,
                   sent, replyVars, heartbeat_replies, stats>>

\* Fault: onEvent resets the messages only when the client closed.
DownstreamClose_RemoteOnly(local) ==
    /\ pc = "idle" /\ down # "Closed"
    /\ down' = "Closed"
    /\ IF local THEN UNCHANGED <<active_message_list, deferred, deferrals, stats>>
                ELSE ResetAllMessages(local)
    /\ UNCHANGED <<readable, stopped, half_closed, request_buffer, pc, call,
                   created, destroyed, msgVars, upstream_request, envVars,
                   sent, replyVars, beatVars>>

\* ConnectionManager::onEvent: the client went away, or Envoy closed the
\* connection (drain, timeout, the flush of an earlier close ended).
DownstreamClose(local) ==
    /\ pc = "idle" /\ down # "Closed"
    /\ down' = "Closed"
    /\ ResetAllMessages(local)
    /\ UNCHANGED <<readable, stopped, half_closed, request_buffer, pc, call,
                   created, destroyed, msgVars, upstream_request, envVars,
                   sent, replyVars, beatVars>>

\* on{Above,Below}WriteBuffer*Watermark: stop or resume reading.
WriteBufferWatermark ==
    /\ pc = "idle" /\ down = "Open"
    /\ readable' = ~readable
    /\ UNCHANGED <<down, stopped, half_closed, request_buffer, pc, call, listVars,
                   msgVars, upstream_request, envVars, sent, replyVars,
                   beatVars, stats>>

----------------------------------------------------------------------------
(* dispatch(): one step for each frame the request decoder consumes.       *)

NextFrame == Head(request_buffer)

\* Fault: dispatch() decodes one frame for each read.
ConsumeFrame_Once == request_buffer' = Tail(request_buffer) /\ pc' = "return"

ConsumeFrame ==
    /\ request_buffer' = Tail(request_buffer)
    /\ EnterDispatch(Tail(request_buffer), FALSE)

\* ConnectionManager::onHeartbeat.
DecodeHeartbeat ==
    /\ pc = "dispatch" /\ NextFrame = "Heartbeat"
    /\ ConsumeFrame
    /\ heartbeat_replies' = IF down = "Open" THEN heartbeat_replies + 1
                                             ELSE heartbeat_replies
    /\ UNCHANGED <<connVars, call, listVars, msgVars, upstream_request, envVars,
                   sent, replyVars, heartbeats, stats>>

\* The decoder throws: close(NoFlush), whose LocalClose event resets every
\* message; the resetAllMessages(true) that follows finds none.
DecodeError ==
    /\ pc = "dispatch" /\ NextFrame = "Bad"
    /\ down' = "Closed"
    /\ ResetAllMessages(TRUE)
    /\ pc' = "return"
    /\ UNCHANGED <<readable, stopped, half_closed, request_buffer, call,
                   created, destroyed, msgVars, upstream_request, envVars,
                   sent, replyVars, beatVars>>

\* A request is decoded: newStream() puts a new ActiveMessage in the list and
\* its onStreamDecoded runs the router.  The four ways the router ends follow.
NewStream(m) ==
    /\ pc = "dispatch" /\ NextFrame \in MessageKinds
    /\ m = created + 1
    /\ created' = m
    /\ kind' = [kind EXCEPT ![m] = NextFrame]
    /\ ConsumeFrame
    /\ UNCHANGED <<connVars, call, destroyed, received, upstream_replies, beatVars>>

NewList(m) == active_message_list \cup {m}

CountRequest(finalized) ==
    stats' = [stats EXCEPT !.request_active = @ + 1, !.request = @ + finalized]

\* No route, no such cluster, maintenance mode or no healthy host: a local
\* reply, whatever the type of the message, which then is finalized.
DecodeUnroutable(m) ==
    /\ NewStream(m)
    /\ SendLocalReply(m)
    /\ DeferredMessage(NewList(m), Finished(m, NextFrame, TRUE))
    /\ CountRequest(1)
    /\ UNCHANGED <<pending_stream_decoded, upstream_request, pool, upstream, sent>>

\* newConnection() fails at once (Overflow): onResetStream while the message
\* is still being decoded, then finalizeRequest.
DecodePoolOverflow(m) ==
    /\ NewStream(m)
    /\ upstream_request' = [upstream_request EXCEPT ![m] = "spent"]
    /\ IF NextFrame = "Oneway" THEN NoLocalReply ELSE SendLocalReply(m)
    /\ DeferredMessage(NewList(m), Finished(m, NextFrame, NextFrame = "Request"))
    /\ CountRequest(1)
    /\ UNCHANGED <<pending_stream_decoded, pool, upstream, sent>>

\* newConnection() has a connection: onPoolReady and encodeData run inside it.
DecodePoolReady(m) ==
    /\ NewStream(m)
    /\ upstream_request' = [upstream_request EXCEPT ![m] = "connected"]
    /\ upstream' = [upstream EXCEPT ![m] = "attached"]
    /\ sent' = [sent EXCEPT ![m] = @ + 1]
    /\ DeferredMessage(NewList(m), Finished(m, NextFrame, FALSE))
    /\ CountRequest(1)
    /\ NoLocalReply
    /\ UNCHANGED <<pending_stream_decoded, pool>>

\* newConnection() returns a handle: the message waits (StopIteration), and
\* dispatch() goes on with the next frame.
DecodePoolPending(m) ==
    /\ NewStream(m)
    /\ upstream_request' = [upstream_request EXCEPT ![m] = "waiting"]
    /\ pool' = [pool EXCEPT ![m] = "pending"]
    /\ pending_stream_decoded' = [pending_stream_decoded EXCEPT ![m] = TRUE]
    /\ DeferredMessage(NewList(m), {})
    /\ CountRequest(0)
    /\ NoLocalReply
    /\ UNCHANGED <<upstream, sent>>

----------------------------------------------------------------------------
(* What the callers of dispatch() do when it returns.                      *)

\* The newest message, the front of active_message_list_.
Newest == CHOOSE m \in active_message_list :
              \A n \in active_message_list : n <= m

\* The exception of onData for a half-closed client.  stopped_ is never set.
WaitForOneway == stopped /\ kind[Newest] = "Oneway"

\* The rest of ConnectionManager::onData.
ReturnToOnData ==
    /\ pc = "return" /\ call.from = "onData"
    /\ IF call.end_stream /\ ~WaitForOneway
         THEN /\ ResetAllMessages(FALSE)
              /\ CloseFlushWrite
         ELSE UNCHANGED <<down, active_message_list, deferred, deferrals, stats>>
    /\ half_closed' = (half_closed \/ (call.end_stream /\ WaitForOneway))
    /\ pc' = "idle" /\ call' = NoCall
    /\ UNCHANGED <<readable, stopped, request_buffer, created, destroyed,
                   msgVars, upstream_request, envVars, sent, replyVars, beatVars>>

\* The rest of ConnectionManager::continueDecoding.
FinishContinueDecoding ==
    IF ~stopped /\ half_closed
      THEN /\ ResetAllMessages(FALSE)
           /\ CloseFlushWrite
      ELSE UNCHANGED <<down, active_message_list, deferred, deferrals, stats>>

\* The rest of UpstreamRequest::onPoolReady: encodeData writes the request.
ReturnToOnPoolReady ==
    /\ pc = "return" /\ call.from = "onPoolReady"
    /\ FinishContinueDecoding
    /\ sent' = [sent EXCEPT ![call.msg] = @ + 1]
    /\ pc' = "idle" /\ call' = NoCall
    /\ UNCHANGED <<readable, stopped, half_closed, request_buffer, created,
                   destroyed, msgVars, upstream_request, envVars, replyVars, beatVars>>

ReturnToOnPoolFailure ==
    /\ pc = "return" /\ call.from = "onPoolFailure"
    /\ FinishContinueDecoding
    /\ pc' = "idle" /\ call' = NoCall
    /\ UNCHANGED <<readable, stopped, half_closed, request_buffer, created,
                   destroyed, msgVars, upstream_request, envVars, sent,
                   replyVars, beatVars>>

----------------------------------------------------------------------------
(* The connection pool answers a request that waited.                      *)

\* ActiveMessageDecoderFilter::continueDecoding down to dispatch(): the router
\* is the last filter, so the message is finalized if it had been paused.
CountFinalized(m) ==
    stats' = [stats EXCEPT !.request = @ + (IF pending_stream_decoded[m] THEN 1 ELSE 0)]

\* Fault: the pause is not cleared.
ContinueDecoding_StaysPaused(m, caller) ==
    /\ UNCHANGED pending_stream_decoded
    /\ CountFinalized(m)
    /\ stopped' = FALSE
    /\ call' = [from |-> caller, msg |-> m, end_stream |-> FALSE]
    /\ EnterDispatch(request_buffer, FALSE)

ContinueDecoding(m, caller) ==
    /\ pending_stream_decoded' = [pending_stream_decoded EXCEPT ![m] = FALSE]
    /\ CountFinalized(m)
    /\ stopped' = FALSE
    /\ call' = [from |-> caller, msg |-> m, end_stream |-> FALSE]
    /\ EnterDispatch(request_buffer, FALSE)

\* Fault: finalizing a one-way request resets its stream at once, not when the
\* dispatcher deletes it.
OnPoolReady_EagerReset(m) ==
    /\ pc = "idle" /\ pool[m] = "pending"
    /\ pool' = [pool EXCEPT ![m] = "none"]
    /\ upstream' = [upstream EXCEPT ![m] =
           IF kind[m] = "Oneway" THEN "closed" ELSE "attached"]
    /\ upstream_request' = [upstream_request EXCEPT ![m] =
           IF kind[m] = "Oneway" THEN "spent" ELSE "connected"]
    /\ ContinueDecoding(m, "onPoolReady")
    /\ DeferredMessage(active_message_list, Finished(m, kind[m], local_response_sent[m]))
    /\ UNCHANGED <<down, readable, half_closed, request_buffer, created, destroyed,
                   kind, local_response_sent, received, sent, replyVars, beatVars>>

\* UpstreamRequest::onPoolReady.
OnPoolReady(m) ==
    /\ pc = "idle" /\ pool[m] = "pending"
    /\ pool' = [pool EXCEPT ![m] = "none"]
    /\ upstream' = [upstream EXCEPT ![m] = "attached"]
    /\ upstream_request' = [upstream_request EXCEPT ![m] = "connected"]
    /\ ContinueDecoding(m, "onPoolReady")
    /\ DeferredMessage(active_message_list,
           IF pending_stream_decoded[m]
             THEN Finished(m, kind[m], local_response_sent[m]) ELSE {})
    /\ UNCHANGED <<down, readable, half_closed, request_buffer, created, destroyed,
                   kind, local_response_sent, received, sent, replyVars, beatVars>>

\* Fault: the handle is not cleared.
OnPoolFailure_KeepsHandle(m) ==
    /\ pc = "idle" /\ pool[m] = "pending"
    /\ pool' = [pool EXCEPT ![m] = "none"]
    /\ IF kind[m] = "Oneway" THEN NoLocalReply ELSE SendLocalReply(m)
    /\ ContinueDecoding(m, "onPoolFailure")
    /\ DeferredMessage(active_message_list, {m})
    /\ UNCHANGED <<down, readable, half_closed, request_buffer, created, destroyed, kind,
                   upstream_request, upstream, received, sent, upstream_replies, beatVars>>

\* Fault: the failure resumes where a ready connection would, at encodeData.
OnPoolFailure_Encodes(m) ==
    /\ pc = "idle" /\ pool[m] = "pending"
    /\ pool' = [pool EXCEPT ![m] = "none"]
    /\ upstream_request' = [upstream_request EXCEPT ![m] = "spent"]
    /\ IF kind[m] = "Oneway" THEN NoLocalReply ELSE SendLocalReply(m)
    /\ ContinueDecoding(m, "onPoolReady")
    /\ DeferredMessage(active_message_list, {m})
    /\ UNCHANGED <<down, readable, half_closed, request_buffer, created, destroyed,
                   kind, upstream, received, sent, upstream_replies, beatVars>>

\* UpstreamRequest::onPoolFailure with an asynchronous reason (Timeout, Local-
\* or RemoteConnectionFailure): onResetStream, then the same continuation, which
\* finalizes the message that was answered or, being one-way, reset.
OnPoolFailure(m) ==
    /\ pc = "idle" /\ pool[m] = "pending"
    /\ pool' = [pool EXCEPT ![m] = "none"]
    /\ upstream_request' = [upstream_request EXCEPT ![m] = "spent"]
    /\ IF kind[m] = "Oneway" THEN NoLocalReply ELSE SendLocalReply(m)
    /\ ContinueDecoding(m, "onPoolFailure")
    /\ DeferredMessage(active_message_list,
           IF kind[m] = "Oneway" \/ pending_stream_decoded[m] THEN {m} ELSE {})
    /\ UNCHANGED <<down, readable, half_closed, request_buffer, created, destroyed,
                   kind, upstream, received, sent, upstream_replies, beatVars>>

----------------------------------------------------------------------------
(* The upstream connection of a message calls the Router back.             *)

\* The upstream server answers only requests that expect an answer.
Awaits(m) == pc = "idle" /\ upstream[m] = "attached" /\ kind[m] = "Request"

\* conn_data_.reset() without a close: the connection goes back to the pool.
ReleaseConnection(m) ==
    /\ upstream' = [upstream EXCEPT ![m] = "released"]
    /\ upstream_request' = [upstream_request EXCEPT ![m] = "null"]

\* Fault: resetStream gives the connection back without closing it.
CloseConnection_Releases(m) ==
    /\ upstream' = [upstream EXCEPT ![m] = "released"]
    /\ upstream_request' = [upstream_request EXCEPT ![m] = "spent"]

\* Fault: the Router does not reset a stream the upper layer has released.
CloseConnection_Never(m) == UNCHANGED <<upstream, upstream_request>>

\* UpstreamRequest::resetStream on a held connection: it is closed.  stream_reset_
\* makes the Router ignore the LocalClose event of that close.
CloseConnection(m) ==
    /\ upstream' = [upstream EXCEPT ![m] = "closed"]
    /\ upstream_request' = [upstream_request EXCEPT ![m] = "spent"]

\* Part of a response: ActiveResponseDecoder::onData wants more.
OnUpstreamMoreData(m) ==
    /\ Awaits(m)
    /\ received' = [received EXCEPT ![m] = "partial"]
    /\ UNCHANGED <<connVars, request_buffer, pc, call, listVars, msgVars, pool,
                   upstream, upstream_request, sent, replyVars, beatVars, stats>>

\* The upstream ends its side inside a response: onResetStream, then
\* onResponseComplete and cleanup.
OnUpstreamTruncated(m) ==
    /\ Awaits(m)
    /\ received' = [received EXCEPT ![m] = "ended"]
    /\ OnResetStream(m)
    /\ ReleaseConnection(m)
    /\ UNCHANGED <<connVars, request_buffer, pc, call, created, destroyed, kind,
                   pending_stream_decoded, pool, sent, upstream_replies, beatVars, stats>>

\* Fault: the state of the downstream connection is not looked at.
OnUpstreamResponse_Unchecked(m) ==
    /\ Awaits(m)
    /\ received' = [received EXCEPT ![m] = "response"]
    /\ upstream_replies' = [upstream_replies EXCEPT ![m] = @ + 1]
    /\ DeferredMessage(active_message_list, {m})
    /\ ReleaseConnection(m)
    /\ UNCHANGED <<connVars, request_buffer, pc, call, created, destroyed, msgVars,
                   pool, sent, local_replies, beatVars, stats>>

\* A whole response.  onStreamDecoded forwards it, upstreamData releases the
\* message and the Router gives the connection back.
OnUpstreamResponse(m) ==
    /\ Awaits(m) /\ down = "Open"
    /\ received' = [received EXCEPT ![m] = "response"]
    /\ upstream_replies' = [upstream_replies EXCEPT ![m] = @ + 1]
    /\ DeferredMessage(active_message_list, {m})
    /\ ReleaseConnection(m)
    /\ UNCHANGED <<connVars, request_buffer, pc, call, created, destroyed, msgVars,
                   pool, sent, local_replies, beatVars, stats>>

\* A whole response of another request id: it has been forwarded when
\* upstreamData compares the ids, and onError answers the client again.
OnUpstreamForeignResponse(m) ==
    /\ Awaits(m) /\ down = "Open"
    /\ received' = [received EXCEPT ![m] = "foreign"]
    /\ upstream_replies' = [upstream_replies EXCEPT ![m] = @ + 1]
    /\ SendLocalReply(m)
    /\ DeferredMessage(active_message_list, {m})
    /\ CloseConnection(m)
    /\ UNCHANGED <<connVars, request_buffer, pc, call, created, destroyed, kind,
                   pending_stream_decoded, pool, sent, beatVars, stats>>

\* A whole response after the client has gone: onStreamDecoded throws
\* DownstreamConnectionCloseException, and upstreamData calls onReset.
OnUpstreamResponseTooLate(m) ==
    /\ Awaits(m) /\ down # "Open"
    /\ received' = [received EXCEPT ![m] = "response"]
    /\ DeferredMessage(active_message_list, {m})
    /\ CloseConnection(m)
    /\ UNCHANGED <<connVars, request_buffer, pc, call, created, destroyed, msgVars,
                   pool, sent, replyVars, beatVars, stats>>

\* Bytes the response decoder refuses: onError.
OnUpstreamBadResponse(m) ==
    /\ Awaits(m)
    /\ received' = [received EXCEPT ![m] = "garbage"]
    /\ SendLocalReply(m)
    /\ DeferredMessage(active_message_list, {m})
    /\ CloseConnection(m)
    /\ UNCHANGED <<connVars, request_buffer, pc, call, created, destroyed, kind,
                   pending_stream_decoded, pool, sent, upstream_replies, beatVars, stats>>

\* Router::onEvent: the connection was closed by the upstream or by the pool.
\* The Router keeps the (now useless) conn_data_.
OnUpstreamClose(m) ==
    /\ pc = "idle" /\ upstream[m] = "attached"
    /\ upstream' = [upstream EXCEPT ![m] = "closed"]
    /\ OnResetStream(m)
    /\ UNCHANGED <<connVars, request_buffer, pc, call, created, destroyed, kind,
                   pending_stream_decoded, upstream_request, pool, received, sent,
                   upstream_replies, beatVars, stats>>

----------------------------------------------------------------------------
(* The dispatcher deletes what was deferred.                               *)

\* Router::onDestroy for the messages of S: resetStream cancels the pool
\* request or closes the connection.
Cancelled(S) == [m \in Messages |->
    IF m \in S /\ upstream_request[m] = "waiting" THEN "none" ELSE pool[m]]

Disconnected(S) == [m \in Messages |->
    IF m \in S /\ upstream_request[m] = "connected" THEN "closed" ELSE upstream[m]]

\* clearDeferredDeleteList runs ~ActiveMessage for all of them, between events.
DeferredDelete ==
    /\ pc = "idle" /\ deferred # {}
    /\ destroyed' = destroyed \cup deferred
    /\ deferred' = {}
    /\ pool' = Cancelled(deferred)
    /\ upstream' = Disconnected(deferred)
    /\ upstream_request' = [m \in Messages |->
           IF m \in deferred THEN "null" ELSE upstream_request[m]]
    /\ stats' = [stats EXCEPT !.request_active = @ - Cardinality(deferred)]
    /\ UNCHANGED <<connVars, request_buffer, pc, call, created, active_message_list,
                   deferrals, msgVars, received, sent, replyVars, beatVars>>

----------------------------------------------------------------------------
FrameSequences == UNION {[1..n -> Frames] : n \in 0..MaxFrames}

DownstreamEvent ==
    \/ \E frames \in FrameSequences, end_stream \in BOOLEAN :
           DownstreamData(frames, end_stream)
    \/ \E local \in BOOLEAN : DownstreamClose(local)
    \/ WriteBufferWatermark

DecodeMessage(m) ==
    \/ DecodeUnroutable(m)
    \/ DecodePoolOverflow(m)
    \/ DecodePoolReady(m)
    \/ DecodePoolPending(m)

\* The steps of a running callback: the code's own progress.
CallbackStep ==
    \/ DecodeHeartbeat
    \/ DecodeError
    \/ \E m \in Messages : DecodeMessage(m)
    \/ ReturnToOnData
    \/ ReturnToOnPoolReady
    \/ ReturnToOnPoolFailure

PoolCallback(m) == OnPoolReady(m) \/ OnPoolFailure(m)

OnUpstreamData(m) ==
    \/ OnUpstreamMoreData(m)
    \/ OnUpstreamTruncated(m)
    \/ OnUpstreamResponse(m)
    \/ OnUpstreamForeignResponse(m)
    \/ OnUpstreamResponseTooLate(m)
    \/ OnUpstreamBadResponse(m)

Next ==
    \/ DownstreamEvent
    \/ CallbackStep
    \/ \E m \in Messages : PoolCallback(m) \/ OnUpstreamData(m) \/ OnUpstreamClose(m)
    \/ DeferredDelete

Spec == Init /\ [][Next]_vars

\* A running callback runs on, the dispatcher deletes what was deferred, and the
\* pool answers a waiting request (its connect timeout makes sure of that).
\* SF: deletion is disabled while a callback runs, and runs in each iteration.
Fairness ==
    /\ WF_vars(CallbackStep)
    /\ SF_vars(DeferredDelete)
    /\ \A m \in Messages : SF_vars(PoolCallback(m))

FairSpec == Spec /\ Fairness

\* The assumption about servers: each finishes its response or closes.  The proxy
\* has no request timeout of its own.
UpstreamFinishes(m) ==
    (OnUpstreamData(m) /\ ~OnUpstreamMoreData(m)) \/ OnUpstreamClose(m)

UpstreamFairness == \A m \in Messages : SF_vars(UpstreamFinishes(m))

----------------------------------------------------------------------------
(* Properties.                                                             *)

\* The type invariant: every variable holds what its member in the code can.
TypeOK ==
    /\ down \in {"Open", "Closing", "Closed"}
    /\ readable \in BOOLEAN /\ stopped \in BOOLEAN /\ half_closed \in BOOLEAN
    /\ request_buffer \in Seq(Frames)
    /\ pc \in {"idle", "dispatch", "return"}
    /\ call \in [from : Callers, msg : 0..MaxMessages, end_stream : BOOLEAN]
    /\ created \in 0..MaxMessages
    /\ active_message_list \in SUBSET Messages
    /\ deferred \in SUBSET Messages
    /\ deferrals \in [Messages -> Nat]
    /\ destroyed \in SUBSET Messages
    /\ kind \in [Messages -> MessageKinds \cup {"none"}]
    /\ pending_stream_decoded \in [Messages -> BOOLEAN]
    /\ local_response_sent \in [Messages -> BOOLEAN]
    /\ upstream_request \in [Messages -> UpstreamRequests]
    /\ pool \in [Messages -> {"none", "pending"}]
    /\ upstream \in [Messages -> UpstreamConnections]
    /\ received \in [Messages -> Received]
    /\ sent \in [Messages -> Nat]
    /\ upstream_replies \in [Messages -> Nat]
    /\ local_replies \in [Messages -> Nat]
    /\ heartbeats \in Nat /\ heartbeat_replies \in Nat
    /\ stats \in Stats

\* Every message is in exactly one place: the active list, the dispatcher's
\* deferred list, or gone; and it was handed to the dispatcher at most once,
\* whatever order the releases of deferredMessage (reset, completion, error,
\* one-way finalization) come in.
Ownership ==
    /\ active_message_list \cup deferred \cup destroyed = 1..created
    /\ active_message_list \cap deferred = {}
    /\ active_message_list \cap destroyed = {}
    /\ deferred \cap destroyed = {}
    /\ \A m \in Messages : deferrals[m] = IF m \in deferred \cup destroyed THEN 1 ELSE 0

\* What the Router believes of its pool request and its connection is what the
\* pool and the connection believe: a handle exactly while the pool has the
\* request, and conn_data_ as long as a connection can call the Router back.
PoolAgreement ==
    \A m \in Messages :
        /\ (upstream_request[m] = "waiting") <=> (pool[m] = "pending")
        /\ (upstream[m] = "attached") => (upstream_request[m] = "connected")
        /\ (upstream_request[m] = "connected") => (upstream[m] \in {"attached", "closed"})

\* No callback reaches a deleted Router: as long as the pool or an upstream
\* connection may call it, its message is not destroyed.  ~ActiveMessage runs
\* after the message left the list, so both can call it in between.
CallbackSafety ==
    \A m \in Messages :
        pool[m] = "pending" \/ upstream[m] = "attached"
            => m \in active_message_list \cup deferred

\* The connection onPoolReady writes to in encodeData survives the
\* continueDecoding() before it, which may decode, fail and reset the message.
EncodeHasConnection ==
    pc # "idle" /\ call.from = "onPoolReady" =>
        /\ upstream_request[call.msg] = "connected"
        /\ upstream[call.msg] = "attached"
        /\ call.msg \notin destroyed

\* What a callback uses is alive: the Router it is for, and the connection it writes
\* to when it has let other code run.
CallbacksOfLiving == CallbackSafety /\ EncodeHasConnection

\* When the downstream connection is closing or closed no message is left in the
\* list, so none can outlive the ConnectionManager, nor be left for ever.
NoOrphans == down # "Open" => active_message_list = {}

\* Between events of an open connection nothing decodable is left in the buffer
\* (no event would ever decode it) and every heartbeat has been answered.
NoFrameLeftBehind ==
    pc = "idle" /\ down = "Open" =>
        request_buffer = <<>> /\ heartbeats = heartbeat_replies

\* A message stays in the list only while something is going to call it back, or
\* it has been answered locally: no client waits for nothing.
ActiveIsWaiting ==
    \A m \in active_message_list :
        \/ pool[m] = "pending"
        \/ upstream[m] = "attached" /\ kind[m] = "Request"
        \/ local_response_sent[m] /\ local_replies[m] = 1

\* A client gets at most one answer to a request, over all the ways it can fail;
\* except for a response of another id, which is forwarded and then answered.
AtMostOneReply ==
    \A m \in Messages :
        upstream_replies[m] + local_replies[m] <= (IF received[m] = "foreign" THEN 2 ELSE 1)

\* A connection goes back to the pool only at the end of a response, never with
\* bytes of this response still to come for the next request that uses it.
CleanReuse ==
    \A m \in Messages :
        upstream[m] = "released" => received[m] \in {"response", "ended"}

\* The request counter counts each decoded message once, when its filters are
\* done with it: at the end of decoding, or when the pool answers.
RequestsCountedOnce ==
    stats.request = Cardinality({m \in 1..created : ~pending_stream_decoded[m]})

\* A two-way request that is released without any reply was counted as active
\* when the connection was destroyed: none vanishes from the stats.
DropsAreCounted ==
    Cardinality({m \in deferred \cup destroyed :
                     kind[m] = "Request" /\ upstream_replies[m] + local_replies[m] = 0})
        <= stats.cx_destroy_local + stats.cx_destroy_remote

\* The stats account for every message: each is counted once, and none that got no
\* reply is missing from the counters of the connection's end.
StatsExact == RequestsCountedOnce /\ DropsAreCounted

\* A request is written upstream at most once, and never after the proxy has
\* answered it (onPoolReady writes after a callback that may answer).
NoSendAfterReply ==
    [][\A m \in Messages :
           sent'[m] # sent[m] => sent[m] = 0 /\ local_replies'[m] = 0]_vars

\* A request the router paused leaves the pause: the pool answers it or it is
\* deleted, under the pool's connect timeout.
PausedRequestsProceed ==
    \A m \in Messages :
        pending_stream_decoded[m] ~> (~pending_stream_decoded[m] \/ m \in destroyed)

\* Once the client has gone everything is given back: the messages are deleted,
\* the gauge is zero and the pool and the servers have nothing open for it.
ResourcesDrain ==
    down # "Open" ~>
        /\ deferred = {} /\ active_message_list = {} /\ stats.request_active = 0
        /\ \A m \in Messages : pool[m] = "none" /\ upstream[m] # "attached"

\* If the servers finish what they start, every two-way request is answered
\* unless the client goes away.
RequestsAnswered ==
    UpstreamFairness =>
        \A m \in Messages :
            kind[m] = "Request" ~>
                upstream_replies[m] + local_replies[m] > 0 \/ down # "Open"
=============================================================================
