# A specification of the meta protocol proxy

The meta protocol proxy is an Envoy network filter: it decodes the requests of
an application protocol (Dubbo, Thrift, or any codec that is plugged in) from a
client connection, sends each one over a pooled upstream connection, and writes
the responses back. This directory holds its TLA+ specification: modules
translated from the code under `src/src/`, TLC configurations that check them
on small instances, and proofs that TLAPS checks for every instance.

## The system

| Component | State | Operations | Properties that make it correct |
|---|---|---|---|
| `ConnectionManager` (`conn_manager.cc`) | `request_buffer_`, `active_message_list_`, `stopped_`, `half_closed_`, the state of the client connection | `onData`, `onEvent`, watermarks, `newStream`, `onHeartbeat`, `dispatch`, `sendLocalReply`, `continueDecoding`, `deferredMessage`, `resetAllMessages` | no message lost or released twice; none left when the connection is gone; no frame left undecoded |
| `ActiveMessage` (`active_message.cc`) | metadata, `pending_stream_decoded_`, `local_response_sent_`, its filters, `response_decoder_` | `onStreamDecoded`, `finalizeRequest`, `applyDecoderFilters`, `continueDecoding`, `sendLocalReply`, `upstreamData`, `onReset`, `onError`, destructor | one answer at most, late replies of filters aside; a pause always ends; nothing runs after its deletion |
| `Router`, `UpstreamRequest` (`filters/router/router_impl.cc`) | `upstream_request_` with `conn_pool_handle_` or `conn_data_`, flags | `onMessageDecoded`, `start`, `onPoolReady`, `onPoolFailure`, `encodeData`, `onUpstreamData`, `onEvent`, `resetStream`, `onResetStream`, `onDestroy` | handle and connection agree with the pool; a connection is reused only at the end of a response |
| `DecoderBase`, `DecoderStateMachine` (`decoder.cc`) | `decode_started_`, `state_machine_` with its state, one `stream_`; with it the bytes in `request_buffer_` and the place of the codec in them | `onData`, `run`, `start`, `complete`, `reset` | each frame handed over once and in order, whatever way it is cut; nothing that has arrived left behind; its assertions hold in every call |
| `RouteMatcher` (`filters/router/route_matcher.cc`), `ActiveMessage::route` | the configuration, `cached_route_` and the random stream id of a message | `route`, `headersMatch`, `clusterEntry` | the first route that matches; one route for a message, whoever asks; no cluster of weight zero |
| `MetadataImpl`, `MutationImpl` (`codec_impl.*`) | `properties_` and `headers_` of a message | `put`, `putString`, `getString` | what is read under a key is what the request is routed by |
| Dubbo codec (`application_protocols/dubbo`) | none between messages | `decode`, `onError`, heartbeat encoding | metadata agree with the header |
| Thrift codec (`application_protocols/thrift`) | a stack of decoder frames | `decode`, `onError` | accepts the grammar, consumes exactly a message |
| Configuration, factories, stats, API, build | none that changes | - | - |

How they interact. Envoy calls the `ConnectionManager` when the client sends
bytes (`onData`) or the connection changes (`onEvent`). `dispatch()` runs the
decoder, which for each whole request calls `newStream()` and then
`ActiveMessage::onStreamDecoded`, which runs the filters, the router last. The
router asks the TCP pool for a connection. If the pool has none ready the
message is *paused*: the router returns `StopIteration`, and `dispatch()` goes on
with the next request. Later the pool calls `onPoolReady` or `onPoolFailure`, and
these call `continueDecoding()`, **which enters `dispatch()` again** before they
have finished their own work. Upstream connections call the router with data and
events. A message that is finished is moved to the dispatcher's deferred list and
deleted after the running event; until then the pool and the upstream connection
may still call it.

What is hard here. Everything runs on one thread, but callbacks nest, and events
of the client, the pool and the upstream servers come in every order: a client
that leaves between any two of them, a bad frame behind good ones, a failure
that arrives in the window before a deletion, a response after the client has
gone. `PROJECT.json` lists the hazards with their lines.

## The modules

| Module | Content |
|---|---|
| `MetaProtocolProxy` | the core: one client connection with its `ConnectionManager`, messages, routers, pool requests and upstream connections |
| `RequestLifecycle` | the abstract specification: what a client is promised, without filters, pools and upstreams |
| `MCMetaProtocolProxy` | model checking: the refinement mapping to `RequestLifecycle`, and claims of comments that the code does not keep |
| `MetaProtocolProxy_proofs` | the inductive invariant of the core: who owns a message, its pool request and its connection |
| `RequestLifecycle_proofs` | the invariant about the life of each message: answers, writes and counters, and the refinement of `RequestLifecycle` |
| `FrameStream` | the abstract specification of decoding: frames handed over once and in order, up to the first bad one |
| `Decoder` | `dispatch()`, `DecoderBase` and `DecoderStateMachine` over a stream of bytes that is cut anywhere, with any codec |
| `MCDecoder` | model checking: the refinement mapping to `FrameStream` |
| `Decoder_proofs` | the inductive invariant of the decoder and its theorems |
| `RouteMatcher` | the metadata of a request, its route and its cluster |
| `MCRouteMatcher` | model checking: every configuration of up to two routes |
| `RouteMatcher_proofs` | the inductive invariant of routing and its theorems |
| `ThriftCodec` | the Thrift codec: `decode` over a stream that is cut anywhere, with its state machine, and `onError` |
| `ThriftGrammar` | the grammar of Thrift messages: the phrases of tokens and how they make up larger ones, without a stack |
| `ThriftGrammar_proofs` | the invariant that relates the stack to phrases, and the theorem that the codec decodes the grammar |
| `MCThriftCodec` | model checking: the same grammar as a recursive descent, the two against each other, and what a comment says of error replies |
| `ThriftCodec_proofs` | the inductive invariant of the Thrift codec and its theorems |
| `DubboCodec` | the Dubbo codec: `decode` over a stream that is cut anywhere, and the replies it encodes |
| `MCDubboCodec` | model checking: messages of every kind, good and bad, and what a comment says of the status of responses |
| `DubboCodec_proofs` | the inductive invariant of the Dubbo codec and its theorems |
| `FilterChain` | one message on its way through any configured filters, there and back |
| `MCFilterChain` | model checking: every chain of a few filters, and what comments say of paused responses and of retries |
| `FilterChain_proofs` | the inductive invariant of the filter chain and its theorems |

### State and actions of `MetaProtocolProxy`

Variables have the names of the members they stand for (`active_message_list`,
`pending_stream_decoded`, `half_closed`, ...). `upstream_request[m]` is the
`UpstreamRequest` of message `m`: `"null"`, `"waiting"` (it holds a pool handle),
`"connected"` (it holds a connection) or `"spent"` (neither). `pool`, `upstream`
and `received` are the environment's side of the same facts, kept apart so that
the two can be compared. `sent`, `upstream_replies`, `local_replies` and
`heartbeat_replies` count what crossed the wire.

Messages carry numbers in the order they are decoded, so the list is a set and its
front is its largest member.

A callback of the code is one action, unless it enters `dispatch()`. Those are cut
into the part before, one step for each decoded frame, and the part after
(`ReturnToOnData`, `ReturnToOnPoolReady`, `ReturnToOnPoolFailure`). `pc` and
`call` are the C++ call stack: while `pc` is not `"idle"` no event happens. The
cut is what lets the properties look *inside* `onPoolReady`, at the state in which
`encodeData` finds the connection.

| Code | Action |
|---|---|
| `onData` up to `dispatch()`, and after it | `DownstreamData`, `ReturnToOnData` |
| `onEvent`, watermarks | `DownstreamClose`, `WriteBufferWatermark` |
| `dispatch()` with a heartbeat, an error | `DecodeHeartbeat`, `DecodeError` |
| `newStream` + `onStreamDecoded` + `Router::onMessageDecoded` | `DecodeUnroutable`, `DecodePoolOverflow`, `DecodePoolReady`, `DecodePoolPending` |
| `onPoolReady` with `continueDecoding()`, then `encodeData` | `OnPoolReady`, `ReturnToOnPoolReady` |
| `onPoolFailure` with `continueDecoding()` | `OnPoolFailure`, `ReturnToOnPoolFailure` |
| `Router::onUpstreamData` by what the response decoder makes of the bytes | `OnUpstreamMoreData`, `OnUpstreamTruncated`, `OnUpstreamResponse`, `OnUpstreamForeignResponse`, `OnUpstreamResponseTooLate`, `OnUpstreamBadResponse` |
| `Router::onEvent` | `OnUpstreamClose` |
| `~ActiveMessage` with `Router::onDestroy` | `DeferredDelete` |

Abstractions, each of which keeps what the properties tell apart:

- Bytes are frames. A read delivers up to `MaxFrames` whole frames; the rest of
  a partial frame stays in the buffer without effect (`DecoderBase` waits).
- A frame that cannot be decoded stays at the front of the buffer and fails
  again, as with the Dubbo codec (`ErrorSticks` of `DubboCodec`).
- The filter chain is the router alone, which `ConfigImpl` builds when no filter
  is configured. `FilterChain` has the others.
- `response_started_`, `response_complete_` and `stream_reset_` are left out: they
  only distinguish states that `upstream_request` and `upstream` already do
  (a completed request is released by `cleanup()` in the same callback, and a reset
  one has no connection that could call).
- `sendLocalReply` always encodes; a codec that throws there changes no state but
  the reply count.
- Upstream servers answer only two-way requests. They may close at any time.
- Stats are the four counters that a property relates to the rest of the state.
- The exact wording of replies and the outlier detector are left out.

### State and actions of `Decoder`

The core takes whole frames; this module says why it may. The stream is a sequence of
frames (`kinds`, `ends`) of any size, `arrived` counts the bytes that reads have moved to
`request_buffer_`, and `taken` those that the codec has taken from it. `frame` is where
the codec is. `pc` is where `dispatch()` is; while it is not `"idle"` no event happens.

| Code | Action |
|---|---|
| `ConnectionManager::onData` up to `dispatch()` | `OnData` |
| `ConnectionManager::continueDecoding` up to `dispatch()` | `ContinueDecoding` |
| the connection ends; its messages are deleted | `Close`, `DeferredDelete` |
| `DecoderBase::onData` up to `run()`, with `start()` | `Start` |
| `run()` and `onDecodeStream()`, by what `decode()` returns | `DecodeWaits`, `DecodeHeartbeat`, `DecodeMessage`, `DecodeStray` |
| `onStreamDecoded` of the message | `OnStreamDecoded` |
| `complete()`, and the loop of `dispatch()` | `Complete` |
| `decode()` throws, and the handler in `dispatch()` | `ThrowAndKeep`, `ThrowAndTake` |

Of the codec only the contract of `codec/codec.h` is assumed. It returns `Done` with exactly
one frame taken, or `WaitForData` with any part of the frame taken, or it throws. The two
codecs of the repository throw in two ways, and both are here: what they have refused stays
in the buffer and is refused again (Dubbo, and an unknown type in a Thrift message), or is
gone from it, and a later call reads on behind it as if a frame began there (the
start of a Thrift frame, `thrift_codec.cc:43-60`). What such a call finds is a *stray*: it
belongs to no frame.

Two callbacks enter `dispatch()`. The second one, `ContinueDecoding`, is the pool's answer
to a message that waits; it may come when the connection has been closed, by the client
or by `dispatch()` after an error, as long as the message is not deleted. It then finds
the decoder as the exception or the wait has left it, with `decode_started_` set.

`MCDecoder` maps this to `FrameStream`: a frame is `whole` when its last byte has arrived, the
stream is `broken` when the codec has thrown. Messages and how they end are the core's
matter; here they are only counted (`waiting`).

Left out: `decoder_->reset()`, which a Retry of an encoder filter calls while the decoder
runs (see the observations); the response decoder of a message, which uses the same
classes for one response.

### State and actions of `RouteMatcher`

A key of the metadata is a name and a way to spell it: `properties_` tells spellings apart
that differ in case, `headers_` does not. `insert` keeps the first value of a
key; `putString` also replaces the header. Keys that the router's matchers do not
look at behave like the others.

| Code | Action |
|---|---|
| `put`, `putString`, by the codec and by filters | `CodecWrites`, `FilterWrites` |
| `onStreamDecoded`; the router's turn | `Decoded`, `EnterRouter` |
| `ActiveMessage::route` with and without a cached route | `AskCached`, `AskMatcher` |
| `RouteMatcherImpl::route`, one route after another | `MatchOneCluster`, `MatchWeightedCluster`, `MatchNoWeight`, `MatchNext`, `MatchNone` |

The codec writes each key once, while it decodes. Filters write and ask for the route in any
order; the router asks last. The answer is kept whether it is a route or none, so what a
filter writes after the first question changes the headers and not the route. Envoy's
header matchers, `WeightedClusterUtil::pickCluster` and the random number are
external: a matcher accepts some values of a header, or its absence, and `pickCluster` finds the
interval of weights that holds the random number.

### State and actions of `ThriftCodec`

One action is one handler of `DecoderStateMachine` that did not run out of data;
`RunOutOfData` stands for every handler that did, `DecodeFrameEnd` for the end of
`decode()`, `DecodeResume`, `DecodeFrameStart` and `DecodeFrameStartFails` for its
beginning. `listBegin`, `listValue`, `listEnd` and their twins for sets are one
action each, with the container as a parameter.

A *token* is what one call of Envoy's `ThriftProxy::Protocol` reads or writes. Such
a call finds its token complete or takes nothing, so it does not matter which bytes
of it are there, and the model says only that it may run out. Which token comes is
chosen when it is read; `consumed` remembers the tokens of the message, `origin_message`
those that were written. All scalar types are one.

Left out: `passthrough_enabled_` is never set and `frame_ended_` is false whenever
`decode()` is called, so neither has a step; which protocol `Auto` finds; `encode`,
which writes nothing; a protocol that throws while it reads, which ends `decode()` as
`ThrowUnknownType` does.

For the core, `ErrorSticks` is what the assumption about bad frames says of a Thrift
message: an error in the message is found again in each later call. An error at the
*start* of a frame is different: the transport has taken its header from the buffer
when `decode()` throws, and a later call goes on behind it (`DecodeFrameStartFails`).
The core closes the connection in either case.

### State and actions of `DubboCodec`

The stream is modelled by lengths. `front` is the message whose bytes come first, of
which `taken` bytes have left the buffer; `buffer` bytes wait in it, those of `front`
and perhaps of messages behind it. `taken` is history: the code does not have it, and
`Aligned` says that the code nevertheless never loses its place.

| Code | Action |
|---|---|
| `decode()` and `start()` | `Decode` |
| `onDecodeStreamHeader`, by how it ends | `WaitForHeader`, `ThrowBadHeader`, `WaitForHeartbeat`, `FinishHeartbeat`, `OnDecodeStreamHeader` |
| `onDecodeStreamData`, by how it ends | `WaitForBody`, `ThrowBadBody`, `OnDecodeStreamData` |
| `toMetadata` and `complete()` | in `Finish` |
| `onError`, `encode` of a heartbeat | `OnError`, `EncodeHeartbeat` |
| more bytes of the peer | `Receive` |

The handler of a header only peeks at it, so while the body of a heartbeat is missing,
and after an exception, the header is decoded again. The handler of a body has taken the
header before. Hessian2 is a library: of a body the model has what the deserializer finds
in it, and the offset it has read up to, which may lie behind the end of the body, since
the deserializer is given the whole buffer.

Left out: parameters and attachments of an invocation, which nothing reads; `Timeout`
and `TwoWay`, which decoding never sets. A result with attachments is the result without.

### State and actions of `FilterChain`

The module looks at one message and at all that filters can do to it. A filter is its
position in the configuration; `chain` gives its kind, and the router stands behind
the last one, in both lists. `decoder_filters` and `encoder_filters` are the lists that
`addDecoderFilter`, `addEncoderFilter` and `addFilter` build.

Each call of a filter is a step: `pc` says which function iterates
(`onStreamDecoded`, `continueDecoding`, `upstreamData` or `continueEncoding`), and
`entry` which filter is called next; `End` is the end of the list.

| Code | Action |
|---|---|
| `newStream`, `onStreamDecoded` up to the first filter | `OnStreamDecoded` |
| `applyDecoderFilters`, by what the filter does | `DecoderFilterContinues`, `DecoderFilterPauses`, `DecoderFilterResets`, `DecoderFilterReplies`, `RouterReplies`, `RouterResets`, `RouterSends`, `RouterPauses` |
| its end, with `FinalizeRequest` | `DecodingEnds` |
| a filter that waits goes on | `ContinueDecoding`, `ContinueEncoding` |
| a timer or callback of any filter, whether it waits, has let the message pass or has never seen it | `SendLocalReply`, `ResetStream`, `DownstreamClose` |
| the router's callbacks, which run `continueDecoding` to its end | `OnPoolReady`, `OnPoolFailure`, `OnUpstreamClose` |
| `upstreamData` up to the first encoder filter | `OnUpstreamData` |
| `applyEncoderFilters`, by what the filter does | `EncoderFilterContinues`, `EncoderFilterPauses`, `EncoderFilterRetries`, `EncoderFilterReplies` |
| its end, with the response written | `EncodingEnds` |
| the client leaves; `~ActiveMessage` | `DownstreamClose`, `DeferredDelete` |

The filters are the environment. They keep what `filters/filter.h` asks of them: one
`continueDecoding` for each `StopIteration`, and no call after `onDestroy`. Between the
deferral of a message and its deletion they may still call it. `filter.h:119` says nothing of
when a filter may call `sendLocalReply`, and the code does not ask: in the model any decoder
filter replies at any time until `onDestroy`, also more than once. A reply by the filter
whose turn it is, while it runs or while it waits, is a `"reply"` in `answers`. A reply by
another filter, or to a message that has been answered, is a `"late_reply"`: such a filter answers
a message that is no longer its own. Either sets `local_response_sent_` and does no more.
It does not end a pause, does not release the message and does not stop the router;
`continueDecoding` and the router's callbacks find the flag later. Only the router takes the
origin message, which is how `commonDecodePrefix` tells it from others: it resumes
*behind* the router and *with* any other filter, which is therefore called again.
`commonEncodePrefix` asks for the length of the request, which the router has taken by
then, and resumes behind the filter.

Left out: `end_stream` of `sendLocalReply`, which every caller passes as false;
`resetDownstreamConnection`, which is a `DownstreamClose`; other messages and what
the pool does, which the core has.

### Faults

Operators that a comment marks "Fault" (`DeferredMessage_NoGuard`, `OnPoolReady_EagerReset`,
...) are not part of the specification. Each is a plausible bug in the definition
that follows it, and shows that the property written next to it in `PROJECT.json`
would notice.

## What the runs check

| Run | Specification | Bounds | Result |
|---|---|---|---|
| `core_safety` | `Spec` | 3 messages, 2 frames a read, 1 heartbeat; 1.3 million states | messages, pool requests, connections, replies and stats stay consistent, and no request is sent after its reply |
| `core_promises` | `FairSpec` | 2 messages, 1 frame; 15 thousand states | implements `RequestLifecycle`; `PausedRequestsProceed`, `ResourcesDrain` and `RequestsAnswered` hold |
| `core_released` | `Spec` | 2 messages, 1 frame | violated: see findings |
| `core_oneway_halfclose` | `Spec` | 2 messages, 1 frame | violated: see findings |
| `decoder_stream` | `FairSpec` | 3 frames of up to 3 bytes; 0.3 million states | implements `FrameStream`; the decoder's assertions hold and no whole frame is left in the buffer |
| `thrift_stream` | `FairSpec` | 2 messages with 2 headers, values 2 deep in each other, containers up to 2 elements; 0.7 million states | the stack fits the state; what is decoded is a message of the grammar, whose phrases are closed under the productions of `ThriftGrammar`, and is forwarded as it came; `decode()` returns, and an error stays |
| `thrift_error_id` | `Spec` | all headers | violated: see findings |
| `dubbo_stream` | `Spec` | 2 messages, header of 2 bytes, bodies of up to 2, 5 bytes in the buffer; 0.9 million states | messages are decoded to their meaning, from their own first byte and without a needless wait; replies can be decoded |
| `dubbo_error_status` | `Spec` | the same | violated: see findings |
| `filter_chain` | `FairSpec` | every chain of up to 3 filters before the router, 3 pauses, late replies up to 3 answers; 100 thousand states | no filter is skipped by a request, or by a response that is the first answer, or called again for what it let pass; one answer, late replies aside; a reply ends a request that the pool does not have yet; each filter is destroyed once; pauses end |
| `filter_held_response` | `Spec` | the same | violated: see findings |
| `route_matcher` | `Spec` | every configuration of up to 2 routes, 2 names in 2 spellings, 2 values, 2 writes; 1.1 million states | a message has one route, the first that matches, and a cluster of positive weight; what is read is what it is routed by |

Some properties have two or three parts, each with a name of its own: `CallbacksOfLiving` of the
core (`CallbackSafety`, `EncodeHasConnection`), `StatsExact` (`RequestsCountedOnce`,
`DropsAreCounted`), `EachFilterInTurn` (`NoFilterSkipped`, `NoEncoderFilterSkipped`,
`SeenOnce`), `FinishedOnce` (`AnsweredOnce`, `CountedOnce`), `DecodesPromptly` (`DecodesMessages`,
`NoNeedlessWait`), `PlaceIsKept` (`StackDiscipline`, `OriginIsRead`) and
`RoutedByConfiguration` (`FirstRouteWins`, `OneRoute`).

Why the bounds are enough. Messages interact only through the list, the buffer
and the connection, and only two at a time: one that is waiting or being
answered, and one that is decoded while the first one's callback is on the stack.
Three messages add a bystander; two frames in a read put a good, a bad or a
heartbeat frame behind another. `MaxMessages` and `MaxHeartbeats` end a behaviour
that the code would continue, so the runs do not check deadlock: a connection that
has carried all its requests and is closed rightly stops.

For Thrift, a value at depth two with a neighbour before or behind it exercises each
way a handler is left and entered again: container in field, container in container,
as a map's key and as its value, empty and with more than one element. What holds at
greater depth is what the proofs are for. `MaxTokens` does not cut a message short:
beyond it the peer ends what it has begun.

For Dubbo, five bytes hold a whole message and a part of the next, so a handler that
takes too much or too little meets bytes that are not its own; a body of two bytes can
be absent, cut or complete, and deserialized short of its end, up to it or beyond it.
Two messages show that the second one starts clean. The codec keeps nothing else between
messages. The Thrift and Dubbo runs end when `decoded` has reached its bound, hence no
deadlock check.

For the filter chain, three filters give each filter one before and one behind it, of
either kind, before the router. Three pauses let one filter pause, be called again and
pause once more, or each of three filters pause once. `MaxAnswers` only bounds late
replies: up to three answers, a late one can come before and behind each other kind, and
behind another late one. A message ends deleted, hence no deadlock check.

For the decoder, frames of one to three bytes let a read end at the end of a frame, one byte
before and one behind it, and carry two frames at once; a frame of three bytes
can be cut twice. Three frames put a good, a bad or a heartbeat frame before and behind each
other. A stream ends, hence no deadlock check.

For routing, two routes are one that matches and one that shadows it or not. A matcher asks for a
value, for presence or for absence, and a route has none, one or two of them. The weights have zeros
between, behind and throughout the others. Two writes are the first and the second of a
name, in one spelling or in two, and either can lie before or behind the question for the
route. A message that is routed is done, hence no deadlock check.

Fairness of `Decoder`. A callback that runs runs on (`WF` of `DecodeStep`), as in the core.
Nothing is assumed of the client: `FrameStream` promises progress only for frames that
have arrived.

Fairness of `FilterChain`. An iteration runs to its end; a filter that stopped it
continues, as `filter.h` asks ("if continued filter iteration is desired"); the pool
answers; the dispatcher deletes. `WF` is enough: a message is alone here, so each of
these stays enabled until it happens or another event takes its place.

Fairness of the core. A callback that runs runs on (`WF` of `CallbackStep`): the code
never blocks. The dispatcher clears its deferred list in each iteration of the
event loop; the deletion is disabled while a callback runs, hence `SF`. The pool
answers every request it holds, since its connect timeout bounds the wait; again
`SF`, because the event loop has to be idle. `UpstreamFairness` says that a server
finishes its response or closes. Nothing in the proxy justifies this last one (it has
no request timeout), so only `RequestsAnswered` uses it, and a server that is silent
for ever does leave its client without an answer.

### Findings

- `core_released`: `Router::filter_complete_` is initialised to false and never
  assigned. A two-way request that was answered because its upstream connection
  closed, or ended inside a response, is therefore not released
  (`router_impl.cc:358`): the message stays in `active_message_list_` and in the
  `request_active` gauge until the client disconnects. `ActiveIsWaiting` states what
  does hold: such a message has at least been answered.
- `core_oneway_halfclose`: `ConnectionManager::stopped_` is never set to true, so
  the special case for one-way requests in `onData` (`conn_manager.cc:33-44`), and
  the end of `continueDecoding`, cannot be reached. A one-way request that waits for
  a connection is dropped when the client half-closes. A two-way request whose
  client half-closes after sending it is dropped as well; the code intends that.
- `thrift_error_id`: `toMsgMetadata` copies only the method name, so the exception for
  a decoded request has sequence id 0 (`thrift_codec.cc:142`), which the comment
  reserves for errors before the name of the message is known.
- `dubbo_error_status`: `isValidResponseStatus` does not list `ServerError`, which
  `onError` writes for most errors (`dubbo_codec.cc:93`). A second proxy on the path
  rejects such a reply as a bad response. `RepliesDecode` says what holds of all others.
- `filter_held_response`: when an encoder filter stops the iteration of a response, or
  asks for a retry, the response decoder still reports `Complete`
  (`active_message.cc:43`); the message is released, the router cleans up, and
  `continueEncoding()` has nothing to write the response with.

### Observations

These contradict no run's claim; the models show them, or leave them out where it is said.

- A one-way request that cannot be routed is answered (`router_impl.cc:32`), unlike one whose
  connection fails (`router_impl.cc:310`). `DecodeUnroutable` has the reply.
- `filter.h:109` promises the filter that calls `continueDecoding()` that "the connection manager
  will callbacks to the next filter in the chain". The code calls the same filter once more,
  with the same message (`active_message.cc:133`), unless it has taken the origin message,
  which only the router does. So a filter that always answers `StopIteration` never gets a
  message through, and one that counts calls counts such a request twice. `ContinueDecoding`
  does what the code does. `SeenOnce` is not that promise; it says what holds instead: a filter
  that has let the message *pass* is not called again, wherever an iteration is resumed.
- A filter that has let a message pass may still reply. The reply does not stop the router: if
  it waits for the pool, `onPoolReady` continues and sends the request
  (`router_impl.cc:281-282`), and `FinalizeRequest` releases the message then; if the request
  is on its way, the response of the server passes no encoder filter
  (`active_message.cc:336`) and is written behind the reply (`active_message.cc:51`). The
  client then has two answers to one request. No comment claims otherwise. `AnsweredOnce`
  leaves late replies aside, `NoEncoderFilterSkipped` speaks of the first answer, and
  `ReplyEndsRequest` says what a reply does stop and what it does not.
- A dual filter that replies while the response is encoded ends the iteration as if all had
  continued, and the response follows its reply; `AnsweredOnce` and `NoEncoderFilterSkipped` make
  this exception.
- A response whose request id does not match has been written to the client when
  `upstreamData` compares the ids (`active_message.cc:386`), so the client gets it and then an
  error; `AtMostOneReply` makes this exception.
- `putString` for a key that exists replaces the header and keeps the property
  (`codec_impl.h:45`): from then on the request is routed by one value and `getString` returns another.
  `ReadAsRouted` makes this exception.
- A route whose clusters all have weight zero divides by zero (`route_matcher.cc:42`).
  `MatchNoWeight` has it as the end of the process, and `WeightsRespected` says that nothing
  else leads there.
- On a Retry `decoder_->reset()` destroys the state machine whose `run()` is on the stack
  (`active_message.cc:98`), which is undefined. `FilterChain` has the retry's visible
  effect; the decoder's part is left out.

## What is proved

`MetaProtocolProxy_proofs` proves, for every value of `MaxMessages`, `MaxFrames` and
`MaxHeartbeats` that satisfies `BoundsAssumption`:

| Theorem | Statement |
|---|---|
| `InductiveInvariant` | `Spec => []IInv` |
| `TypeCorrect` | `Spec => []TypeOK` |
| `OwnershipCorrect` | `Spec => []Ownership` |
| `PoolAgreementCorrect` | `Spec => []PoolAgreement` |
| `CallbackSafetyCorrect` | `Spec => []CallbackSafety` |
| `EncodeHasConnectionCorrect` | `Spec => []EncodeHasConnection` |
| `CallbacksOfLivingCorrect` | `Spec => []CallbacksOfLiving`, the two together |
| `NoOrphansCorrect` | `Spec => []NoOrphans` |

The argument. None of these is inductive alone. `IInv` joins them, with three
facts about the control state:

- `ControlOK`: a running `dispatch()` has a frame, and a pool callback that runs is
  about a message that exists.
- `BufferOK`: what `dispatch()` leaves in the buffer is nothing, or a bad frame of a
  connection it has closed. So a pool callback that re-enters `dispatch()` after a
  close decodes no request, and `NoOrphans` is kept.
- `GaugeExact`: `request_active` counts the messages in the list and the deferred
  ones. So the gauge does not go below zero in `DeferredDelete`, and `TypeOK` is kept.

`Ownership` shows that a message being decoded is new; with `CallbackSafety` it
follows that no pool request and no connection belong to it yet, which
`PoolAgreement` needs. `CallbackSafety` in turn needs `PoolAgreement` in
`DeferredDelete`: onDestroy looks at the Router's own state, and only the agreement
makes this reach the pool's. `EncodeHasConnection` needs `CallbackSafety` when the
callback starts and `ControlOK` while it runs, as the messages decoded meanwhile are
others.

`NextMovesOnly` sorts the steps: all but a new request and a deletion only move
messages from the list to the deferred ones. Ownership, gauge and list are then
proved for three kinds of steps instead of twenty.

`RequestLifecycle_proofs` proves, for the same values:

| Theorem | Statement |
|---|---|
| `LifeInvariant` | `Spec => []LifeInv` |
| `NoFrameLeftBehindCorrect` | `Spec => []NoFrameLeftBehind` |
| `ActiveIsWaitingCorrect` | `Spec => []ActiveIsWaiting` |
| `AtMostOneReplyCorrect` | `Spec => []AtMostOneReply` |
| `CleanReuseCorrect` | `Spec => []CleanReuse` |
| `StatsExactCorrect` | `Spec => []StatsExact` |
| `NoSendAfterReplyCorrect` | `Spec => NoSendAfterReply` |
| `KeepsLifecycleCorrect` | `Spec => KeepsLifecycle`: the core implements `RequestLifecycle` |

The argument. `LifeInv` is `IInv` with what is true of each message (`LifeOf`) and of the
counters. A message may be answered while the pool owes it an answer or a server may
still send one; `PoolOwesAnswer` and `ServerOwesAnswer` say that until then nobody
has answered, from which `RepliesBounded`. `PoolOwesAnswer` also says that nothing was
sent; `EncodesOnce` carries this over the messages that are decoded between `onPoolReady`'s
beginning and its `encodeData`. `Waits` is `ActiveIsWaiting` without the condition that no callback
runs. `NotDropped` says that on an open connection an unanswered request is in the list. So the set
that `DropsAreCounted` measures is empty as long as the connection is open; the
step that closes it resets the list and counts what was in it, and afterwards nothing enters.
`HeartbeatsExact` weighs answered heartbeats against those in the buffer, by a lemma about the
first frame of a sequence (`CountFramesTail`).

There is one lemma for each kind of step, each about the message of the step;
`OthersUntouched` and `LifeUntouched` do the others once. The refinement compares
phases: `PhaseKept` says which variables a phase depends on, and `LifeInv` that a message
which is answered was in flight, and that one which leaves the list was answered,
one-way, or goes with the connection.

`Decoder_proofs` proves, for every number and size of frames that satisfies
`DecoderAssumption`, that is for every stream and every way to cut it:

| Theorem | Statement |
|---|---|
| `DecoderInvariant` | `Spec => []DecoderInv` |
| `DecoderTypeCorrect` | `Spec => []TypeOK` |
| `DecoderAsserts` | `Spec => []AssertsHold` |
| `DecoderHoldsNothingBack` | `Spec => []NothingHeldBack` |
| `DecoderRefines` | `Spec => Promise!Safety`: the safety part of `FrameStream` |

The argument. `Inside` says that the codec has taken all frames before the one it
reads, and no more than that one; it holds until an error is taken. `Delivered` says that
as many frames were handed over as lie before it, less the one that is on its way through
`onStreamDecoded`; so the frame handed over next is the next of the stream. `MachineInv` relates `decode_started_`, the machine and its state to `pc`; it is
what makes the assertions hold in a call that follows an exception. `NothingHeldBack` is kept
because `dispatch()` ends only with an empty buffer or with a codec that waits, and a codec waits
only inside a frame that is not whole.

`RouteMatcher_proofs` proves, for every set of names, spellings, values and
configurations that satisfies `RouteAssumption`:

| Theorem | Statement |
|---|---|
| `RouteInvariant` | `Spec => []RouteInv` |
| `RouteTypeCorrect` | `Spec => []TypeOK` |
| `FirstRouteWinsCorrect` | `Spec => []FirstRouteWins` |
| `OneRouteCorrect` | `Spec => []OneRoute` |
| `RoutedByConfigurationCorrect` | `Spec => []RoutedByConfiguration` |
| `ReadsWhatRoutes` | `Spec => []ReadAsRouted` |
| `WeightsAreShares` | for a list of weights with a positive sum: of the random values of one round, each cluster gets exactly as many as its weight |
| `WeightsRespectedCorrect` | `Spec => []WeightsRespected` |

The argument. `Searching` says that no route before `at` matches the headers that were asked
about, and that these do not change while the search runs. `Cached` says that all answers
are the cached one, and that it was good when it was given.

The weights are about a sum over a list of any length. The provers cannot instantiate the
library's induction theorems, which are about predicates. So the numbers up to which a
statement holds are a *set*, and the least number missing from it refutes itself: that the
numbers are well founded is a fact of the library without a predicate in it
(`LeastNumber`, `InductionUpTo`). From this `UpTo`, the running sum, is a function
(`SumsExist`) and never falls (`UpToGrows`), so the clusters' intervals cover a round and do
not overlap (`PickClusterDef`). `WeightInv` adds to `WeightsRespected` that the cached route is
one that was given, as `AskCached` gives it again.

`ThriftCodec_proofs` proves, for every set of headers and types and every bound that
satisfies `ThriftAssumption`:

| Theorem | Statement |
|---|---|
| `ThriftInvariant` | `Spec => []IInv` |
| `ThriftTypeCorrect` | `Spec => []TypeOK` |
| `StackDisciplineCorrect` | `Spec => []StackDiscipline` |
| `OriginIsReadCorrect` | `Spec => []OriginIsRead` |
| `PlaceIsKeptCorrect` | `Spec => []PlaceIsKept`, the two together |
| `ErrorSticksCorrect` | `Spec => [][result = "BadMessage" => result' = "BadMessage"]_vars` |

The argument. `TypeOK` needs `StackDiscipline`, since an element is counted only where
the frame on top has one left. `StackDiscipline` has two parts: `Nested` relates each
frame to the one below it, `Matches` the state to the top. A handler pushes, pops or
changes only the top, so `Nested` of what lies below is kept, and popping a frame
that returns to a state leaves on top what that state expects: that is `Nested` of
the popped frame. Lemmas about the four ways in which the stack changes carry this, and
each handler cites one. `MachineOK` adds that the state machine exists exactly while a
frame is started, and that after an error the value of an unknown type is still next.

`ThriftGrammar_proofs` proves, from the same assumption and with no bound on the depth of
values or the size of containers:

| Theorem | Statement |
|---|---|
| `GrammarInvariant` | `Spec => []GrammarInv` |
| `DecodesTheGrammarCorrect` | `Spec => DecodesTheGrammar`: what `decode()` takes for a message is one message of the grammar, with the metadata of its header |

The argument. The least set of phrases that is closed under the productions is what the
grammar derives. Instead of building it, by induction, `InGrammar` asks that *every* closed
set has the message's struct, and the proof takes an arbitrary one. For it, `Parsed` gives
each frame of the stack a phrase that has been begun: where it begins and of which type
its value is. `Link` relates the phrase of a frame to that of the frame on it, `OnTop` the
phrase on top to the state: in `ListValue`, say, the elements between the list's first token
and here are as many as the frame no longer has remaining. Then each handler is one production:
it makes a phrase of the closed set into a larger one, which is what the next state's `OnTop`
asks for, and a value that ends is what the frame below has been waiting for (`Awaits`). So no
induction over the message is needed; the behaviour's own steps are the induction. Tokens
are only appended, so a set that is closed for the tokens read now is closed for those read
before (`ClosedForPrefix`). `HeaderIsRead` and `EndIsRead` are the frame around the struct.

That closed sets have no more in them than the grammar derives is what TLC shows:
`DecodesMessages` of `thrift_stream` computes the phrases that a recursive descent finds in
each decoded message, and they are closed.

What `Decoder` assumes of a codec is with this proved of the two codecs as far as they decide
it: `Aligned`, `DecodesPromptly` and `ErrorSticks` of Dubbo; `DecodesTheGrammar`,
`OriginIsRead` and `ErrorSticks` of Thrift, where Envoy's protocol decides whether a token's bytes
are all there.

`DubboCodec_proofs` proves, for every header size, body limit and set of messages that
satisfies `DubboAssumption`:

| Theorem | Statement |
|---|---|
| `DubboInvariant` | `Spec => []IInv` |
| `DubboTypeCorrect` | `Spec => []TypeOK` |
| `AlignedCorrect` | `Spec => []Aligned` |
| `DecodesMessagesCorrect` | `Spec => DecodesMessages` |
| `NoNeedlessWaitCorrect` | `Spec => NoNeedlessWait` |
| `DecodesPromptlyCorrect` | `Spec => DecodesPromptly`, the two together |
| `ErrorSticksCorrect` | `Spec => ErrorSticks` |
| `RepliesDecodeCorrect` | `Spec => RepliesDecode` |

The argument. `IInv` is `TypeOK`, `Aligned` and `MachineOK`. `MachineOK` remembers what
the handler of a body needs: the header that was taken was good and is the header of the
message still at the front, so that body size and type belong together. It also
remembers that after an error the bytes which caused it are still there, which is
`ErrorSticks`. `Finish` is the one step that takes a message away; lemmas show that it
leaves the machine where `Init` put it, and that what it hands out is `Meaning` of the
message, by kinds of messages. The replies are decoded by the same lemmas.

`FilterChain_proofs` proves, for every set of configurations, of any length, and every
bound that satisfies `ChainAssumption`:

| Theorem | Statement |
|---|---|
| `FilterChainInvariant` | `Spec => []IInv` |
| `TypeCorrect` | `Spec => []TypeOK` |
| `NoFilterSkippedCorrect` | `Spec => []NoFilterSkipped` |
| `NoEncoderFilterSkippedCorrect` | `Spec => []NoEncoderFilterSkipped` |
| `CanContinueCorrect` | `Spec => []CanContinue` |
| `AnsweredOnceCorrect` | `Spec => []AnsweredOnce` |
| `DestroyedOnceCorrect` | `Spec => []DestroyedOnce` |
| `CountedOnceCorrect` | `Spec => []CountedOnce` |
| `SeenOnceCorrect` | `Spec => []SeenOnce` |
| `EachFilterInTurnCorrect`, `FinishedOnceCorrect` | the properties that join them |
| `ReplyEndsRequestCorrect` | `Spec => ReplyEndsRequest` |

The argument. None of these says how far the iteration is, and that is what each of them
needs. `DecodingProgress` says it: the filters that have let the message pass are exactly
those of the list that are before the current one, or before the one that waits, and
until the end nothing was sent or counted. `EncodingProgress` is its twin for
the response. `FromFacts` says what `std::next` does, that no filter of the list lies
between a filter and the next one, from which the two facts are kept. When the router is
called, every filter before it has then passed the message (`NoFilterSkipped`); a filter
is called only before it has passed it (`SeenOnce`); and since a filter that replies ends
the iteration, the router is called only when there was no reply, early or late
(`ReplyEndsRequest`; its second part, about a request that waits, rests on `CanContinue`: what waits
is pending, so `FinalizeRequest` runs and releases it). `AnswersSoFar` says which answers there
can be: none before `local_response_sent_`, until a response is written; late ones only, while the
router has the request; and, when a response is to be written, either every encoder
filter has passed it or something was written before it. `WrittenAnswers` says once what
writing an answer does to these. `CallbacksOfLiving` keeps iterations and deletion apart, which
`DestroyedOnce` needs. There is one lemma for each action, with a step for each part of
the invariant that the action can disturb.

Only model-checked:

- that the productions of `ThriftGrammar` and a recursive descent mean the same by a message
  (the part of `DecodesMessages` of `MCThriftCodec` that is about its recursive operators, of
  which the prover cannot reason);
- liveness under fairness, which is out of reach of the prover: `PausedRequestsProceed`,
  `ResourcesDrain`, `RequestsAnswered`, `DecodeReturns`, `PausesEnd`, and the liveness part
  of `FrameStream`.

## Not modelled

- Configuration, factories and registration: they run once and keep no state. The chain they
  build by default is the core's, and any other is `FilterChain`'s.
- API and build files, tracing headers, logging, and the wording of replies.
- `HeartbeatResponse` and the encoding of other local replies are one call of the codec; that
  and when they are sent is in the core, and what Dubbo writes in `DubboCodec`.
- Mutations of a message, which no code reads.
- Envoy itself: connection pools, sockets, header matchers, Thrift protocols and transports
  appear by what the code relies on. So does the Hessian2 library.
- Two paths that leave no state to speak of: a heartbeat from an upstream server ends the process
  (`active_message.h:46`), and a pool that overflows hands over no host, which is dereferenced
  if debug logging is on (`router_impl.cc:304`).
