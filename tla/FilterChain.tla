---------------------------- MODULE FilterChain ----------------------------
(***************************************************************************)
(* FilterChain: one message on its way through the configured filters, its *)
(* request to the router and its response back, with the pauses, replies   *)
(* and resets that a filter may ask for (ActiveMessage, its filter         *)
(* wrappers and ActiveResponseDecoder).                                    *)
(*                                                                         *)
(* The filters are code of others.  Of them the model assumes what         *)
(* filters/filter.h asks of them: a filter calls continueDecoding or       *)
(* continueEncoding once at most for each StopIteration, and it calls      *)
(* nothing after onDestroy.  Until then it may reply, reset the stream or  *)
(* the connection whenever it likes: in its turn, while it or another      *)
(* filter waits, or long after it has let the message pass.  Only the      *)
(* router takes the origin message.  The router ends the chain.            *)
(*                                                                         *)
(* Left out: end_stream of sendLocalReply, which is false in every call;   *)
(* what the router does in detail and the other messages, which            *)
(* MetaProtocolProxy has.                                                  *)
(***************************************************************************)
EXTENDS Integers, Sequences, FiniteSetsExt

CONSTANTS
    Chains,     \* configurations: the kinds of the filters before the router
    MaxPauses,  \* bound: StopIterations of filters before the router, both ways
    MaxAnswers  \* bound: no late replies to a message that has as many answers

Kinds == {"decoder", "encoder", "dual"}

ASSUME ChainAssumption ==
    /\ Chains \subseteq Seq(Kinds)
    /\ MaxPauses \in Nat /\ MaxAnswers \in Nat

VARIABLES
    chain, one_way,     \* the configuration and the message; they do not change
    connection,         \* "Open" or "Closed": the client's
    life,               \* "new", "active" (in the list), "deferred" or "deleted"
    \* --- ActiveMessage
    filter_action, encoder_filter_action,   \* TRUE: not null
    pending_stream_decoded,
    local_response_sent,
    request,            \* what this message has added to the counter request_
    \* --- the call stack: who runs applyDecoderFilters or applyEncoderFilters, and where
    pc, entry,
    \* --- the filters
    paused,             \* the decoder filter that waits to continue, or 0
    encoder_paused,     \* the encoder filter that does, or 0
    pauses,
    upstream,           \* upstream_request_: "null", "waiting", "connected" or "spent"
    destroyed,          \* how often each filter was told onDestroy
    \* --- history
    passed, encoded,    \* filters that let the request and the response pass
    answers             \* what was written to the client; a "late_reply" is a filter's
                        \* whose turn it is not, or to a message that was answered

config == <<chain, one_way>>
message == <<filter_action, encoder_filter_action, pending_stream_decoded, request>>
filters == <<paused, encoder_paused, pauses, upstream, destroyed>>
history == <<passed, encoded, answers>>
vars == <<config, connection, life, message, local_response_sent, pc, entry, filters, history>>

----------------------------------------------------------------------------
(* The chain: filters are named by their position in the configuration.    *)

Router == Len(chain) + 1
End == Router + 1

\* addDecoderFilter, addEncoderFilter and addFilter; the router is a dual filter.
decoder_filters == {i \in 1..Router : i = Router \/ chain[i] # "encoder"}
encoder_filters == {i \in 1..Router : i = Router \/ chain[i] # "decoder"}

\* Fault: the iteration visits every filter, whatever list it is in.
From_AllFilters(S, i) == Min({i, End})

\* begin() and std::next() of a list of filters.
From(S, i) == Min({j \in S : j >= i} \cup {End})

\* Fault: the iteration is taken for the first one, and begins again.
commonDecodePrefix_BeginsAgain(i) == IF i = Router THEN End ELSE From(decoder_filters, 1)

\* continueDecoding with commonDecodePrefix: only the router has taken the origin
\* message when it continues; any other filter is called again.
commonDecodePrefix(i) ==
    IF i = Router THEN End ELSE From(decoder_filters, i)

\* Fault: applyDecoderFilters does not ask for local_response_sent_.
Resume_NoGuard(i, sent) == commonDecodePrefix(i)

\* Where applyDecoderFilters resumes.
Resume(i, sent) == IF sent THEN End ELSE commonDecodePrefix(i)

encoderBegin == From(encoder_filters, 1)

\* continueEncoding asks for the length of the request, which the router has taken.
commonEncodePrefix(i) == From(encoder_filters, i + 1)

Init ==
    /\ chain \in Chains /\ one_way \in BOOLEAN
    /\ connection = "Open" /\ life = "new"
    /\ filter_action = FALSE /\ encoder_filter_action = FALSE
    /\ pending_stream_decoded = FALSE /\ local_response_sent = FALSE
    /\ request = 0
    /\ pc = "idle" /\ entry = End
    /\ paused = 0 /\ encoder_paused = 0 /\ pauses = 0
    /\ upstream = "null"
    /\ destroyed = [i \in 1..Router |-> 0]
    /\ passed = {} /\ encoded = {} /\ answers = <<>>

----------------------------------------------------------------------------
(* What the message does for its filters.                                  *)

\* deferredMessage
Defer(l) == IF l = "active" THEN "deferred" ELSE l

\* What is written, if the connection is open.
Write(what) == answers' = IF connection = "Open" THEN Append(answers, what) ELSE answers

\* Fault: the request stays pending.
FinalizeRequest_StaysPending(sent) ==
    /\ request' = request + 1
    /\ life' = IF sent \/ one_way THEN Defer(life) ELSE life
    /\ UNCHANGED pending_stream_decoded

FinalizeRequest(sent) ==
    /\ pending_stream_decoded' = FALSE
    /\ request' = request + 1
    /\ life' = IF sent \/ one_way THEN Defer(life) ELSE life

\* The iteration has returned Continue: what onStreamDecoded or continueDecoding does then.
Continued(sent) ==
    /\ filter_action' = FALSE
    /\ IF pc = "onStreamDecoded" \/ pending_stream_decoded
       THEN FinalizeRequest(sent)
       ELSE UNCHANGED <<pending_stream_decoded, request, life>>

----------------------------------------------------------------------------
(* applyDecoderFilters.                                                    *)

Decoding == pc \in {"onStreamDecoded", "continueDecoding"}
Encoding == pc \in {"upstreamData", "continueEncoding"}

\* newStream and onStreamDecoded up to the first filter.
OnStreamDecoded ==
    /\ life = "new" /\ connection = "Open"
    /\ life' = "active"
    /\ filter_action' = TRUE
    /\ pc' = "onStreamDecoded" /\ entry' = From(decoder_filters, 1)
    /\ UNCHANGED <<config, connection, encoder_filter_action, pending_stream_decoded,
                   request, local_response_sent, filters, history>>

\* A filter returns Continue.
DecoderFilterContinues ==
    /\ Decoding /\ entry < Router
    /\ entry' = From(decoder_filters, entry + 1)
    /\ passed' = passed \cup {entry}
    /\ UNCHANGED <<config, connection, life, message, local_response_sent, pc, filters,
                   encoded, answers>>

\* Fault: onStreamDecoded returns without a mark.
StopDecoding_NotPending ==
    /\ pc' = "idle" /\ entry' = End
    /\ UNCHANGED <<filter_action, encoder_filter_action, pending_stream_decoded, request>>

\* The iteration returns StopIteration, to onStreamDecoded or to continueDecoding.
StopDecoding ==
    /\ pc' = "idle" /\ entry' = End
    /\ pending_stream_decoded' = (pending_stream_decoded \/ pc = "onStreamDecoded")
    /\ UNCHANGED <<filter_action, encoder_filter_action, request>>

\* A filter returns StopIteration and will continue.
DecoderFilterPauses ==
    /\ Decoding /\ entry < Router /\ pauses < MaxPauses
    /\ StopDecoding
    /\ paused' = entry /\ pauses' = pauses + 1
    /\ UNCHANGED <<config, connection, life, local_response_sent, encoder_paused, upstream,
                   destroyed, history>>

\* A filter calls resetStream and returns StopIteration, for good.
DecoderFilterResets ==
    /\ Decoding /\ entry < Router
    /\ StopDecoding
    /\ life' = Defer(life)
    /\ UNCHANGED <<config, connection, local_response_sent, filters, history>>

\* Fault: what the filter returned decides, not that it has replied.
DecoderFilterReplies_NoBreak ==
    /\ Decoding /\ entry < Router
    /\ Write("reply")
    /\ local_response_sent' = TRUE
    /\ entry' = From(decoder_filters, entry + 1)
    /\ UNCHANGED <<config, connection, life, message, pc, filters, passed, encoded>>

\* A filter replies; the iteration ends, whatever it returns.
DecoderFilterReplies ==
    /\ Decoding /\ entry < Router
    /\ Write("reply")
    /\ local_response_sent' = TRUE
    /\ entry' = End
    /\ UNCHANGED <<config, connection, life, message, pc, filters, passed, encoded>>

\* Router::onMessageDecoded finds no route, cluster or host, or the pool is full.
RouterReplies ==
    /\ Decoding /\ entry = Router
    /\ \/ /\ Write("reply") /\ local_response_sent' = TRUE
          /\ UNCHANGED upstream
       \/ /\ ~one_way
          /\ Write("reply") /\ local_response_sent' = TRUE
          /\ upstream' = "spent"
    /\ entry' = End
    /\ UNCHANGED <<config, connection, life, message, pc, paused, encoder_paused, pauses,
                   destroyed, passed, encoded>>

\* The pool is full and the request is one-way: resetStream, and the router returns Continue.
RouterResets ==
    /\ Decoding /\ entry = Router /\ one_way
    /\ life' = Defer(life)
    /\ upstream' = "spent"
    /\ entry' = End
    /\ UNCHANGED <<config, connection, message, local_response_sent, pc, paused,
                   encoder_paused, pauses, destroyed, history>>

RouterSends ==
    /\ Decoding /\ entry = Router
    /\ upstream' = "connected"
    /\ entry' = End
    /\ passed' = passed \cup {Router}
    /\ UNCHANGED <<config, connection, life, message, local_response_sent, pc, paused,
                   encoder_paused, pauses, destroyed, encoded, answers>>

RouterPauses ==
    /\ Decoding /\ entry = Router
    /\ StopDecoding
    /\ upstream' = "waiting" /\ paused' = Router
    /\ UNCHANGED <<config, connection, life, local_response_sent, encoder_paused, pauses,
                   destroyed, history>>

DecodingEnds ==
    /\ Decoding /\ entry = End
    /\ Continued(local_response_sent)
    /\ pc' = "idle"
    /\ UNCHANGED <<config, connection, encoder_filter_action, local_response_sent, entry,
                   filters, history>>

----------------------------------------------------------------------------
(* Events between callbacks.                                               *)

Idle == pc = "idle" /\ life \in {"active", "deferred"}

\* A filter calls continueDecoding.  Until it is deleted, a message may be released.
ContinueDecoding ==
    /\ Idle /\ paused \in 1..(Router - 1)
    /\ pc' = "continueDecoding"
    /\ entry' = Resume(paused, local_response_sent)
    /\ paused' = 0
    /\ UNCHANGED <<config, connection, life, message, local_response_sent, encoder_paused,
                   pauses, upstream, destroyed, history>>

\* A decoder filter calls sendLocalReply between its callbacks, from a timer, say: the one
\* that waits, in its turn; or any other, or once more, late.  The reply neither ends a
\* pause nor releases the message.
SendLocalReply ==
    /\ Idle /\ decoder_filters # {Router}
    /\ \/ /\ paused \in 1..(Router - 1) /\ ~local_response_sent
          /\ Write("reply")
       \/ Len(answers) < MaxAnswers /\ Write("late_reply")
    /\ local_response_sent' = TRUE
    /\ UNCHANGED <<config, connection, life, message, pc, entry, filters, passed, encoded>>

\* A filter other than the router is on the stack, and may do more than return.
InFilter == (Decoding \/ Encoding) /\ entry < Router

\* A filter calls resetStream, in its turn or when a timer fires.
ResetStream ==
    /\ life = "active" /\ Router # 1
    /\ Idle \/ InFilter
    /\ life' = Defer(life)
    /\ UNCHANGED <<config, connection, message, local_response_sent, pc, entry, filters,
                   history>>

\* The router's pool callbacks, each of which ends the iteration.  (A one-way request
\* whose connection fails is reset by the router, and again by FinalizeRequest.)
OnPoolReady ==
    /\ Idle /\ upstream = "waiting"
    /\ upstream' = "connected"
    /\ Continued(local_response_sent)
    /\ paused' = 0
    /\ passed' = passed \cup {Router}
    /\ UNCHANGED <<config, connection, encoder_filter_action, local_response_sent, pc, entry,
                   encoder_paused, pauses, destroyed, encoded, answers>>

OnPoolFailure ==
    /\ Idle /\ upstream = "waiting"
    /\ upstream' = "spent"
    /\ local_response_sent' = (local_response_sent \/ ~one_way)
    /\ IF one_way THEN UNCHANGED answers ELSE Write("reply")
    /\ Continued(local_response_sent')
    /\ paused' = 0
    /\ UNCHANGED <<config, connection, encoder_filter_action, pc, entry, encoder_paused,
                   pauses, destroyed, passed, encoded>>

\* The upstream connection closes.  The router answers; it resets only one-way requests.
OnUpstreamClose ==
    /\ Idle /\ upstream = "connected"
    /\ upstream' = "spent"
    /\ IF one_way
       THEN /\ life' = Defer(life)
            /\ UNCHANGED <<answers, local_response_sent>>
       ELSE /\ Write("reply")
            /\ local_response_sent' = TRUE
            /\ UNCHANGED life
    /\ UNCHANGED <<config, connection, message, pc, entry, paused, encoder_paused, pauses,
                   destroyed, passed, encoded>>

\* The client leaves, or a filter calls resetDownstreamConnection.
DownstreamClose ==
    /\ connection = "Open" /\ life # "new"
    /\ pc = "idle" \/ (InFilter /\ entry \in decoder_filters)
    /\ connection' = "Closed"
    /\ life' = Defer(life)
    /\ UNCHANGED <<config, message, local_response_sent, pc, entry, filters, history>>

\* Fault: a dual filter is in both lists.
DeferredDelete_DualTwice ==
    /\ Idle /\ life = "deferred"
    /\ life' = "deleted"
    /\ destroyed' = [i \in 1..Router |->
                       destroyed[i] + (IF i \in decoder_filters THEN 1 ELSE 0)
                                    + (IF i \in encoder_filters THEN 1 ELSE 0)]
    /\ upstream' = IF upstream = "null" THEN "null" ELSE "spent"
    /\ paused' = 0 /\ encoder_paused' = 0
    /\ UNCHANGED <<config, connection, message, local_response_sent, pc, entry, pauses, history>>

\* ~ActiveMessage.  The filters cancel what they wait for; so does the router.
DeferredDelete ==
    /\ Idle /\ life = "deferred"
    /\ life' = "deleted"
    /\ destroyed' = [i \in 1..Router |->
                       destroyed[i] + (IF i \in decoder_filters THEN 1 ELSE 0)
                                    + (IF i \in encoder_filters \ decoder_filters THEN 1 ELSE 0)]
    /\ upstream' = IF upstream = "null" THEN "null" ELSE "spent"
    /\ paused' = 0 /\ encoder_paused' = 0
    /\ UNCHANGED <<config, connection, message, local_response_sent, pc, entry, pauses, history>>

----------------------------------------------------------------------------
(* applyEncoderFilters.                                                    *)

\* A response is complete: ActiveResponseDecoder::onStreamDecoded up to the first filter.
OnUpstreamData ==
    /\ Idle /\ upstream = "connected" /\ ~one_way
    /\ encoder_filter_action' = TRUE
    /\ pc' = "upstreamData"
    /\ entry' = IF local_response_sent THEN End ELSE encoderBegin
    /\ UNCHANGED <<config, connection, life, filter_action, pending_stream_decoded, request,
                   local_response_sent, filters, history>>

EncoderFilterContinues ==
    /\ Encoding /\ entry < End
    /\ entry' = From(encoder_filters, entry + 1)
    /\ encoded' = encoded \cup {entry}
    /\ UNCHANGED <<config, connection, life, message, local_response_sent, pc, filters,
                   passed, answers>>

\* The iteration returns StopIteration or Retry; the status becomes Complete in either
\* case, so upstreamData releases the message and the router cleans up.
StopEncoding ==
    /\ pc' = "idle" /\ entry' = End
    /\ IF pc = "upstreamData"
       THEN life' = Defer(life) /\ upstream' = "spent"
       ELSE UNCHANGED <<life, upstream>>

EncoderFilterPauses ==
    /\ Encoding /\ entry < Router /\ pauses < MaxPauses
    /\ StopEncoding
    /\ encoder_paused' = entry /\ pauses' = pauses + 1
    /\ UNCHANGED <<config, connection, message, local_response_sent, paused, destroyed, history>>

EncoderFilterRetries ==
    /\ Encoding /\ entry < Router
    /\ StopEncoding
    /\ UNCHANGED <<config, connection, message, local_response_sent, paused, encoder_paused,
                   pauses, destroyed, history>>

\* A dual filter has the callbacks of a decoder filter and may reply here, too.
EncoderFilterReplies ==
    /\ Encoding /\ entry < Router /\ chain[entry] = "dual"
    /\ Write("encoder_reply")
    /\ local_response_sent' = TRUE
    /\ entry' = End
    /\ UNCHANGED <<config, connection, life, message, pc, filters, passed, encoded>>

\* The iteration returns Continue: the response is written, unless continueEncoding has
\* run it.
EncodingEnds ==
    /\ Encoding /\ entry = End
    /\ encoder_filter_action' = FALSE
    /\ pc' = "idle"
    /\ IF pc = "upstreamData"
       THEN Write("response") /\ life' = Defer(life) /\ upstream' = "spent"
       ELSE UNCHANGED <<answers, life, upstream>>
    /\ UNCHANGED <<config, connection, filter_action, pending_stream_decoded, request,
                   local_response_sent, entry, paused, encoder_paused, pauses, destroyed,
                   passed, encoded>>

ContinueEncoding ==
    /\ Idle /\ encoder_paused # 0
    /\ pc' = "continueEncoding"
    /\ entry' = IF local_response_sent THEN End ELSE commonEncodePrefix(encoder_paused)
    /\ encoded' = encoded \cup {encoder_paused}
    /\ encoder_paused' = 0
    /\ UNCHANGED <<config, connection, life, message, local_response_sent, paused, pauses,
                   upstream, destroyed, passed, answers>>

DecodingStep ==
    \/ DecoderFilterContinues \/ DecoderFilterPauses \/ DecoderFilterResets
    \/ DecoderFilterReplies
    \/ RouterReplies \/ RouterResets \/ RouterSends \/ RouterPauses
    \/ DecodingEnds

EncodingStep ==
    \/ EncoderFilterContinues \/ EncoderFilterPauses \/ EncoderFilterRetries
    \/ EncoderFilterReplies
    \/ EncodingEnds

Next ==
    \/ OnStreamDecoded \/ DecodingStep
    \/ ContinueDecoding \/ SendLocalReply \/ ResetStream
    \/ OnPoolReady \/ OnPoolFailure \/ OnUpstreamClose
    \/ OnUpstreamData \/ EncodingStep \/ ContinueEncoding
    \/ DownstreamClose \/ DeferredDelete

Spec == Init /\ [][Next]_vars

\* A callback runs to its end; a filter continues for each StopIteration, as filter.h asks;
\* the pool answers; the dispatcher deletes what was deferred.
Fairness ==
    /\ WF_vars(DecodingStep \/ EncodingStep)
    /\ WF_vars(ContinueDecoding)
    /\ WF_vars(OnPoolReady \/ OnPoolFailure)
    /\ WF_vars(DeferredDelete)

FairSpec == Spec /\ Fairness

----------------------------------------------------------------------------
(* Properties.                                                             *)

\* Every variable has its type.
TypeOK ==
    /\ chain \in Chains /\ one_way \in BOOLEAN
    /\ connection \in {"Open", "Closed"}
    /\ life \in {"new", "active", "deferred", "deleted"}
    /\ filter_action \in BOOLEAN /\ encoder_filter_action \in BOOLEAN
    /\ pending_stream_decoded \in BOOLEAN /\ local_response_sent \in BOOLEAN
    /\ request \in Nat
    /\ pc \in {"idle", "onStreamDecoded", "continueDecoding", "upstreamData", "continueEncoding"}
    /\ entry \in 1..End
    /\ paused \in {0} \cup decoder_filters
    /\ encoder_paused \in {0} \cup (encoder_filters \ {Router})
    /\ pauses \in Nat
    /\ upstream \in {"null", "waiting", "connected", "spent"}
    /\ destroyed \in [1..Router -> Nat]
    /\ passed \subseteq decoder_filters /\ encoded \subseteq encoder_filters
    /\ answers \in Seq({"reply", "late_reply", "encoder_reply", "response"})

\* A request reaches the router only when every decoder filter before it has let it pass,
\* however often it was paused: no filter that checks requests can be skipped.
NoFilterSkipped ==
    upstream # "null" => \A i \in decoder_filters \ {Router} : i \in passed

\* A response that the client gets for its answer has been passed by every encoder filter,
\* however often it was held.  (Behind a reply the code writes it past them.)
NoEncoderFilterSkipped ==
    answers # <<>> /\ answers[1] = "response" => encoder_filters \subseteq encoded

\* A paused filter can continue: the action that continueDecoding or continueEncoding
\* applies to the filters behind it is there (both assert it), and the request is pending.
CanContinue ==
    /\ paused # 0 => filter_action /\ pending_stream_decoded
    /\ encoder_paused # 0 => encoder_filter_action
    /\ paused = Router <=> upstream = "waiting"

\* Late replies aside, the client gets one answer at most: of a filter in its turn, the
\* router or the server.  Only a reply that a dual filter gives while the response is
\* encoded does not keep the response back.
AnsweredOnce ==
    \A j, k \in DOMAIN answers :
      j < k /\ answers[j] # "late_reply" /\ answers[k] # "late_reply" =>
        answers[j] = "encoder_reply" /\ answers[k] = "response"

\* A reply, from whatever filter and at whatever time, ends a request that the router has
\* not yet taken to the pool: it is never sent.  A request that waits for the pool then is
\* sent all the same, but its message is released as soon as it is.
ReplyEndsRequest ==
    [][local_response_sent =>
         /\ upstream \notin {"waiting", "connected"} => upstream' \notin {"waiting", "connected"}
         /\ upstream = "waiting" /\ upstream' = "connected" => life' = "deferred"]_vars

\* A filter that has let a message pass is not called with it again, wherever an iteration
\* is resumed.  (One that waits has not let it pass: continueDecoding calls it again.)
SeenOnce ==
    /\ Decoding /\ entry < End => entry \notin passed
    /\ Encoding /\ entry < End => entry \notin encoded

\* Request and response pass the filters of the chain in turn: none is left out, and none
\* that has let them pass is called again, wherever the iteration was interrupted.
EachFilterInTurn == NoFilterSkipped /\ NoEncoderFilterSkipped /\ SeenOnce

\* Each filter is told once that it is destroyed, in whatever lists it is, and then nothing
\* of the message is left with the pool, the upstream server or a filter.
DestroyedOnce ==
    /\ \A i \in 1..Router : destroyed[i] = IF life = "deleted" THEN 1 ELSE 0
    /\ life = "deleted" => paused = 0 /\ encoder_paused = 0 /\ upstream \in {"null", "spent"}

\* A message is counted once, and not before its filters are done with it: a message that
\* is counted and for which the router has no connection has been released.
CountedOnce ==
    /\ request <= 1
    /\ pending_stream_decoded => request = 0
    /\ request = 1 /\ Router \notin passed => life \in {"deferred", "deleted"}

\* A message comes to its end once, for the client, late replies aside, and for the stats.
FinishedOnce == AnsweredOnce /\ CountedOnce

\* How far the request is: the filters before the current or the paused one, and no
\* others, have let it pass; nothing has been sent or counted before the end.
DecodingProgress ==
    /\ life = "new" => /\ pc = "idle" /\ paused = 0 /\ passed = {} /\ upstream = "null"
                       /\ answers = <<>> /\ request = 0
                       /\ ~pending_stream_decoded /\ ~local_response_sent
    /\ Decoding => filter_action /\ paused = 0 /\ upstream # "waiting"
    /\ Decoding /\ entry # End =>
         /\ entry \in decoder_filters
         /\ passed = {i \in decoder_filters : i < entry}
         /\ upstream = "null" /\ ~local_response_sent
    /\ Decoding /\ entry = End => local_response_sent \/ one_way \/ Router \in passed
    /\ pc = "onStreamDecoded" => ~pending_stream_decoded /\ request = 0
    /\ pc = "continueDecoding" => pending_stream_decoded
    /\ paused # 0 => passed = {i \in decoder_filters : i < paused}
    /\ paused \in 1..(Router - 1) => upstream = "null"

\* How far the response is, in the same way.
EncodingProgress ==
    /\ Encoding => encoder_filter_action /\ encoder_paused = 0
    /\ Encoding /\ entry # End =>
         /\ entry \in encoder_filters /\ encoded = {i \in encoder_filters : i < entry}
         /\ ~local_response_sent /\ answers = <<>>
    /\ pc = "upstreamData" => upstream = "connected"
    /\ pc = "continueEncoding" => upstream = "spent"
    /\ encoder_paused # 0 => /\ encoded = {i \in encoder_filters : i < encoder_paused}
                             /\ upstream = "spent"
    /\ upstream # "spent" /\ pc # "upstreamData" => encoded = {}

\* Nothing but late replies has been written.
OnlyLate == \A k \in DOMAIN answers : answers[k] = "late_reply"

\* Which answers there are: none without a reply before the response; late ones at most
\* while the router has the request; and when a response is to be written, the filters have
\* passed it or a reply came before it.
AnswersSoFar ==
    /\ ~local_response_sent /\ upstream # "spent" => answers = <<>>
    /\ ~local_response_sent /\ encoder_paused # 0 => answers = <<>>
    /\ local_response_sent /\ answers = <<>> => connection = "Closed"
    /\ upstream \in {"waiting", "connected"} /\ (pc = "upstreamData" => entry # End) =>
         OnlyLate
    /\ pc = "upstreamData" /\ entry = End =>
         \/ /\ OnlyLate
            /\ answers = <<>> => encoder_filters \subseteq encoded \/ connection = "Closed"
         \/ answers = <<"encoder_reply">>

\* A callback runs only for a message that exists.
CallbacksOfLiving == pc # "idle" => life \in {"active", "deferred"}

IInv ==
    /\ TypeOK /\ NoFilterSkipped /\ NoEncoderFilterSkipped /\ CanContinue
    /\ AnsweredOnce /\ DestroyedOnce /\ CountedOnce
    /\ DecodingProgress /\ EncodingProgress /\ AnswersSoFar /\ CallbacksOfLiving

\* A pause ends: the filters finish with the request, or the message is deleted.
PausesEnd == pending_stream_decoded ~> ~pending_stream_decoded \/ life = "deleted"
=============================================================================
