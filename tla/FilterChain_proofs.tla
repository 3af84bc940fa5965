------------------------ MODULE FilterChain_proofs ------------------------
(***************************************************************************)
(* Proofs about FilterChain, for every set of configurations and every     *)
(* number of pauses and late replies.  First what an iteration of a list   *)
(* of filters does and what writing an answer does, then one lemma for     *)
(* each action, with one step for each part of the invariant that the      *)
(* action can disturb; then the theorems.                                  *)
(***************************************************************************)
EXTENDS FilterChain, TLAPS, WellFoundedInduction, SequenceTheorems

\* A non-empty set of natural numbers has a least one, which Min returns.
LEMMA MinIsLeast ==
    ASSUME NEW S \in SUBSET Nat, S # {}
    PROVE  Min(S) \in S /\ \A y \in S : Min(S) <= y
<1>1. PICK x \in S : \A y \in S : <<y, x>> \notin OpToRel(<, Nat)
  BY NatLessThanWellFounded, WFMin
<1>2. ASSUME NEW y \in S PROVE x <= y
  <2>1. <<y, x>> \notin {ss \in Nat \X Nat : ss[1] < ss[2]}
    BY <1>1 DEF OpToRel
  <2> QED BY <2>1
<1> QED BY <1>2 DEF Min

\* The chain: filters are positions before End, and the router is in both lists.
LEMMA Lists ==
    ASSUME TypeOK
    PROVE  /\ Router \in Nat /\ Router >= 1 /\ End = Router + 1
           /\ decoder_filters \subseteq 1..Router /\ encoder_filters \subseteq 1..Router
           /\ Router \in decoder_filters /\ Router \in encoder_filters
           /\ decoder_filters \cup encoder_filters = 1..Router
<1>1. Len(chain) \in Nat
  BY ChainAssumption DEF TypeOK
<1> QED BY <1>1 DEF Router, End, decoder_filters, encoder_filters

\* The least position of a list from i on.
LEMMA LeastFrom ==
    ASSUME NEW r \in Nat, NEW S \in SUBSET (1..r), r \in S, NEW i \in 1..(r + 1),
           NEW m, m = Min({j \in S : j >= i} \cup {r + 1})
    PROVE  /\ m \in Nat /\ m \in S \cup {r + 1} /\ m >= i
           /\ \A j \in S : j >= i => j >= m
           /\ i # r + 1 => m \in S
           /\ i \in S => m = i
<1> DEFINE T == {j \in S : j >= i} \cup {r + 1}
<1>1. T \in SUBSET Nat /\ T # {}
  <2>1. r + 1 \in Nat /\ r + 1 \in T
    OBVIOUS
  <2>2. ASSUME NEW j \in T PROVE j \in Nat
    <3>1. CASE j \in S
      BY <3>1
    <3>2. CASE j = r + 1
      BY <3>2
    <3> QED BY <3>1, <3>2
  <2> QED BY <2>1, <2>2
<1>2. m \in T /\ \A y \in T : m <= y
  BY <1>1, MinIsLeast
<1>3. m \in Nat /\ m \in S \cup {r + 1} /\ m >= i
  BY <1>2
<1>4. \A j \in S : j >= i => j >= m
  BY <1>2, <1>3
<1>5. i # r + 1 => m \in S
  BY <1>3, <1>4
<1>6. i \in S => m = i
  BY <1>3, <1>4
<1> QED BY <1>3, <1>4, <1>5, <1>6

\* Where an iteration of either list goes on: at the next filter of the list, or at its end.
LEMMA FromFacts ==
    ASSUME TypeOK, NEW S \in {decoder_filters, encoder_filters}, NEW i \in 1..End
    PROVE  /\ From(S, i) \in Nat /\ From(S, i) \in S \cup {End} /\ From(S, i) >= i
           /\ \A j \in S : j >= i => j >= From(S, i)
           /\ i # End => From(S, i) \in S
           /\ i \in S => From(S, i) = i
<1>1. /\ Router \in Nat /\ S \in SUBSET (1..Router) /\ Router \in S
      /\ End = Router + 1 /\ i \in 1..(Router + 1)
  BY Lists
<1>2. From(S, i) = Min({j \in S : j >= i} \cup {Router + 1})
  BY <1>1 DEF From
<1> QED BY <1>1, <1>2, LeastFrom

\* A step that changes neither configuration nor message keeps the lists.
LEMMA SameLists ==
    ASSUME UNCHANGED config
    PROVE  /\ chain' = chain /\ one_way' = one_way /\ Router' = Router /\ End' = End
           /\ decoder_filters' = decoder_filters /\ encoder_filters' = encoder_filters
BY DEF config, Router, End, decoder_filters, encoder_filters

\* A step that writes nothing.
LEMMA SameAnswers ==
    ASSUME UNCHANGED answers
    PROVE  answers' = answers /\ OnlyLate' = OnlyLate /\ AnsweredOnce' = AnsweredOnce
BY DEF OnlyLate, AnsweredOnce

\* What is written comes last, on an open connection.
LEMMA WrittenAnswers ==
    ASSUME TypeOK, NEW a \in {"reply", "late_reply", "encoder_reply", "response"}, Write(a)
    PROVE  /\ answers' \in Seq({"reply", "late_reply", "encoder_reply", "response"})
           /\ answers' = answers \/ answers' = Append(answers, a)
           /\ answers' = <<>> => answers = <<>> /\ connection = "Closed"
           /\ answers = <<>> /\ answers' # <<>> => answers' = <<a>>
           /\ answers # <<>> => answers' # <<>> /\ answers'[1] = answers[1]
           /\ OnlyLate /\ a # "response" /\ answers' # <<>> => answers'[1] # "response"
           /\ OnlyLate /\ a = "late_reply" => OnlyLate'
           /\ AnsweredOnce /\ (OnlyLate \/ a = "late_reply") => AnsweredOnce'
<1> DEFINE longer == Append(answers, a)
<1>1. answers \in Seq({"reply", "late_reply", "encoder_reply", "response"}) /\ Len(answers) \in Nat
  BY DEF TypeOK
<1>2. /\ longer \in Seq({"reply", "late_reply", "encoder_reply", "response"}) /\ longer # <<>>
      /\ DOMAIN answers = 1..Len(answers) /\ DOMAIN longer = 1..(Len(answers) + 1)
      /\ longer[Len(answers) + 1] = a
      /\ \A k \in 1..Len(answers) : longer[k] = answers[k]
  BY <1>1, AppendProperties
<1>3. answers = <<>> => longer = <<a>>
  OBVIOUS
<1>4. answers # <<>> => 1 \in 1..Len(answers)
  BY <1>1
<1>5. OnlyLate /\ answers # <<>> => answers[1] = "late_reply"
  BY <1>2, <1>4 DEF OnlyLate
<1>6. CASE answers' = answers
  <2>1. answers' = <<>> => connection = "Closed"
    BY <1>2, <1>6 DEF Write, TypeOK
  <2> QED BY <1>1, <1>5, <1>6, <2>1, SameAnswers
<1>7. CASE answers' = longer
  <2> HIDE DEF longer
  <2>1. OnlyLate /\ a = "late_reply" => OnlyLate'
    BY <1>1, <1>2, <1>7 DEF OnlyLate
  <2>2. ASSUME AnsweredOnce, OnlyLate \/ a = "late_reply" PROVE AnsweredOnce'
    <3>1. ASSUME NEW j \in DOMAIN longer, NEW k \in DOMAIN longer, j < k,
                 longer[j] # "late_reply", longer[k] # "late_reply"
          PROVE  longer[j] = "encoder_reply" /\ longer[k] = "response"
      <4>1. j \in 1..Len(answers) /\ longer[j] = answers[j]
        BY <1>1, <1>2, <3>1
      <4>2. k \in 1..Len(answers) /\ longer[k] = answers[k]
        BY <1>1, <1>2, <2>2, <3>1, <4>1 DEF OnlyLate
      <4> QED BY <1>2, <2>2, <3>1, <4>1, <4>2 DEF AnsweredOnce
    <3> QED BY <1>7, <3>1 DEF AnsweredOnce
  <2> QED BY <1>1, <1>2, <1>3, <1>4, <1>5, <1>7, <2>1, <2>2
<1> QED BY <1>6, <1>7 DEF Write

\* A single answer of whatever kind.
LEMMA OneAnswer ==
    ASSUME NEW a
    PROVE  <<a>> # <<>> /\ <<a>>[1] = a
OBVIOUS

\* Nothing has been written.
LEMMA NoAnswer == answers = <<>> => OnlyLate
BY DEF OnlyLate

\* The response of the server behind the reply of a dual filter.
LEMMA ResponseAfterEncoderReply ==
    ASSUME answers = <<"encoder_reply">>, answers' = Append(answers, "response")
    PROVE  AnsweredOnce'
<1>1. /\ answers \in Seq({"encoder_reply", "response"})
      /\ Len(answers) = 1 /\ answers[1] = "encoder_reply"
  OBVIOUS
<1>2. /\ DOMAIN answers' = 1..2
      /\ answers'[1] = "encoder_reply" /\ answers'[2] = "response"
  BY <1>1, AppendProperties
<1>3. \A j, k \in 1..2 : j < k => j = 1 /\ k = 2
  OBVIOUS
<1> HIDE DEF AnsweredOnce
<1> QED BY <1>2, <1>3 DEF AnsweredOnce

\* The end of an iteration keeps the types of the message's state.
LEMMA ContinuedTypes ==
    ASSUME TypeOK, NEW sent, Continued(sent)
    PROVE  /\ filter_action' \in BOOLEAN /\ pending_stream_decoded' \in BOOLEAN
           /\ request' \in Nat /\ life' \in {"new", "active", "deferred", "deleted"}
<1>1. CASE pc = "onStreamDecoded" \/ pending_stream_decoded
  <2>1. /\ filter_action' = FALSE /\ pending_stream_decoded' = FALSE
        /\ request' = request + 1 /\ life' \in {life, Defer(life)}
    <3>1. filter_action' = FALSE /\ FinalizeRequest(sent)
      BY <1>1 DEF Continued
    <3> QED BY <3>1 DEF FinalizeRequest
  <2>2. life \in {"new", "active", "deferred", "deleted"} /\ request \in Nat
    BY DEF TypeOK
  <2>3. Defer(life) \in {"new", "active", "deferred", "deleted"}
    BY <2>2 DEF Defer
  <2>4. life' \in {"new", "active", "deferred", "deleted"}
    BY <2>1, <2>2, <2>3
  <2>5. filter_action' \in BOOLEAN /\ pending_stream_decoded' \in BOOLEAN
    BY <2>1
  <2>6. request' \in Nat
    BY <2>1, <2>2
  <2> QED BY <2>4, <2>5, <2>6
<1>2. CASE ~(pc = "onStreamDecoded" \/ pending_stream_decoded)
  <2>1. /\ filter_action' = FALSE
        /\ UNCHANGED <<pending_stream_decoded, request, life>>
    BY <1>2 DEF Continued
  <2> QED BY <2>1 DEF TypeOK
<1> QED BY <1>1, <1>2

\* OnStreamDecoded: the chain begins at the first decoder filter, with nothing done yet.
LEMMA OnStreamDecodedStep ==
    ASSUME IInv, OnStreamDecoded
    PROVE  IInv'
<1>1. TypeOK /\ UNCHANGED config
  BY DEF IInv, OnStreamDecoded
<1> USE <1>1, SameLists, Lists
<1>2. 1 \in 1..End
  BY DEF IInv, OnStreamDecoded
<1> DEFINE next == From(decoder_filters, 1)
<1>3. /\ next \in Nat /\ next \in decoder_filters \cup {End} /\ next >= 1
      /\ \A j \in decoder_filters : j >= 1 => j >= next
      /\ 1 # End => next \in decoder_filters
      /\ 1 \in decoder_filters => next = 1
  BY <1>2, FromFacts
<1> HIDE DEF next
<1>4. TypeOK'
  BY <1>2, <1>3 DEF IInv, TypeOK, next, filters, history, OnStreamDecoded
<1>5. CanContinue'
  BY DEF IInv, CanContinue, filters, OnStreamDecoded
<1>6. DestroyedOnce'
  BY DEF IInv, DestroyedOnce, filters, OnStreamDecoded
<1>7. CountedOnce'
  BY DEF IInv, CountedOnce, history, OnStreamDecoded
<1>8. DecodingProgress'
  BY <1>2, <1>3 DEF IInv, DecodingProgress, next, filters, history, OnStreamDecoded
<1>9. EncodingProgress'
  BY <1>2, <1>3 DEF IInv, DecodingProgress, EncodingProgress, Encoding, next, filters,
      history, OnStreamDecoded
<1>10. CallbacksOfLiving'
  BY DEF IInv, CallbacksOfLiving, OnStreamDecoded
<1>11. NoFilterSkipped'
  BY DEF IInv, NoFilterSkipped, filters, history, OnStreamDecoded
<1>12. answers' = answers /\ OnlyLate' = OnlyLate /\ AnsweredOnce' = AnsweredOnce
  BY SameAnswers DEF history, OnStreamDecoded
<1>13. AnsweredOnce'
  BY <1>12 DEF IInv
<1>14. NoEncoderFilterSkipped'
  BY <1>12 DEF IInv, NoEncoderFilterSkipped, history, OnStreamDecoded
<1>15. AnswersSoFar'
  BY <1>12 DEF IInv, AnswersSoFar, DecodingProgress, filters, OnStreamDecoded
<1> QED BY <1>4, <1>5, <1>6, <1>7, <1>8, <1>9, <1>10, <1>11, <1>13, <1>14, <1>15 DEF IInv

\* DecoderFilterContinues: what lies before the next filter is what lay before this one, and
\* this one.
LEMMA DecoderFilterContinuesStep ==
    ASSUME IInv, DecoderFilterContinues
    PROVE  IInv'
<1>1. TypeOK /\ UNCHANGED config
  BY DEF IInv, DecoderFilterContinues
<1> USE <1>1, SameLists, Lists
<1>2. entry + 1 \in 1..End
  BY DEF IInv, TypeOK, DecoderFilterContinues
<1> DEFINE next == From(decoder_filters, entry + 1)
<1>3. /\ next \in Nat /\ next \in decoder_filters \cup {End} /\ next >= entry + 1
      /\ \A j \in decoder_filters : j >= entry + 1 => j >= next
      /\ entry + 1 # End => next \in decoder_filters
      /\ entry + 1 \in decoder_filters => next = entry + 1
  BY <1>2, FromFacts
<1> HIDE DEF next
<1>4. TypeOK'
  BY <1>2, <1>3 DEF IInv, TypeOK, DecodingProgress, next, message, filters,
      DecoderFilterContinues
<1>5. NoFilterSkipped'
  BY DEF IInv, NoFilterSkipped, filters, DecoderFilterContinues
<1>6. CountedOnce'
  BY DEF IInv, CountedOnce, message, DecoderFilterContinues
<1>7. DecodingProgress'
  <2>1. /\ entry \in decoder_filters /\ entry # End /\ entry + 1 <= Router
        /\ passed = {i \in decoder_filters : i < entry}
        /\ entry' = next /\ passed' = passed \cup {entry}
    BY DEF IInv, DecodingProgress, DecoderFilterContinues, next
  <2>2. next \in decoder_filters /\ next # End
    BY <2>1, <1>3
  <2>3. \A i \in decoder_filters : i < next <=> i < entry \/ i = entry
    BY <2>1, <1>3
  <2>4. passed' = {i \in decoder_filters : i < next}
    BY <2>1, <2>3
  <2> QED BY <2>1, <2>2, <2>4 DEF IInv, DecodingProgress, Decoding, message, filters,
                                  DecoderFilterContinues
<1>8. EncodingProgress'
  BY <1>2, <1>3 DEF IInv, EncodingProgress, Decoding, Encoding, next, filters,
      DecoderFilterContinues
<1>9. CanContinue' /\ DestroyedOnce' /\ CallbacksOfLiving'
  BY DEF IInv, CanContinue, DestroyedOnce, CallbacksOfLiving, message, filters,
      DecoderFilterContinues
<1>10. answers' = answers /\ OnlyLate' = OnlyLate /\ AnsweredOnce' = AnsweredOnce
  BY SameAnswers DEF history, DecoderFilterContinues
<1>11. AnsweredOnce'
  BY <1>10 DEF IInv
<1>12. NoEncoderFilterSkipped'
  BY <1>10 DEF IInv, NoEncoderFilterSkipped, DecoderFilterContinues
<1>13. AnswersSoFar'
  BY <1>10 DEF IInv, AnswersSoFar, Decoding, filters, DecoderFilterContinues
<1> QED BY <1>4, <1>5, <1>6, <1>7, <1>8, <1>9, <1>11, <1>12, <1>13 DEF IInv

\* DecoderFilterPauses: the filters before the current one are those before the one that waits.
LEMMA DecoderFilterPausesStep ==
    ASSUME IInv, DecoderFilterPauses
    PROVE  IInv'
<1>1. TypeOK /\ UNCHANGED config
  BY DEF IInv, DecoderFilterPauses
<1> USE <1>1, SameLists, Lists
<1>2. TypeOK'
  BY DEF IInv, TypeOK, DecodingProgress, history, DecoderFilterPauses, StopDecoding
<1>3. CanContinue'
  BY DEF IInv, TypeOK, CanContinue, DecodingProgress, Decoding, DecoderFilterPauses,
      StopDecoding
<1>4. DestroyedOnce'
  BY DEF IInv, DestroyedOnce, CallbacksOfLiving, Decoding, DecoderFilterPauses
<1>5. CountedOnce'
  BY DEF IInv, CountedOnce, DecodingProgress, history, DecoderFilterPauses, StopDecoding
<1>6. DecodingProgress'
  BY DEF IInv, DecodingProgress, Decoding, history, DecoderFilterPauses, StopDecoding
<1>7. EncodingProgress'
  BY DEF IInv, EncodingProgress, Decoding, Encoding, history, DecoderFilterPauses, StopDecoding
<1>8. CallbacksOfLiving'
  BY DEF IInv, CallbacksOfLiving, DecoderFilterPauses, StopDecoding
<1>9. NoFilterSkipped'
  BY DEF IInv, NoFilterSkipped, history, DecoderFilterPauses
<1>10. answers' = answers /\ OnlyLate' = OnlyLate /\ AnsweredOnce' = AnsweredOnce
  BY SameAnswers DEF history, DecoderFilterPauses
<1>11. AnsweredOnce'
  BY <1>10 DEF IInv
<1>12. NoEncoderFilterSkipped'
  BY <1>10 DEF IInv, NoEncoderFilterSkipped, history, DecoderFilterPauses
<1>13. AnswersSoFar'
  BY <1>10 DEF IInv, AnswersSoFar, DecoderFilterPauses, StopDecoding
<1> QED BY <1>2, <1>3, <1>4, <1>5, <1>6, <1>7, <1>8, <1>9, <1>11, <1>12, <1>13 DEF IInv

\* DecoderFilterResets: a message that a filter resets has not been sent or answered.
LEMMA DecoderFilterResetsStep ==
    ASSUME IInv, DecoderFilterResets
    PROVE  IInv'
<1>1. TypeOK /\ UNCHANGED config
  BY DEF IInv, DecoderFilterResets
<1> USE <1>1, SameLists, Lists
<1>2. TypeOK'
  BY DEF IInv, TypeOK, filters, history, DecoderFilterResets, StopDecoding, Defer
<1>3. CanContinue'
  BY DEF IInv, CanContinue, filters, DecoderFilterResets, StopDecoding
<1>4. DestroyedOnce'
  BY DEF IInv, DestroyedOnce, filters, DecoderFilterResets, Defer
<1>5. CountedOnce'
  BY DEF IInv, CountedOnce, DecodingProgress, history, DecoderFilterResets, StopDecoding, Defer
<1>6. DecodingProgress'
  BY DEF IInv, DecodingProgress, Decoding, filters, DecoderFilterResets, StopDecoding, Defer
<1>7. EncodingProgress'
  BY DEF IInv, EncodingProgress, Decoding, Encoding, filters, history, DecoderFilterResets,
      StopDecoding
<1>8. CallbacksOfLiving'
  BY DEF IInv, CallbacksOfLiving, DecoderFilterResets, StopDecoding
<1>9. NoFilterSkipped'
  BY DEF IInv, NoFilterSkipped, filters, history, DecoderFilterResets
<1>10. answers' = answers /\ OnlyLate' = OnlyLate /\ AnsweredOnce' = AnsweredOnce
  BY SameAnswers DEF history, DecoderFilterResets
<1>11. AnsweredOnce'
  BY <1>10 DEF IInv
<1>12. NoEncoderFilterSkipped'
  BY <1>10 DEF IInv, NoEncoderFilterSkipped, history, DecoderFilterResets
<1>13. AnswersSoFar'
  BY <1>10 DEF IInv, AnswersSoFar, filters, DecoderFilterResets, StopDecoding
<1> QED BY <1>2, <1>3, <1>4, <1>5, <1>6, <1>7, <1>8, <1>9, <1>11, <1>12, <1>13 DEF IInv

\* DecoderFilterReplies: a filter in its turn is the first to answer, and ends the iteration.
LEMMA DecoderFilterRepliesStep ==
    ASSUME IInv, DecoderFilterReplies
    PROVE  IInv'
<1>1. TypeOK /\ UNCHANGED config
  BY DEF IInv, DecoderFilterReplies
<1> USE <1>1, SameLists, Lists
<1>2. Decoding /\ entry # End /\ answers = <<>> /\ OnlyLate
  BY NoAnswer DEF IInv, AnswersSoFar, DecodingProgress, DecoderFilterReplies
<1>3. /\ answers' \in Seq({"reply", "late_reply", "encoder_reply", "response"})
      /\ answers' = <<>> => connection = "Closed"
      /\ answers' # <<>> => answers'[1] # "response"
      /\ AnsweredOnce'
  BY <1>2, WrittenAnswers DEF IInv, DecoderFilterReplies
<1>4. TypeOK'
  BY <1>3 DEF IInv, TypeOK, message, filters, DecoderFilterReplies
<1>5. NoEncoderFilterSkipped'
  BY <1>3 DEF NoEncoderFilterSkipped
<1>6. DecodingProgress'
  BY DEF IInv, DecodingProgress, Decoding, message, filters, DecoderFilterReplies
<1>7. EncodingProgress'
  BY DEF IInv, DecodingProgress, EncodingProgress, Decoding, Encoding, filters,
      DecoderFilterReplies
<1>8. NoFilterSkipped' /\ CanContinue' /\ DestroyedOnce' /\ CountedOnce' /\ CallbacksOfLiving'
  BY DEF IInv, NoFilterSkipped, CanContinue, DestroyedOnce, CountedOnce, CallbacksOfLiving,
      message, filters, DecoderFilterReplies
<1>9. AnswersSoFar'
  BY <1>2, <1>3 DEF IInv, AnswersSoFar, DecodingProgress, Decoding, filters,
      DecoderFilterReplies
<1> QED BY <1>3, <1>4, <1>5, <1>6, <1>7, <1>8, <1>9 DEF IInv

\* RouterReplies: the router's reply is the first answer.
LEMMA RouterRepliesStep ==
    ASSUME IInv, RouterReplies
    PROVE  IInv'
<1>1. TypeOK /\ UNCHANGED config
  BY DEF IInv, RouterReplies
<1> USE <1>1, SameLists, Lists
<1>2. Decoding /\ entry # End /\ answers = <<>> /\ OnlyLate
  BY NoAnswer DEF IInv, AnswersSoFar, DecodingProgress, RouterReplies
<1>3. /\ answers' \in Seq({"reply", "late_reply", "encoder_reply", "response"})
      /\ answers' = <<>> => connection = "Closed"
      /\ answers' # <<>> => answers'[1] # "response"
      /\ AnsweredOnce'
  BY <1>2, WrittenAnswers DEF IInv, RouterReplies
<1>4. TypeOK'
  <2>1. upstream' \in {"null", "waiting", "connected", "spent"} /\ local_response_sent' \in BOOLEAN
    BY DEF IInv, TypeOK, RouterReplies
  <2> QED BY <1>3, <2>1 DEF IInv, TypeOK, message, RouterReplies
<1>5. NoFilterSkipped'
  BY DEF IInv, NoFilterSkipped, DecodingProgress, RouterReplies
<1>6. NoEncoderFilterSkipped'
  BY <1>3 DEF NoEncoderFilterSkipped
<1>7. CanContinue'
  BY DEF IInv, CanContinue, DecodingProgress, message, RouterReplies
<1>8. DestroyedOnce'
  BY DEF IInv, DestroyedOnce, RouterReplies
<1>9. DecodingProgress'
  BY DEF IInv, DecodingProgress, Decoding, message, RouterReplies
<1>10. EncodingProgress'
  BY DEF IInv, DecodingProgress, EncodingProgress, Decoding, Encoding, RouterReplies
<1>11. CountedOnce' /\ CallbacksOfLiving'
  BY DEF IInv, CountedOnce, CallbacksOfLiving, message, RouterReplies
<1>12. AnswersSoFar'
  BY <1>2, <1>3 DEF IInv, AnswersSoFar, DecodingProgress, Decoding, RouterReplies
<1> QED BY <1>3, <1>4, <1>5, <1>6, <1>7, <1>8, <1>9, <1>10, <1>11, <1>12 DEF IInv

\* RouterResets: a one-way request that overflows is over: every filter has let it pass.
LEMMA RouterResetsStep ==
    ASSUME IInv, RouterResets
    PROVE  IInv'
<1>1. TypeOK /\ UNCHANGED config
  BY DEF IInv, RouterResets
<1> USE <1>1, SameLists, Lists
<1>2. TypeOK'
  BY DEF IInv, TypeOK, message, history, RouterResets, Defer
<1>3. NoFilterSkipped'
  BY DEF IInv, NoFilterSkipped, DecodingProgress, history, RouterResets
<1>4. CanContinue'
  BY DEF IInv, CanContinue, DecodingProgress, message, RouterResets
<1>5. DestroyedOnce'
  BY DEF IInv, DestroyedOnce, RouterResets, Defer
<1>6. CountedOnce'
  BY DEF IInv, CountedOnce, message, history, RouterResets, Defer
<1>7. DecodingProgress'
  BY DEF IInv, DecodingProgress, Decoding, message, RouterResets, Defer
<1>8. EncodingProgress'
  BY DEF IInv, EncodingProgress, Decoding, Encoding, history, RouterResets
<1>9. CallbacksOfLiving'
  BY DEF IInv, CallbacksOfLiving, RouterResets, Defer
<1>10. answers' = answers /\ OnlyLate' = OnlyLate /\ AnsweredOnce' = AnsweredOnce
  BY SameAnswers DEF history, RouterResets
<1>11. AnsweredOnce'
  BY <1>10 DEF IInv
<1>12. NoEncoderFilterSkipped'
  BY <1>10 DEF IInv, NoEncoderFilterSkipped, history, RouterResets
<1>13. AnswersSoFar'
  BY <1>10 DEF IInv, AnswersSoFar, Decoding, RouterResets
<1> QED BY <1>2, <1>3, <1>4, <1>5, <1>6, <1>7, <1>8, <1>9, <1>11, <1>12, <1>13 DEF IInv

\* RouterSends: the router is called when every filter before it has let the message pass.
LEMMA RouterSendsStep ==
    ASSUME IInv, RouterSends
    PROVE  IInv'
<1>1. TypeOK /\ UNCHANGED config
  BY DEF IInv, RouterSends
<1> USE <1>1, SameLists, Lists
<1>2. TypeOK'
  BY DEF IInv, TypeOK, message, RouterSends
<1>3. NoFilterSkipped'
  BY DEF IInv, NoFilterSkipped, DecodingProgress, RouterSends
<1>4. CanContinue'
  BY DEF IInv, CanContinue, DecodingProgress, message, RouterSends
<1>5. DestroyedOnce'
  BY DEF IInv, DestroyedOnce, CallbacksOfLiving, Decoding, RouterSends
<1>6. CountedOnce'
  BY DEF IInv, CountedOnce, message, RouterSends
<1>7. DecodingProgress'
  BY DEF IInv, DecodingProgress, Decoding, message, RouterSends
<1>8. EncodingProgress'
  BY DEF IInv, DecodingProgress, EncodingProgress, Encoding, RouterSends
<1>9. CallbacksOfLiving'
  BY DEF IInv, CallbacksOfLiving, RouterSends
<1>10. answers' = answers /\ OnlyLate' = OnlyLate /\ AnsweredOnce' = AnsweredOnce
  BY SameAnswers DEF history, RouterSends
<1>11. AnsweredOnce'
  BY <1>10 DEF IInv
<1>12. NoEncoderFilterSkipped'
  BY <1>10 DEF IInv, NoEncoderFilterSkipped, RouterSends
<1>13. AnswersSoFar'
  BY <1>10, NoAnswer DEF IInv, AnswersSoFar, DecodingProgress, Decoding, RouterSends
<1> QED BY <1>2, <1>3, <1>4, <1>5, <1>6, <1>7, <1>8, <1>9, <1>11, <1>12, <1>13 DEF IInv

\* RouterPauses: the router waits, behind every other filter.
LEMMA RouterPausesStep ==
    ASSUME IInv, RouterPauses
    PROVE  IInv'
<1>1. TypeOK /\ UNCHANGED config
  BY DEF IInv, RouterPauses
<1> USE <1>1, SameLists, Lists
<1>2. TypeOK'
  BY DEF IInv, TypeOK, history, RouterPauses, StopDecoding
<1>3. NoFilterSkipped'
  BY DEF IInv, NoFilterSkipped, DecodingProgress, history, RouterPauses
<1>4. CanContinue'
  BY DEF IInv, CanContinue, DecodingProgress, Decoding, RouterPauses, StopDecoding
<1>5. DestroyedOnce'
  BY DEF IInv, DestroyedOnce, CallbacksOfLiving, Decoding, RouterPauses
<1>6. CountedOnce'
  BY DEF IInv, CountedOnce, DecodingProgress, history, RouterPauses, StopDecoding
<1>7. DecodingProgress'
  BY DEF IInv, DecodingProgress, Decoding, history, RouterPauses, StopDecoding
<1>8. EncodingProgress'
  BY DEF IInv, DecodingProgress, EncodingProgress, Encoding, history, RouterPauses, StopDecoding
<1>9. CallbacksOfLiving'
  BY DEF IInv, CallbacksOfLiving, RouterPauses, StopDecoding
<1>10. answers' = answers /\ OnlyLate' = OnlyLate /\ AnsweredOnce' = AnsweredOnce
  BY SameAnswers DEF history, RouterPauses
<1>11. AnsweredOnce'
  BY <1>10 DEF IInv
<1>12. NoEncoderFilterSkipped'
  BY <1>10 DEF IInv, NoEncoderFilterSkipped, history, RouterPauses
<1>13. AnswersSoFar'
  BY <1>10, NoAnswer DEF IInv, AnswersSoFar, DecodingProgress, RouterPauses, StopDecoding
<1> QED BY <1>2, <1>3, <1>4, <1>5, <1>6, <1>7, <1>8, <1>9, <1>11, <1>12, <1>13 DEF IInv

\* DecodingEnds: the message is counted here if it was not before.
LEMMA DecodingEndsStep ==
    ASSUME IInv, DecodingEnds
    PROVE  IInv'
<1>1. TypeOK /\ UNCHANGED config
  BY DEF IInv, DecodingEnds
<1> USE <1>1, SameLists, Lists
<1>2. TypeOK'
  <2>1. /\ filter_action' \in BOOLEAN /\ pending_stream_decoded' \in BOOLEAN
        /\ request' \in Nat /\ life' \in {"new", "active", "deferred", "deleted"}
    BY ContinuedTypes DEF DecodingEnds
  <2> QED BY <2>1 DEF IInv, TypeOK, filters, history, DecodingEnds
<1>3. CanContinue'
  BY DEF IInv, CanContinue, DecodingProgress, filters, DecodingEnds
<1>4. DestroyedOnce'
  BY DEF IInv, DestroyedOnce, filters, DecodingEnds, Continued, FinalizeRequest, Defer
<1>5. CountedOnce'
  BY DEF IInv, TypeOK, CountedOnce, DecodingProgress, history, DecodingEnds, Continued,
      FinalizeRequest, Defer
<1>6. DecodingProgress'
  BY DEF IInv, DecodingProgress, Decoding, filters, DecodingEnds, Continued, FinalizeRequest,
      Defer
<1>7. EncodingProgress'
  BY DEF IInv, EncodingProgress, Decoding, Encoding, filters, history, DecodingEnds
<1>8. CallbacksOfLiving'
  BY DEF IInv, CallbacksOfLiving, DecodingEnds
<1>9. NoFilterSkipped'
  BY DEF IInv, NoFilterSkipped, filters, history, DecodingEnds
<1>10. answers' = answers /\ OnlyLate' = OnlyLate /\ AnsweredOnce' = AnsweredOnce
  BY SameAnswers DEF history, DecodingEnds
<1>11. AnsweredOnce'
  BY <1>10 DEF IInv
<1>12. NoEncoderFilterSkipped'
  BY <1>10 DEF IInv, NoEncoderFilterSkipped, history, DecodingEnds
<1>13. AnswersSoFar'
  BY <1>10 DEF IInv, AnswersSoFar, Decoding, filters, DecodingEnds
<1> QED BY <1>2, <1>3, <1>4, <1>5, <1>6, <1>7, <1>8, <1>9, <1>11, <1>12, <1>13 DEF IInv

\* ContinueDecoding: a filter that continues is the next one, as it has not let the message pass.
LEMMA ContinueDecodingStep ==
    ASSUME IInv, ContinueDecoding
    PROVE  IInv'
<1>1. TypeOK /\ UNCHANGED config
  BY DEF IInv, ContinueDecoding
<1> USE <1>1, SameLists, Lists
<1>2. paused \in 1..End
  BY DEF IInv, ContinueDecoding
<1> DEFINE next == From(decoder_filters, paused)
<1>3. /\ next \in Nat /\ next \in decoder_filters \cup {End} /\ next >= paused
      /\ \A j \in decoder_filters : j >= paused => j >= next
      /\ paused # End => next \in decoder_filters
      /\ paused \in decoder_filters => next = paused
  BY <1>2, FromFacts
<1> HIDE DEF next
<1>4. TypeOK'
  BY <1>2, <1>3 DEF IInv, TypeOK, next, message, history, ContinueDecoding, Resume,
      commonDecodePrefix
<1>5. CanContinue'
  BY DEF IInv, CanContinue, message, ContinueDecoding
<1>6. DestroyedOnce'
  BY DEF IInv, DestroyedOnce, ContinueDecoding
<1>7. DecodingProgress'
  BY <1>2, <1>3 DEF IInv, CanContinue, DecodingProgress, next, message, history,
      ContinueDecoding, Resume, commonDecodePrefix
<1>8. EncodingProgress'
  BY <1>2, <1>3 DEF IInv, EncodingProgress, Encoding, next, history, ContinueDecoding, Idle
<1>9. CallbacksOfLiving'
  BY DEF IInv, CallbacksOfLiving, ContinueDecoding, Idle
<1>10. NoFilterSkipped' /\ CountedOnce'
  BY DEF IInv, NoFilterSkipped, CountedOnce, message, history, ContinueDecoding
<1>11. answers' = answers /\ OnlyLate' = OnlyLate /\ AnsweredOnce' = AnsweredOnce
  BY SameAnswers DEF history, ContinueDecoding
<1>12. AnsweredOnce'
  BY <1>11 DEF IInv
<1>13. NoEncoderFilterSkipped'
  BY <1>11 DEF IInv, NoEncoderFilterSkipped, history, ContinueDecoding
<1>14. AnswersSoFar'
  BY <1>11 DEF IInv, AnswersSoFar, Idle, ContinueDecoding, Resume
<1> QED BY <1>4, <1>5, <1>6, <1>7, <1>8, <1>9, <1>10, <1>12, <1>13, <1>14 DEF IInv

\* SendLocalReply: a filter that waits in its turn is the first to answer; a late reply leaves
\* those aside that it follows and, while the router has the request, finds no others.
LEMMA SendLocalReplyStep ==
    ASSUME IInv, SendLocalReply
    PROVE  IInv'
<1>1. TypeOK /\ UNCHANGED config
  BY DEF IInv, SendLocalReply
<1> USE <1>1, SameLists, Lists
<1>2. pc = "idle" /\ life # "new"
  BY DEF SendLocalReply, Idle
<1>3. /\ answers' \in Seq({"reply", "late_reply", "encoder_reply", "response"})
      /\ answers' = <<>> => connection = "Closed"
      /\ AnsweredOnce' /\ NoEncoderFilterSkipped'
      /\ upstream \in {"waiting", "connected"} => OnlyLate'
  <2>1. CASE paused \in 1..(Router - 1) /\ ~local_response_sent /\ Write("reply")
    <3>1. upstream = "null" /\ answers = <<>> /\ OnlyLate
      BY <2>1, NoAnswer DEF IInv, AnswersSoFar, DecodingProgress
    <3> QED BY <2>1, <3>1, WrittenAnswers DEF IInv, NoEncoderFilterSkipped
  <2>2. CASE Write("late_reply")
    <3>1. upstream \in {"waiting", "connected"} => OnlyLate
      BY <1>2 DEF IInv, AnswersSoFar
    <3>2. encoded' = encoded
      BY DEF SendLocalReply
    <3>3. <<"late_reply">>[1] # "response"
      BY OneAnswer
    <3> QED BY <2>2, <3>1, <3>2, <3>3, WrittenAnswers DEF IInv, NoEncoderFilterSkipped
  <2> QED BY <2>1, <2>2 DEF SendLocalReply
<1>4. TypeOK'
  BY <1>3 DEF IInv, TypeOK, message, filters, SendLocalReply
<1>5. DecodingProgress'
  BY <1>2 DEF IInv, DecodingProgress, Decoding, message, filters, SendLocalReply
<1>6. EncodingProgress'
  BY <1>2 DEF IInv, EncodingProgress, Encoding, filters, SendLocalReply
<1>7. NoFilterSkipped' /\ CanContinue' /\ DestroyedOnce' /\ CountedOnce' /\ CallbacksOfLiving'
  BY DEF IInv, NoFilterSkipped, CanContinue, DestroyedOnce, CountedOnce, CallbacksOfLiving,
      message, filters, SendLocalReply
<1>8. AnswersSoFar'
  BY <1>2, <1>3 DEF AnswersSoFar, filters, SendLocalReply
<1> QED BY <1>3, <1>4, <1>5, <1>6, <1>7, <1>8 DEF IInv

\* ResetStream: a reset defers the message and leaves the filters alone.
LEMMA ResetStreamStep ==
    ASSUME IInv, ResetStream
    PROVE  IInv'
<1>1. TypeOK /\ UNCHANGED config
  BY DEF IInv, ResetStream
<1> USE <1>1, SameLists, Lists
<1>2. TypeOK'
  BY DEF IInv, TypeOK, message, filters, history, ResetStream, Defer
<1>3. DestroyedOnce'
  BY DEF IInv, DestroyedOnce, filters, ResetStream, Defer
<1>4. CountedOnce'
  BY DEF IInv, CountedOnce, message, ResetStream, Defer
<1>5. DecodingProgress'
  BY DEF IInv, DecodingProgress, Decoding, message, filters, history, ResetStream, Defer
<1>6. CallbacksOfLiving'
  BY DEF IInv, CallbacksOfLiving, ResetStream, Defer
<1>7. NoFilterSkipped' /\ CanContinue' /\ EncodingProgress'
  BY DEF IInv, NoFilterSkipped, CanContinue, EncodingProgress, Encoding, message, filters,
      history, ResetStream
<1>8. answers' = answers /\ OnlyLate' = OnlyLate /\ AnsweredOnce' = AnsweredOnce
  BY SameAnswers DEF history, ResetStream
<1>9. AnsweredOnce'
  BY <1>8 DEF IInv
<1>10. NoEncoderFilterSkipped'
  BY <1>8 DEF IInv, NoEncoderFilterSkipped, history, ResetStream
<1>11. AnswersSoFar'
  BY <1>8 DEF IInv, AnswersSoFar, filters, history, ResetStream
<1> QED BY <1>2, <1>3, <1>4, <1>5, <1>6, <1>7, <1>9, <1>10, <1>11 DEF IInv

\* OnPoolReady: the router, which waited, has passed the message; its decoding is over.
LEMMA OnPoolReadyStep ==
    ASSUME IInv, OnPoolReady
    PROVE  IInv'
<1>1. TypeOK /\ UNCHANGED config
  BY DEF IInv, OnPoolReady
<1> USE <1>1, SameLists, Lists
<1>2. TypeOK'
  <2>1. /\ filter_action' \in BOOLEAN /\ pending_stream_decoded' \in BOOLEAN
        /\ request' \in Nat /\ life' \in {"new", "active", "deferred", "deleted"}
    BY ContinuedTypes DEF OnPoolReady
  <2> QED BY <2>1 DEF IInv, TypeOK, Idle, OnPoolReady
<1>3. NoFilterSkipped'
  BY DEF IInv, NoFilterSkipped, OnPoolReady
<1>4. CanContinue'
  BY DEF IInv, CanContinue, OnPoolReady
<1>5. DestroyedOnce'
  BY DEF IInv, DestroyedOnce, OnPoolReady, Continued, FinalizeRequest, Defer
<1>6. CountedOnce'
  BY DEF IInv, CountedOnce, OnPoolReady, Idle, Continued, FinalizeRequest
<1>7. DecodingProgress'
  BY DEF IInv, DecodingProgress, Decoding, OnPoolReady, Continued, FinalizeRequest, Defer
<1>8. EncodingProgress'
  BY DEF IInv, CanContinue, DecodingProgress, EncodingProgress, Encoding, OnPoolReady
<1>9. CallbacksOfLiving'
  BY DEF IInv, CallbacksOfLiving, OnPoolReady, Continued, FinalizeRequest, Defer
<1>10. answers' = answers /\ OnlyLate' = OnlyLate /\ AnsweredOnce' = AnsweredOnce
  BY SameAnswers DEF history, OnPoolReady
<1>11. AnsweredOnce'
  BY <1>10 DEF IInv
<1>12. NoEncoderFilterSkipped'
  BY <1>10 DEF IInv, NoEncoderFilterSkipped, OnPoolReady
<1>13. AnswersSoFar'
  BY <1>10 DEF IInv, AnswersSoFar, OnPoolReady
<1> QED BY <1>2, <1>3, <1>4, <1>5, <1>6, <1>7, <1>8, <1>9, <1>11, <1>12, <1>13 DEF IInv

\* OnPoolFailure: a two-way request gets the router's answer, behind late ones at most.
LEMMA OnPoolFailureStep ==
    ASSUME IInv, OnPoolFailure
    PROVE  IInv'
<1>1. TypeOK /\ UNCHANGED config
  BY DEF IInv, OnPoolFailure
<1> USE <1>1, SameLists, Lists
<1>2. pc = "idle" /\ upstream = "waiting" /\ OnlyLate
  BY DEF IInv, AnswersSoFar, OnPoolFailure, Idle
<1>3. /\ answers' \in Seq({"reply", "late_reply", "encoder_reply", "response"})
      /\ AnsweredOnce' /\ NoEncoderFilterSkipped'
      /\ local_response_sent' /\ answers' = <<>> => connection = "Closed"
  <2>1. CASE one_way
    <3>1. answers' = answers /\ local_response_sent' = local_response_sent /\ encoded' = encoded
      BY <2>1 DEF IInv, TypeOK, OnPoolFailure
    <3> QED BY <3>1, SameAnswers DEF IInv, TypeOK, AnswersSoFar, NoEncoderFilterSkipped
  <2>2. CASE ~one_way
    <3>1. Write("reply")
      BY <2>2 DEF OnPoolFailure
    <3> QED BY <1>2, <3>1, WrittenAnswers DEF IInv, NoEncoderFilterSkipped
  <2> QED BY <2>1, <2>2
<1>4. TypeOK'
  <2>1. /\ filter_action' \in BOOLEAN /\ pending_stream_decoded' \in BOOLEAN
        /\ request' \in Nat /\ life' \in {"new", "active", "deferred", "deleted"}
    BY ContinuedTypes DEF OnPoolFailure
  <2>2. local_response_sent' \in BOOLEAN
    BY DEF IInv, TypeOK, OnPoolFailure
  <2> QED BY <1>3, <2>1, <2>2 DEF IInv, TypeOK, Idle, OnPoolFailure
<1>5. NoFilterSkipped'
  BY DEF IInv, NoFilterSkipped, OnPoolFailure
<1>6. CanContinue'
  BY DEF IInv, CanContinue, OnPoolFailure
<1>7. DestroyedOnce'
  BY DEF IInv, DestroyedOnce, OnPoolFailure, Continued, FinalizeRequest, Defer
<1>8. CountedOnce'
  <2>1. local_response_sent' \/ one_way
    BY DEF IInv, TypeOK, OnPoolFailure
  <2> QED BY <2>1 DEF IInv, CountedOnce, OnPoolFailure, Idle, Continued, FinalizeRequest, Defer
<1>9. DecodingProgress'
  <2>1. life' # "new"
    BY DEF OnPoolFailure, Idle, Continued, FinalizeRequest, Defer
  <2>2. pc' = "idle" /\ paused' = 0
    BY <1>2 DEF OnPoolFailure
  <2> QED BY <2>1, <2>2 DEF DecodingProgress, Decoding
<1>10. EncodingProgress'
  BY <1>2 DEF IInv, EncodingProgress, Encoding, OnPoolFailure
<1>11. CallbacksOfLiving'
  BY DEF IInv, CallbacksOfLiving, OnPoolFailure, Continued, FinalizeRequest, Defer
<1>12. AnswersSoFar'
  BY <1>2, <1>3 DEF IInv, AnswersSoFar, OnPoolFailure
<1> QED BY <1>3, <1>4, <1>5, <1>6, <1>7, <1>8, <1>9, <1>10, <1>11, <1>12 DEF IInv

\* OnUpstreamClose: the connection was there, so there are late answers at most.
LEMMA OnUpstreamCloseStep ==
    ASSUME IInv, OnUpstreamClose
    PROVE  IInv'
<1>1. TypeOK /\ UNCHANGED config
  BY DEF IInv, OnUpstreamClose
<1> USE <1>1, SameLists, Lists
<1>2. pc = "idle" /\ upstream = "connected" /\ OnlyLate
  BY DEF IInv, AnswersSoFar, OnUpstreamClose, Idle
<1>3. /\ answers' \in Seq({"reply", "late_reply", "encoder_reply", "response"})
      /\ AnsweredOnce' /\ NoEncoderFilterSkipped'
      /\ local_response_sent' /\ answers' = <<>> => connection = "Closed"
  <2>1. CASE one_way
    <3>1. answers' = answers /\ local_response_sent' = local_response_sent /\ encoded' = encoded
      BY <2>1 DEF OnUpstreamClose
    <3> QED BY <3>1, SameAnswers DEF IInv, TypeOK, AnswersSoFar, NoEncoderFilterSkipped
  <2>2. CASE ~one_way
    <3>1. Write("reply")
      BY <2>2 DEF OnUpstreamClose
    <3> QED BY <1>2, <3>1, WrittenAnswers DEF IInv, NoEncoderFilterSkipped
  <2> QED BY <2>1, <2>2
<1>4. TypeOK'
  <2>1. /\ life' \in {"new", "active", "deferred", "deleted"}
        /\ local_response_sent' \in BOOLEAN
    BY DEF IInv, TypeOK, OnUpstreamClose, Defer
  <2> QED BY <1>3, <2>1 DEF IInv, TypeOK, message, OnUpstreamClose
<1>5. NoFilterSkipped'
  BY DEF IInv, NoFilterSkipped, OnUpstreamClose
<1>6. CanContinue'
  BY DEF IInv, CanContinue, message, OnUpstreamClose
<1>7. DestroyedOnce'
  BY DEF IInv, DestroyedOnce, OnUpstreamClose, Defer
<1>8. CountedOnce'
  BY DEF IInv, CountedOnce, message, OnUpstreamClose, Defer
<1>9. DecodingProgress'
  BY DEF IInv, TypeOK, CanContinue, DecodingProgress, Decoding, OnUpstreamClose, Idle, Defer
<1>10. EncodingProgress'
  BY DEF IInv, EncodingProgress, Encoding, OnUpstreamClose, Idle
<1>11. CallbacksOfLiving'
  BY DEF IInv, CallbacksOfLiving, OnUpstreamClose, Defer
<1>12. AnswersSoFar'
  BY <1>2, <1>3 DEF IInv, AnswersSoFar, OnUpstreamClose
<1> QED BY <1>3, <1>4, <1>5, <1>6, <1>7, <1>8, <1>9, <1>10, <1>11, <1>12 DEF IInv

\* DownstreamClose: a close defers the message and leaves the filters alone.
LEMMA DownstreamCloseStep ==
    ASSUME IInv, DownstreamClose
    PROVE  IInv'
<1>1. TypeOK /\ UNCHANGED config
  BY DEF IInv, DownstreamClose
<1> USE <1>1, SameLists, Lists
<1>2. TypeOK'
  BY DEF IInv, TypeOK, message, filters, history, DownstreamClose, Defer
<1>3. DestroyedOnce'
  BY DEF IInv, DestroyedOnce, filters, DownstreamClose, Defer
<1>4. CountedOnce'
  BY DEF IInv, CountedOnce, message, history, DownstreamClose, Defer
<1>5. DecodingProgress'
  BY DEF IInv, DecodingProgress, Decoding, message, filters, history, DownstreamClose, Defer
<1>6. EncodingProgress'
  BY DEF IInv, EncodingProgress, Encoding, message, filters, history, DownstreamClose
<1>7. CallbacksOfLiving'
  BY DEF IInv, CallbacksOfLiving, DownstreamClose, Defer
<1>8. NoFilterSkipped' /\ CanContinue'
  BY DEF IInv, NoFilterSkipped, CanContinue, message, filters, history, DownstreamClose
<1>9. answers' = answers /\ OnlyLate' = OnlyLate /\ AnsweredOnce' = AnsweredOnce
  BY SameAnswers DEF history, DownstreamClose
<1>10. AnsweredOnce'
  BY <1>9 DEF IInv
<1>11. NoEncoderFilterSkipped'
  BY <1>9 DEF IInv, NoEncoderFilterSkipped, history, DownstreamClose
<1>12. AnswersSoFar'
  BY <1>9 DEF IInv, AnswersSoFar, filters, DownstreamClose
<1> QED BY <1>2, <1>3, <1>4, <1>5, <1>6, <1>7, <1>8, <1>10, <1>11, <1>12 DEF IInv

\* DeferredDelete: a filter is in one of the lists; a dual one is told by the first.
LEMMA DeferredDeleteStep ==
    ASSUME IInv, DeferredDelete
    PROVE  IInv'
<1>1. TypeOK /\ UNCHANGED config
  BY DEF IInv, DeferredDelete
<1> USE <1>1, SameLists, Lists
<1>2. TypeOK'
  BY DEF IInv, TypeOK, message, history, DeferredDelete
<1>3. NoFilterSkipped'
  BY DEF IInv, NoFilterSkipped, history, DeferredDelete
<1>4. CanContinue'
  BY DEF IInv, CanContinue, DeferredDelete
<1>5. DestroyedOnce'
  BY DEF IInv, DestroyedOnce, DeferredDelete
<1>6. CountedOnce'
  BY DEF IInv, CountedOnce, message, DeferredDelete
<1>7. DecodingProgress'
  BY DEF IInv, DecodingProgress, Decoding, DeferredDelete, Idle
<1>8. EncodingProgress'
  BY DEF IInv, EncodingProgress, Encoding, history, DeferredDelete, Idle
<1>9. CallbacksOfLiving'
  BY DEF IInv, CallbacksOfLiving, DeferredDelete, Idle
<1>10. answers' = answers /\ OnlyLate' = OnlyLate /\ AnsweredOnce' = AnsweredOnce
  BY SameAnswers DEF history, DeferredDelete
<1>11. AnsweredOnce'
  BY <1>10 DEF IInv
<1>12. NoEncoderFilterSkipped'
  BY <1>10 DEF IInv, NoEncoderFilterSkipped, history, DeferredDelete
<1>13. AnswersSoFar'
  BY <1>10 DEF IInv, AnswersSoFar, history, DeferredDelete
<1> QED BY <1>2, <1>3, <1>4, <1>5, <1>6, <1>7, <1>8, <1>9, <1>11, <1>12, <1>13 DEF IInv

\* OnUpstreamData: the response begins at the first encoder filter.
LEMMA OnUpstreamDataStep ==
    ASSUME IInv, OnUpstreamData
    PROVE  IInv'
<1>1. TypeOK /\ UNCHANGED config
  BY DEF IInv, OnUpstreamData
<1> USE <1>1, SameLists, Lists
<1>2. 1 \in 1..End
  BY DEF IInv, OnUpstreamData
<1> DEFINE next == From(encoder_filters, 1)
<1>3. /\ next \in Nat /\ next \in encoder_filters \cup {End} /\ next >= 1
      /\ \A j \in encoder_filters : j >= 1 => j >= next
      /\ 1 # End => next \in encoder_filters
      /\ 1 \in encoder_filters => next = 1
  BY <1>2, FromFacts
<1> HIDE DEF next
<1>4. TypeOK'
  BY <1>2, <1>3 DEF IInv, TypeOK, next, filters, history, OnUpstreamData, encoderBegin
<1>5. CanContinue'
  BY DEF IInv, CanContinue, filters, OnUpstreamData
<1>6. DecodingProgress'
  BY <1>2, <1>3 DEF IInv, DecodingProgress, Decoding, next, filters, history, OnUpstreamData
<1>7. EncodingProgress'
  BY <1>2, <1>3 DEF IInv, AnswersSoFar, EncodingProgress, next, filters, history,
      OnUpstreamData, Idle, encoderBegin
<1>8. CallbacksOfLiving'
  BY DEF IInv, CallbacksOfLiving, OnUpstreamData, Idle
<1>9. NoFilterSkipped' /\ DestroyedOnce' /\ CountedOnce'
  BY DEF IInv, NoFilterSkipped, DestroyedOnce, CountedOnce, filters, history, OnUpstreamData
<1>10. answers' = answers /\ OnlyLate' = OnlyLate /\ AnsweredOnce' = AnsweredOnce
  BY SameAnswers DEF history, OnUpstreamData
<1>11. AnsweredOnce'
  BY <1>10 DEF IInv
<1>12. NoEncoderFilterSkipped'
  BY <1>10 DEF IInv, NoEncoderFilterSkipped, history, OnUpstreamData
<1>13. AnswersSoFar'
  BY <1>10, <1>2, <1>3 DEF IInv, AnswersSoFar, OnUpstreamData, encoderBegin, next
<1> QED BY <1>4, <1>5, <1>6, <1>7, <1>8, <1>9, <1>11, <1>12, <1>13 DEF IInv

\* EncoderFilterContinues: what lies before the next filter is what lay before this one, and
\* this one.
LEMMA EncoderFilterContinuesStep ==
    ASSUME IInv, EncoderFilterContinues
    PROVE  IInv'
<1>1. TypeOK /\ UNCHANGED config
  BY DEF IInv, EncoderFilterContinues
<1> USE <1>1, SameLists, Lists
<1>2. entry + 1 \in 1..End
  BY DEF IInv, TypeOK, EncoderFilterContinues
<1> DEFINE next == From(encoder_filters, entry + 1)
<1>3. /\ next \in Nat /\ next \in encoder_filters \cup {End} /\ next >= entry + 1
      /\ \A j \in encoder_filters : j >= entry + 1 => j >= next
      /\ entry + 1 # End => next \in encoder_filters
      /\ entry + 1 \in encoder_filters => next = entry + 1
  BY <1>2, FromFacts
<1> HIDE DEF next
<1>4. TypeOK'
  BY <1>2, <1>3 DEF IInv, TypeOK, EncodingProgress, next, message, filters,
      EncoderFilterContinues
<1>5. DecodingProgress'
  BY <1>2, <1>3 DEF IInv, DecodingProgress, Decoding, Encoding, next, filters,
      EncoderFilterContinues
<1>6. EncodingProgress'
  <2>1. /\ entry \in encoder_filters /\ entry # End /\ entry + 1 <= End
        /\ encoded = {i \in encoder_filters : i < entry}
        /\ entry' = next /\ encoded' = encoded \cup {entry}
    BY DEF IInv, EncodingProgress, EncoderFilterContinues, next
  <2>2. next # End => next \in encoder_filters
    BY <2>1, <1>3
  <2>3. \A i \in encoder_filters : i < next <=> i < entry \/ i = entry
    BY <2>1, <1>3
  <2>4. encoded' = {i \in encoder_filters : i < next}
    BY <2>1, <2>3
  <2> QED BY <2>1, <2>2, <2>4 DEF IInv, TypeOK, EncodingProgress, Encoding, message, filters,
                                  EncoderFilterContinues
<1>7. NoFilterSkipped' /\ CanContinue' /\ DestroyedOnce' /\ CountedOnce' /\ CallbacksOfLiving'
  BY DEF IInv, NoFilterSkipped, CanContinue, DestroyedOnce, CountedOnce, CallbacksOfLiving,
      message, filters, EncoderFilterContinues
<1>8. answers' = answers /\ OnlyLate' = OnlyLate /\ AnsweredOnce' = AnsweredOnce
  BY SameAnswers DEF history, EncoderFilterContinues
<1>9. AnsweredOnce'
  BY <1>8 DEF IInv
<1>10. NoEncoderFilterSkipped'
  BY <1>8 DEF IInv, NoEncoderFilterSkipped, EncoderFilterContinues
<1>11. AnswersSoFar'
  BY <1>8, <1>2, <1>3 DEF IInv, AnswersSoFar, EncodingProgress, filters,
      EncoderFilterContinues, next
<1> QED BY <1>4, <1>5, <1>6, <1>7, <1>9, <1>10, <1>11 DEF IInv

\* EncoderFilterPauses: the filters before the current one are those before the one that waits.
LEMMA EncoderFilterPausesStep ==
    ASSUME IInv, EncoderFilterPauses
    PROVE  IInv'
<1>1. TypeOK /\ UNCHANGED config
  BY DEF IInv, EncoderFilterPauses
<1> USE <1>1, SameLists, Lists
<1>2. TypeOK'
  BY DEF IInv, TypeOK, EncodingProgress, message, history, EncoderFilterPauses, StopEncoding,
      Defer
<1>3. NoFilterSkipped'
  BY DEF IInv, NoFilterSkipped, EncodingProgress, history, EncoderFilterPauses, StopEncoding
<1>4. CanContinue'
  BY DEF IInv, CanContinue, EncodingProgress, message, EncoderFilterPauses, StopEncoding
<1>5. DestroyedOnce'
  BY DEF IInv, DestroyedOnce, CallbacksOfLiving, Encoding, EncoderFilterPauses, StopEncoding,
      Defer
<1>6. CountedOnce'
  BY DEF IInv, CountedOnce, message, history, EncoderFilterPauses, StopEncoding, Defer
<1>7. DecodingProgress'
  BY DEF IInv, DecodingProgress, EncodingProgress, Decoding, message, history,
      EncoderFilterPauses, StopEncoding, Defer
<1>8. EncodingProgress'
  BY DEF IInv, EncodingProgress, Encoding, history, EncoderFilterPauses, StopEncoding
<1>9. CallbacksOfLiving'
  BY DEF IInv, CallbacksOfLiving, EncoderFilterPauses, StopEncoding
<1>10. answers' = answers /\ OnlyLate' = OnlyLate /\ AnsweredOnce' = AnsweredOnce
  BY SameAnswers DEF history, EncoderFilterPauses
<1>11. AnsweredOnce'
  BY <1>10 DEF IInv
<1>12. NoEncoderFilterSkipped'
  BY <1>10 DEF IInv, NoEncoderFilterSkipped, history, EncoderFilterPauses
<1>13. AnswersSoFar'
  BY <1>10 DEF IInv, AnswersSoFar, EncodingProgress, EncoderFilterPauses, StopEncoding
<1> QED BY <1>2, <1>3, <1>4, <1>5, <1>6, <1>7, <1>8, <1>9, <1>11, <1>12, <1>13 DEF IInv

\* EncoderFilterRetries: the message is released, with no answer.
LEMMA EncoderFilterRetriesStep ==
    ASSUME IInv, EncoderFilterRetries
    PROVE  IInv'
<1>1. TypeOK /\ UNCHANGED config
  BY DEF IInv, EncoderFilterRetries
<1> USE <1>1, SameLists, Lists
<1>2. TypeOK'
  BY DEF IInv, TypeOK, message, history, EncoderFilterRetries, StopEncoding, Defer
<1>3. NoFilterSkipped'
  BY DEF IInv, NoFilterSkipped, EncodingProgress, history, EncoderFilterRetries, StopEncoding
<1>4. CanContinue'
  BY DEF IInv, CanContinue, EncodingProgress, message, EncoderFilterRetries, StopEncoding
<1>5. DestroyedOnce'
  BY DEF IInv, DestroyedOnce, EncoderFilterRetries, StopEncoding, Defer
<1>6. CountedOnce'
  BY DEF IInv, CountedOnce, message, history, EncoderFilterRetries, StopEncoding, Defer
<1>7. DecodingProgress'
  BY DEF IInv, DecodingProgress, EncodingProgress, Decoding, message, history,
      EncoderFilterRetries, StopEncoding, Defer
<1>8. EncodingProgress'
  BY DEF IInv, EncodingProgress, message, history, EncoderFilterRetries, StopEncoding
<1>9. CallbacksOfLiving'
  BY DEF IInv, CallbacksOfLiving, EncoderFilterRetries, StopEncoding
<1>10. answers' = answers /\ OnlyLate' = OnlyLate /\ AnsweredOnce' = AnsweredOnce
  BY SameAnswers DEF history, EncoderFilterRetries
<1>11. AnsweredOnce'
  BY <1>10 DEF IInv
<1>12. NoEncoderFilterSkipped'
  BY <1>10 DEF IInv, NoEncoderFilterSkipped, history, EncoderFilterRetries
<1>13. AnswersSoFar'
  BY <1>10 DEF IInv, AnswersSoFar, EncoderFilterRetries, StopEncoding
<1> QED BY <1>2, <1>3, <1>4, <1>5, <1>6, <1>7, <1>8, <1>9, <1>11, <1>12, <1>13 DEF IInv

\* EncoderFilterReplies: the reply is the first answer.
LEMMA EncoderFilterRepliesStep ==
    ASSUME IInv, EncoderFilterReplies
    PROVE  IInv'
<1>1. TypeOK /\ UNCHANGED config
  BY DEF IInv, EncoderFilterReplies
<1> USE <1>1, SameLists, Lists
<1>2. Encoding /\ entry # End /\ answers = <<>> /\ OnlyLate
  BY NoAnswer DEF IInv, EncodingProgress, EncoderFilterReplies
<1>3. /\ answers' \in Seq({"reply", "late_reply", "encoder_reply", "response"})
      /\ answers' = <<>> => connection = "Closed"
      /\ answers' # <<>> => answers' = <<"encoder_reply">>
      /\ answers' # <<>> => answers'[1] # "response"
      /\ AnsweredOnce'
  BY <1>2, WrittenAnswers DEF IInv, EncoderFilterReplies
<1>4. TypeOK'
  BY <1>3 DEF IInv, TypeOK, message, filters, EncoderFilterReplies
<1>5. NoEncoderFilterSkipped'
  BY <1>3 DEF NoEncoderFilterSkipped
<1>6. DecodingProgress'
  BY DEF IInv, TypeOK, CanContinue, DecodingProgress, EncodingProgress, Decoding, Encoding,
      message, filters, EncoderFilterReplies
<1>7. EncodingProgress'
  BY DEF IInv, TypeOK, EncodingProgress, Decoding, Encoding, message, filters,
      EncoderFilterReplies
<1>8. NoFilterSkipped' /\ CanContinue' /\ DestroyedOnce' /\ CountedOnce' /\ CallbacksOfLiving'
  BY DEF IInv, NoFilterSkipped, CanContinue, DestroyedOnce, CountedOnce, CallbacksOfLiving,
      message, filters, EncoderFilterReplies
<1>9. AnswersSoFar'
  <2>1. answers' = <<>> => OnlyLate'
    BY DEF OnlyLate
  <2>2. upstream = "connected" \/ (upstream = "spent" /\ pc # "upstreamData")
    BY <1>2 DEF IInv, EncodingProgress, Encoding
  <2> QED BY <1>3, <2>1, <2>2 DEF IInv, AnswersSoFar, EncodingProgress, Encoding, filters,
          EncoderFilterReplies
<1> QED BY <1>3, <1>4, <1>5, <1>6, <1>7, <1>8, <1>9 DEF IInv

\* EncodingEnds: the response is the first answer, and all filters have passed it, or it
\* follows late replies or the reply of a dual filter.
LEMMA EncodingEndsStep ==
    ASSUME IInv, EncodingEnds
    PROVE  IInv'
<1>1. TypeOK /\ UNCHANGED config
  BY DEF IInv, EncodingEnds
<1> USE <1>1, SameLists, Lists
<1>2. /\ answers' \in Seq({"reply", "late_reply", "encoder_reply", "response"})
      /\ AnsweredOnce' /\ NoEncoderFilterSkipped'
      /\ local_response_sent' /\ answers' = <<>> => connection = "Closed"
  <2>1. CASE pc # "upstreamData"
    <3>1. answers' = answers /\ local_response_sent' = local_response_sent /\ encoded' = encoded
      BY <2>1 DEF EncodingEnds
    <3> QED BY <3>1, SameAnswers DEF IInv, TypeOK, AnswersSoFar, NoEncoderFilterSkipped
  <2>2. CASE pc = "upstreamData"
    <3>1. Write("response") /\ encoded' = encoded /\ pc = "upstreamData" /\ entry = End
      BY <2>2 DEF EncodingEnds
    <3>2. /\ answers' \in Seq({"reply", "late_reply", "encoder_reply", "response"})
          /\ answers' = <<>> => connection = "Closed"
          /\ answers # <<>> => answers'[1] = answers[1]
          /\ OnlyLate => AnsweredOnce'
      BY <3>1, WrittenAnswers DEF IInv
    <3>3. answers' = answers \/ (connection = "Open" /\ answers' = Append(answers, "response"))
      BY <3>1 DEF Write
    <3>4. CASE OnlyLate /\ (answers = <<>> => encoder_filters \subseteq encoded
                                              \/ connection = "Closed")
      <4>1. answers # <<>> => answers[1] = "late_reply"
        BY <3>4 DEF IInv, TypeOK, OnlyLate
      <4>2. NoEncoderFilterSkipped'
        BY <3>1, <3>2, <3>3, <3>4, <4>1 DEF NoEncoderFilterSkipped
      <4> QED BY <3>2, <3>4, <4>2
    <3>5. CASE answers = <<"encoder_reply">>
      <4>1. answers # <<>> /\ answers[1] = "encoder_reply"
        BY <3>5, OneAnswer
      <4>2. NoEncoderFilterSkipped'
        BY <3>2, <4>1 DEF NoEncoderFilterSkipped
      <4>3. AnsweredOnce'
        BY <3>3, <3>5, ResponseAfterEncoderReply, SameAnswers DEF IInv
      <4> QED BY <3>2, <4>2, <4>3
    <3> QED BY <3>1, <3>4, <3>5 DEF IInv, AnswersSoFar
  <2> QED BY <2>1, <2>2
<1>3. TypeOK'
  BY <1>2 DEF IInv, TypeOK, EncodingEnds, Defer
<1>4. NoFilterSkipped'
  BY DEF IInv, NoFilterSkipped, EncodingProgress, EncodingEnds
<1>5. CanContinue'
  BY DEF IInv, CanContinue, EncodingProgress, EncodingEnds
<1>6. DestroyedOnce'
  BY DEF IInv, DestroyedOnce, EncodingEnds, Defer
<1>7. CountedOnce'
  BY DEF IInv, CountedOnce, EncodingEnds, Defer
<1>8. DecodingProgress'
  BY DEF IInv, TypeOK, CanContinue, DecodingProgress, EncodingProgress, Decoding, EncodingEnds,
      Defer
<1>9. EncodingProgress'
  BY DEF IInv, EncodingProgress, Encoding, EncodingEnds
<1>10. CallbacksOfLiving'
  BY DEF IInv, CallbacksOfLiving, EncodingEnds
<1>11. AnswersSoFar'
  <2>1. pc' = "idle" /\ upstream' = "spent" /\ encoder_paused' = 0 /\ connection' = connection
    BY DEF IInv, EncodingProgress, Encoding, EncodingEnds
  <2> QED BY <1>2, <2>1 DEF AnswersSoFar
<1> QED BY <1>2, <1>3, <1>4, <1>5, <1>6, <1>7, <1>8, <1>9, <1>10, <1>11 DEF IInv

\* ContinueEncoding: what lies before the next filter is what lay before the one that
\* waited, and that one.
LEMMA ContinueEncodingStep ==
    ASSUME IInv, ContinueEncoding
    PROVE  IInv'
<1>1. TypeOK /\ UNCHANGED config
  BY DEF IInv, ContinueEncoding
<1> USE <1>1, SameLists, Lists
<1>2. encoder_paused + 1 \in 1..End
  BY DEF IInv, TypeOK, ContinueEncoding
<1> DEFINE next == From(encoder_filters, encoder_paused + 1)
<1>3. /\ next \in Nat /\ next \in encoder_filters \cup {End} /\ next >= encoder_paused + 1
      /\ \A j \in encoder_filters : j >= encoder_paused + 1 => j >= next
      /\ encoder_paused + 1 # End => next \in encoder_filters
      /\ encoder_paused + 1 \in encoder_filters => next = encoder_paused + 1
  BY <1>2, FromFacts
<1> HIDE DEF next
<1>4. TypeOK'
  BY <1>2, <1>3 DEF IInv, TypeOK, next, message, ContinueEncoding, commonEncodePrefix
<1>5. CanContinue'
  BY DEF IInv, CanContinue, message, ContinueEncoding
<1>6. DestroyedOnce'
  BY DEF IInv, DestroyedOnce, ContinueEncoding
<1>7. DecodingProgress'
  BY <1>2, <1>3 DEF IInv, DecodingProgress, Decoding, next, ContinueEncoding, Idle
<1>8. EncodingProgress'
  BY <1>2, <1>3 DEF IInv, TypeOK, CanContinue, AnswersSoFar, EncodingProgress, Encoding, next,
      message, ContinueEncoding, Idle, commonEncodePrefix
<1>9. CallbacksOfLiving'
  BY DEF IInv, CallbacksOfLiving, ContinueEncoding, Idle
<1>10. NoFilterSkipped' /\ CountedOnce'
  BY DEF IInv, NoFilterSkipped, CountedOnce, message, ContinueEncoding
<1>11. answers' = answers /\ OnlyLate' = OnlyLate /\ AnsweredOnce' = AnsweredOnce
  BY SameAnswers DEF history, ContinueEncoding
<1>12. AnsweredOnce'
  BY <1>11 DEF IInv
<1>13. NoEncoderFilterSkipped'
  BY <1>11 DEF IInv, NoEncoderFilterSkipped, ContinueEncoding
<1>14. AnswersSoFar'
  BY <1>11 DEF IInv, AnswersSoFar, Idle, ContinueEncoding
<1> QED BY <1>4, <1>5, <1>6, <1>7, <1>8, <1>9, <1>10, <1>12, <1>13, <1>14 DEF IInv

\* A message that has just been created satisfies the invariant.
LEMMA InitIInv == Init => IInv
<1> SUFFICES ASSUME Init PROVE IInv
  OBVIOUS
<1>1. Len(chain) \in Nat
  BY ChainAssumption DEF Init
<1>2. /\ Router \in Nat /\ Router >= 1 /\ End = Router + 1 /\ entry = End
      /\ Router \in encoder_filters
  BY <1>1 DEF Init, Router, End, encoder_filters
<1>3. TypeOK
  <2>1. chain \in Chains
    BY DEF Init
  <2>2. /\ one_way \in BOOLEAN /\ filter_action \in BOOLEAN /\ encoder_filter_action \in BOOLEAN
        /\ pending_stream_decoded \in BOOLEAN /\ local_response_sent \in BOOLEAN
    BY DEF Init
  <2>3. /\ request \in Nat /\ pauses \in Nat /\ entry \in 1..End
        /\ destroyed \in [1..Router -> Nat]
    BY <1>2 DEF Init
  <2>4. /\ paused \in {0} \cup decoder_filters
        /\ encoder_paused \in {0} \cup (encoder_filters \ {Router})
        /\ passed \subseteq decoder_filters /\ encoded \subseteq encoder_filters
        /\ answers \in Seq({"reply", "late_reply", "encoder_reply", "response"})
    BY DEF Init
  <2>5. /\ connection \in {"Open", "Closed"} /\ life \in {"new", "active", "deferred", "deleted"}
        /\ upstream \in {"null", "waiting", "connected", "spent"}
        /\ pc \in {"idle", "onStreamDecoded", "continueDecoding", "upstreamData",
                  "continueEncoding"}
    BY DEF Init
  <2> QED BY <2>1, <2>2, <2>3, <2>4, <2>5 DEF TypeOK
<1>4. answers = <<>> /\ Len(answers) = 0 /\ DOMAIN answers = {}
  BY DEF Init
<1>5. NoFilterSkipped /\ NoEncoderFilterSkipped /\ AnsweredOnce
  BY <1>4 DEF Init, NoFilterSkipped, NoEncoderFilterSkipped, AnsweredOnce
<1>6. CanContinue /\ DestroyedOnce /\ CountedOnce
  BY <1>2 DEF Init, CanContinue, DestroyedOnce, CountedOnce
<1>7. DecodingProgress /\ EncodingProgress /\ CallbacksOfLiving
  BY <1>2 DEF Init, DecodingProgress, EncodingProgress, CallbacksOfLiving, Decoding, Encoding
<1>8. AnswersSoFar
  BY <1>4 DEF Init, AnswersSoFar, OnlyLate
<1> QED BY <1>3, <1>5, <1>6, <1>7, <1>8 DEF IInv

\* Nothing changes in a stuttering step.
LEMMA StutteringStep == ASSUME IInv, UNCHANGED vars PROVE IInv'
<1>1. TypeOK /\ UNCHANGED config
  BY DEF IInv, vars
<1> USE <1>1, SameLists DEF IInv, vars, message, filters, history
<1>2. TypeOK'
  BY DEF TypeOK
<1>3. NoFilterSkipped'
  BY DEF NoFilterSkipped
<1>4. NoEncoderFilterSkipped'
  BY DEF NoEncoderFilterSkipped
<1>5. CanContinue'
  BY DEF CanContinue
<1>6. AnsweredOnce'
  BY DEF AnsweredOnce
<1>7. DestroyedOnce'
  BY DEF DestroyedOnce
<1>8. CountedOnce'
  BY DEF CountedOnce
<1>9. DecodingProgress'
  BY DEF DecodingProgress, Decoding, Encoding
<1>10. EncodingProgress'
  BY DEF EncodingProgress, Decoding, Encoding
<1>11. CallbacksOfLiving'
  BY DEF CallbacksOfLiving
<1>12. AnswersSoFar'
  BY SameAnswers DEF AnswersSoFar
<1> QED BY <1>2, <1>3, <1>4, <1>5, <1>6, <1>7, <1>8, <1>9, <1>10, <1>11, <1>12

\* Every step of applyDecoderFilters keeps the invariant.
LEMMA DecodingStepIInv == ASSUME IInv, DecodingStep PROVE IInv'
<1>1. CASE DecoderFilterContinues
  BY <1>1, DecoderFilterContinuesStep
<1>2. CASE DecoderFilterPauses
  BY <1>2, DecoderFilterPausesStep
<1>3. CASE DecoderFilterResets
  BY <1>3, DecoderFilterResetsStep
<1>4. CASE DecoderFilterReplies
  BY <1>4, DecoderFilterRepliesStep
<1>5. CASE RouterReplies
  BY <1>5, RouterRepliesStep
<1>6. CASE RouterResets
  BY <1>6, RouterResetsStep
<1>7. CASE RouterSends
  BY <1>7, RouterSendsStep
<1>8. CASE RouterPauses
  BY <1>8, RouterPausesStep
<1>9. CASE DecodingEnds
  BY <1>9, DecodingEndsStep
<1> QED BY <1>1, <1>2, <1>3, <1>4, <1>5, <1>6, <1>7, <1>8, <1>9 DEF DecodingStep

\* Every step of applyEncoderFilters keeps the invariant.
LEMMA EncodingStepIInv == ASSUME IInv, EncodingStep PROVE IInv'
<1>1. CASE EncoderFilterContinues
  BY <1>1, EncoderFilterContinuesStep
<1>2. CASE EncoderFilterPauses
  BY <1>2, EncoderFilterPausesStep
<1>3. CASE EncoderFilterRetries
  BY <1>3, EncoderFilterRetriesStep
<1>4. CASE EncoderFilterReplies
  BY <1>4, EncoderFilterRepliesStep
<1>5. CASE EncodingEnds
  BY <1>5, EncodingEndsStep
<1> QED BY <1>1, <1>2, <1>3, <1>4, <1>5 DEF EncodingStep

\* Every step keeps the invariant.
LEMMA NextIInv == IInv /\ [Next]_vars => IInv'
<1> SUFFICES ASSUME IInv, [Next]_vars PROVE IInv'
  OBVIOUS
<1>1. CASE OnStreamDecoded
  BY <1>1, OnStreamDecodedStep
<1>2. CASE ContinueDecoding
  BY <1>2, ContinueDecodingStep
<1>3. CASE SendLocalReply
  BY <1>3, SendLocalReplyStep
<1>4. CASE ResetStream
  BY <1>4, ResetStreamStep
<1>5. CASE OnPoolReady
  BY <1>5, OnPoolReadyStep
<1>6. CASE OnPoolFailure
  BY <1>6, OnPoolFailureStep
<1>7. CASE OnUpstreamClose
  BY <1>7, OnUpstreamCloseStep
<1>8. CASE DownstreamClose
  BY <1>8, DownstreamCloseStep
<1>9. CASE DeferredDelete
  BY <1>9, DeferredDeleteStep
<1>10. CASE OnUpstreamData
  BY <1>10, OnUpstreamDataStep
<1>11. CASE ContinueEncoding
  BY <1>11, ContinueEncodingStep
<1>12. CASE DecodingStep
  BY <1>12, DecodingStepIInv
<1>13. CASE EncodingStep
  BY <1>13, EncodingStepIInv
<1>14. CASE UNCHANGED vars
  BY <1>14, StutteringStep
<1> QED
  BY <1>1, <1>2, <1>3, <1>4, <1>5, <1>6, <1>7, <1>8, <1>9,
     <1>10, <1>11, <1>12, <1>13, <1>14 DEF Next

\* The inductive invariant holds for all configurations, whenever the filters reply, reset or
\* close, and however often they stop the iteration.
THEOREM FilterChainInvariant == Spec => []IInv
BY InitIInv, NextIInv, PTL DEF Spec

\* Every variable keeps its type (the fields of ActiveMessage and its filter wrappers).
THEOREM TypeCorrect == Spec => []TypeOK
<1>1. IInv => TypeOK
  BY DEF IInv
<1> QED BY <1>1, FilterChainInvariant, PTL

\* In applyDecoderFilters, no configured decoder filter is ever passed over: the router acts
\* on a request only when all of them have returned Continue for it or continued it.
THEOREM NoFilterSkippedCorrect == Spec => []NoFilterSkipped
<1>1. IInv => NoFilterSkipped
  BY DEF IInv
<1> QED BY <1>1, FilterChainInvariant, PTL

\* In applyEncoderFilters, the response of a server is a client's first answer only when all
\* encoder filters have let it pass; only behind a reply is it written past them.
THEOREM NoEncoderFilterSkippedCorrect == Spec => []NoEncoderFilterSkipped
<1>1. IInv => NoEncoderFilterSkipped
  BY DEF IInv
<1> QED BY <1>1, FilterChainInvariant, PTL

\* The assertions of continueDecoding and continueEncoding never fail for a filter that waits.
THEOREM CanContinueCorrect == Spec => []CanContinue
<1>1. IInv => CanContinue
  BY DEF IInv
<1> QED BY <1>1, FilterChainInvariant, PTL

\* Apart from the late replies of filters, sendLocalReply and upstreamData write one answer to
\* a message at most, but for the reply of a dual filter to a response.
THEOREM AnsweredOnceCorrect == Spec => []AnsweredOnce
<1>1. IInv => AnsweredOnce
  BY DEF IInv
<1> QED BY <1>1, FilterChainInvariant, PTL

\* The destructor of ActiveMessage calls onDestroy once for each filter and leaves nothing
\* behind that could call the message.
THEOREM DestroyedOnceCorrect == Spec => []DestroyedOnce
<1>1. IInv => DestroyedOnce
  BY DEF IInv
<1> QED BY <1>1, FilterChainInvariant, PTL

\* FinalizeRequest counts a message at most once.
THEOREM CountedOnceCorrect == Spec => []CountedOnce
<1>1. IInv => CountedOnce
  BY DEF IInv
<1> QED BY <1>1, FilterChainInvariant, PTL

\* No filter that has let a message pass is called with it again by continueDecoding or
\* continueEncoding.
THEOREM SeenOnceCorrect == Spec => []SeenOnce
<1>1. ASSUME IInv PROVE SeenOnce
  <2>1. CASE Decoding /\ entry < End
    <3>1. End \in Nat /\ entry # End /\ ~Encoding
      BY <1>1, <2>1, Lists DEF IInv, Decoding, Encoding
    <3>2. passed = {i \in decoder_filters : i < entry} /\ entry \in Nat
      BY <1>1, <2>1, <3>1, Lists DEF IInv, TypeOK, DecodingProgress
    <3> QED BY <3>1, <3>2 DEF SeenOnce
  <2>2. CASE Encoding /\ entry < End
    <3>1. End \in Nat /\ entry # End /\ ~Decoding
      BY <1>1, <2>2, Lists DEF IInv, Decoding, Encoding
    <3>2. encoded = {i \in encoder_filters : i < entry} /\ entry \in Nat
      BY <1>1, <2>2, <3>1, Lists DEF IInv, TypeOK, EncodingProgress
    <3> QED BY <3>1, <3>2 DEF SeenOnce
  <2> QED BY <2>1, <2>2 DEF SeenOnce
<1> QED BY <1>1, FilterChainInvariant, PTL

\* The iterations of applyDecoderFilters and applyEncoderFilters call each filter in turn,
\* wherever a filter has interrupted them: none is left out of a request that is sent or of a
\* response that is a client's first answer, and none that let it pass is called again.
THEOREM EachFilterInTurnCorrect == Spec => []EachFilterInTurn
BY NoFilterSkippedCorrect, NoEncoderFilterSkippedCorrect, SeenOnceCorrect, PTL
DEF EachFilterInTurn

\* sendLocalReply, apart from late replies, upstreamData and FinalizeRequest finish a message
\* once.
THEOREM FinishedOnceCorrect == Spec => []FinishedOnce
BY AnsweredOnceCorrect, CountedOnceCorrect, PTL DEF FinishedOnce

\* sendLocalReply, whenever it is called, ends a request that the router has not yet taken to
\* the pool; if the pool has it, it is sent when the connection is ready, and FinalizeRequest
\* releases the message then.
THEOREM ReplyEndsRequestCorrect == Spec => ReplyEndsRequest
<1>1. ASSUME IInv, [Next]_vars
      PROVE  [local_response_sent =>
                /\ upstream \notin {"waiting", "connected"} =>
                     upstream' \notin {"waiting", "connected"}
                /\ upstream = "waiting" /\ upstream' = "connected" => life' = "deferred"]_vars
  <2> SUFFICES ASSUME local_response_sent, Next
               PROVE  /\ upstream \notin {"waiting", "connected"} =>
                           upstream' \notin {"waiting", "connected"}
                      /\ upstream = "waiting" /\ upstream' = "connected" => life' = "deferred"
    BY <1>1
  <2>1. CASE DecodingStep
    <3>1. ~(RouterSends \/ RouterPauses) /\ (Decoding => upstream # "waiting")
      <4>1. ASSUME Decoding, entry = Router PROVE FALSE
        BY <1>1, <4>1, Lists DEF IInv, DecodingProgress
      <4> QED BY <1>1, <4>1 DEF RouterSends, RouterPauses, IInv, DecodingProgress
    <3> QED BY <2>1, <3>1 DEF DecodingStep, filters, DecoderFilterContinues, DecoderFilterPauses,
          DecoderFilterResets, DecoderFilterReplies, RouterReplies, RouterResets, DecodingEnds
  <2>2. CASE EncodingStep
    BY <2>2 DEF EncodingStep, filters, EncoderFilterContinues, EncoderFilterPauses,
          EncoderFilterRetries, EncoderFilterReplies, EncodingEnds, StopEncoding
  <2>3. CASE \/ OnStreamDecoded \/ ContinueDecoding \/ SendLocalReply \/ ResetStream
             \/ OnUpstreamData \/ ContinueEncoding \/ DownstreamClose \/ DeferredDelete
    BY <2>3 DEF filters, OnStreamDecoded, ContinueDecoding, SendLocalReply, ResetStream,
          OnUpstreamData, ContinueEncoding, DownstreamClose, DeferredDelete
  <2>4. CASE OnPoolReady
    <3>1. upstream = "waiting" /\ pending_stream_decoded /\ life \in {"active", "deferred"}
      BY <1>1, <2>4, Lists DEF IInv, CanContinue, OnPoolReady, Idle
    <3>2. life' = Defer(life)
      BY <2>4, <3>1 DEF OnPoolReady, Continued, FinalizeRequest
    <3> QED BY <3>1, <3>2 DEF Defer
  <2>5. CASE OnPoolFailure \/ OnUpstreamClose
    BY <2>5 DEF OnPoolFailure, OnUpstreamClose
  <2> QED BY <2>1, <2>2, <2>3, <2>4, <2>5 DEF Next
<1> QED BY <1>1, FilterChainInvariant, PTL DEF Spec, ReplyEndsRequest

=============================================================================
