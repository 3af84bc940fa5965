--------------------------- MODULE MCFilterChain ---------------------------
(***************************************************************************)
(* FilterChain with every configuration of a few filters, and claims of    *)
(* comments that the code does not keep.                                   *)
(***************************************************************************)
EXTENDS FilterChain

AllChains == UNION {[1..n -> Kinds] : n \in 0..3}

\* "calling continueDecoding()/continueEncoding() MUST be called if continued filter
\* iteration is desired" and "a retry is required for the reply message received"
\* (decoder_event_handler.h:16 and 19): a message is kept for the filter that stops the
\* iteration of its response, to continue it or to have the request sent again.
HeldResponseKept ==
    [][EncoderFilterPauses \/ EncoderFilterRetries => life' = life]_vars
=============================================================================
