--------------------------- MODULE MCDubboCodec ---------------------------
(***************************************************************************)
(* DubboCodec with messages of every kind, good and bad, and what a        *)
(* comment says of the status of responses.                                *)
(***************************************************************************)
EXTENDS DubboCodec

Requests ==
    [magic : {TRUE}, request : {TRUE}, event : BOOLEAN, two_way : BOOLEAN,
     serialization : {"Hessian2", "Other"}, status : {"Other"}, request_id : {1},
     body_size : {0, 1, 2, MaxBodySize + 1}, body : {"Invocation", "Unreadable"},
     body_offset : {1, 2}]

Responses ==
    [magic : {TRUE}, request : {FALSE}, event : BOOLEAN, two_way : {FALSE},
     serialization : {"Other"}, status : {"Ok", "BadResponse", "ServerError"},
     request_id : {2}, body_size : {-1, 0, 1, 2}, body : BodyKinds, body_offset : {1, 2}]

NoMagic == [(CHOOSE m \in Requests : m.serialization = "Hessian2") EXCEPT !.magic = FALSE]

AllMessages == Requests \cup Responses \cup {NoMagic}

\* isValidResponseStatus is "Consistent with the ResponseStatus" (dubbo_protocol_impl.cc:38),
\* so a codec decodes every reply that a codec encodes.
ErrorRepliesDecode == [][reply' # reply => IsMessage(reply')]_vars
=============================================================================
