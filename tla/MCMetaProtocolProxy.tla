------------------------ MODULE MCMetaProtocolProxy ------------------------
(***************************************************************************)
(* Model checking of MetaProtocolProxy: the bounds are given in the .cfg    *)
(* files.  This module adds the refinement of RequestLifecycle, and what    *)
(* comments of the source say of the program where the code does otherwise. *)
(***************************************************************************)
EXTENDS MetaProtocolProxy

\* The phase the client sees a message in.  A message answered locally may stay
\* in the list; it is answered.
Phase(m) ==
    CASE kind[m] = "none" -> "unseen"
      [] kind[m] = "Request" /\ upstream_replies[m] + local_replies[m] > 0 -> "answered"
      [] OTHER -> IF m \in active_message_list THEN "inFlight" ELSE "gone"

Lifecycle == INSTANCE RequestLifecycle WITH
    open <- (down = "Open"),
    type <- kind,
    phase <- [m \in Messages |-> Phase(m)]

\* The connection keeps the promise of RequestLifecycle: every step of the code is
\* a step of the lifecycle or invisible to the client.
KeepsLifecycle == Lifecycle!Spec

----------------------------------------------------------------------------
(* Claims of the source that the code does not keep.                       *)

\* router_impl.cc:358-361: a message answered after its filter's callback ended is
\* released by resetStream.
ReleasedAfterLocalReply ==
    pc = "idle" => \A m \in active_message_list : ~local_response_sent[m]

\* conn_manager.cc:33-35: a one-way request that waits for an upstream connection
\* when the client half-closes may complete.
OnewaySurvivesHalfClose ==
    [][pc = "return" /\ call.from = "onData" /\ pc' = "idle"
       /\ active_message_list # {}
       /\ kind[Newest] = "Oneway" /\ pending_stream_decoded[Newest]
          => Newest \in active_message_list']_vars
=============================================================================
