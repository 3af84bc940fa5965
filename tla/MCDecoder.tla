----------------------------- MODULE MCDecoder -----------------------------
(***************************************************************************)
(* Model checking of Decoder: the refinement of FrameStream.               *)
(***************************************************************************)
EXTENDS Decoder

\* The frames that have arrived to the last byte.
WholeFrames == {i \in Frames : ends[i] <= arrived}

Promise == INSTANCE FrameStream WITH
    whole <- WholeFrames,
    broken <- (error # "none")

\* Whatever way the bytes are cut, and whichever callback enters dispatch(): each
\* whole frame is handed over once, in order, up to the first invalid one.
ImplementsFrameStream == Promise!Spec
=============================================================================
