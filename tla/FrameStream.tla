---------------------------- MODULE FrameStream ----------------------------
(***************************************************************************)
(* What the decoding of a connection promises, whatever way the bytes are  *)
(* cut: the frames that have arrived are handed over once each, in the     *)
(* order of the stream, up to the first one that is not valid.             *)
(*                                                                         *)
(* A codec that takes an invalid frame out of the buffer reads on behind   *)
(* it, when it is called again: what it finds there is nobody's frame.     *)
(***************************************************************************)
EXTENDS Integers, Sequences

CONSTANT MaxFrames      \* the frames of the stream

Frames == 1..MaxFrames

\* "Bad" is refused again however often it is decoded; "BadStart" is refused
\* once, and what follows is read as if a frame began there.
Kinds == {"Message", "Heartbeat", "Bad", "BadStart"}
Valid == {"Message", "Heartbeat"}

VARIABLES
    kinds,      \* the stream; it does not change
    whole,      \* the frames that have arrived to the last byte
    delivered,  \* the frames handed over, in that order
    broken,     \* an error has been found
    strays      \* messages made of what lies behind a taken error

vars == <<kinds, whole, delivered, broken, strays>>

Upcoming == Len(delivered) + 1

Init ==
    /\ kinds \in [Frames -> Kinds]
    /\ whole = {} /\ delivered = <<>> /\ broken = FALSE /\ strays = 0

Arrive ==
    /\ \E more \in SUBSET Frames : whole' = whole \cup more
    /\ UNCHANGED <<kinds, delivered, broken, strays>>

Deliver ==
    /\ ~broken
    /\ Upcoming \in whole /\ kinds[Upcoming] \in Valid
    /\ delivered' = Append(delivered, Upcoming)
    /\ UNCHANGED <<kinds, whole, broken, strays>>

\* An invalid frame may be recognised by its first bytes.
Break ==
    /\ ~broken
    /\ Upcoming \in Frames /\ kinds[Upcoming] \notin Valid
    /\ broken' = TRUE
    /\ UNCHANGED <<kinds, whole, delivered, strays>>

Stray ==
    /\ broken /\ kinds[Upcoming] = "BadStart"
    /\ strays' = strays + 1
    /\ UNCHANGED <<kinds, whole, delivered, broken>>

Next == Arrive \/ Deliver \/ Break \/ Stray

Safety == Init /\ [][Next]_vars

\* Nothing that is whole waits for ever.
Spec == Safety /\ WF_vars(Deliver) /\ WF_vars(Break /\ Upcoming \in whole)
=============================================================================
