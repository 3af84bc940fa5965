-------------------------- MODULE RequestLifecycle --------------------------
(***************************************************************************)
(* What the proxy promises the client of one downstream connection, without *)
(* filters, pools or upstreams.  A two-way request that was accepted stays  *)
(* in flight until it is answered or the connection closes, is answered     *)
(* only over an open connection, and nothing is in flight once it closed.   *)
(* A one-way request may be finished at any time.                           *)
(***************************************************************************)
CONSTANTS Messages

VARIABLES
    open,   \* may the proxy still write to the client?
    type,   \* of each message: "none" before it arrives
    phase   \* "unseen", "inFlight", "answered" or "gone"

lifecycleVars == <<open, type, phase>>

Init ==
    /\ open = TRUE
    /\ type = [m \in Messages |-> "none"]
    /\ phase = [m \in Messages |-> "unseen"]

\* A request arrives; the proxy may settle it at once.
Receive(m) ==
    /\ open /\ phase[m] = "unseen"
    /\ \/ /\ type' = [type EXCEPT ![m] = "Request"]
          /\ phase' \in {[phase EXCEPT ![m] = p] : p \in {"inFlight", "answered"}}
       \/ /\ type' = [type EXCEPT ![m] = "Oneway"]
          /\ phase' \in {[phase EXCEPT ![m] = p] : p \in {"inFlight", "gone"}}
    /\ UNCHANGED open

Answer(m) ==
    /\ open /\ type[m] = "Request" /\ phase[m] = "inFlight"
    /\ phase' = [phase EXCEPT ![m] = "answered"]
    /\ UNCHANGED <<open, type>>

FinishOneway(m) ==
    /\ type[m] = "Oneway" /\ phase[m] = "inFlight"
    /\ phase' = [phase EXCEPT ![m] = "gone"]
    /\ UNCHANGED <<open, type>>

Close ==
    /\ open /\ open' = FALSE
    /\ phase' = [m \in Messages |-> IF phase[m] = "inFlight" THEN "gone" ELSE phase[m]]
    /\ UNCHANGED type

Next ==
    \/ \E m \in Messages : Receive(m) \/ Answer(m) \/ FinishOneway(m)
    \/ Close

Spec == Init /\ [][Next]_lifecycleVars
=============================================================================
