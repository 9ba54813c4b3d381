----------------------------- MODULE AtLeastOnce -----------------------------
(***************************************************************************)
(* What the QoS 1 half of the MQTT client promises its callers.  A message *)
(* whose publish returned success is held until the broker has seen it,    *)
(* possibly several times, and only then let go; a message whose publish   *)
(* failed never reaches the broker.                                        *)
(***************************************************************************)
CONSTANT Msgs
VARIABLES
  status,      \* of each message: "new", "held" or "settled"
  delivered    \* the messages the broker has seen

vars == <<status, delivered>>

Init ==
  /\ status = [m \in Msgs |-> "new"]
  /\ delivered = {}

\* publish returns success
Accept(m) ==
  /\ status[m] = "new"
  /\ status' = [status EXCEPT ![m] = "held"]
  /\ UNCHANGED delivered

\* the broker sees the message for the first time
Deliver(m) ==
  /\ status[m] = "held" /\ m \notin delivered
  /\ delivered' = delivered \cup {m}
  /\ UNCHANGED status

\* the client stops holding the message
Settle(m) ==
  /\ status[m] = "held" /\ m \in delivered
  /\ status' = [status EXCEPT ![m] = "settled"]
  /\ UNCHANGED delivered

Next == \E m \in Msgs : Accept(m) \/ Deliver(m) \/ Settle(m)

Spec == Init /\ [][Next]_vars
=============================================================================
