------------------------------ MODULE Delivery ------------------------------
(***************************************************************************)
(* What an outbox promises: an event that was recorded is settled at most  *)
(* once and for good, either delivered or lost because it came too late.   *)
(* A message may be given to the sink any number of times before and even  *)
(* after that, but a delivered message was given to it at least once.      *)
(***************************************************************************)
CONSTANTS
    Events,
    Messages          \* the events whose delivery is a message

VARIABLES
    phase,            \* of every event
    sent,             \* messages given to the sink
    late              \* messages whose time is over

vars == <<phase, sent, late>>

Init ==
    /\ phase = [e \in Events |-> "none"]
    /\ sent = {} /\ late = {}

Record(e) == phase[e] = "none" /\ phase' = [phase EXCEPT ![e] = "pending"]

\* What is done within the transaction that records it.
RecordDone(e) == phase[e] = "none" /\ e \notin Messages /\ phase' = [phase EXCEPT ![e] = "delivered"]

\* A batch settles all of its events together.
Settle(done, lost) ==
    /\ \A e \in done \cup lost : phase[e] = "pending"
    /\ done \cap lost = {} /\ done \cap Messages \subseteq sent
    /\ lost \subseteq late \cap Messages
    /\ phase' = [e \in Events |-> IF e \in done THEN "delivered" ELSE IF e \in lost THEN "lost" ELSE phase[e]]

Next ==
    \/ /\ \/ \E e \in Events : Record(e) \/ RecordDone(e)
          \/ \E done, lost \in SUBSET Events : Settle(done, lost)
       /\ UNCHANGED <<sent, late>>
    \/ \E e \in Messages : sent' = sent \cup {e} /\ phase[e] # "lost" /\ UNCHANGED <<phase, late>>
    \/ \E e \in Messages : late' = late \cup {e} /\ UNCHANGED <<phase, sent>>

Spec == Init /\ [][Next]_vars
=============================================================================
