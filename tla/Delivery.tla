------------------------------ MODULE Delivery ------------------------------
(***************************************************************************)
(* What ObservabilityOutbox promises its caller: an accepted event stays   *)
(* queued until it has been handed to the transport at least once; being   *)
(* accepted again while queued changes nothing.                            *)
(***************************************************************************)
CONSTANT Event

VARIABLES accepted,  \* events ever enqueued
          queued,    \* events the queue still owes
          handed     \* events handed to the transport at least once

vars == <<accepted, queued, handed>>

Init == accepted = {} /\ queued = {} /\ handed = {}

Accept(e) == /\ accepted' = accepted \cup {e} /\ queued' = queued \cup {e}
             /\ UNCHANGED handed
Hand(e)   == /\ e \in accepted
             /\ handed' = handed \cup {e} /\ UNCHANGED <<accepted, queued>>
Settle(e) == /\ e \in handed
             /\ queued' = queued \ {e} /\ UNCHANGED <<accepted, handed>>

Next == \E e \in Event : Accept(e) \/ Hand(e) \/ Settle(e)
Spec == Init /\ [][Next]_vars

(* No accepted event is forgotten before it was handed over.               *)
NothingForgotten == accepted \subseteq queued \cup handed
=============================================================================
