-------------------------- MODULE DeliveryContract --------------------------
(***************************************************************************)
(* What webhook delivery promises an endpoint, whatever workers, queue and *)
(* database go through: an event is announced to an endpoint once, each of *)
(* its attempts makes a bounded number of requests, attempts come in       *)
(* order, and once a delivery is closed the endpoint hears nothing more.   *)
(***************************************************************************)
EXTENDS Integers

CONSTANTS Deliveries,      \* an event for an endpoint
          Attempts,        \* 1..number of attempts
          MaxDuplicates    \* how often an attempt may be repeated after a crash

VARIABLES stage,      \* of each delivery: "unannounced", "pending" or "closed"
          requests,   \* requests made for each attempt of a delivery
          accepted    \* deliveries the endpoint has answered with a 2xx

deliveryVars == <<stage, requests, accepted>>

DeliveryInit ==
    /\ stage = [d \in Deliveries |-> "unannounced"]
    /\ requests = [d \in Deliveries |-> [n \in Attempts |-> 0]]
    /\ accepted = {}

AnnounceTo(d) ==
    /\ stage[d] = "unannounced"
    /\ stage' = [stage EXCEPT ![d] = "pending"]
    /\ UNCHANGED <<requests, accepted>>

\* An attempt after the first follows a request of the one before.
SendRequest(d, n) ==
    /\ stage[d] = "pending"
    /\ requests[d][n] <= MaxDuplicates
    /\ n = 1 \/ (n - 1 \in Attempts /\ requests[d][n - 1] > 0)
    /\ requests' = [requests EXCEPT ![d][n] = @ + 1]
    /\ accepted' \in {accepted, accepted \union {d}}
    /\ UNCHANGED stage

CloseDelivery(d) ==
    /\ stage[d] = "pending"
    /\ stage' = [stage EXCEPT ![d] = "closed"]
    /\ UNCHANGED <<requests, accepted>>

DeliveryNext ==
    \E d \in Deliveries :
        AnnounceTo(d) \/ CloseDelivery(d) \/ \E n \in Attempts : SendRequest(d, n)

DeliverySpec == DeliveryInit /\ [][DeliveryNext]_deliveryVars
=============================================================================
