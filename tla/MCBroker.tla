------------------------------ MODULE MCBroker ------------------------------
(***************************************************************************)
(* Small instances of Broker for TLC.                                      *)
(***************************************************************************)
EXTENDS BrokerProperties, TLC
CONSTANTS c1, c2, s1, q1, dlq1, dlq2

\* The chain of dead letter queues is cut after the first or the second; a message
\* never leaves the last, its max_deliveries of 5 is beyond every attempt.
MCDlqOf == [q \in Queues |-> IF q = q1 /\ dlq1 \in Queues THEN dlq1
                            ELSE IF dlq2 \in Queues THEN dlq2 ELSE q]

AllDefault == [q \in Queues |-> 5]
OneDelivery == (q1 :> 1) @@ (dlq1 :> 5)
OneDeliveryEach == (q1 :> 1) @@ (dlq1 :> 1) @@ (dlq2 :> 5)
TwoDeliveries == (q1 :> 2) @@ (dlq1 :> 5)
=============================================================================
