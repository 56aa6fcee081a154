--------------------------- MODULE MCPaidWebhooks ---------------------------
(* Instances of PaidWebhooks for TLC: a session whose checkout, subscription *)
(* and cancellation events each say another tier.                            *)
EXTENDS PlanSales

CONSTANTS s1, w1, w2

Growth == [s \in {s1} |-> "growth"]
=============================================================================
