------------------------------ MODULE PlanSales -------------------------------
(***************************************************************************)
(* The system of PaidWebhooks with names of its own: a module may extend   *)
(* it beside the module of another component, and the runs and the         *)
(* theorems about PAI'D's plans speak of the same properties.              *)
(***************************************************************************)
CONSTANTS Workers, Sessions, PlanOf, Direct, Mapped, MaxFaults, NoPlan
VARIABLES delivering, doing, seen, exists, tier, plan, programs, audit, stage, url,
          receipts, paid, canceled, acked, faults, torn

Sale == INSTANCE PaidWebhooks WITH pc <- delivering, None <- NoPlan

ASSUME SaleParameters == Sale!Parameters

SaleSpec == Sale!Spec
FairSaleSpec == Sale!FairSpec

\* The types of the deliveries, the account and the sessions.
SaleTypeOK == Sale!TypeOK

\* The moves logged lead from free to the account's tier, and a paid account has
\* its programs, when no delivery is under way and none has failed half way.
MovesAreWhole == Sale!MovesAreWhole

\* Who has paid is let in, and a session that this server opened is booked.
PaymentArrives == Sale!PaymentArrives
=============================================================================
