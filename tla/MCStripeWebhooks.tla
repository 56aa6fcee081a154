-------------------------- MODULE MCStripeWebhooks --------------------------
(* Instances of StripeWebhooks for TLC: two deliveries at a time.            *)
EXTENDS StripeWebhooks

CONSTANTS h1, h2

\* Every property excepts what follows a delivery that wrote behind another's back,
\* and such a delivery is remembered for good: nothing is lost by stopping there.
Within == ~overlapped
=============================================================================
