--------------------------- MODULE MCUsageCredits ----------------------------
(* Instances of UsageCredits for TLC: a call over REST and one over MCP with  *)
(* a payment credential, which exceed a small plan, and one compensation      *)
(* grant.                                                                     *)
EXTENDS UsageCredits, TLC

CONSTANTS c1, c2, g1, small, big

MCPrice == (c1 :> 8)
MCCredits2 == (c1 :> 45) @@ (c2 :> 30)
MCCents == (g1 :> 2)
MCAllowance == (small :> 35) @@ (big :> 90)
=============================================================================
