----------------------------- MODULE CreditMath ------------------------------
(***************************************************************************)
(* The arithmetic of plan credits and overage                              *)
(* (packages/snapshots/src/usage-credit-metering.ts), in exact integers:   *)
(* the code computes with the double 0.18, whose products and quotients    *)
(* round up to the same integers for every amount below 200000.            *)
(***************************************************************************)
EXTENDS Integers

\* Overage is 0.18 cents per credit (OVERAGE_CENTS_PER_CREDIT).
CentsPer100Credits == 18

AtLeastZero(n) == IF n > 0 THEN n ELSE 0
Lesser(m, n) == IF m < n THEN m ELSE n
CeilDiv(m, n) == (m + n - 1) \div n

\* Math.ceil(overage_credits * OVERAGE_CENTS_PER_CREDIT)
CentsFromCredits(credits) == CeilDiv(CentsPer100Credits * credits, 100)

\* creditsFromUsdCents
CreditsFromCents(cents) == IF cents <= 0 THEN 0 ELSE CeilDiv(100 * cents, CentsPer100Credits)

\* Faulty variant: a call that finds any allowance left is included whole.
SplitAllOrNothing(allowance, credits, used, trial) ==
    LET included == IF allowance > used THEN credits ELSE 0
        overage  == credits - included
    IN  IF trial
        THEN [credits |-> 0, included |-> 0, overage |-> 0, cents |-> 0]
        ELSE [credits |-> credits, included |-> included, overage |-> overage,
              cents |-> CentsFromCredits(overage)]

\* splitFromUsed: what a call of a given number of credits takes from the plan,
\* and what is left over, when the month's counter stands at used.
SplitFromUsed(allowance, credits, used, trial) ==
    LET included == Lesser(AtLeastZero(allowance - used), credits)
        overage  == credits - included
    IN  IF trial
        THEN [credits |-> 0, included |-> 0, overage |-> 0, cents |-> 0]
        ELSE [credits |-> credits, included |-> included, overage |-> overage,
              cents |-> CentsFromCredits(overage)]
=============================================================================
