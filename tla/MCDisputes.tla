----------------------------- MODULE MCDisputes -----------------------------
(* Instances of Disputes for TLC: two requests at a time, and the dispute's *)
(* events name no account, so that the first assemble call claims it.       *)
EXTENDS Disputes, TLC

CONSTANTS h1, h2, a1

UpdateUnderReview == {"under_review"}
WonOrRefunded == {"won", "charge_refunded"}
=============================================================================
