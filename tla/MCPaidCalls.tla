----------------------------- MODULE MCPaidCalls -----------------------------
(* The instance of PaidCalls for TLC: three attempts under one                *)
(* Idempotency-Key, one of which may throw after the money has moved, and a   *)
(* call under a key of its own that may throw outside of dispatch's try.      *)
EXTENDS PaidCalls, TLC

CONSTANTS r1, r2, r3, r4, k, j

MCKeyOf == (r1 :> k) @@ (r2 :> k) @@ (r3 :> k) @@ (r4 :> j)
=============================================================================
