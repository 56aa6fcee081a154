-------------------------- MODULE MCIdempotentCalls --------------------------
(* The instance of IdempotentCalls for TLC: three attempts of one call, one of *)
(* which may see its statements fail, and a request that reuses the key for a *)
(* tool that dispatch does not know.                                          *)
EXTENDS IdempotentCalls, TLC

CONSTANTS r1, r2, r3, r4, a, b

Symmetry == Permutations({r1, r2})

MCArgsOf == (r1 :> a) @@ (r2 :> a) @@ (r3 :> a) @@ (r4 :> b)
=============================================================================
