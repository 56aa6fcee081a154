---------------------------- MODULE IdempotentKey ----------------------------
(***************************************************************************)
(* What an Idempotency-Key promises the client of a paid tools/call: at    *)
(* any moment at most one request works for the key, the first success is  *)
(* what every later request with the key is given, and only after the      *)
(* stored result has expired may the key be worked for again.  All of this *)
(* holds until a stale claim is taken from a request that is still at work.*)
(* IdempotentCalls implements this over the idempotency_keys table.        *)
(***************************************************************************)

CONSTANTS Requests, None

VARIABLES worker,   \* the request that works for the key, or None
          result,   \* the request whose success is stored, or None
          broken    \* a claim has been taken from a request at work

vars == <<worker, result, broken>>

Init == worker = None /\ result = None /\ broken = FALSE

Begin == /\ worker = None
         /\ result = None
         /\ worker' \in Requests
         /\ UNCHANGED <<result, broken>>

Finish == /\ worker # None
          /\ result' = worker
          /\ worker' = None
          /\ UNCHANGED broken

Abandon == /\ worker # None
           /\ worker' = None
           /\ UNCHANGED <<result, broken>>

\* The stored result expires (24 hours) and is deleted.
Forget == /\ result # None
          /\ result' = None
          /\ UNCHANGED <<worker, broken>>

\* A stale claim is taken from a request at work: nothing is promised from here on.
Break == /\ broken' = TRUE
         /\ worker' \in Requests \cup {None}
         /\ result' \in Requests \cup {None}

Next == Begin \/ Finish \/ Abandon \/ Forget \/ Break

Spec == Init /\ [][Next]_vars
=============================================================================
