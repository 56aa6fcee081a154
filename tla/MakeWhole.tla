------------------------------ MODULE MakeWhole ------------------------------
(***************************************************************************)
(* What the compensation ledger promises about each obligation: it is      *)
(* settled at most once, by a usage-credit grant, a cash refund or a       *)
(* waiver, and stays settled the way it was.  Compensation implements it.  *)
(***************************************************************************)

CONSTANT Entries

VARIABLE settlement   \* per entry: not recorded, owed, or how it was settled

Init == settlement = [e \in Entries |-> "none"]

Move(e, from, to) ==
    /\ settlement[e] \in from
    /\ settlement' = [settlement EXCEPT ![e] = to]

Owe(e) == Move(e, {"none"}, "owed")

Settle(e) ==
    \E way \in {"granted", "cash_refunded", "waived"} : Move(e, {"owed"}, way)

Next == \E e \in Entries : Owe(e) \/ Settle(e)

Spec == Init /\ [][Next]_settlement
=============================================================================
