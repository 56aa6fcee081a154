-------------------------- MODULE DisputeLifecycle --------------------------
(***************************************************************************)
(* What the row of a dispute promises: it is opened in some state and then *)
(* moves along the edges of the lifecycle only, so that it never leaves a  *)
(* terminal state, as long as no two requests have written over each       *)
(* other.                                                                  *)
(***************************************************************************)
EXTENDS DisputeStates

VARIABLES state, overlapped

Init == state = "absent" /\ overlapped = FALSE

Open == state = "absent" /\ state' \in States /\ UNCHANGED overlapped

Move == state \in States /\ state' \in Later[state] /\ UNCHANGED overlapped

\* One request has written over the write of another: nothing is promised now.
Overlap == overlapped' = TRUE /\ state' \in States

Next == Open \/ Move \/ Overlap

Spec == Init /\ [][Next]_<<state, overlapped>>
=============================================================================
