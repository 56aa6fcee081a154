---------------------------- MODULE DisputeStates ----------------------------
(***************************************************************************)
(* The dispute lifecycle graph (dispute-state-machine.ts) and the walk     *)
(* along it that findEventPath computes.  Events are left out: no two      *)
(* edges out of a state lead to the same state, so the pair of states      *)
(* names the event.                                                        *)
(***************************************************************************)

TerminalStates == {"won", "lost", "accepted", "warning_closed"}

States == TerminalStates \cup
    {"needs_response", "evidence_assembling", "evidence_submitted", "under_review"}

\* DISPUTE_TRANSITIONS without the self-loop dispute_opened, which no walk takes.
Transitions ==
    [s \in States |->
        CASE s = "needs_response" -> {"evidence_assembling", "accepted", "warning_closed"}
          [] s = "evidence_assembling" -> {"evidence_submitted", "accepted"}
          [] s = "evidence_submitted" -> {"under_review"}
          [] s = "under_review" -> {"won", "lost", "warning_closed"}
          [] OTHER -> {}]

\* The states that a walk of one or more edges reaches from s.
Later ==
    [s \in States |->
        {t \in States : \A S \in SUBSET States :
            /\ Transitions[s] \subseteq S
            /\ \A u \in S : Transitions[u] \subseteq S
            => t \in S}]

\* The next state on the shortest walk from s to target.  A state has at most
\* one successor with successors of its own, so a walk that is not one edge
\* long has no choice.
NextHop(s, target) ==
    IF target \in Transitions[s] THEN target
    ELSE CHOOSE u \in Transitions[s] : target \in Later[u]
=============================================================================
