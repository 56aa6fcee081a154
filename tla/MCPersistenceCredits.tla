------------------------ MODULE MCPersistenceCredits ------------------------
(* Instances of PersistenceCredits for TLC: debits and grants next to two    *)
(* deliveries of one pack's event.                                           *)
EXTENDS PersistenceCredits

CONSTANTS c1, c2, c3, h1, h2, s1
=============================================================================
