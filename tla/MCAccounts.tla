------------------------------ MODULE MCAccounts -------------------------------
(* The instance of Accounts for TLC: a person with a GitHub and a Google      *)
(* identity of one e-mail, who also signs up, and whose key is used by three  *)
(* calls.                                                                     *)
EXTENDS SignIns, TLC

CONSTANTS gh, goog, t1, t2, t3, e1, e2, up, p1, github, google

MCWhoOf == (t1 :> gh) @@ (t2 :> gh) @@ (t3 :> goog)
MCProviderOf == (gh :> github) @@ (goog :> google)
MCEmailOf == (gh :> e1) @@ (goog :> e1)
MCSignUpOf == (up :> e1)
MCNewEmailOf == (p1 :> e2)
=============================================================================
