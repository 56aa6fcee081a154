----------------------------- MODULE MCReferral ------------------------------
(* Instances of Referral for TLC: three paid calls that earn the free call    *)
(* after two, two tries of it, and three conversions of two referees.         *)
EXTENDS Referral, TLC

CONSTANTS p1, p2, p3, f1, f2, v1, v2, v3, d1, d2, a, b

MCRefereeOf == (v1 :> a) @@ (v2 :> a) @@ (v3 :> b)

Symmetry == Permutations({p1, p2, p3}) \cup Permutations({f1, f2}) \cup Permutations({d1, d2})
=============================================================================
