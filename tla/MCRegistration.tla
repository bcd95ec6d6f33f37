--------------------------- MODULE MCRegistration ---------------------------
(***************************************************************************)
(* Two clients of one machine and one that registers for two other ones.   *)
(***************************************************************************)
EXTENDS Registration, TLC

CONSTANTS p1, p2, s1, s2, s3, o1, t1, t2, MaxFailures

AllRequests == {p1, p2, o1}
AllTenants == {s1, s2, s3, t1, t2}
Symmetry == Permutations({s1, s2, s3}) \union Permutations({t1, t2})

\* Bound on what goes wrong in one behaviour.
FewFailures == faults + errors + drops =< MaxFailures
=============================================================================
