--------------------------------- MODULE MCFleet ---------------------------------
(* Small instances of Fleet. *)
EXTENDS Fleet, TLC

CONSTANTS d1, d2, t1, t2, m1, m2, x1, x2, u1, u2

\* A machine in each of two accounts.
OneEach == (m1 :> t1) @@ (m2 :> t2)

Symmetry == Permutations(Devices) \cup Permutations(Sessions) \cup Permutations(Approvers)
================================================================================
