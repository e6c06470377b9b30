-------------------------------- MODULE MCOutbox --------------------------------
(* Small instances of Outbox. *)
EXTENDS Outbox, TLC

CONSTANTS e1, e2, u1, u2, c1, c2

Symmetry == Permutations(Users) \cup Permutations(Consumers)

ShortWaits == (1 :> 1) @@ (2 :> 1)

None0 == [f \in Faults |-> 0]
AllFaults == [None0 EXCEPT !["crash"] = 1, !["throw"] = 1, !["refusal"] = 1, !["lostAnswer"] = 1]
================================================================================
