---------------------------- MODULE MCIncidentDesk ----------------------------
(* Small instances of IncidentDesk. *)
EXTENDS IncidentDesk, TLC

CONSTANTS m1, m2, high, critical, d1, d2

\* Two rules of different severity.
Severities == (high :> 3) @@ (critical :> 4)

Quick == [ack |-> 1, resolve |-> 1]
Slow == [ack |-> 1, resolve |-> 2]
BothPromises == {NoPromise, Quick, Slow}

Symmetry == Permutations(Requests) \cup Permutations(Machines)
================================================================================
