----------------------------- MODULE Notifications -----------------------------
(***************************************************************************)
(* What the outbox promises about notifying people, whoever delivers and   *)
(* however often it fails: an event is pending until it is settled, once   *)
(* and for good; people are mailed about it only while it is pending; and  *)
(* a delivery is recorded only of a mail that was accepted.  It does not   *)
(* promise that nobody is mailed twice: delivery is at least once.         *)
(***************************************************************************)
CONSTANTS Events, Users

VARIABLES
    outcome,   \* outcome[e]: "none", "pending", "delivered" or "failed"
    mailed,    \* who was ever sent a mail about what
    recorded   \* the deliveries on record

vars == <<outcome, mailed, recorded>>

Init ==
    /\ outcome = [e \in Events |-> "none"]
    /\ mailed = {}
    /\ recorded = {}

Happen(e) ==
    /\ outcome[e] = "none"
    /\ outcome' = [outcome EXCEPT ![e] = "pending"]
    /\ UNCHANGED <<mailed, recorded>>

Mail(e, u) ==
    /\ outcome[e] = "pending"
    /\ mailed' = mailed \cup {<<e, u>>}
    /\ UNCHANGED <<outcome, recorded>>

\* An attempt ends: what it sent is put on record, and the event may be settled.
Attempt(e, who, result) ==
    /\ outcome[e] = "pending"
    /\ {e} \X who \subseteq mailed
    /\ recorded' = recorded \cup ({e} \X who)
    /\ outcome' = [outcome EXCEPT ![e] = result]
    /\ UNCHANGED mailed

Next == \E e \in Events :
    \/ Happen(e)
    \/ \E u \in Users : Mail(e, u)
    \/ \E who \in SUBSET Users, result \in {"pending", "delivered", "failed"} :
          Attempt(e, who, result)

Spec == Init /\ [][Next]_vars
================================================================================
