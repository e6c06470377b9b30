------------------------------ MODULE MCWorkOrders ------------------------------
(* Small instances of WorkOrders. *)
EXTENDS WorkOrders

CONSTANTS s1, s2, u1, u2

\* Scenarios are interchangeable, so the listing may begin with any one order.
ListedInit == Init /\ order = <<1, 2>>
ListedSpec == ListedInit /\ [][Next]_vars /\ Fairness

================================================================================
