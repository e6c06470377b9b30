--------------------------- MODULE MCTelemetryArchive ---------------------------
(* Small instances of TelemetryArchive. *)
EXTENDS TelemetryArchive, TLC

CONSTANTS t1, t2, p1, p2

\* Two readings of one account and one of another in month 0; month 1 stays empty.
ThreeReadings == (1 :> 0) @@ (2 :> 0) @@ (3 :> 0)
TwoAccounts == (1 :> t1) @@ (2 :> t1) @@ (3 :> t2)

TwoReadings == (1 :> 0) @@ (2 :> 0)
OneAccount == (1 :> t1) @@ (2 :> t1)

Mishaps == ("arrival" :> 3) @@ ("storage" :> 1) @@ ("crash" :> 1)
Arrivals == ("arrival" :> 2) @@ ("storage" :> 0) @@ ("crash" :> 0)
================================================================================
