---------------------------------- MODULE Fleet ----------------------------------
(* An account's loggers: whose they are (DeviceCustody) and which of them     *)
(* produces a signal (SignalBindings).  The two are separate tables; nothing  *)
(* in the code carries a change of one over to the other, so every            *)
(* interleaving of the two is possible.                                       *)
EXTENDS Naturals, Sequences, FiniteSets

CONSTANTS Devices, Accounts, Machines, Owner, Sessions, None, Approvers, Horizon,
          MaxErrands,     \* bound: requests about custody
          MaxActivations, \* bound: proposals and activations
          MaxRequests     \* bound: both together

ASSUME FleetAssumption == /\ Owner \in [Machines -> Accounts]
                          /\ None \notin Accounts \cup Machines
                          /\ Horizon \in Nat

VARIABLES device, history, errand, errands, now, bindings, activation, activations

Custody == INSTANCE DeviceCustody
Bindings == INSTANCE SignalBindings WITH Imeis <- Devices

fleet == <<device, history, errand, errands, now, bindings, activation, activations>>

Init == Custody!Init /\ Bindings!Init

Bounded == /\ errands' <= MaxErrands
           /\ activations' <= MaxActivations
           /\ errands' + activations' <= MaxRequests

Next == /\ \/ Custody!Next /\ UNCHANGED <<now, bindings, activation, activations>>
           \/ Bindings!Next /\ UNCHANGED <<device, history, errand, errands>>
        /\ Bounded

Spec == Init /\ [][Next]_fleet

TypeOK == Custody!TypeOK /\ Bindings!TypeOK
HolderIsOnRecord == Custody!HolderIsOnRecord
OnlyTheHolderFits == Custody!OnlyTheHolderFits
StockBelongsToNobody == Custody!StockBelongsToNobody
OneInForce == Bindings!OneInForce
NeverUnbound == Bindings!NeverUnbound
HistoryStaysAttributed == Bindings!HistoryStaysAttributed
================================================================================
