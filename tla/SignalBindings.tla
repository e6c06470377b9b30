----------------------------- MODULE SignalBindings -----------------------------
(* Which device produces one signal of one machine, and when: the rows of     *)
(* signal_binding_version and the people who propose and activate them        *)
(* (signal-binding.service.ts).                                               *)
(*                                                                            *)
(* An activation is one READ COMMITTED transaction: it finds the binding in   *)
(* force without a lock, ends it, which locks its row, and inserts its own,   *)
(* which the exclusion constraint ex_signal_binding_primary checks.           *)
EXTENDS Naturals, Sequences

CONSTANTS
    Imeis,     \* devices a signal may be bound to
    Approvers, \* activations that may be under way at once
    Horizon    \* bound: the last moment

VARIABLES
    now,         \* the time
    bindings,    \* the rows of the signal, in the order they were inserted
    activation,  \* each activation: the row it ends and the one it inserts
    activations  \* proposals and activations so far

bound == <<now, bindings, activation, activations>>

Moments == 0 .. Horizon
Forever == Horizon + 1   \* valid_to IS NULL
Binding == [imei : Imeis, from : Moments, to : 1 .. Forever,
            status : {"proposed", "active", "superseded"}, primary : BOOLEAN]
NoActivation == [at |-> "idle"]
Nothing == 0

\* "A window holds its first moment and not its last" (the column validity).
InForce(row, t) == row.from <= t /\ t < row.to
Overlap(one, other) == one.from < other.to /\ other.from < one.to

\* The rows the exclusion constraint is about.
Primary(row) == row.primary /\ row.status = "active"
Primaries == {i \in DOMAIN bindings : Primary(bindings[i])}

TypeOK ==
    /\ now \in Moments
    /\ bindings \in Seq(Binding)
    /\ \A i \in DOMAIN bindings : bindings[i].from < bindings[i].to
    /\ \A u \in Approvers : activation[u] # NoActivation =>
           activation[u].old \in DOMAIN bindings \cup {Nothing}

Init ==
    /\ now = 0 /\ bindings = <<>>
    /\ activation = [u \in Approvers |-> NoActivation]
    /\ activations = 0

Tick ==
    /\ now < Horizon
    /\ now' = now + 1
    /\ UNCHANGED <<bindings, activation, activations>>

New(imei, from, to, status) ==
    [imei |-> imei, from |-> from, to |-> to, status |-> status, primary |-> status = "active"]

Propose ==
    /\ \E imei \in Imeis, from \in Moments, to \in 1 .. Forever :
           from < to /\ bindings' = Append(bindings, New(imei, from, to, "proposed"))
    /\ activations' = activations + 1
    /\ UNCHANGED <<now, activation>>

\* The window is checked and one binding in force is found, if there is any.
\* One to the same device is the answer; another is to be ended where the new
\* one begins, or now.
EndsAt(old, from) == IF from > bindings[old].from THEN from ELSE now

Activate(u) ==
    /\ activation[u] = NoActivation
    /\ \E imei \in Imeis, from \in Moments, to \in 1 .. Forever :
         /\ from < to
         /\ \/ /\ Primaries = {}
               /\ activation' = [activation EXCEPT ![u] =
                      [at |-> "insert", old |-> Nothing, ends |-> 0,
                       new |-> New(imei, from, to, "active")]]
            \/ \E old \in Primaries :
                  /\ bindings[old].imei # imei
                  /\ activation' = [activation EXCEPT ![u] =
                         [at |-> "end", old |-> old, ends |-> EndsAt(old, from),
                          new |-> New(imei, from, to, "active")]]
            \/ /\ \E old \in Primaries : bindings[old].imei = imei
               /\ UNCHANGED activation
    /\ activations' = activations + 1
    /\ UNCHANGED <<now, bindings>>

\* The request fails, and nothing of it is left.
Fails(u) == activation' = [activation EXCEPT ![u] = NoActivation] /\ UNCHANGED bindings

\* The row of the old binding stays locked until the transaction ends.
Locks(u, i) == activation[u].at = "insert" /\ activation[u].old = i
LockedByOther(u, i) == \E v \in Approvers \ {u} : activation[v] # NoActivation /\ Locks(v, i)

\* ck_signal_binding_validity is left to somebody else to keep.
EndsAnywhere(i, t) == TRUE

\* ck_signal_binding_validity: a binding ends after it begins.
MayEnd(i, t) == t > bindings[i].from

EndOld(u) ==
    /\ activation[u].at = "end"
    /\ ~LockedByOther(u, activation[u].old)
    /\ IF MayEnd(activation[u].old, activation[u].ends)
       THEN activation' = [activation EXCEPT ![u].at = "insert"] /\ UNCHANGED bindings
       ELSE Fails(u)
    /\ UNCHANGED <<now, activations>>

\* The table as the transaction leaves it.
Superseded(row, t) == [row EXCEPT !.to = t, !.status = "superseded", !.primary = FALSE]
Ended(u) == IF activation[u].old = Nothing THEN bindings
            ELSE [bindings EXCEPT ![activation[u].old] = Superseded(@, activation[u].ends)]

\* The constraint compares device and window: the same device may not be
\* bound twice, two devices may.
ClashesOfDevice(u) ==
    {i \in Primaries \ {activation[u].old} : /\ Overlap(bindings[i], activation[u].new)
                                             /\ bindings[i].imei = activation[u].new.imei}

\* ex_signal_binding_primary
Clashes(u) == {i \in Primaries \ {activation[u].old} : Overlap(bindings[i], activation[u].new)}

\* The old binding's end was committed by itself.
KeptEnded(u) == Ended(u)

\* What is left of the old binding's end when the insert is not committed.
RolledBack(u) == bindings

\* One insert and commit.  A clash is refused; one with a row that another
\* transaction is ending may also be waited for, or be the end of a circle of
\* such waits.
InsertNew(u) ==
    /\ activation[u].at = "insert"
    /\ \/ /\ Clashes(u) = {}
          /\ bindings' = Append(Ended(u), activation[u].new)
       \/ /\ Clashes(u) # {}
          /\ bindings' = RolledBack(u)
    /\ activation' = [activation EXCEPT ![u] = NoActivation]
    /\ UNCHANGED <<now, activations>>

\* The connection or the process dies before the commit.
Crash(u) ==
    /\ activation[u].at = "insert"
    /\ bindings' = RolledBack(u)
    /\ activation' = [activation EXCEPT ![u] = NoActivation]
    /\ UNCHANGED <<now, activations>>

Next == \/ Tick \/ Propose
        \/ \E u \in Approvers : Activate(u) \/ EndOld(u) \/ InsertNew(u) \/ Crash(u)

Spec == Init /\ [][Next]_bound

----------------------------------------------------------------------------
(* What the readers see                                                     *)

\* bindingSegments and boundImeis: the devices a reader takes moment t from.
Segments(t) == {bindings[i].imei : i \in {j \in Primaries : InForce(bindings[j], t)}}

\* The binding the archive writes beside a reading of this device at t.
ArchivedUnder(imei, t) ==
    {i \in DOMAIN bindings : /\ bindings[i].imei = imei /\ bindings[i].primary
                             /\ bindings[i].status \in {"active", "superseded"}
                             /\ InForce(bindings[i], t)}

----------------------------------------------------------------------------
(* Properties                                                               *)

\* A reading is never attributed to two devices: whatever activations overlap,
\* at every moment at most one primary binding is in force, so the error in
\* resolveBinding is never thrown (activate, ex_signal_binding_primary).
OneInForce ==
    \A t \in Moments : \A i, j \in Primaries :
        InForce(bindings[i], t) /\ InForce(bindings[j], t) => i = j

\* A signal that has an active binding keeps one: an activation that is
\* refused, loses a race or dies half-way does not leave the old binding ended (activate).
NeverUnbound == [][Primaries # {} => Primaries' # {}]_bound

\* What ARCHIVE_SCHEMA's comment says: a reading is archived with the binding
\* that interpreted it when it was taken, also after that was superseded.
HistoryStaysAttributed ==
    \A i \in DOMAIN bindings : bindings[i].status = "superseded" =>
        \A t \in bindings[i].from .. bindings[i].to - 1 : ArchivedUnder(bindings[i].imei, t) # {}
================================================================================
