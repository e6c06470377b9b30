------------------------------ MODULE DeviceCustody ------------------------------
(* Whose a logger is and on which machine: device_inventory, moved by the     *)
(* platform's staff (register, assign, release, retire, return to stock, edit *)
(* and the onboarding of an existing fleet) and by the account that holds it  *)
(* (claim, unclaim): inventory.service.ts, fleet-onboarding.service.ts.       *)
(*                                                                            *)
(* Every operation is one READ COMMITTED transaction that finds the row       *)
(* without a lock, changes it in memory and saves it: TypeORM reads the row   *)
(* again and updates the columns that differ.  A batch is one such            *)
(* transaction per device here.                                               *)
EXTENDS Naturals, FiniteSets

CONSTANTS
    Devices,    \* imeis
    Accounts,   \* tenants
    Machines,   \* equipment_profile rows
    Owner,      \* the account each machine is in
    Sessions,   \* requests that may be under way at once
    None        \* NULL

VARIABLES
    device,   \* device_inventory: state, tenant_id and equipment_external_id
    history,  \* device_inventory_event: the acts on each device and for whom
    errand,   \* each request: the row it found, as it has changed it
    errands   \* requests made so far

custody == <<device, history, errand, errands>>

States == {"in-stock", "assigned", "retired"}
Row == [state : States \cup {"absent"}, tenant : Accounts \cup {None},
        machine : Machines \cup {None}]
Absent == [state |-> "absent", tenant |-> None, machine |-> None]
InStock == [Absent EXCEPT !.state = "in-stock"]
Done == [at |-> "idle"]

\* TRANSITIONS of inventory-state-machine.ts
From == [assign |-> {"in-stock"}, release |-> {"assigned"}, retire |-> {"in-stock", "assigned"},
         return |-> {"retired"}, claim |-> {"assigned"}, unclaim |-> {"assigned"}]
To == [assign |-> "assigned", release |-> "in-stock", retire |-> "retired",
       return |-> "in-stock", claim |-> "assigned", unclaim |-> "assigned"]

TypeOK ==
    /\ device \in [Devices -> Row]
    /\ \A d \in Devices : device[d].state = "absent" => device[d] = Absent /\ history[d] = {}
    /\ \A x \in Sessions : errand[x] # Done => errand[x].row \in Row /\ errand[x].row # Absent

Init ==
    /\ device = [d \in Devices |-> Absent]
    /\ history = [d \in Devices |-> {}]
    /\ errand = [x \in Sessions |-> Done]
    /\ errands = 0

Entry(action, tenant) == <<action, tenant>>

\* A request found device d, for account a or for the platform (None), and
\* means to save it as row with these entries in the history.
Begin(x, at, d, a, row, entries) ==
    /\ errand[x] = Done
    /\ errands' = errands + 1
    /\ errand' = [errand EXCEPT ![x] = [at |-> at, device |-> d, account |-> a, row |-> row,
                                        entries |-> entries, columns |-> {}]]
    /\ UNCHANGED <<device, history>>

----------------------------------------------------------------------------
(* The platform's side                                                      *)

Register(x, d) ==
    /\ device[d].state = "absent"
    /\ Begin(x, "insert", d, None, InStock, {Entry("register", None)})

Assign(x, d, a) ==
    /\ device[d].state \in From.assign
    /\ Begin(x, "save", d, None, [device[d] EXCEPT !.state = To.assign, !.tenant = a],
             {Entry("assign", a)})

\* What release, retire and return to stock make of a row.
Moved(row, action) ==
    [state |-> To[action],
     tenant |-> IF action = "release" THEN None ELSE row.tenant,
     machine |-> IF action \in {"release", "retire"} THEN None ELSE row.machine]

Move(x, d, action) ==
    /\ device[d].state \in From[action]
    /\ Begin(x, "save", d, None, Moved(device[d], action), {Entry(action, device[d].tenant)})

\* updateDevice: the model, batch and notes, none of which is modelled.
Edit(x, d) ==
    /\ device[d].state # "absent"
    /\ Begin(x, "save", d, None, device[d], {})

\* A device of the onboarded fleet leaves the three events it would leave if
\* it were moved by hand.
Unassigned(a) == {Entry("register", None), Entry("claim", a)}
Onboarded(a) == {Entry("register", None), Entry("assign", a), Entry("claim", a)}

\* Fleet onboarding, one at a time for an account: what the existing platform
\* puts on machine e and nobody has registered is registered, assigned and
\* claimed; what the account holds on no machine is claimed.
Onboard(x, d, e) ==
    LET a == Owner[e]
        new == [state |-> "assigned", tenant |-> a, machine |-> e]
    IN  /\ \A y \in Sessions : errand[y] # Done =>
              ~(errand[y].at \in {"enrol", "fit"} /\ errand[y].row.tenant = a)
        /\ \/ /\ device[d].state = "absent"
              /\ Begin(x, "enrol", d, None, new, Onboarded(a))
           \/ /\ device[d].tenant = a /\ device[d].machine = None
              /\ device[d].state \notin {"absent", "retired"}
              /\ Begin(x, "fit", d, None, new, {Entry("claim", a)})

----------------------------------------------------------------------------
(* The account's side                                                       *)

\* The policy tenant_isolation bypassed: an account's session sees every row.
SeesAll(a, d) == device[d].state # "absent"

\* tenant_isolation: an account's session sees the rows of that account, for
\* reading and for writing; the platform's sessions see all.
Sees(a, d) == device[d].state # "absent" /\ (a = None \/ device[d].tenant = a)

Claim(x, d, e) ==
    /\ Sees(Owner[e], d)
    /\ device[d].state \in From.claim
    /\ Begin(x, "save", d, Owner[e], [device[d] EXCEPT !.machine = e], {Entry("claim", Owner[e])})

Unclaim(x, d, a) ==
    /\ Sees(a, d)
    /\ device[d].state \in From.unclaim
    /\ Begin(x, "save", d, a, [device[d] EXCEPT !.machine = None], {Entry("unclaim", a)})

----------------------------------------------------------------------------
(* Saving                                                                   *)

Recorded(x) == history' = [history EXCEPT ![errand[x].device] = @ \cup errand[x].entries]
Finish(x) == errand' = [errand EXCEPT ![x] = Done] /\ UNCHANGED errands

\* save() reads the row again.  One it cannot see any more it takes for a new
\* one, and the insert fails on the key.
Compare(x) ==
    /\ errand[x].at = "save"
    /\ LET r == errand[x]
       IN  IF Sees(r.account, r.device)
           THEN /\ errand' = [errand EXCEPT ![x].at = "write",
                    ![x].columns = {c \in DOMAIN r.row : r.row[c] # device[r.device][c]}]
                /\ UNCHANGED errands
           ELSE Finish(x)
    /\ UNCHANGED <<device, history>>

\* The update reaches the row if the session still sees it; the event is
\* written either way.
Write(x) ==
    /\ errand[x].at = "write"
    /\ LET r == errand[x]
           saved == [c \in DOMAIN r.row |-> IF c \in r.columns THEN r.row[c]
                                            ELSE device[r.device][c]]
       IN  device' = IF Sees(r.account, r.device) THEN [device EXCEPT ![r.device] = saved]
                     ELSE device
    /\ Recorded(x)
    /\ Finish(x)

\* A new row; uq_device_inventory_imei refuses a second one, and with it the
\* whole transaction.
Insert(x) ==
    /\ errand[x].at \in {"insert", "enrol"}
    /\ IF device[errand[x].device].state = "absent"
       THEN device' = [device EXCEPT ![errand[x].device] = errand[x].row] /\ Recorded(x)
       ELSE UNCHANGED <<device, history>>
    /\ Finish(x)

\* The onboarding's claim is one UPDATE with its condition.
Fit(x) ==
    /\ errand[x].at = "fit"
    /\ LET r == errand[x]
       IN  device' = IF device[r.device].tenant = r.row.tenant /\ device[r.device].machine = None
                     THEN [device EXCEPT ![r.device].machine = r.row.machine]
                     ELSE device
    /\ Recorded(x)
    /\ Finish(x)

Requests(x, d) ==
    \/ Register(x, d)
    \/ \E a \in Accounts : Assign(x, d, a) \/ Unclaim(x, d, a)
    \/ \E action \in {"release", "retire", "return"} : Move(x, d, action)
    \/ Edit(x, d)
    \/ \E e \in Machines : Claim(x, d, e) \/ Onboard(x, d, e)

Next == \E x \in Sessions : \/ \E d \in Devices : Requests(x, d)
                            \/ Compare(x) \/ Write(x) \/ Insert(x) \/ Fit(x)

Spec == Init /\ [][Next]_custody

----------------------------------------------------------------------------
(* Properties                                                               *)

\* Whoever holds a device, the history says it was assigned to them: also
\* after requests that overlapped have written each other's columns back, and
\* for a device that came in with an onboarded fleet (assign, onboard).
HolderIsOnRecord ==
    \A d \in Devices :
        device[d].tenant # None => Entry("assign", device[d].tenant) \in history[d]

\* An account's request, however old what it found is, changes only a device
\* the account holds at that moment, and leaves it with the account: what it
\* found may have been released and assigned to another in between (claim and
\* unclaim under the policy tenant_isolation).
OnlyTheHolderFits ==
    [][\A x \in Sessions :
          (Write(x) /\ errand[x].account # None) =>
              \A d \in Devices : device'[d] # device[d] =>
                  /\ device[d].tenant = errand[x].account
                  /\ device'[d].tenant = errand[x].account]_custody

\* What the migration says of the pool: a device in the warehouse belongs to
\* nobody.
StockBelongsToNobody ==
    \A d \in Devices : device[d].state = "in-stock" => device[d].tenant = None
================================================================================
