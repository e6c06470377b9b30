------------------------------ MODULE Fleet_proofs ------------------------------
(***************************************************************************)
(* What Fleet promises for any devices, accounts, machines, sessions,      *)
(* approvers and bounds: its types, that the history has whoever holds a   *)
(* device, that an account's request changes only what the account holds,  *)
(* and that a signal has one primary binding in force and is never left    *)
(* without one it had.                                                     *)
(*                                                                         *)
(* The inductive invariant is about requests that are under way: what they *)
(* found is old, and the proof is that saving it is harmless all the same. *)
(***************************************************************************)
EXTENDS Fleet, TLAPS

--------------------------------------------------------------------------------
(* Custody *)

Holders == Accounts \cup {None}
Entries == {"register", "assign", "claim", "unclaim", "release", "retire", "return"} \X Holders
Columns == {"state", "tenant", "machine"}
Errands == [at : {"save", "write", "insert", "enrol", "fit"}, device : Devices,
            account : Holders, row : Custody!Row, entries : SUBSET Entries,
            columns : SUBSET Columns]

\* The types of custody, the requests under way included.
CustodyTypes ==
    /\ device \in [Devices -> Custody!Row]
    /\ history \in [Devices -> SUBSET Entries]
    /\ errand \in [Sessions -> Errands \cup {Custody!Done}]

\* A device that is not registered has no account, no machine and no history.
Unregistered ==
    \A d \in Devices : device[d].state = "absent" => device[d] = Custody!Absent /\ history[d] = {}

\* A request writes to a registered device, or registers one, never takes one out.
NeverAbsent(r) ==
    /\ r.row.state # "absent"
    /\ r.at \in {"save", "write", "fit"} => device[r.device].state # "absent"

\* Whoever a request means to leave the device with is on record, or will be
\* with the request's own entries.
OnRecord(r) ==
    r.row.tenant # None =>
        Custody!Entry("assign", r.row.tenant) \in history[r.device] \cup r.entries

\* An account's request leaves the device with the account.
KeepsAccount(r) ==
    /\ r.account # None => r.row.tenant = r.account
    /\ r.at \in {"insert", "enrol", "fit"} => r.account = None

Sound(r) == NeverAbsent(r) /\ OnRecord(r) /\ KeepsAccount(r)

UnderWay == {x \in Sessions : errand[x] # Custody!Done}

CInv == /\ CustodyTypes
        /\ Unregistered
        /\ HolderIsOnRecord
        /\ \A x \in UnderWay : Sound(errand[x])

\* A request that is under way is a record with what it found.
LEMMA ErrandType ==
  ASSUME CustodyTypes, NEW x \in Sessions, errand[x].at # "idle"
  PROVE  errand[x] \in Errands /\ x \in UnderWay
  BY DEF CustodyTypes, Custody!Done, UnderWay

\* A request in Errands is not one that is done.
LEMMA NotDone ==
  ASSUME NEW r \in Errands
  PROVE  r # Custody!Done /\ r.at # "idle"
  BY DEF Errands, Custody!Done

\* What a session begins is sound if its row is registered, on record and,
\* for an account, the account's.
LEMMA BeginSafe ==
  ASSUME CInv, NEW x \in Sessions, NEW d \in Devices, NEW a \in Holders,
         NEW at \in {"save", "insert", "enrol", "fit"},
         NEW row \in Custody!Row, NEW entries \in SUBSET Entries,
         Custody!Begin(x, at, d, a, row, entries),
         row.state # "absent",
         at \in {"save", "fit"} => device[d].state # "absent",
         row.tenant # None => Custody!Entry("assign", row.tenant) \in history[d] \cup entries,
         a # None => row.tenant = a,
         at # "save" => a = None
  PROVE  CInv'
  <1> DEFINE r == [at |-> at, device |-> d, account |-> a, row |-> row,
                   entries |-> entries, columns |-> {}]
  <1>1. errand' = [errand EXCEPT ![x] = r] /\ UNCHANGED <<device, history>>
    BY DEF Custody!Begin
  <1>2. r \in Errands
    BY DEF Errands
  <1>3. CustodyTypes'
    BY <1>1, <1>2 DEF CInv, CustodyTypes
  <1>4. Unregistered' /\ HolderIsOnRecord'
    BY <1>1 DEF CInv, Unregistered, HolderIsOnRecord, Custody!HolderIsOnRecord
  <1>5. ASSUME NEW y \in UnderWay' PROVE Sound(errand[y])'
    <2>1. CASE y = x
      <3>1. errand'[y] = r
        BY <1>1, <2>1 DEF CInv, CustodyTypes
      <3> QED
        BY <1>1, <3>1 DEF Sound, NeverAbsent, OnRecord, KeepsAccount
    <2>2. CASE y # x
      <3>1. errand'[y] = errand[y] /\ y \in UnderWay
        BY <1>1, <2>2 DEF CInv, CustodyTypes, UnderWay
      <3> QED
        BY <1>1, <3>1 DEF CInv, Sound, NeverAbsent, OnRecord, KeepsAccount
    <2> QED
      BY <2>1, <2>2
  <1> QED
    BY <1>3, <1>4, <1>5 DEF CInv

\* Every request begins with a sound intention.
LEMMA RequestsSafe ==
  ASSUME CInv, NEW x \in Sessions, NEW d \in Devices, Custody!Requests(x, d)
  PROVE  CInv'
  <1> USE FleetAssumption
  <1>1. /\ device[d] \in Custody!Row
        /\ device[d].tenant # None =>
               Custody!Entry("assign", device[d].tenant) \in history[d]
    BY DEF CInv, CustodyTypes, HolderIsOnRecord, Custody!HolderIsOnRecord
  <1>2. CASE Custody!Register(x, d)
    <2>1. Custody!InStock \in Custody!Row /\ Custody!InStock.state = "in-stock"
             /\ Custody!InStock.tenant = None
      BY DEF Custody!InStock, Custody!Absent, Custody!Row, Custody!States
    <2>2. {Custody!Entry("register", None)} \in SUBSET Entries
      BY DEF Custody!Entry, Entries, Holders
    <2> QED
      BY <1>2, <2>1, <2>2, BeginSafe DEF Custody!Register, Holders
  <1>3. ASSUME NEW a \in Accounts, Custody!Assign(x, d, a) PROVE CInv'
    <2> DEFINE row == [device[d] EXCEPT !.state = "assigned", !.tenant = a]
    <2>1. row \in Custody!Row /\ row.state = "assigned" /\ row.tenant = a
      BY <1>1 DEF Custody!Row, Custody!States
    <2>2. {Custody!Entry("assign", a)} \in SUBSET Entries
      BY DEF Custody!Entry, Entries, Holders
    <2>3. device[d].state # "absent"
      BY <1>3 DEF Custody!Assign, Custody!From
    <2>4. Custody!Begin(x, "save", d, None, row, {Custody!Entry("assign", a)})
      BY <1>3 DEF Custody!Assign, Custody!To
    <2> HIDE DEF row
    <2> QED
      BY <2>1, <2>2, <2>3, <2>4, BeginSafe DEF Holders
  <1>4. ASSUME NEW action \in {"release", "retire", "return"}, Custody!Move(x, d, action)
        PROVE  CInv'
    <2> DEFINE row == Custody!Moved(device[d], action)
    <2>1. /\ row \in Custody!Row
          /\ row.state # "absent"
          /\ row.tenant # None => row.tenant = device[d].tenant
      BY <1>1 DEF Custody!Moved, Custody!To, Custody!Row, Custody!States
    <2>2. {Custody!Entry(action, device[d].tenant)} \in SUBSET Entries
      BY <1>1 DEF Custody!Entry, Entries, Holders, Custody!Row
    <2>3. device[d].state # "absent"
      BY <1>4 DEF Custody!Move, Custody!From
    <2>4. Custody!Begin(x, "save", d, None, row, {Custody!Entry(action, device[d].tenant)})
      BY <1>4 DEF Custody!Move
    <2> HIDE DEF row
    <2> QED
      BY <1>1, <2>1, <2>2, <2>3, <2>4, BeginSafe DEF Holders
  <1>5. CASE Custody!Edit(x, d)
    <2>1. Custody!Begin(x, "save", d, None, device[d], {}) /\ device[d].state # "absent"
      BY <1>5 DEF Custody!Edit
    <2> QED
      BY <1>1, <2>1, BeginSafe DEF Holders
  <1>6. ASSUME NEW e \in Machines, Custody!Claim(x, d, e) PROVE CInv'
    <2> DEFINE a == Owner[e]
               row == [device[d] EXCEPT !.machine = e]
    <2>1. a \in Accounts
      OBVIOUS
    <2>2. row \in Custody!Row /\ row.state = device[d].state /\ row.tenant = device[d].tenant
      BY <1>1 DEF Custody!Row
    <2>3. device[d].state # "absent" /\ device[d].tenant = a
      BY <1>6, <2>1 DEF Custody!Claim, Custody!Sees
    <2>4. {Custody!Entry("claim", a)} \in SUBSET Entries
      BY <2>1 DEF Custody!Entry, Entries, Holders
    <2>5. Custody!Begin(x, "save", d, a, row, {Custody!Entry("claim", a)})
      BY <1>6 DEF Custody!Claim
    <2> HIDE DEF row, a
    <2> QED
      BY <1>1, <2>1, <2>2, <2>3, <2>4, <2>5, BeginSafe DEF Holders
  <1>7. ASSUME NEW a \in Accounts, Custody!Unclaim(x, d, a) PROVE CInv'
    <2> DEFINE row == [device[d] EXCEPT !.machine = None]
    <2>1. row \in Custody!Row /\ row.state = device[d].state /\ row.tenant = device[d].tenant
      BY <1>1 DEF Custody!Row
    <2>2. device[d].state # "absent" /\ device[d].tenant = a
      BY <1>7 DEF Custody!Unclaim, Custody!Sees
    <2>3. {Custody!Entry("unclaim", a)} \in SUBSET Entries
      BY DEF Custody!Entry, Entries, Holders
    <2>4. Custody!Begin(x, "save", d, a, row, {Custody!Entry("unclaim", a)})
      BY <1>7 DEF Custody!Unclaim
    <2> HIDE DEF row
    <2> QED
      BY <1>1, <2>1, <2>2, <2>3, <2>4, BeginSafe DEF Holders
  <1>8. ASSUME NEW e \in Machines, Custody!Onboard(x, d, e) PROVE CInv'
    <2> DEFINE a == Owner[e]
               new == [state |-> "assigned", tenant |-> a, machine |-> e]
    <2>1. a \in Accounts
      OBVIOUS
    <2>2. new \in Custody!Row /\ new.state = "assigned" /\ new.tenant = a
      BY <2>1 DEF Custody!Row, Custody!States
    <2>3. /\ Custody!Onboarded(a) \in SUBSET Entries
          /\ {Custody!Entry("claim", a)} \in SUBSET Entries
          /\ Custody!Entry("assign", a) \in Custody!Onboarded(a)
      BY <2>1 DEF Custody!Onboarded, Custody!Entry, Entries, Holders
    <2>4. \/ Custody!Begin(x, "enrol", d, None, new, Custody!Onboarded(a))
          \/ /\ device[d].tenant = a /\ device[d].state # "absent"
             /\ Custody!Begin(x, "fit", d, None, new, {Custody!Entry("claim", a)})
      BY <1>8 DEF Custody!Onboard
    <2> HIDE DEF new, a
    <2>5. CASE Custody!Begin(x, "enrol", d, None, new, Custody!Onboarded(a))
      BY <2>1, <2>2, <2>3, <2>5, BeginSafe DEF Holders
    <2>6. CASE /\ device[d].tenant = a /\ device[d].state # "absent"
               /\ Custody!Begin(x, "fit", d, None, new, {Custody!Entry("claim", a)})
      BY <1>1, <2>1, <2>2, <2>3, <2>6, BeginSafe DEF Holders
    <2> QED
      BY <2>4, <2>5, <2>6
  <1> QED
    BY <1>2, <1>3, <1>4, <1>5, <1>6, <1>7, <1>8 DEF Custody!Requests

\* A row saved over another is a row, and has each column from one of the two.
Saved(row, old, columns) ==
    [c \in DOMAIN row |-> IF c \in columns THEN row[c] ELSE old[c]]

\* A save of some columns leaves a row, with the state and the account of one of the two.
LEMMA SavedType ==
  ASSUME NEW row \in Custody!Row, NEW old \in Custody!Row, NEW columns
  PROVE  /\ Saved(row, old, columns) \in Custody!Row
         /\ Saved(row, old, columns).state \in {row.state, old.state}
         /\ Saved(row, old, columns).tenant \in {row.tenant, old.tenant}
  <1> DEFINE saved == Saved(row, old, columns)
  <1>1. DOMAIN row = Columns
    BY DEF Custody!Row, Columns
  <1>2. /\ saved["state"] = IF "state" \in columns THEN row["state"] ELSE old["state"]
        /\ saved["tenant"] = IF "tenant" \in columns THEN row["tenant"] ELSE old["tenant"]
        /\ saved["machine"] = IF "machine" \in columns THEN row["machine"] ELSE old["machine"]
    BY <1>1 DEF Columns, Saved
  <1>3. saved = [state |-> saved["state"], tenant |-> saved["tenant"], machine |-> saved["machine"]]
    BY <1>1 DEF Columns, Saved
  <1>4. /\ saved["state"] \in Custody!States \cup {"absent"}
        /\ saved["tenant"] \in Accounts \cup {None}
        /\ saved["machine"] \in Machines \cup {None}
    BY <1>2 DEF Custody!Row
  <1> HIDE DEF saved
  <1>5. saved \in Custody!Row
    BY <1>3, <1>4 DEF Custody!Row
  <1> QED
    BY <1>2, <1>5 DEF saved

\* A request that ends, and leaves in the table a registered device whose
\* holder is on record with the entries it adds.
LEMMA SettleSafe ==
  ASSUME CInv, NEW x \in Sessions, x \in UnderWay, NEW new \in Custody!Row,
         device' = [device EXCEPT ![errand[x].device] = new],
         new.state # "absent",
         new.tenant # None => Custody!Entry("assign", new.tenant) \in
                                  history[errand[x].device] \cup errand[x].entries,
         Custody!Recorded(x), Custody!Finish(x)
  PROVE  CInv'
  <1> DEFINE d == errand[x].device
             h == history[d] \cup errand[x].entries
  <1>1. errand[x] \in Errands
    BY DEF CInv, CustodyTypes, UnderWay
  <1>2. d \in Devices /\ h \in SUBSET Entries
    BY <1>1 DEF CInv, CustodyTypes, Errands
  <1>3. /\ history' = [history EXCEPT ![d] = h]
        /\ errand' = [errand EXCEPT ![x] = Custody!Done]
        /\ device' = [device EXCEPT ![d] = new]
    BY DEF Custody!Recorded, Custody!Finish
  <1>4. /\ device'[d] = new /\ history'[d] = h
        /\ \A c \in Devices \ {d} : device'[c] = device[c] /\ history'[c] = history[c]
        /\ \A c \in Devices : history[c] \subseteq history'[c]
    BY <1>2, <1>3 DEF CInv, CustodyTypes
  <1>5. CustodyTypes'
    BY <1>2, <1>3 DEF CInv, CustodyTypes
  <1> HIDE DEF h
  <1>6. Unregistered'
    BY <1>4 DEF CInv, Unregistered
  <1>7. HolderIsOnRecord'
    BY <1>2, <1>4 DEF CInv, HolderIsOnRecord, Custody!HolderIsOnRecord, Custody!Entry, h
  <1>8. ASSUME NEW y \in UnderWay' PROVE Sound(errand[y])'
    <2>1. y # x /\ errand'[y] = errand[y] /\ y \in UnderWay
      BY <1>3 DEF CInv, CustodyTypes, UnderWay
    <2>2. errand[y].device \in Devices /\ Sound(errand[y])
      BY <2>1 DEF CInv, CustodyTypes, UnderWay, Errands
    <2>3. NeverAbsent(errand[y])'
      BY <1>4, <2>1, <2>2 DEF Sound, NeverAbsent
    <2>4. OnRecord(errand[y])'
      BY <1>4, <2>1, <2>2 DEF Sound, OnRecord, Custody!Entry
    <2>5. KeepsAccount(errand[y])'
      BY <2>1, <2>2 DEF Sound, KeepsAccount
    <2> QED
      BY <2>3, <2>4, <2>5 DEF Sound
  <1> QED
    BY <1>5, <1>6, <1>7, <1>8 DEF CInv

\* A request that goes on, or ends without a trace.
LEMMA OnlyErrand ==
  ASSUME CInv, NEW x \in Sessions, x \in UnderWay, UNCHANGED <<device, history>>,
         NEW r \in Errands \cup {Custody!Done}, errand' = [errand EXCEPT ![x] = r],
         r # Custody!Done => Sound(r)
  PROVE  CInv'
  <1>1. CustodyTypes' /\ Unregistered' /\ HolderIsOnRecord'
    BY DEF CInv, CustodyTypes, Unregistered, HolderIsOnRecord, Custody!HolderIsOnRecord
  <1>2. ASSUME NEW y \in UnderWay' PROVE Sound(errand[y])'
    <2>1. CASE y = x
      <3>1. errand'[y] = r /\ r # Custody!Done
        BY <2>1 DEF CInv, CustodyTypes, UnderWay
      <3> QED
        BY <3>1 DEF Sound, NeverAbsent, OnRecord, KeepsAccount
    <2>2. CASE y # x
      <3>1. errand'[y] = errand[y] /\ y \in UnderWay
        BY <2>2 DEF CInv, CustodyTypes, UnderWay
      <3> QED
        BY <3>1 DEF CInv, Sound, NeverAbsent, OnRecord, KeepsAccount
    <2> QED
      BY <2>1, <2>2
  <1> QED
    BY <1>1, <1>2 DEF CInv

\* Saving keeps the invariant, whatever has become of the row meanwhile.
LEMMA SavingSafe ==
  ASSUME CInv, NEW x \in Sessions,
         Custody!Compare(x) \/ Custody!Write(x) \/ Custody!Insert(x) \/ Custody!Fit(x)
  PROVE  CInv'
  <1> DEFINE r == errand[x]
             d == errand[x].device
  <1>1. errand[x].at \in {"save", "write", "insert", "enrol", "fit"}
    BY DEF Custody!Compare, Custody!Write, Custody!Insert, Custody!Fit
  <1>2. r \in Errands /\ x \in UnderWay
    BY <1>1, ErrandType DEF CInv
  <1>3. /\ Sound(r) /\ d \in Devices /\ r.row \in Custody!Row
        /\ device[d] \in Custody!Row
        /\ device[d].tenant # None => Custody!Entry("assign", device[d].tenant) \in history[d]
    BY <1>2 DEF CInv, CustodyTypes, Errands, HolderIsOnRecord, Custody!HolderIsOnRecord
  <1>4. device = [device EXCEPT ![d] = device[d]]
    BY <1>3 DEF CInv, CustodyTypes
  <1>5. CASE Custody!Compare(x)
    <2> DEFINE columns == {c \in DOMAIN r.row : r.row[c] # device[r.device][c]}
    <2>1. UNCHANGED <<device, history>>
      BY <1>5 DEF Custody!Compare
    <2>2. CASE errand' = [errand EXCEPT ![x] = Custody!Done]
      BY <1>2, <2>1, <2>2, OnlyErrand
    <2>3. CASE errand' = [errand EXCEPT ![x].at = "write", ![x].columns = columns]
      <3> DEFINE w == [r EXCEPT !.at = "write", !.columns = columns]
      <3>1. columns \in SUBSET Columns
        BY <1>3 DEF Columns, Custody!Row
      <3> HIDE DEF columns
      <3>2. /\ w \in Errands /\ w.at = "write" /\ w.row = r.row /\ w.device = r.device
            /\ w.account = r.account /\ w.entries = r.entries
        BY <1>2, <3>1 DEF Errands
      <3>3. errand' = [errand EXCEPT ![x] = w]
        BY <1>2, <2>3 DEF CInv, CustodyTypes
      <3>4. Sound(w)
        BY <1>3, <1>5, <3>2 DEF Sound, NeverAbsent, OnRecord, KeepsAccount, Custody!Compare
      <3> HIDE DEF w
      <3> QED
        BY <1>2, <2>1, <3>2, <3>3, <3>4, OnlyErrand
    <2> QED
      BY <1>5, <2>2, <2>3 DEF Custody!Compare, Custody!Finish
  <1>6. CASE Custody!Write(x)
    <2> DEFINE saved == Saved(r.row, device[d], r.columns)
    <2>1. /\ saved \in Custody!Row
          /\ saved.state \in {r.row.state, device[d].state}
          /\ saved.tenant \in {r.row.tenant, device[d].tenant}
      BY <1>3, SavedType
    <2>2. device[d].state # "absent" /\ r.row.state # "absent"
      BY <1>3, <1>6 DEF Sound, NeverAbsent, Custody!Write
    <2>3. Custody!Recorded(x) /\ Custody!Finish(x)
      BY <1>6 DEF Custody!Write
    <2>4. device' = [device EXCEPT ![d] = saved] \/ device' = device
      BY <1>6 DEF Custody!Write, Saved
    <2> HIDE DEF saved
    <2>5. CASE device' = [device EXCEPT ![d] = saved]
      BY <1>2, <1>3, <2>1, <2>2, <2>3, <2>5, SettleSafe DEF Sound, OnRecord
    <2>6. CASE device' = device
      BY <1>2, <1>3, <1>4, <2>2, <2>3, <2>6, SettleSafe
    <2> QED
      BY <2>4, <2>5, <2>6
  <1>7. CASE Custody!Insert(x)
    <2>1. CASE device[d].state = "absent"
      BY <1>2, <1>3, <1>7, <2>1, SettleSafe DEF Custody!Insert, Sound, NeverAbsent, OnRecord
    <2>2. CASE device[d].state # "absent"
      BY <1>2, <1>7, <2>2, OnlyErrand DEF Custody!Insert, Custody!Finish
    <2> QED
      BY <2>1, <2>2
  <1>8. CASE Custody!Fit(x)
    <2> DEFINE fitted == [device[d] EXCEPT !.machine = r.row.machine]
    <2>1. device[d].state # "absent"
      BY <1>3, <1>8 DEF Sound, NeverAbsent, Custody!Fit
    <2>2. /\ fitted \in Custody!Row /\ fitted.state = device[d].state
          /\ fitted.tenant = device[d].tenant
      BY <1>3 DEF Custody!Row
    <2>3. Custody!Recorded(x) /\ Custody!Finish(x)
      BY <1>8 DEF Custody!Fit
    <2>4. device' = [device EXCEPT ![d] = fitted] \/ device' = device
      BY <1>3, <1>8 DEF Custody!Fit, CInv, CustodyTypes
    <2> HIDE DEF fitted
    <2>5. CASE device' = [device EXCEPT ![d] = fitted]
      BY <1>2, <1>3, <2>1, <2>2, <2>3, <2>5, SettleSafe
    <2>6. CASE device' = device
      BY <1>2, <1>3, <1>4, <2>1, <2>3, <2>6, SettleSafe
    <2> QED
      BY <2>4, <2>5, <2>6
  <1> QED
    BY <1>5, <1>6, <1>7, <1>8

--------------------------------------------------------------------------------
(* Bindings *)

\* An activation under way; its fields, and what it relies on.
Acts == [at : {"end", "insert"}, old : Nat, ends : Bindings!Moments, new : Bindings!Binding]

BindingTypes ==
    /\ now \in Bindings!Moments
    /\ bindings \in Seq(Bindings!Binding)
    /\ \A i \in DOMAIN bindings : bindings[i].from < bindings[i].to
    /\ activation \in [Approvers -> Acts \cup {Bindings!NoActivation}]

\* What it inserts is a primary binding of a window that is one, and what it
\* ends, if it ends one, is there and began before it ends.
Prepared(a) ==
    /\ a.new.from < a.new.to /\ Bindings!Primary(a.new)
    /\ a.old \in DOMAIN bindings \cup {Bindings!Nothing}
    /\ a.at = "end" => a.old # Bindings!Nothing
    /\ (a.at = "insert" /\ a.old # Bindings!Nothing) => a.ends > bindings[a.old].from

\* No two primary bindings share a moment.
Apart == \A i, j \in Bindings!Primaries :
             i # j => ~Bindings!Overlap(bindings[i], bindings[j])

Activating == {u \in Approvers : activation[u] # Bindings!NoActivation}

BInv == /\ BindingTypes
        /\ Apart
        /\ \A u \in Activating : Prepared(activation[u])

\* An approver who is not idle has an activation under way.
LEMMA ActType ==
  ASSUME BindingTypes, NEW u \in Approvers, activation[u].at # "idle"
  PROVE  activation[u] \in Acts /\ u \in Activating
  BY DEF BindingTypes, Bindings!NoActivation, Activating

\* The table with one row superseded is a table, with the windows' beginnings
\* as they were and that row no longer primary.
LEMMA EndedType ==
  ASSUME BInv, NEW u \in Activating, activation[u].at = "insert"
  PROVE  /\ Bindings!Ended(u) \in Seq(Bindings!Binding)
         /\ Len(Bindings!Ended(u)) = Len(bindings)
         /\ \A i \in DOMAIN bindings :
              /\ Bindings!Ended(u)[i].from = bindings[i].from
              /\ Bindings!Ended(u)[i].from < Bindings!Ended(u)[i].to
              /\ i # activation[u].old => Bindings!Ended(u)[i] = bindings[i]
              /\ i = activation[u].old => ~Bindings!Primary(Bindings!Ended(u)[i])
  <1> DEFINE a == activation[u]
             o == activation[u].old
             t == activation[u].ends
  <1>1. a \in Acts /\ Prepared(a)
    BY DEF BInv, BindingTypes, Activating
  <1>2. CASE o = Bindings!Nothing
    <2>1. Bindings!Ended(u) = bindings /\ Bindings!Nothing \notin DOMAIN bindings
      BY <1>2 DEF Bindings!Ended, Bindings!Nothing, BInv, BindingTypes
    <2> QED
      BY <1>2, <2>1 DEF BInv, BindingTypes
  <1>3. CASE o # Bindings!Nothing
    <2> DEFINE new == [bindings[o] EXCEPT !.to = t, !.status = "superseded", !.primary = FALSE]
    <2>1. o \in DOMAIN bindings /\ t \in Bindings!Moments /\ t > bindings[o].from
             /\ bindings[o] \in Bindings!Binding /\ DOMAIN bindings = 1 .. Len(bindings)
      BY <1>1, <1>3 DEF BInv, BindingTypes, Prepared, Acts
    <2>2. t \in 1 .. Bindings!Forever /\ bindings[o].from \in Nat
      BY <2>1, FleetAssumption DEF Bindings!Moments, Bindings!Forever, Bindings!Binding
    <2>3. /\ new \in Bindings!Binding /\ new.from = bindings[o].from /\ new.to = t
          /\ new.primary = FALSE
      BY <2>1, <2>2 DEF Bindings!Binding
    <2>4. Bindings!Ended(u) = [bindings EXCEPT ![o] = new]
      BY <1>3 DEF Bindings!Ended, Bindings!Superseded
    <2> HIDE DEF new
    <2>5. Bindings!Ended(u) \in Seq(Bindings!Binding) /\ Len(Bindings!Ended(u)) = Len(bindings)
      BY <2>1, <2>3, <2>4 DEF BInv, BindingTypes
    <2>6. /\ Bindings!Ended(u)[o] = new
          /\ \A i \in DOMAIN bindings \ {o} : Bindings!Ended(u)[i] = bindings[i]
      BY <2>1, <2>4 DEF BInv, BindingTypes
    <2> QED
      BY <2>1, <2>2, <2>3, <2>5, <2>6 DEF BInv, BindingTypes, Bindings!Primary
  <1> QED
    BY <1>2, <1>3

\* Activations that are under way rely on nothing a growing table takes away.
LEMMA GrownPrepared ==
  ASSUME DOMAIN bindings \subseteq DOMAIN bindings',
         \A i \in DOMAIN bindings : bindings'[i].from = bindings[i].from,
         NEW a, Prepared(a)
  PROVE  /\ a.new.from < a.new.to /\ Bindings!Primary(a.new)
         /\ a.old \in DOMAIN bindings' \cup {Bindings!Nothing}
         /\ a.at = "end" => a.old # Bindings!Nothing
         /\ (a.at = "insert" /\ a.old # Bindings!Nothing) => a.ends > bindings'[a.old].from
  BY DEF Prepared, Bindings!Nothing

\* The clock, the start of an activation and every failure leave the table alone.
LEMMA OnlyActivation ==
  ASSUME BInv, UNCHANGED bindings, now' \in Bindings!Moments, NEW u \in Approvers,
         NEW a \in Acts \cup {Bindings!NoActivation},
         activation' = [activation EXCEPT ![u] = a],
         a # Bindings!NoActivation => Prepared(a)
  PROVE  BInv'
  <1>1. BindingTypes' /\ Apart'
    BY DEF BInv, BindingTypes, Apart, Bindings!Primaries
  <1>2. ASSUME NEW v \in Activating' PROVE Prepared(activation[v])'
    <2>1. CASE v = u
      <3>1. activation'[v] = a /\ a # Bindings!NoActivation
        BY <2>1 DEF BInv, BindingTypes, Activating
      <3> QED
        BY <3>1 DEF Prepared
    <2>2. CASE v # u
      <3>1. activation'[v] = activation[v] /\ v \in Activating
        BY <2>2 DEF BInv, BindingTypes, Activating
      <3> QED
        BY <3>1 DEF BInv, Prepared
    <2> QED
      BY <2>1, <2>2
  <1> QED
    BY <1>1, <1>2 DEF BInv

\* A proposal is not in force, whatever its window.
LEMMA ProposeSafe ==
  ASSUME BInv, Bindings!Propose
  PROVE  BInv' /\ Bindings!Primaries' = Bindings!Primaries
  <1>1. PICK imei \in Devices, from \in Bindings!Moments, to \in 1 .. Bindings!Forever :
          from < to /\ bindings' = Append(bindings, Bindings!New(imei, from, to, "proposed"))
    BY DEF Bindings!Propose
  <1> DEFINE new == Bindings!New(imei, from, to, "proposed")
  <1>2. /\ new \in Bindings!Binding /\ new.from = from /\ new.to = to
        /\ ~Bindings!Primary(new)
    BY DEF Bindings!New, Bindings!Binding, Bindings!Primary
  <1> HIDE DEF new
  <1>3. /\ bindings' \in Seq(Bindings!Binding)
        /\ DOMAIN bindings' = DOMAIN bindings \cup {Len(bindings) + 1}
        /\ \A i \in DOMAIN bindings : bindings'[i] = bindings[i]
        /\ bindings'[Len(bindings) + 1] = new
    BY <1>1, <1>2 DEF BInv, BindingTypes, new
  <1>4. UNCHANGED <<now, activation>>
    BY DEF Bindings!Propose
  <1>5. Bindings!Primaries' = Bindings!Primaries
    BY <1>2, <1>3 DEF Bindings!Primaries
  <1>6. BindingTypes'
    BY <1>1, <1>2, <1>3, <1>4 DEF BInv, BindingTypes
  <1>7. Apart'
    BY <1>3, <1>5 DEF BInv, Apart, Bindings!Primaries
  <1>8. ASSUME NEW u \in Activating' PROVE Prepared(activation[u])'
    BY <1>3, <1>4, GrownPrepared DEF BInv, Activating, Prepared
  <1> QED
    BY <1>5, <1>6, <1>7, <1>8 DEF BInv

\* An activation begins with one binding in force in view, or none.
LEMMA ActivateSafe ==
  ASSUME BInv, NEW u \in Approvers, Bindings!Activate(u)
  PROVE  BInv'
  <1>1. UNCHANGED <<now, bindings>>
    BY DEF Bindings!Activate
  <1>2. now \in Bindings!Moments /\ Bindings!Moments \subseteq Nat
    BY FleetAssumption DEF BInv, BindingTypes, Bindings!Moments
  <1>3. PICK imei \in Devices, from \in Bindings!Moments, to \in 1 .. Bindings!Forever :
          /\ from < to
          /\ \/ activation' = [activation EXCEPT ![u] =
                   [at |-> "insert", old |-> Bindings!Nothing, ends |-> 0,
                    new |-> Bindings!New(imei, from, to, "active")]]
             \/ \E old \in Bindings!Primaries :
                   activation' = [activation EXCEPT ![u] =
                      [at |-> "end", old |-> old, ends |-> Bindings!EndsAt(old, from),
                       new |-> Bindings!New(imei, from, to, "active")]]
             \/ UNCHANGED activation
    BY DEF Bindings!Activate
  <1> DEFINE new == Bindings!New(imei, from, to, "active")
  <1>4. new \in Bindings!Binding /\ new.from < new.to /\ Bindings!Primary(new)
    BY <1>3 DEF Bindings!New, Bindings!Binding, Bindings!Primary
  <1> HIDE DEF new
  <1>5. CASE activation' = [activation EXCEPT ![u] =
                [at |-> "insert", old |-> Bindings!Nothing, ends |-> 0, new |-> new]]
    <2> DEFINE a == [at |-> "insert", old |-> Bindings!Nothing, ends |-> 0, new |-> new]
    <2>1. a \in Acts
      BY <1>4, FleetAssumption DEF Acts, Bindings!Nothing, Bindings!Moments
    <2>2. Prepared(a)
      BY <1>4 DEF Prepared
    <2> HIDE DEF a
    <2>3. activation' = [activation EXCEPT ![u] = a]
      BY <1>5 DEF a
    <2> QED
      BY <1>1, <1>2, <2>1, <2>2, <2>3, OnlyActivation
  <1>6. ASSUME NEW old \in Bindings!Primaries,
               activation' = [activation EXCEPT ![u] =
                 [at |-> "end", old |-> old, ends |-> Bindings!EndsAt(old, from), new |-> new]]
        PROVE  BInv'
    <2> DEFINE a == [at |-> "end", old |-> old, ends |-> Bindings!EndsAt(old, from), new |-> new]
    <2>1. old \in DOMAIN bindings /\ old \in Nat /\ old # Bindings!Nothing
      BY DEF Bindings!Primaries, BInv, BindingTypes, Bindings!Nothing
    <2>2. Bindings!EndsAt(old, from) \in Bindings!Moments
      BY <1>2 DEF Bindings!EndsAt
    <2>3. a \in Acts
      BY <1>4, <2>1, <2>2 DEF Acts
    <2>4. Prepared(a)
      BY <1>4, <2>1 DEF Prepared
    <2> HIDE DEF a
    <2>5. activation' = [activation EXCEPT ![u] = a]
      BY <1>6 DEF a
    <2> QED
      BY <1>1, <1>2, <2>3, <2>4, <2>5, OnlyActivation
  <1>7. CASE UNCHANGED activation
    BY <1>1, <1>7 DEF BInv, BindingTypes, Apart, Bindings!Primaries, Activating, Prepared
  <1> QED
    BY <1>3, <1>5, <1>6, <1>7 DEF new

\* Ending the old binding only prepares the insert, or fails.
LEMMA EndOldSafe ==
  ASSUME BInv, NEW u \in Approvers, Bindings!EndOld(u)
  PROVE  BInv' /\ UNCHANGED bindings
  <1> DEFINE a == [activation[u] EXCEPT !.at = "insert"]
  <1>1. activation[u] \in Acts /\ u \in Activating
    BY ActType DEF BInv, Bindings!EndOld
  <1>2. UNCHANGED <<now, bindings>>
    BY DEF Bindings!EndOld, Bindings!Fails
  <1>3. CASE activation' = [activation EXCEPT ![u] = Bindings!NoActivation]
    BY <1>2, <1>3, OnlyActivation DEF BInv, BindingTypes
  <1>4. CASE /\ Bindings!MayEnd(activation[u].old, activation[u].ends)
             /\ activation' = [activation EXCEPT ![u].at = "insert"]
    <2>1. /\ a \in Acts /\ a.at = "insert" /\ a.old = activation[u].old
          /\ a.ends = activation[u].ends /\ a.new = activation[u].new
      BY <1>1 DEF Acts
    <2>2. Prepared(activation[u])
      BY <1>1 DEF BInv
    <2>3. Prepared(a)
      BY <1>4, <2>1, <2>2 DEF Prepared, Bindings!MayEnd
    <2>4. activation' = [activation EXCEPT ![u] = a]
      BY <1>4 DEF BInv, BindingTypes
    <2> HIDE DEF a
    <2> QED
      BY <1>2, <2>1, <2>3, <2>4, OnlyActivation DEF BInv, BindingTypes
  <1> QED
    BY <1>2, <1>3, <1>4 DEF Bindings!EndOld, Bindings!Fails

\* The insert is the moment the table changes: the row it ends is primary no
\* longer, the row it adds is, and the constraint keeps that one apart from
\* the others.
LEMMA InsertSafe ==
  ASSUME BInv, NEW u \in Approvers, Bindings!InsertNew(u)
  PROVE  BInv' /\ (Bindings!Primaries' # {} \/ UNCHANGED bindings)
  <1> DEFINE new == activation[u].new
             old == activation[u].old
             last == Len(bindings) + 1
  <1>1. activation[u] \in Acts /\ u \in Activating /\ activation[u].at = "insert"
    BY ActType DEF BInv, Bindings!InsertNew
  <1>2. new \in Bindings!Binding /\ new.from < new.to /\ Bindings!Primary(new)
    BY <1>1 DEF Acts, BInv, Prepared
  <1>3. UNCHANGED now /\ activation' = [activation EXCEPT ![u] = Bindings!NoActivation]
    BY DEF Bindings!InsertNew
  <1>4. CASE UNCHANGED bindings
    BY <1>3, <1>4, OnlyActivation DEF BInv, BindingTypes
  <1>5. CASE Bindings!Clashes(u) = {} /\ bindings' = Append(Bindings!Ended(u), new)
    <2> DEFINE ended == Bindings!Ended(u)
    <2>1. /\ ended \in Seq(Bindings!Binding) /\ Len(ended) = Len(bindings)
          /\ \A i \in DOMAIN bindings :
               /\ ended[i].from = bindings[i].from
               /\ ended[i].from < ended[i].to
               /\ i # old => ended[i] = bindings[i]
               /\ i = old => ~Bindings!Primary(ended[i])
      BY <1>1, EndedType
    <2> HIDE DEF ended
    <2>2. /\ bindings' \in Seq(Bindings!Binding)
          /\ DOMAIN bindings' = DOMAIN bindings \cup {last}
          /\ last \notin DOMAIN bindings
          /\ \A i \in DOMAIN bindings : bindings'[i] = ended[i]
          /\ bindings'[last] = new
      BY <1>2, <1>5, <2>1 DEF BInv, BindingTypes, ended
    <2>3. BindingTypes'
      BY <1>2, <1>3, <2>1, <2>2 DEF BInv, BindingTypes
    <2>4. /\ last \in Bindings!Primaries'
          /\ \A i \in Bindings!Primaries' \ {last} :
                i \in Bindings!Primaries \ {old} /\ bindings'[i] = bindings[i]
      BY <1>2, <2>1, <2>2 DEF Bindings!Primaries
    <2>5. \A i \in Bindings!Primaries \ {old} : ~Bindings!Overlap(bindings[i], new)
      BY <1>5 DEF Bindings!Clashes
    <2>6. Apart'
      <3> SUFFICES ASSUME NEW i \in Bindings!Primaries', NEW j \in Bindings!Primaries', i # j
                   PROVE  ~Bindings!Overlap(bindings'[i], bindings'[j])
        BY DEF Apart
      <3>1. CASE i # last /\ j # last
        BY <2>4, <3>1 DEF BInv, Apart
      <3>2. CASE j = last
        BY <2>2, <2>4, <2>5, <3>2
      <3>3. CASE i = last
        BY <2>2, <2>4, <2>5, <3>3 DEF Bindings!Overlap
      <3> QED
        BY <3>1, <3>2, <3>3
    <2>7. ASSUME NEW v \in Activating' PROVE Prepared(activation[v])'
      <3>1. activation'[v] = activation[v] /\ v \in Activating
        BY <1>3 DEF BInv, BindingTypes, Activating
      <3> QED
        BY <2>1, <2>2, <3>1, GrownPrepared DEF BInv, Prepared
    <2> QED
      BY <2>3, <2>4, <2>6, <2>7 DEF BInv
  <1> QED
    BY <1>4, <1>5 DEF Bindings!InsertNew, Bindings!RolledBack

\* An activation that dies leaves the table alone, its ended row rolled back.
LEMMA CrashSafe ==
  ASSUME BInv, NEW u \in Approvers, Bindings!Crash(u)
  PROVE  BInv' /\ UNCHANGED bindings
  BY OnlyActivation DEF Bindings!Crash, Bindings!RolledBack, BInv, BindingTypes

--------------------------------------------------------------------------------
(* The two together *)

FInv == CInv /\ BInv

\* Nothing is registered, nothing is bound and nobody is at work.
LEMMA InitInv == Init => FInv
  <1> SUFFICES ASSUME Init PROVE FInv
    OBVIOUS
  <1> USE FleetAssumption
  <1>1. Custody!Absent \in Custody!Row /\ Custody!Absent.tenant = None
    BY DEF Custody!Absent, Custody!Row
  <1>2. CInv
    BY <1>1 DEF Init, Custody!Init, CInv, CustodyTypes, Unregistered, UnderWay,
                HolderIsOnRecord, Custody!HolderIsOnRecord
  <1>3. BInv
    BY DEF Init, Bindings!Init, BInv, BindingTypes, Apart, Activating, Bindings!Primaries,
           Bindings!Moments
  <1> QED
    BY <1>2, <1>3 DEF FInv

\* A step about custody leaves the bindings alone, and the other way round.
LEMMA NextInv == FInv /\ [Next]_fleet => FInv'
  <1> SUFFICES ASSUME FInv, [Next]_fleet PROVE FInv'
    OBVIOUS
  <1>1. ASSUME UNCHANGED <<now, bindings, activation, activations>> PROVE BInv'
    BY <1>1 DEF FInv, BInv, BindingTypes, Apart, Bindings!Primaries, Activating, Prepared
  <1>2. ASSUME UNCHANGED <<device, history, errand, errands>> PROVE CInv'
    BY <1>2 DEF FInv, CInv, CustodyTypes, Unregistered, HolderIsOnRecord,
                Custody!HolderIsOnRecord, UnderWay, Sound, NeverAbsent, OnRecord, KeepsAccount
  <1>3. CASE Custody!Next /\ UNCHANGED <<now, bindings, activation, activations>>
    BY <1>1, <1>3, RequestsSafe, SavingSafe DEF Custody!Next, FInv
  <1>4. CASE Bindings!Next /\ UNCHANGED <<device, history, errand, errands>>
    <2>1. CASE Bindings!Tick
      <3>1. now' \in Bindings!Moments
        BY <2>1, FleetAssumption DEF Bindings!Tick, FInv, BInv, BindingTypes, Bindings!Moments
      <3>2. BInv'
        BY <2>1, <3>1 DEF Bindings!Tick, FInv, BInv, BindingTypes, Apart, Bindings!Primaries,
                          Activating, Prepared
      <3> QED
        BY <1>2, <1>4, <3>2 DEF FInv
    <2> QED
      BY <1>2, <1>4, <2>1, ProposeSafe, ActivateSafe, EndOldSafe, InsertSafe, CrashSafe
      DEF Bindings!Next, FInv
  <1>5. CASE UNCHANGED fleet
    BY <1>1, <1>2, <1>5 DEF fleet, FInv
  <1> QED
    BY <1>3, <1>4, <1>5 DEF Next

\* Custody and bindings each keep their half, and neither touches the other.
LEMMA Invariance == Spec => []FInv
  BY InitInv, NextInv, PTL DEF Spec

\* Every variable keeps its type; a device that is not registered has no
\* history, and no request takes a registered one out of the table.
THEOREM TypeCorrect == Spec => []TypeOK
  <1>1. FInv => TypeOK
    <2> SUFFICES ASSUME FInv PROVE TypeOK
      OBVIOUS
    <2>1. Custody!TypeOK
      <3>1. ASSUME NEW x \in Sessions, errand[x] # Custody!Done
            PROVE  errand[x].row \in Custody!Row /\ errand[x].row # Custody!Absent
        BY <3>1 DEF FInv, CInv, CustodyTypes, Errands, UnderWay, Sound, NeverAbsent,
                    Custody!Absent
      <3> QED
        BY <3>1 DEF FInv, CInv, CustodyTypes, Unregistered, Custody!TypeOK
    <2>2. Bindings!TypeOK
      BY DEF FInv, BInv, BindingTypes, Activating, Prepared, Bindings!TypeOK
    <2> QED
      BY <2>1, <2>2 DEF TypeOK
  <1> QED
    BY <1>1, Invariance, PTL

\* Whoever holds a device, the history says it was assigned to them, however
\* many stale requests save over each other (assign, onboard, save).
THEOREM HolderRecorded == Spec => []HolderIsOnRecord
  <1>1. FInv => HolderIsOnRecord
    BY DEF FInv, CInv
  <1> QED
    BY <1>1, Invariance, PTL

\* An account's request changes only a device the account holds when it is
\* saved, and leaves it with the account (claim, unclaim, tenant_isolation).
THEOREM HolderAlone == Spec => OnlyTheHolderFits
  <1> DEFINE Fits == \A x \in Sessions :
          (Custody!Write(x) /\ errand[x].account # None) =>
              \A d \in Devices : device'[d] # device[d] =>
                  /\ device[d].tenant = errand[x].account
                  /\ device'[d].tenant = errand[x].account
  <1>1. FInv /\ [Next]_fleet => [Fits]_Custody!custody
    <2> SUFFICES ASSUME FInv, NEW x \in Sessions, Custody!Write(x), errand[x].account # None,
                        NEW d \in Devices, device'[d] # device[d]
                 PROVE  /\ device[d].tenant = errand[x].account
                        /\ device'[d].tenant = errand[x].account
      OBVIOUS
    <2> DEFINE r == errand[x]
               saved == Saved(r.row, device[r.device], r.columns)
    <2>1. r \in Errands /\ x \in UnderWay
      BY ErrandType DEF Custody!Write, FInv, CInv
    <2>2. r.row.tenant = r.account /\ r.row \in Custody!Row /\ r.device \in Devices
      BY <2>1 DEF FInv, CInv, Sound, KeepsAccount, Errands
    <2>3. Custody!Sees(r.account, r.device) /\ device' = [device EXCEPT ![r.device] = saved]
      BY DEF Custody!Write, Saved
    <2>4. d = r.device /\ device'[d] = saved /\ device[r.device] \in Custody!Row
      BY <2>2, <2>3 DEF FInv, CInv, CustodyTypes
    <2>5. device[d].tenant = r.account
      BY <2>3, <2>4 DEF Custody!Sees
    <2>6. saved.tenant \in {r.row.tenant, device[r.device].tenant}
      BY <2>2, <2>4, SavedType
    <2> HIDE DEF saved
    <2> QED
      BY <2>2, <2>4, <2>5, <2>6
  <1> QED
    BY <1>1, Invariance, PTL DEF Spec, OnlyTheHolderFits, Custody!OnlyTheHolderFits

\* At every moment at most one primary binding of the signal is in force,
\* however many activations overlap (activate, ex_signal_binding_primary).
THEOREM OneBinding == Spec => []OneInForce
  <1>1. FInv => OneInForce
    <2> SUFFICES ASSUME FInv, NEW t \in Bindings!Moments,
                        NEW i \in Bindings!Primaries, NEW j \in Bindings!Primaries,
                        Bindings!InForce(bindings[i], t), Bindings!InForce(bindings[j], t)
                 PROVE  i = j
      BY DEF OneInForce, Bindings!OneInForce
    <2>1. /\ bindings[i] \in Bindings!Binding /\ bindings[j] \in Bindings!Binding
          /\ t \in Nat
      BY FleetAssumption DEF FInv, BInv, BindingTypes, Bindings!Primaries, Bindings!Moments
    <2>2. Bindings!Overlap(bindings[i], bindings[j])
      BY <2>1, FleetAssumption
      DEF Bindings!Overlap, Bindings!InForce, Bindings!Binding, Bindings!Moments, Bindings!Forever
    <2> QED
      BY <2>2 DEF FInv, BInv, Apart
  <1> QED
    BY <1>1, Invariance, PTL

\* A signal that has an active binding keeps one through every refused, lost
\* or interrupted activation (activate).
THEOREM NeverLeftUnbound == Spec => NeverUnbound
  <1> DEFINE Keeps == Bindings!Primaries # {} => Bindings!Primaries' # {}
  <1>1. FInv /\ [Next]_fleet => [Keeps]_Bindings!bound
    <2> SUFFICES ASSUME FInv, [Next]_fleet PROVE Keeps
      OBVIOUS
    <2>1. CASE UNCHANGED bindings
      BY <2>1 DEF Bindings!Primaries
    <2>2. CASE Bindings!Next
      BY <2>1, <2>2, ProposeSafe, ActivateSafe, EndOldSafe, InsertSafe, CrashSafe
      DEF Bindings!Next, Bindings!Tick, Bindings!Activate, FInv
    <2> QED
      BY <2>1, <2>2 DEF Next, fleet
  <1> QED
    BY <1>1, Invariance, PTL DEF Spec, NeverUnbound, Bindings!NeverUnbound
================================================================================
