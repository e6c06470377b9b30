--------------------------- MODULE IncidentDesk_proofs ---------------------------
(***************************************************************************)
(* What IncidentDesk keeps for any machines, rules, requests, policies and *)
(* bounds: its types, one live incident a machine, alerts that have the    *)
(* incident they belong to, escalations that happen once a level, and      *)
(* promises that only tighten.                                             *)
(*                                                                         *)
(* The inductive invariant is about what is in hand between two steps: the *)
(* incident an evaluation is about to write, which conflicts with nothing  *)
(* or is locked; the incident a resolve has locked; and the row an         *)
(* alert's own transition read.                                            *)
(***************************************************************************)
EXTENDS IncidentDesk, TLAPS

--------------------------------------------------------------------------------
(* The inductive invariant. *)

\* The columns of an alert that never change.
SameFault(one, other) ==
    /\ one.rule = other.rule
    /\ one.machine = other.machine
    /\ one.incident = other.incident

\* A request that is resolving has the incident locked, and it is live; one
\* that read an alert read what never changes of it.
Resolving(q, d) == q.id \in IncidentIds /\ lock[q.id] = d /\ Live(incident[q.id])
Moving(q) == q.id \in AlertIds /\ alert[q.id].state # "absent" /\ SameFault(q.row, alert[q.id])

InOrder(q, d) ==
    /\ q.op = "resolve" => Resolving(q, d)
    /\ q.op = "raise" => q.id \in AlertIds
    /\ q.op \in {"acknowledged", "resolved"} => Moving(q)

RequestsInOrder == \A d \in Requests : InOrder(request[d], d)

\* An evaluation that opens an incident conflicts with no live one.
Opening ==
    /\ incident[eval.id].status = "absent"
    /\ LiveOn(eval.machine) = {}
    /\ eval.row.level = 0

\* One that joins an incident has it locked, and has only tightened it.
Joining ==
    /\ lock[eval.id] = Evaluator
    /\ Live(incident[eval.id])
    /\ incident[eval.id].machine = eval.machine
    /\ eval.row.level = incident[eval.id].level
    /\ OnlyTightens(incident[eval.id], eval.row)

InHand ==
    /\ eval.pc # "join" => eval.id = 0
    /\ eval.id = 0 => eval.absorbed = {}
    /\ eval.id # 0 =>
          /\ eval.row.machine = eval.machine
          /\ Live(eval.row)
          /\ \A r \in eval.absorbed : Severity[r] <= eval.row.severity
          /\ Opening \/ Joining

\* A row that is not used yet has escalated nothing.
FreshRows == \A i \in IncidentIds : incident[i].status = "absent" => incident[i].level = 0

DInv ==
    /\ TypeOK
    /\ FreshRows
    /\ RequestsInOrder
    /\ InHand
    /\ OneLivePerMachine
    /\ AlertHasItsIncident
    /\ StandingAlertIsOwned
    /\ EscalatedOncePerLevel

--------------------------------------------------------------------------------
(* Types. *)

\* The rows that stand for "not there" are rows.
LEMMA EmptyRows ==
  /\ NoAlert \in AlertRows /\ NoIncident \in IncidentRows
  /\ NoAlert.state = "absent" /\ NoIncident.status = "absent" /\ NoIncident.level = 0
  <1>1. (CHOOSE r \in Rules : TRUE) \in Rules /\ (CHOOSE m \in Machines : TRUE) \in Machines
    BY IncidentDeskAssumption
  <1>2. 0 \in 0..MaxIncidents /\ 0 \in 0..2 /\ 0 \in Nat
    BY IncidentDeskAssumption
  <1> QED
    BY <1>1, <1>2 DEF NoAlert, NoIncident, AlertRows, IncidentRows

Evals == [pc : {"idle", "save", "insert", "join"}, machine : Machines, fired : SUBSET Rules,
          absorbed : SUBSET Rules, id : 0..MaxIncidents, row : IncidentRows]

Asked == [op : {"none", "resolve", "raise", "acknowledged", "resolved"},
          id : 0..(MaxAlerts + MaxIncidents), row : AlertRows]

\* So are the evaluation and the request that stand for "none".
LEMMA NothingAsked ==
  /\ NoEval \in Evals /\ NoEval.pc = "idle" /\ NoEval.id = 0 /\ NoEval.absorbed = {}
  /\ NoRequest \in Asked /\ NoRequest.op = "none"
  <1>1. (CHOOSE m \in Machines : TRUE) \in Machines
    BY IncidentDeskAssumption
  <1>2. 0 \in 0..MaxIncidents /\ 0 \in 0..(MaxAlerts + MaxIncidents)
    BY IncidentDeskAssumption
  <1> QED
    BY <1>1, <1>2, EmptyRows DEF NoEval, NoRequest, Evals, Asked

\* A new incident is a row, live, and as severe as its first alert.
LEMMA NewRow ==
  ASSUME TypeOK, NEW r \in Rules, NEW m \in Machines
  PROVE  /\ NewIncident(r, m) \in IncidentRows
         /\ NewIncident(r, m).machine = m
         /\ NewIncident(r, m).severity = Severity[r]
         /\ NewIncident(r, m).level = 0
         /\ Live(NewIncident(r, m))
  <1>1. now \in Nat /\ Severity[r] \in Nat /\ Severity[r] \in Ranks
    BY IncidentDeskAssumption DEF TypeOK, Ranks
  <1>2. policy[Severity[r]] \in [ack : Nat, resolve : Nat]
    <2>1. policy[Severity[r]] \in Promises \cup {NoPromise}
      BY <1>1 DEF TypeOK
    <2>2. NoPromise \in [ack : Nat, resolve : Nat]
      BY DEF NoPromise
    <2> QED
      BY <2>1, <2>2, IncidentDeskAssumption
  <1>3. /\ Due(policy[Severity[r]].ack, now) \in Nat
        /\ Due(policy[Severity[r]].resolve, now) \in Nat
    <2>1. policy[Severity[r]].ack \in Nat /\ policy[Severity[r]].resolve \in Nat
      BY <1>2
    <2> QED
      BY <1>1, <2>1 DEF Due
  <1>4. 0 \in 0..2
    OBVIOUS
  <1> QED
    BY <1>1, <1>3, <1>4 DEF NewIncident, IncidentRows, Live

\* A due time is only pulled in.
LEMMA TighterIsTighter ==
  ASSUME NEW current \in Nat, NEW minutes \in Nat, NEW openedAt \in Nat
  PROVE  /\ Tighter(current, minutes, openedAt) \in Nat
         /\ current # 0 => /\ Tighter(current, minutes, openedAt) # 0
                           /\ Tighter(current, minutes, openedAt) <= current
  <1>1. CASE minutes = 0
    BY <1>1 DEF Tighter
  <1>2. CASE minutes # 0
    <2>1. openedAt + minutes \in Nat /\ openedAt + minutes # 0
      BY <1>2
    <2>2. Tighter(current, minutes, openedAt) =
             IF current # 0 /\ current < openedAt + minutes THEN current ELSE openedAt + minutes
      BY <1>2 DEF Tighter
    <2> QED
      BY <2>1, <2>2
  <1> QED
    BY <1>1, <1>2

\* An incident that an alert joins stays where it is and only tightens.
LEMMA JoinedRow ==
  ASSUME TypeOK, NEW row \in IncidentRows, NEW r \in Rules
  PROVE  /\ Joined(row, r) \in IncidentRows
         /\ Joined(row, r).machine = row.machine
         /\ Joined(row, r).status = row.status
         /\ Joined(row, r).level = row.level
         /\ Severity[r] <= Joined(row, r).severity
         /\ OnlyTightens(row, Joined(row, r))
         /\ row.severity <= Joined(row, r).severity
  <1> DEFINE p == policy[Severity[r]]
             ack == Tighter(row.ackDue, p.ack, row.openedAt)
             resolve == Tighter(row.resolveDue, p.resolve, row.openedAt)
  <1>1. Severity[r] \in Nat /\ Severity[r] \in Ranks
    BY IncidentDeskAssumption DEF TypeOK, Ranks
  <1>2. p.ack \in Nat /\ p.resolve \in Nat
    <2>1. p \in Promises \cup {NoPromise}
      BY <1>1 DEF TypeOK
    <2>2. NoPromise \in [ack : Nat, resolve : Nat]
      BY DEF NoPromise
    <2>3. p \in [ack : Nat, resolve : Nat]
      BY <2>1, <2>2, IncidentDeskAssumption
    <2> QED
      BY <2>3
  <1>3. /\ row.severity \in Nat /\ row.openedAt \in Nat /\ row.ackDue \in Nat
        /\ row.resolveDue \in Nat
    BY DEF IncidentRows
  <1>4. /\ ack \in Nat /\ (row.ackDue # 0 => ack # 0 /\ ack <= row.ackDue)
        /\ resolve \in Nat /\ (row.resolveDue # 0 => resolve # 0 /\ resolve <= row.resolveDue)
    BY <1>2, <1>3, TighterIsTighter
  <1>5. CASE Worse(row, Severity[r])
    <2>1. Joined(row, r) = [row EXCEPT !.severity = Severity[r], !.ackDue = ack, !.resolveDue = resolve]
      BY <1>5 DEF Joined
    <2>2. row.severity <= Severity[r]
      BY <1>1, <1>3, <1>5 DEF Worse
    <2> HIDE DEF ack, resolve, p
    <2>3. Joined(row, r) \in IncidentRows
      BY <1>1, <1>4, <2>1 DEF IncidentRows
    <2>4. /\ Joined(row, r).machine = row.machine /\ Joined(row, r).status = row.status
          /\ Joined(row, r).level = row.level /\ Joined(row, r).severity = Severity[r]
          /\ Joined(row, r).ackDue = ack /\ Joined(row, r).resolveDue = resolve
      BY <2>1 DEF IncidentRows
    <2>5. Severity[r] <= Joined(row, r).severity
      BY <1>1, <2>4
    <2> QED
      BY <1>4, <2>2, <2>3, <2>4, <2>5 DEF OnlyTightens
  <1>6. CASE ~Worse(row, Severity[r])
    <2>1. Joined(row, r) = row
      BY <1>6 DEF Joined
    <2>2. Severity[r] <= row.severity
      BY <1>1, <1>3, <1>6 DEF Worse
    <2> QED
      BY <1>3, <2>1, <2>2 DEF OnlyTightens
  <1> QED
    BY <1>5, <1>6

\* Tightening twice is tightening.
LEMMA TightensOn ==
  ASSUME NEW one \in IncidentRows, NEW two \in IncidentRows, NEW three \in IncidentRows,
         OnlyTightens(one, two), OnlyTightens(two, three), two.status # "absent"
  PROVE  OnlyTightens(one, three)
  BY DEF OnlyTightens, IncidentRows

--------------------------------------------------------------------------------
(* Steps of the evaluation. *)

\* A step that leaves the tables, the locks and the requests alone.
Untouched == UNCHANGED <<now, policy, alert, incident, job, request, lock, escalations, revived, left>>

\* What an evaluation has in hand may change as long as it is a record of its
\* type and still in order.
LEMMA EvalMoves ==
  ASSUME DInv, Untouched, eval' \in Evals, lost' \in BOOLEAN, InHand'
  PROVE  DInv'
  <1>1. TypeOK'
    BY DEF DInv, TypeOK, Untouched, Evals
  <1>2. RequestsInOrder'
    BY DEF DInv, RequestsInOrder, InOrder, Resolving, Moving, Untouched
  <1>3. FreshRows' /\ OneLivePerMachine' /\ AlertHasItsIncident' /\ StandingAlertIsOwned' /\ EscalatedOncePerLevel'
    BY DEF DInv, FreshRows, OneLivePerMachine, AlertHasItsIncident, StandingAlertIsOwned, Owned, EscalatedOncePerLevel,
       Untouched
  <1> QED
    BY <1>1, <1>2, <1>3 DEF DInv

\* With nothing to join or to open there is nothing to keep.
LEMMA NothingInHand ==
  ASSUME eval'.id = 0, eval'.absorbed = {}
  PROVE  InHand'
  BY DEF InHand

\* The evaluation in hand is of its type, as the lemmas below need it.
LEMMA EvalType == TypeOK => eval \in Evals
  BY DEF TypeOK, Evals

\* An evaluation begins with no incident and nothing absorbed.
LEMMA FireSafe ==
  ASSUME DInv, NEW m \in Machines, NEW firing \in SUBSET Rules, Fire(m, firing)
  PROVE  DInv'
  <1> DEFINE fired == {r \in firing : ~Suppressed(r, m)}
  <1>1. /\ eval' = [NoEval EXCEPT !.pc = "save", !.machine = m, !.fired = fired]
        /\ Untouched /\ UNCHANGED lost
    BY DEF Fire, Untouched
  <1>2. fired \in SUBSET Rules
    OBVIOUS
  <1> HIDE DEF fired
  <1>3. eval' \in Evals /\ eval'.id = 0 /\ eval'.absorbed = {}
    BY <1>1, <1>2, NothingAsked DEF Evals
  <1> QED
    BY <1>1, <1>3, EvalMoves, NothingInHand DEF DInv, TypeOK

\* The alerts are saved inside the transaction: no table others see changes.
LEMMA SaveSafe ==
  ASSUME DInv, Save
  PROVE  DInv'
  <1>1. eval' = [eval EXCEPT !.pc = "insert"] /\ eval.pc = "save" /\ Untouched /\ UNCHANGED lost
    BY DEF Save, Untouched
  <1>2. eval \in Evals /\ eval.id = 0 /\ eval.absorbed = {}
    BY <1>1, EvalType DEF DInv, InHand
  <1>3. eval' \in Evals /\ eval'.id = 0 /\ eval'.absorbed = {}
    BY <1>1, <1>2 DEF Evals
  <1> QED
    BY <1>1, <1>3, EvalMoves, NothingInHand DEF DInv, TypeOK

\* An evaluation that is rolled back has nothing in hand any more.
LEMMA RolledBackSafe ==
  ASSUME DInv, Refused \/ LiveVanished
  PROVE  DInv'
  <1>1. eval' = NoEval /\ lost' = TRUE /\ Untouched
    BY DEF Refused, LiveVanished, Untouched
  <1> QED
    BY <1>1, NothingAsked, EvalMoves, NothingInHand

\* The INSERT opens an incident that conflicts with nothing, or leaves the evaluation to join.
LEMMA InsertSafe ==
  ASSUME DInv, NEW r \in Rules, Insert(r)
  PROVE  DInv'
  <1>1. eval.pc = "insert" /\ r \in eval.fired /\ Untouched /\ UNCHANGED lost
    BY DEF Insert, Untouched
  <1>2. eval \in Evals /\ eval.id = 0 /\ eval.absorbed = {}
    BY <1>1, EvalType DEF DInv, InHand
  <1>3. CASE Conflicts(eval.machine) # {}
    <2>1. eval' = [eval EXCEPT !.pc = "join"]
      BY <1>3 DEF Insert
    <2>2. eval' \in Evals /\ eval'.id = 0 /\ eval'.absorbed = {}
      BY <1>2, <2>1 DEF Evals
    <2> QED
      BY <1>1, <2>2, EvalMoves, NothingInHand DEF DInv, TypeOK
  <1>4. CASE Conflicts(eval.machine) = {}
    <2> DEFINE row == NewIncident(r, eval.machine)
    <2>1. PICK i \in NextIncident :
             eval' = [eval EXCEPT !.pc = "join", !.id = i, !.fired = @ \ {r},
                                  !.absorbed = {r}, !.row = row]
      BY <1>4 DEF Insert
    <2>2. /\ row \in IncidentRows /\ row.machine = eval.machine /\ row.severity = Severity[r]
          /\ row.level = 0 /\ Live(row)
      BY <1>2, NewRow DEF DInv, Evals
    <2> HIDE DEF row
    <2>3. i \in IncidentIds /\ incident[i].status = "absent" /\ i \in 0..MaxIncidents /\ i # 0
      BY IncidentDeskAssumption DEF NextIncident, IncidentIds
    <2>4. /\ eval' \in Evals /\ eval'.pc = "join" /\ eval'.id = i /\ eval'.absorbed = {r}
          /\ eval'.row = row /\ eval'.machine = eval.machine
      BY <1>1, <1>2, <2>1, <2>2, <2>3 DEF Evals
    <2>5. Severity[r] \in Nat
      BY IncidentDeskAssumption
    <2>6. Opening'
      <3>1. LiveOn(eval.machine)' = LiveOn(eval.machine) /\ LiveOn(eval.machine) = {}
        BY <1>1, <1>4, <2>4 DEF Untouched, LiveOn, Conflicts
      <3> QED
        BY <1>1, <2>2, <2>3, <2>4, <3>1 DEF Opening, Untouched, LiveOn
    <2>7. InHand'
      BY <2>2, <2>3, <2>4, <2>5, <2>6 DEF InHand, Live
    <2> QED
      BY <1>1, <2>4, <2>7, EvalMoves DEF DInv, TypeOK
  <1> QED
    BY <1>3, <1>4

\* One more alert raises and tightens the copy of the row that is locked, and only it.
LEMMA JoinSafe ==
  ASSUME DInv, NEW r \in Rules, Join(r)
  PROVE  DInv'
  <1> DEFINE row == Joined(eval.row, r)
  <1>1. /\ eval.pc = "join" /\ eval.id # 0 /\ r \in eval.fired /\ Untouched /\ UNCHANGED lost
        /\ eval' = [eval EXCEPT !.fired = @ \ {r}, !.absorbed = @ \cup {r}, !.row = row]
    BY DEF Join, Untouched
  <1>2. eval \in Evals /\ eval.row \in IncidentRows
    BY EvalType DEF DInv, Evals
  <1>3. /\ row \in IncidentRows /\ row.machine = eval.row.machine /\ row.status = eval.row.status
        /\ row.level = eval.row.level /\ Severity[r] <= row.severity
        /\ OnlyTightens(eval.row, row) /\ eval.row.severity <= row.severity
    BY <1>2, JoinedRow DEF DInv
  <1> HIDE DEF row
  <1>4. /\ eval' \in Evals /\ eval'.pc = "join" /\ eval'.id = eval.id
        /\ eval'.absorbed = eval.absorbed \cup {r} /\ eval'.row = row
        /\ eval'.machine = eval.machine
    BY <1>1, <1>2, <1>3 DEF Evals
  <1>5. /\ eval.row.machine = eval.machine /\ Live(eval.row)
        /\ \A s \in eval.absorbed : Severity[s] <= eval.row.severity
        /\ Opening \/ Joining
    BY <1>1 DEF DInv, InHand
  <1>6. \A s \in eval.absorbed \cup {r} : Severity[s] <= row.severity
    <2>1. \A s \in Rules : Severity[s] \in Nat
      BY IncidentDeskAssumption
    <2>2. eval.absorbed \subseteq Rules /\ eval.row.severity \in Nat /\ row.severity \in Nat
      BY <1>2, <1>3 DEF Evals, IncidentRows
    <2> QED
      BY <1>3, <1>5, <2>1, <2>2
  <1>7. Opening => Opening'
    BY <1>1, <1>3, <1>4 DEF Opening, Untouched, LiveOn
  <1>8. Joining => Joining'
    <2> SUFFICES ASSUME Joining PROVE Joining'
      OBVIOUS
    <2>1. incident[eval.id] \in IncidentRows
      BY <1>1, <1>2 DEF DInv, TypeOK, Evals, IncidentIds
    <2>2. eval.row.status # "absent"
      BY <1>5 DEF Live
    <2>3. OnlyTightens(incident[eval.id], row)
      BY <1>2, <1>3, <2>1, <2>2, TightensOn DEF Joining
    <2> QED
      BY <1>1, <1>3, <1>4, <2>3 DEF Joining, Untouched
  <1>9. InHand'
    BY <1>1, <1>3, <1>4, <1>5, <1>6, <1>7, <1>8 DEF InHand, Live
  <1> QED
    BY <1>1, <1>4, <1>9, EvalMoves DEF DInv, TypeOK

\* Locking a live row for the evaluation: what it has in hand is that row.
LEMMA LockLiveSafe ==
  ASSUME DInv, LockLive
  PROVE  DInv'
  <1>1. PICK i \in LiveOn(eval.machine) :
           /\ lock[i] = Nobody
           /\ lock' = [lock EXCEPT ![i] = Evaluator]
           /\ eval' = [eval EXCEPT !.id = i, !.row = incident[i]]
    BY DEF LockLive
  <1>2. /\ eval.pc = "join" /\ eval.id = 0
        /\ UNCHANGED <<now, policy, alert, incident, job, request, escalations, lost, revived, left>>
    BY DEF LockLive
  <1>3. eval \in Evals /\ eval.absorbed = {}
    BY <1>2, EvalType DEF DInv, InHand
  <1>4. /\ i \in IncidentIds /\ i \in 0..MaxIncidents /\ i # 0
        /\ incident[i] \in IncidentRows /\ Live(incident[i]) /\ incident[i].machine = eval.machine
    BY IncidentDeskAssumption DEF LiveOn, IncidentIds, DInv, TypeOK
  <1>5. /\ eval' \in Evals /\ eval'.pc = "join" /\ eval'.id = i /\ eval'.absorbed = {}
        /\ eval'.row = incident[i] /\ eval'.machine = eval.machine
    BY <1>1, <1>2, <1>3, <1>4 DEF Evals
  <1>6. lock \in [IncidentIds -> Requests \cup {Evaluator, Nobody}]
    BY DEF DInv, TypeOK
  <1>7. lock'[i] = Evaluator /\ \A j \in IncidentIds : j # i => lock'[j] = lock[j]
    BY <1>1, <1>4, <1>6
  <1>8. TypeOK'
    BY <1>1, <1>2, <1>5, <1>6 DEF DInv, TypeOK, Evals
  <1>9. RequestsInOrder'
    <2> SUFFICES ASSUME NEW d \in Requests PROVE InOrder(request[d], d)'
      BY DEF RequestsInOrder
    <2>1. InOrder(request[d], d)
      BY DEF DInv, RequestsInOrder
    <2>2. Resolving(request[d], d) => Resolving(request[d], d)'
      BY <1>1, <1>2, <1>7, IncidentDeskAssumption DEF Resolving
    <2>3. Moving(request[d]) => Moving(request[d])'
      BY <1>2 DEF Moving
    <2> QED
      BY <1>2, <2>1, <2>2, <2>3 DEF InOrder
  <1>10. InHand'
    <2>1. Joining'
      BY <1>2, <1>4, <1>5, <1>7 DEF Joining, OnlyTightens, IncidentRows
    <2> QED
      BY <1>4, <1>5, <2>1 DEF InHand, Live
  <1>11. FreshRows' /\ OneLivePerMachine' /\ AlertHasItsIncident' /\ StandingAlertIsOwned' /\ EscalatedOncePerLevel'
    BY <1>2 DEF DInv, FreshRows, OneLivePerMachine, AlertHasItsIncident, StandingAlertIsOwned, Owned, EscalatedOncePerLevel
  <1> QED
    BY <1>8, <1>9, <1>10, <1>11 DEF DInv

\* The commit: the incident is as it was in hand, and each new alert takes a
\* row that was free.
LEMMA CommitSafe ==
  ASSUME DInv, Commit
  PROVE  DInv'
  <1> DEFINE id == eval.id
             row == eval.row
  <1>1. /\ eval.pc = "join" /\ id # 0
        /\ incident' = [incident EXCEPT ![id] = row]
        /\ lock' = Unlocked(Evaluator) /\ eval' = NoEval
        /\ UNCHANGED <<now, policy, job, request, escalations, lost, revived, left>>
    BY DEF Commit
  <1>2. /\ eval \in Evals /\ id \in IncidentIds /\ row \in IncidentRows
        /\ eval.machine \in Machines /\ eval.absorbed \subseteq Rules /\ id \in 0..MaxIncidents
    BY <1>1, EvalType DEF DInv, Evals, IncidentIds
  <1>3. /\ row.machine = eval.machine /\ Live(row)
        /\ \A r \in eval.absorbed : Severity[r] <= row.severity
        /\ Opening \/ Joining
    BY <1>1 DEF DInv, InHand
  <1>4. alert \in [AlertIds -> AlertRows] /\ incident \in [IncidentIds -> IncidentRows]
        /\ lock \in [IncidentIds -> Requests \cup {Evaluator, Nobody}]
    BY DEF DInv, TypeOK
  <1>5. \A a \in AlertIds :
           \/ alert'[a] = alert[a]
           \/ /\ alert[a].state = "absent"
              /\ alert'[a] \in AlertRows /\ alert'[a].state = "open"
              /\ alert'[a].rule \in eval.absorbed
              /\ alert'[a].machine = eval.machine /\ alert'[a].incident = id
    <2>1. PICK place \in [eval.absorbed -> NextAlert] :
             alert' = [a \in AlertIds |->
                IF \E r \in eval.absorbed : place[r] = a
                THEN [state |-> "open", rule |-> CHOOSE r \in eval.absorbed : place[r] = a,
                      machine |-> eval.machine, incident |-> id]
                ELSE alert[a]]
      BY DEF Commit
    <2> SUFFICES ASSUME NEW a \in AlertIds, \E r \in eval.absorbed : place[r] = a
                 PROVE  /\ alert[a].state = "absent"
                        /\ alert'[a] \in AlertRows /\ alert'[a].state = "open"
                        /\ alert'[a].rule \in eval.absorbed
                        /\ alert'[a].machine = eval.machine /\ alert'[a].incident = id
      BY <2>1
    <2> DEFINE r == CHOOSE r \in eval.absorbed : place[r] = a
    <2>2. r \in eval.absorbed /\ place[r] = a
      OBVIOUS
    <2>3. alert'[a] = [state |-> "open", rule |-> r, machine |-> eval.machine, incident |-> id]
      BY <2>1
    <2> HIDE DEF r
    <2>4. a \in NextAlert
      BY <2>1, <2>2
    <2>5. r \in Rules
      BY <1>2, <2>2
    <2>6. alert[a].state = "absent" /\ id \in 0..MaxIncidents /\ eval.machine \in Machines
      BY <1>2, <2>4 DEF NextAlert
    <2> HIDE DEF id
    <2>7. alert'[a] \in AlertRows
      BY <2>3, <2>5, <2>6 DEF AlertRows, Unresolved
    <2> QED
      BY <2>2, <2>3, <2>6, <2>7
  <1>6. alert' \in [AlertIds -> AlertRows]
    <2>1. alert' = [a \in AlertIds |-> alert'[a]]
      BY DEF Commit
    <2> QED
      BY <1>4, <1>5, <2>1
  <1>7. /\ incident' \in [IncidentIds -> IncidentRows] /\ incident'[id] = row
        /\ \A j \in IncidentIds : j # id => incident'[j] = incident[j]
    BY <1>1, <1>2, <1>4
  <1>8. /\ lock' \in [IncidentIds -> Requests \cup {Evaluator, Nobody}]
        /\ \A j \in IncidentIds : lock[j] # Evaluator => lock'[j] = lock[j]
    BY <1>1, <1>4 DEF Unlocked
  <1>9. TypeOK'
    BY <1>1, <1>6, <1>7, <1>8, NothingAsked DEF DInv, TypeOK, Evals
  <1>10. incident[id].status = "absent" \/ lock[id] = Evaluator
    BY <1>3 DEF Opening, Joining
  <1>11. RequestsInOrder'
    <2> SUFFICES ASSUME NEW d \in Requests PROVE InOrder(request[d], d)'
      BY DEF RequestsInOrder
    <2>1. InOrder(request[d], d)
      BY DEF DInv, RequestsInOrder
    <2>2. Resolving(request[d], d) => Resolving(request[d], d)'
      BY <1>1, <1>7, <1>8, <1>10, IncidentDeskAssumption DEF Resolving, Live
    <2>3. Moving(request[d]) => Moving(request[d])'
      BY <1>1, <1>5 DEF Moving, SameFault
    <2> QED
      BY <1>1, <2>1, <2>2, <2>3 DEF InOrder
  <1>12. InHand'
    BY <1>1, NothingAsked, NothingInHand
  <1>13. \A j \in IncidentIds : j # id /\ Live(incident[j]) => incident[j].machine # row.machine
    <2>1. CASE Opening
      BY <1>3, <2>1 DEF Opening, LiveOn
    <2>2. CASE Joining
      BY <1>2, <1>3, <2>2 DEF Joining, DInv, OneLivePerMachine
    <2> QED
      BY <1>3, <2>1, <2>2
  <1>14. OneLivePerMachine'
    BY <1>7, <1>13 DEF DInv, OneLivePerMachine
  <1>15. \A j \in IncidentIds : incident[j].status # "absent" =>
            /\ incident'[j].status # "absent"
            /\ incident'[j].machine = incident[j].machine
            /\ incident[j].severity <= incident'[j].severity
            /\ Live(incident[j]) => Live(incident'[j])
    <2> SUFFICES ASSUME NEW j \in IncidentIds, incident[j].status # "absent"
                 PROVE  /\ incident'[j].status # "absent"
                        /\ incident'[j].machine = incident[j].machine
                        /\ incident[j].severity <= incident'[j].severity
                        /\ Live(incident[j]) => Live(incident'[j])
      OBVIOUS
    <2>1. CASE j # id
      BY <1>4, <1>7, <2>1 DEF IncidentRows
    <2>2. CASE j = id
      <3>1. Joining
        BY <1>3, <2>2 DEF Opening
      <3> QED
        BY <1>3, <1>7, <2>2, <3>1 DEF Joining, OnlyTightens, Live
    <2> QED
      BY <2>1, <2>2
  <1>16. \A r \in Rules : Severity[r] \in Nat
    BY IncidentDeskAssumption
  <1>17. AlertHasItsIncident'
    <2> SUFFICES ASSUME NEW a \in AlertIds, alert'[a].state # "absent"
                 PROVE  /\ alert'[a].incident # 0
                        /\ incident'[alert'[a].incident].status # "absent"
                        /\ incident'[alert'[a].incident].machine = alert'[a].machine
                        /\ Severity[alert'[a].rule] <= incident'[alert'[a].incident].severity
      BY DEF AlertHasItsIncident
    <2>1. CASE alert'[a] = alert[a]
      <3> DEFINE j == alert[a].incident
      <3>1. /\ j # 0 /\ incident[j].status # "absent" /\ incident[j].machine = alert[a].machine
            /\ Severity[alert[a].rule] <= incident[j].severity
        BY <2>1 DEF DInv, AlertHasItsIncident
      <3>2. j \in IncidentIds /\ alert[a].rule \in Rules
        BY <1>4, <3>1, IncidentDeskAssumption DEF AlertRows, IncidentIds
      <3> HIDE DEF j
      <3>3. incident[j].severity \in Nat /\ incident'[j].severity \in Nat
        BY <1>4, <1>7, <3>2 DEF IncidentRows
      <3>4. Severity[alert[a].rule] <= incident'[j].severity
        BY <1>15, <1>16, <3>1, <3>2, <3>3
      <3> QED
        BY <1>15, <2>1, <3>1, <3>2, <3>4 DEF j
    <2>2. CASE alert'[a] # alert[a]
      BY <1>1, <1>3, <1>5, <1>7, <2>2 DEF Live
    <2> QED
      BY <2>1, <2>2
  <1>18. StandingAlertIsOwned'
    <2> SUFFICES ASSUME NEW a \in AlertIds \ revived, alert'[a].state \in Unresolved
                 PROVE  alert'[a].incident \in IncidentIds /\ Live(incident'[alert'[a].incident])
      BY <1>1 DEF StandingAlertIsOwned, Owned
    <2>1. CASE alert'[a] = alert[a]
      <3>1. PICK j \in IncidentIds : j = alert[a].incident /\ Live(incident[j])
        BY <2>1 DEF DInv, StandingAlertIsOwned, Owned
      <3> QED
        BY <1>15, <2>1, <3>1 DEF Live
    <2>2. CASE alert'[a] # alert[a]
      BY <1>2, <1>3, <1>5, <1>7, <2>2
    <2> QED
      BY <2>1, <2>2
  <1>19. EscalatedOncePerLevel'
    <2>1. incident'[id].level = incident[id].level
      <3>1. CASE Opening
        <4>1. incident[id].status = "absent" /\ row.level = 0
          BY <3>1 DEF Opening
        <4>2. incident[id].level = 0
          BY <1>2, <4>1 DEF DInv, FreshRows
        <4> QED
          BY <1>7, <4>1, <4>2
      <3>2. CASE Joining
        BY <1>7, <3>2 DEF Joining
      <3> QED
        BY <1>3, <3>1, <3>2
    <2>2. \A j \in IncidentIds : incident'[j].level = incident[j].level
      BY <1>7, <2>1
    <2> QED
      BY <1>1, <2>2 DEF DInv, EscalatedOncePerLevel
  <1>20. FreshRows'
    BY <1>3, <1>7 DEF DInv, FreshRows, Live
  <1> QED
    BY <1>9, <1>11, <1>12, <1>14, <1>17, <1>18, <1>19, <1>20 DEF DInv


--------------------------------------------------------------------------------
(* Steps beside the evaluation: what they must leave alone. *)

\* An evaluation keeps what it has in hand if nobody touches the incident it
\* has locked, or opens one.
LEMMA HandKept ==
  ASSUME DInv, UNCHANGED eval,
         \A i \in IncidentIds : lock[i] = Evaluator => lock'[i] = Evaluator /\ incident'[i] = incident[i],
         \A i \in IncidentIds :
            /\ incident[i].status = "absent" => incident'[i].status = "absent"
            /\ Live(incident'[i]) => Live(incident[i]) /\ incident'[i].machine = incident[i].machine
  PROVE  InHand'
  <1>1. CASE eval.id = 0
    BY <1>1 DEF DInv, InHand
  <1>2. CASE eval.id # 0
    <2>1. eval.id \in IncidentIds
      BY <1>2 DEF DInv, TypeOK, IncidentIds
    <2>2. Opening => Opening'
      BY <2>1 DEF Opening, LiveOn
    <2>3. Joining => Joining'
      BY <2>1 DEF Joining
    <2> QED
      BY <1>2, <2>1, <2>2, <2>3 DEF DInv, InHand
  <1> QED
    BY <1>1, <1>2

\* The columns of an alert that never change, of all of them.
SameFaults ==
    \A a \in AlertIds : alert[a].state # "absent" =>
        alert'[a].state # "absent" /\ SameFault(alert[a], alert'[a])

\* So does a request that goes on.
LEMMA RequestKept ==
  ASSUME DInv, NEW d \in Requests, request'[d] = request[d], SameFaults,
         \A i \in IncidentIds :
            lock[i] = d /\ Live(incident[i]) => lock'[i] = d /\ Live(incident'[i])
  PROVE  InOrder(request[d], d)'
  <1>1. InOrder(request[d], d)
    BY DEF DInv, RequestsInOrder
  <1>2. Resolving(request[d], d) => Resolving(request[d], d)'
    BY DEF Resolving
  <1>3. Moving(request[d]) => Moving(request[d])'
    BY DEF Moving, SameFault, SameFaults
  <1> QED
    BY <1>1, <1>2, <1>3 DEF InOrder

\* Alerts keep their incident if no row of it is taken away or made milder,
\* and none of them changes what it is.
LEMMA AlertsKept ==
  ASSUME DInv,
         \A a \in AlertIds : alert'[a].state # "absent" =>
             alert[a].state # "absent" /\ SameFault(alert[a], alert'[a]),
         \A i \in IncidentIds : incident[i].status # "absent" =>
             /\ incident'[i].status # "absent"
             /\ incident'[i].machine = incident[i].machine
             /\ incident'[i].severity = incident[i].severity
  PROVE  AlertHasItsIncident'
  <1> SUFFICES ASSUME NEW a \in AlertIds, alert'[a].state # "absent"
               PROVE  /\ alert'[a].incident # 0
                      /\ incident'[alert'[a].incident].status # "absent"
                      /\ incident'[alert'[a].incident].machine = alert'[a].machine
                      /\ Severity[alert'[a].rule] <= incident'[alert'[a].incident].severity
    BY DEF AlertHasItsIncident
  <1> DEFINE j == alert[a].incident
  <1>1. alert[a].state # "absent" /\ SameFault(alert[a], alert'[a])
    OBVIOUS
  <1>2. /\ j # 0 /\ incident[j].status # "absent" /\ incident[j].machine = alert[a].machine
        /\ Severity[alert[a].rule] <= incident[j].severity
    BY <1>1 DEF DInv, AlertHasItsIncident
  <1>3. j \in IncidentIds
    <2>1. alert[a] \in AlertRows
      BY DEF DInv, TypeOK
    <2>2. j \in 0..MaxIncidents
      BY <2>1 DEF AlertRows
    <2> QED
      BY <1>2, <2>2, IncidentDeskAssumption DEF IncidentIds
  <1> QED
    BY <1>1, <1>2, <1>3 DEF SameFault

\* What concerns neither alerts, incidents, locks nor the evaluation.
LEMMA TablesKept ==
  ASSUME DInv, UNCHANGED <<alert, incident, eval, lock, escalations, revived>>
  PROVE  /\ InHand' /\ FreshRows' /\ OneLivePerMachine' /\ AlertHasItsIncident' /\ StandingAlertIsOwned'
         /\ EscalatedOncePerLevel'
  <1>1. InHand'
    BY HandKept
  <1> QED
    BY <1>1 DEF DInv, FreshRows, OneLivePerMachine, AlertHasItsIncident, StandingAlertIsOwned, Owned,
       EscalatedOncePerLevel

\* acknowledge(): nobody has the incident locked, and it stays live.
LEMMA AcknowledgeSafe ==
  ASSUME DInv, NEW i \in IncidentIds, Acknowledge(i)
  PROVE  DInv'
  <1>1. /\ lock[i] = Nobody /\ incident[i].status = "open"
        /\ incident' = [incident EXCEPT ![i].status = "acknowledged"]
        /\ alert' = [a \in AlertIds |-> IF a \in Linked(i) /\ alert[a].state = "open"
                                        THEN [alert[a] EXCEPT !.state = "acknowledged"]
                                        ELSE alert[a]]
        /\ UNCHANGED <<now, policy, job, eval, request, lock, escalations, lost, revived, left>>
    BY DEF Acknowledge
  <1>2. alert \in [AlertIds -> AlertRows] /\ incident \in [IncidentIds -> IncidentRows]
    BY DEF DInv, TypeOK
  <1>3. \A a \in AlertIds :
           /\ alert'[a] \in AlertRows
           /\ alert'[a].state = "absent" <=> alert[a].state = "absent"
           /\ SameFault(alert[a], alert'[a])
           /\ alert'[a].state \in Unresolved => alert[a].state \in Unresolved
    <2> SUFFICES ASSUME NEW a \in AlertIds
                 PROVE  /\ alert'[a] \in AlertRows
                        /\ alert'[a].state = "absent" <=> alert[a].state = "absent"
                        /\ SameFault(alert[a], alert'[a])
                        /\ alert'[a].state \in Unresolved => alert[a].state \in Unresolved
      OBVIOUS
    <2>1. \/ alert'[a] = alert[a]
          \/ alert[a].state = "open" /\ alert'[a] = [alert[a] EXCEPT !.state = "acknowledged"]
      BY <1>1
    <2> QED
      BY <1>2, <2>1 DEF AlertRows, SameFault, Unresolved
  <1>4. \A j \in IncidentIds :
           /\ incident'[j] \in IncidentRows
           /\ incident'[j].status = "absent" <=> incident[j].status = "absent"
           /\ incident'[j].machine = incident[j].machine
           /\ incident'[j].severity = incident[j].severity
           /\ incident'[j].level = incident[j].level
           /\ Live(incident'[j]) <=> Live(incident[j])
           /\ j # i => incident'[j] = incident[j]
    BY <1>1, <1>2 DEF IncidentRows, Live
  <1>5. TypeOK'
    <2>1. alert' \in [AlertIds -> AlertRows]
      BY <1>1, <1>3
    <2>2. incident' \in [IncidentIds -> IncidentRows]
      BY <1>1, <1>2, <1>4
    <2> QED
      BY <1>1, <2>1, <2>2 DEF DInv, TypeOK
  <1>6. RequestsInOrder'
    <2>1. \A d \in Requests : InOrder(request[d], d)'
      BY <1>1, <1>3, <1>4, RequestKept, IncidentDeskAssumption DEF SameFaults
    <2> QED
      BY <2>1 DEF RequestsInOrder
  <1>7. InHand'
    BY <1>1, <1>4, HandKept, IncidentDeskAssumption
  <1>8. AlertHasItsIncident'
    BY <1>3, <1>4, AlertsKept
  <1>9. FreshRows' /\ OneLivePerMachine' /\ EscalatedOncePerLevel'
    BY <1>1, <1>4 DEF DInv, FreshRows, OneLivePerMachine, EscalatedOncePerLevel
  <1>10. StandingAlertIsOwned'
    <2> SUFFICES ASSUME NEW a \in AlertIds \ revived, alert'[a].state \in Unresolved
                 PROVE  Owned(a)'
      BY <1>1 DEF StandingAlertIsOwned
    <2>1. Owned(a)
      BY <1>3 DEF DInv, StandingAlertIsOwned
    <2> QED
      BY <1>3, <1>4, <2>1 DEF Owned, SameFault
  <1> QED
    BY <1>5, <1>6, <1>7, <1>8, <1>9, <1>10 DEF DInv


\* resolve() takes the lock of a live incident.
LEMMA ResolveLockSafe ==
  ASSUME DInv, NEW d \in Requests, NEW i \in IncidentIds, ResolveLock(d, i)
  PROVE  DInv'
  <1>1. /\ lock[i] = Nobody /\ Live(incident[i]) /\ request[d].op = "none"
        /\ lock' = [lock EXCEPT ![i] = d]
        /\ request' = [request EXCEPT ![d] = [NoRequest EXCEPT !.op = "resolve", !.id = i]]
        /\ UNCHANGED <<now, policy, alert, incident, job, eval, escalations, lost, revived, left>>
    BY DEF ResolveLock
  <1>2. request \in [Requests -> Asked] /\ lock \in [IncidentIds -> Requests \cup {Evaluator, Nobody}]
    BY DEF DInv, TypeOK, Asked
  <1>3. i \in 0..(MaxAlerts + MaxIncidents)
    BY IncidentDeskAssumption DEF IncidentIds
  <1>4. /\ request'[d] \in Asked /\ request'[d].op = "resolve" /\ request'[d].id = i
        /\ \A e \in Requests : e # d => request'[e] = request[e]
    BY <1>1, <1>2, <1>3, NothingAsked DEF Asked
  <1>5. lock'[i] = d /\ \A j \in IncidentIds : j # i => lock'[j] = lock[j]
    BY <1>1, <1>2
  <1>6. TypeOK'
    <2>1. request' \in [Requests -> Asked]
      BY <1>1, <1>2, <1>4
    <2>2. lock' \in [IncidentIds -> Requests \cup {Evaluator, Nobody}]
      BY <1>1, <1>2
    <2> QED
      BY <1>1, <2>1, <2>2 DEF DInv, TypeOK, Asked
  <1>7. RequestsInOrder'
    <2> SUFFICES ASSUME NEW e \in Requests PROVE InOrder(request[e], e)'
      BY DEF RequestsInOrder
    <2>1. CASE e = d
      BY <1>1, <1>4, <1>5, <2>1 DEF InOrder, Resolving
    <2>2. CASE e # d
      BY <1>1, <1>4, <1>5, <2>2, RequestKept, IncidentDeskAssumption DEF SameFaults, SameFault
    <2> QED
      BY <2>1, <2>2
  <1>8. InHand'
    BY <1>1, <1>5, HandKept, IncidentDeskAssumption
  <1> QED
    BY <1>1, <1>6, <1>7, <1>8 DEF DInv, FreshRows, OneLivePerMachine, AlertHasItsIncident,
       StandingAlertIsOwned, Owned, EscalatedOncePerLevel

\* resolve() writes the incident it has locked and every alert that still
\* stands under it.
LEMMA ResolveWriteSafe ==
  ASSUME DInv, NEW d \in Requests, ResolveWrite(d)
  PROVE  DInv'
  <1> DEFINE i == request[d].id
  <1>1. /\ request[d].op = "resolve"
        /\ incident' = [incident EXCEPT ![i].status = "resolved"]
        /\ alert' = [a \in AlertIds |-> IF a \in Closed(i)
                                        THEN [alert[a] EXCEPT !.state = "resolved"]
                                        ELSE alert[a]]
        /\ lock' = Unlocked(d)
        /\ request' = [request EXCEPT ![d] = NoRequest]
        /\ UNCHANGED <<now, policy, job, eval, escalations, lost, revived, left>>
    BY DEF ResolveWrite
  <1>2. i \in IncidentIds /\ lock[i] = d /\ Live(incident[i])
    BY <1>1 DEF DInv, RequestsInOrder, InOrder, Resolving
  <1> HIDE DEF i
  <1>3. /\ alert \in [AlertIds -> AlertRows] /\ incident \in [IncidentIds -> IncidentRows]
        /\ request \in [Requests -> Asked]
        /\ lock \in [IncidentIds -> Requests \cup {Evaluator, Nobody}]
    BY DEF DInv, TypeOK, Asked
  <1>4. \A a \in AlertIds :
           /\ alert'[a] \in AlertRows
           /\ alert'[a].state = "absent" <=> alert[a].state = "absent"
           /\ SameFault(alert[a], alert'[a])
           /\ alert'[a].state \in Unresolved =>
                 alert[a].state \in Unresolved /\ alert[a].incident # i
    <2> SUFFICES ASSUME NEW a \in AlertIds
                 PROVE  /\ alert'[a] \in AlertRows
                        /\ alert'[a].state = "absent" <=> alert[a].state = "absent"
                        /\ SameFault(alert[a], alert'[a])
                        /\ alert'[a].state \in Unresolved =>
                              alert[a].state \in Unresolved /\ alert[a].incident # i
      OBVIOUS
    <2>1. alert[a] \in AlertRows
      BY <1>3
    <2>2. CASE a \in Closed(i)
      <3>1. alert'[a] = [alert[a] EXCEPT !.state = "resolved"]
        BY <1>1, <2>2
      <3>2. alert[a].state \in Unresolved
        BY <2>2 DEF Closed
      <3> QED
        BY <2>1, <3>1, <3>2 DEF AlertRows, SameFault, Unresolved
    <2>3. CASE a \notin Closed(i)
      BY <1>1, <2>1, <2>3 DEF Closed, Linked, SameFault, Unresolved
    <2> QED
      BY <2>2, <2>3
  <1>5. \A j \in IncidentIds :
           /\ incident'[j] \in IncidentRows
           /\ incident'[j].status = "absent" <=> incident[j].status = "absent"
           /\ incident'[j].machine = incident[j].machine
           /\ incident'[j].severity = incident[j].severity
           /\ incident'[j].level = incident[j].level
           /\ Live(incident'[j]) => Live(incident[j])
           /\ j # i => incident'[j] = incident[j]
    BY <1>1, <1>2, <1>3 DEF IncidentRows, Live
  <1>6. \A j \in IncidentIds : lock[j] # d => lock'[j] = lock[j] /\ j # i
    BY <1>1, <1>2, <1>3 DEF Unlocked
  <1>7. TypeOK'
    <2>1. alert' \in [AlertIds -> AlertRows] /\ incident' \in [IncidentIds -> IncidentRows]
      BY <1>1, <1>3, <1>4, <1>5
    <2>2. request' \in [Requests -> Asked]
      BY <1>1, <1>3, NothingAsked
    <2>3. lock' \in [IncidentIds -> Requests \cup {Evaluator, Nobody}]
      BY <1>1, <1>3 DEF Unlocked
    <2> QED
      BY <1>1, <2>1, <2>2, <2>3 DEF DInv, TypeOK, Asked
  <1>8. RequestsInOrder'
    <2> SUFFICES ASSUME NEW e \in Requests PROVE InOrder(request[e], e)'
      BY DEF RequestsInOrder
    <2>1. CASE e = d
      <3>1. request'[d].op = "none"
        BY <1>1, <1>3, NothingAsked
      <3> QED
        BY <2>1, <3>1 DEF InOrder
    <2>2. CASE e # d
      <3>1. request'[e] = request[e]
        BY <1>1, <1>3, <2>2
      <3>2. \A j \in IncidentIds : lock[j] = e => lock'[j] = e /\ incident'[j] = incident[j]
        BY <1>5, <1>6, <2>2
      <3>3. SameFaults
        BY <1>4 DEF SameFaults
      <3> QED
        BY <3>1, <3>2, <3>3, RequestKept
    <2> QED
      BY <2>1, <2>2
  <1>9. InHand'
    BY <1>1, <1>5, <1>6, HandKept, IncidentDeskAssumption
  <1>10. AlertHasItsIncident'
    BY <1>4, <1>5, AlertsKept
  <1>11. FreshRows' /\ OneLivePerMachine' /\ EscalatedOncePerLevel'
    BY <1>1, <1>5 DEF DInv, FreshRows, OneLivePerMachine, EscalatedOncePerLevel
  <1>12. StandingAlertIsOwned'
    <2> SUFFICES ASSUME NEW a \in AlertIds \ revived, alert'[a].state \in Unresolved
                 PROVE  Owned(a)'
      BY <1>1 DEF StandingAlertIsOwned
    <2>1. Owned(a)
      BY <1>4 DEF DInv, StandingAlertIsOwned
    <2> QED
      BY <1>4, <1>5, <2>1 DEF Owned, SameFault
  <1> QED
    BY <1>7, <1>8, <1>9, <1>10, <1>11, <1>12 DEF DInv

\* raiseWork() has the id of an alert between its two transactions.
LEMMA RaiseReadSafe ==
  ASSUME DInv, NEW d \in Requests, NEW i \in IncidentIds, RaiseRead(d, i)
  PROVE  DInv'
  <1>1. UNCHANGED <<now, policy, alert, incident, job, eval, lock, escalations, lost, revived, left>>
    BY DEF RaiseRead
  <1>2. PICK a \in AlertIds : request' = [request EXCEPT ![d] = [NoRequest EXCEPT !.op = "raise", !.id = a]]
    BY DEF RaiseRead, WorstUnresolved, Closed, Linked
  <1>3. request \in [Requests -> Asked] /\ a \in 0..(MaxAlerts + MaxIncidents)
    BY IncidentDeskAssumption DEF DInv, TypeOK, Asked, AlertIds
  <1>4. /\ request'[d] \in Asked /\ request'[d].op = "raise" /\ request'[d].id = a
        /\ \A e \in Requests : e # d => request'[e] = request[e]
    BY <1>2, <1>3, NothingAsked DEF Asked
  <1>5. TypeOK'
    <2>1. request' \in [Requests -> Asked]
      BY <1>2, <1>3, <1>4
    <2> QED
      BY <1>1, <2>1 DEF DInv, TypeOK, Asked
  <1>6. RequestsInOrder'
    <2> SUFFICES ASSUME NEW e \in Requests PROVE InOrder(request[e], e)'
      BY DEF RequestsInOrder
    <2>1. CASE e = d
      BY <1>4, <2>1 DEF InOrder
    <2>2. CASE e # d
      BY <1>1, <1>4, <2>2, RequestKept DEF SameFaults, SameFault
    <2> QED
      BY <2>1, <2>2
  <1> QED
    BY <1>1, <1>5, <1>6, TablesKept DEF DInv

\* A request that ends, having touched neither alerts, incidents nor locks.
LEMMA RequestEnds ==
  ASSUME DInv, NEW d \in Requests, request' = [request EXCEPT ![d] = NoRequest],
         SameFaults, UNCHANGED <<incident, lock>>
  PROVE  request' \in [Requests -> Asked] /\ RequestsInOrder'
  <1>1. request \in [Requests -> Asked]
    BY DEF DInv, TypeOK, Asked
  <1>2. request'[d].op = "none" /\ \A e \in Requests : e # d => request'[e] = request[e]
    BY <1>1, NothingAsked
  <1>3. request' \in [Requests -> Asked]
    BY <1>1, NothingAsked
  <1>4. \A e \in Requests : e # d => InOrder(request[e], e)'
    BY <1>2, RequestKept
  <1>5. InOrder(request[d], d)'
    BY <1>2 DEF InOrder
  <1> QED
    BY <1>3, <1>4, <1>5 DEF RequestsInOrder

\* Work that is raised changes no incident and no alert.
LEMMA RaiseSafe ==
  ASSUME DInv, NEW d \in Requests, Raise(d)
  PROVE  DInv'
  <1>1. /\ job' = [job EXCEPT ![request[d].id] = "unfinished"]
        /\ request' = [request EXCEPT ![d] = NoRequest]
        /\ UNCHANGED <<now, policy, alert, incident, eval, lock, escalations, lost, revived, left>>
    BY DEF Raise
  <1>2. request' \in [Requests -> Asked] /\ RequestsInOrder'
    BY <1>1, RequestEnds DEF SameFaults, SameFault
  <1>3. TypeOK'
    BY <1>1, <1>2 DEF DInv, TypeOK, Asked
  <1> QED
    BY <1>1, <1>2, <1>3, TablesKept DEF DInv

\* What changes neither the requests nor the tables: jobs, policies, the clock.
LEMMA ElsewhereSafe ==
  ASSUME DInv, TypeOK', UNCHANGED <<alert, incident, eval, request, lock, escalations, revived>>
  PROVE  DInv'
  <1>1. RequestsInOrder'
    BY DEF DInv, RequestsInOrder, InOrder, Resolving, Moving
  <1> QED
    BY <1>1, TablesKept DEF DInv

\* Neither does work that is finished or taken up again.
LEMMA JobsSafe ==
  ASSUME DInv, NEW a \in AlertIds, FinishJob(a) \/ ReopenJob(a)
  PROVE  DInv'
  <1>1. /\ job' = [job EXCEPT ![a] = "finished"] \/ job' = [job EXCEPT ![a] = "unfinished"]
        /\ UNCHANGED <<now, policy, alert, incident, eval, request, lock, escalations, lost, revived, left>>
    BY DEF FinishJob, ReopenJob
  <1>2. TypeOK'
    BY <1>1 DEF DInv, TypeOK
  <1> QED
    BY <1>1, <1>2, ElsewhereSafe

\* A new policy changes no promise that was made.
LEMMA SetPolicySafe ==
  ASSUME DInv, NEW rank \in Ranks, NEW p \in Promises, SetPolicy(rank, p)
  PROVE  DInv'
  <1>1. /\ left > 0 /\ left' = left - 1 /\ policy' = [policy EXCEPT ![rank] = p]
        /\ UNCHANGED <<now, alert, incident, job, eval, request, lock, escalations, lost, revived>>
    BY DEF SetPolicy
  <1>2. left' \in 0..MaxPolicies
    BY <1>1, IncidentDeskAssumption DEF DInv, TypeOK
  <1>3. TypeOK'
    BY <1>1, <1>2 DEF DInv, TypeOK
  <1> QED
    BY <1>1, <1>3, ElsewhereSafe

\* Time alone changes nothing.
LEMMA TickSafe ==
  ASSUME DInv, Tick
  PROVE  DInv'
  <1>1. /\ now < Horizon /\ now' = now + 1
        /\ UNCHANGED <<policy, alert, incident, job, eval, request, lock, escalations, lost, revived, left>>
    BY DEF Tick
  <1>2. now' \in 0..Horizon
    BY <1>1, IncidentDeskAssumption DEF DInv, TypeOK
  <1>3. TypeOK'
    BY <1>1, <1>2 DEF DInv, TypeOK
  <1> QED
    BY <1>1, <1>3, ElsewhereSafe


\* transition() finds an alert, and keeps what it read.
LEMMA TransitionReadSafe ==
  ASSUME DInv, NEW d \in Requests, NEW a \in AlertIds, NEW to \in {"acknowledged", "resolved"},
         TransitionRead(d, a, to)
  PROVE  DInv'
  <1>1. /\ alert[a].state \in Unresolved
        /\ request' = [request EXCEPT ![d] = [op |-> to, id |-> a, row |-> alert[a]]]
        /\ UNCHANGED <<now, policy, alert, incident, job, eval, lock, escalations, lost, revived, left>>
    BY DEF TransitionRead
  <1>2. /\ request \in [Requests -> Asked] /\ alert[a] \in AlertRows
        /\ a \in 0..(MaxAlerts + MaxIncidents)
    BY IncidentDeskAssumption DEF DInv, TypeOK, Asked, AlertIds
  <1>3. /\ request'[d] = [op |-> to, id |-> a, row |-> alert[a]]
        /\ \A e \in Requests : e # d => request'[e] = request[e]
    BY <1>1, <1>2
  <1>4. request'[d] \in Asked
    BY <1>2, <1>3 DEF Asked
  <1>5. TypeOK'
    <2>1. request' \in [Requests -> Asked]
      BY <1>1, <1>2, <1>4
    <2> QED
      BY <1>1, <2>1 DEF DInv, TypeOK, Asked
  <1>6. RequestsInOrder'
    <2> SUFFICES ASSUME NEW e \in Requests PROVE InOrder(request[e], e)'
      BY DEF RequestsInOrder
    <2>1. CASE e = d
      BY <1>1, <1>3, <2>1 DEF InOrder, Moving, SameFault, Unresolved
    <2>2. CASE e # d
      BY <1>1, <1>3, <2>2, RequestKept DEF SameFaults, SameFault
    <2> QED
      BY <2>1, <2>2
  <1> QED
    BY <1>1, <1>5, <1>6, TablesKept DEF DInv

\* ... and saves it: the alert is what it was, in another state.  If it was
\* resolved meanwhile and stands again, it is among those revived.
LEMMA TransitionSaveSafe ==
  ASSUME DInv, NEW d \in Requests, TransitionSave(d)
  PROVE  DInv'
  <1> DEFINE a == request[d].id
             refused == /\ request[d].op = "acknowledged"
                        /\ Standing(alert[a].rule, alert[a].machine) \ {a} # {}
  <1>1. /\ request[d].op \in {"acknowledged", "resolved"}
        /\ alert' = IF refused THEN alert ELSE [alert EXCEPT ![a] = Transitioned(d)]
        /\ revived' = IF ~refused /\ request[d].op = "acknowledged" /\ alert[a].state = "resolved"
                      THEN revived \cup {a} ELSE revived
        /\ request' = [request EXCEPT ![d] = NoRequest]
        /\ UNCHANGED <<now, policy, incident, job, eval, lock, escalations, lost, left>>
    BY DEF TransitionSave
  <1>2. a \in AlertIds /\ alert[a].state # "absent" /\ SameFault(request[d].row, alert[a])
    BY <1>1 DEF DInv, RequestsInOrder, InOrder, Moving
  <1>3. /\ alert \in [AlertIds -> AlertRows] /\ request[d] \in Asked /\ request[d].row \in AlertRows
        /\ revived \in SUBSET AlertIds
    BY DEF DInv, TypeOK, Asked
  <1> HIDE DEF refused
  <1>4. /\ Transitioned(d) \in AlertRows /\ SameFault(alert[a], Transitioned(d))
        /\ Transitioned(d).state = request[d].op
    BY <1>1, <1>2, <1>3 DEF Transitioned, AlertRows, SameFault, Unresolved
  <1> HIDE DEF a
  <1>5. \A b \in AlertIds :
           \/ alert'[b] = alert[b]
           \/ ~refused /\ b = a /\ alert'[b] = Transitioned(d)
    BY <1>1, <1>3
  <1>6. \A b \in AlertIds :
           /\ alert'[b] \in AlertRows
           /\ alert'[b].state = "absent" <=> alert[b].state = "absent"
           /\ SameFault(alert[b], alert'[b])
    BY <1>1, <1>2, <1>3, <1>4, <1>5 DEF SameFault
  <1>7. request' \in [Requests -> Asked] /\ RequestsInOrder'
    BY <1>1, <1>6, RequestEnds DEF SameFaults
  <1>8. TypeOK'
    <2>1. alert' \in [AlertIds -> AlertRows]
      BY <1>1, <1>2, <1>3, <1>4
    <2>2. revived' \in SUBSET AlertIds
      BY <1>1, <1>2, <1>3
    <2> QED
      BY <1>1, <1>7, <2>1, <2>2 DEF DInv, TypeOK, Asked
  <1>9. InHand'
    BY <1>1, HandKept
  <1>10. AlertHasItsIncident'
    BY <1>1, <1>6, AlertsKept
  <1>11. FreshRows' /\ OneLivePerMachine' /\ EscalatedOncePerLevel'
    BY <1>1 DEF DInv, FreshRows, OneLivePerMachine, EscalatedOncePerLevel
  <1>12. StandingAlertIsOwned'
    <2> SUFFICES ASSUME NEW b \in AlertIds \ revived', alert'[b].state \in Unresolved
                 PROVE  Owned(b)'
      BY DEF StandingAlertIsOwned
    <2>1. b \notin revived
      BY <1>1
    <2>2. alert[b].state \in Unresolved
      <3>1. CASE alert'[b] = alert[b]
        BY <3>1
      <3>2. CASE ~refused /\ b = a /\ alert'[b] = Transitioned(d)
        <4>1. request[d].op = "acknowledged"
          BY <1>1, <1>4, <3>2 DEF Unresolved
        <4>2. alert[a].state # "resolved"
          BY <1>1, <3>2, <4>1
        <4> QED
          BY <1>2, <1>3, <3>2, <4>2 DEF AlertRows
      <3> QED
        BY <1>5, <3>1, <3>2
    <2>3. Owned(b)
      BY <2>1, <2>2 DEF DInv, StandingAlertIsOwned
    <2> QED
      BY <1>1, <1>6, <2>3 DEF Owned, SameFault
  <1> QED
    BY <1>7, <1>8, <1>9, <1>10, <1>11, <1>12 DEF DInv

\* The sweep escalates what nobody has locked, to a level above its own.
LEMMA EscalateSafe ==
  ASSUME DInv, EscalateOverdue
  PROVE  DInv'
  <1>1. /\ incident' = [i \in IncidentIds |-> IF Escalates(i) THEN Raised(i) ELSE incident[i]]
        /\ escalations' = [i \in IncidentIds |->
                             IF Escalates(i)
                             THEN [escalations[i] EXCEPT ![NewLevel(i)] = @ + 1]
                             ELSE escalations[i]]
        /\ UNCHANGED <<now, policy, alert, job, eval, request, lock, lost, revived, left>>
    BY DEF EscalateOverdue
  <1>2. /\ incident \in [IncidentIds -> IncidentRows]
        /\ escalations \in [IncidentIds -> [1..2 -> Nat]]
    BY DEF DInv, TypeOK
  <1>3. \A i \in IncidentIds : Escalates(i) =>
           /\ lock[i] = Nobody /\ NewLevel(i) \in 1..2 /\ incident[i].level < NewLevel(i)
           /\ Live(incident[i])
    <2> SUFFICES ASSUME NEW i \in IncidentIds, Escalates(i)
                 PROVE  /\ lock[i] = Nobody /\ NewLevel(i) \in 1..2
                        /\ incident[i].level < NewLevel(i) /\ Live(incident[i])
      OBVIOUS
    <2>1. incident[i].level \in 0..2
      BY <1>2 DEF IncidentRows
    <2> QED
      BY <2>1 DEF Escalates, NewLevel, AckOverdue, ResolveOverdue, Live
  <1>4. \A i \in IncidentIds :
           /\ incident'[i] \in IncidentRows
           /\ incident'[i].status = incident[i].status
           /\ incident'[i].machine = incident[i].machine
           /\ incident'[i].severity = incident[i].severity
           /\ lock[i] # Nobody => incident'[i] = incident[i]
           /\ ~Live(incident[i]) => incident'[i] = incident[i]
    <2> SUFFICES ASSUME NEW i \in IncidentIds
                 PROVE  /\ incident'[i] \in IncidentRows
                        /\ incident'[i].status = incident[i].status
                        /\ incident'[i].machine = incident[i].machine
                        /\ incident'[i].severity = incident[i].severity
                        /\ lock[i] # Nobody => incident'[i] = incident[i]
                        /\ ~Live(incident[i]) => incident'[i] = incident[i]
      OBVIOUS
    <2>1. CASE Escalates(i)
      <3>1. incident'[i] = [incident[i] EXCEPT !.level = NewLevel(i)]
        BY <1>1, <2>1 DEF Raised
      <3>2. NewLevel(i) \in 0..2
        BY <1>3, <2>1
      <3> QED
        BY <1>2, <1>3, <2>1, <3>1, <3>2 DEF IncidentRows
    <2>2. CASE ~Escalates(i)
      BY <1>1, <1>2, <2>2
    <2> QED
      BY <2>1, <2>2
  <1>5. TypeOK'
    <2>1. incident' \in [IncidentIds -> IncidentRows]
      BY <1>1, <1>4
    <2>2. escalations' \in [IncidentIds -> [1..2 -> Nat]]
      <3>1. \A i \in IncidentIds : Escalates(i) =>
               [escalations[i] EXCEPT ![NewLevel(i)] = @ + 1] \in [1..2 -> Nat]
        BY <1>2, <1>3
      <3> QED
        BY <1>1, <1>2, <3>1
    <2> QED
      BY <1>1, <2>1, <2>2 DEF DInv, TypeOK
  <1>6. RequestsInOrder'
    <2>1. \A d \in Requests : InOrder(request[d], d)'
      BY <1>1, <1>4, RequestKept DEF SameFaults, SameFault, Live
    <2> QED
      BY <2>1 DEF RequestsInOrder
  <1>7. InHand'
    BY <1>1, <1>4, HandKept, IncidentDeskAssumption DEF Live
  <1>8. AlertHasItsIncident'
    BY <1>1, <1>4, AlertsKept DEF SameFault
  <1>9. FreshRows' /\ OneLivePerMachine' /\ StandingAlertIsOwned'
    BY <1>1, <1>4 DEF DInv, FreshRows, OneLivePerMachine, StandingAlertIsOwned, Owned, Live
  <1>10. EscalatedOncePerLevel'
    <2> SUFFICES ASSUME NEW i \in IncidentIds
                 PROVE  /\ \A l \in 1..2 : escalations'[i][l] <= 1
                        /\ \A l \in 1..2 : escalations'[i][l] = 1 => l <= incident'[i].level
                        /\ incident'[i].level # 0 => escalations'[i][incident'[i].level] = 1
      BY DEF EscalatedOncePerLevel
    <2>1. /\ \A l \in 1..2 : escalations[i][l] <= 1
          /\ \A l \in 1..2 : escalations[i][l] = 1 => l <= incident[i].level
          /\ incident[i].level # 0 => escalations[i][incident[i].level] = 1
      BY DEF DInv, EscalatedOncePerLevel
    <2>2. CASE Escalates(i)
      <3> DEFINE n == NewLevel(i)
      <3>1. n \in 1..2 /\ incident[i].level < n /\ incident[i].level \in 0..2
        BY <1>2, <1>3, <2>2 DEF IncidentRows
      <3>2. /\ incident'[i].level = n
            /\ escalations'[i] = [escalations[i] EXCEPT ![n] = @ + 1]
        BY <1>1, <1>2, <2>2 DEF Raised, IncidentRows
      <3> HIDE DEF n
      <3>3. \A l \in 1..2 : escalations[i][l] \in Nat
        BY <1>2
      <3>4. escalations[i][n] = 0
        BY <2>1, <3>1, <3>3
      <3>5. \A l \in 1..2 : escalations'[i][l] = IF l = n THEN 1 ELSE escalations[i][l]
        BY <1>2, <3>1, <3>2, <3>4
      <3> QED
        BY <2>1, <3>1, <3>2, <3>3, <3>5
    <2>3. CASE ~Escalates(i)
      BY <1>1, <2>1, <2>3
    <2> QED
      BY <2>2, <2>3
  <1> QED
    BY <1>5, <1>6, <1>7, <1>8, <1>9, <1>10 DEF DInv


--------------------------------------------------------------------------------
(* The invariant. *)

\* No alert, no incident and nothing under way.
LEMMA InitInv == Init => DInv
  <1> SUFFICES ASSUME Init PROVE DInv
    OBVIOUS
  <1>1. TypeOK
    <2>1. alert \in [AlertIds -> AlertRows] /\ incident \in [IncidentIds -> IncidentRows]
      BY EmptyRows DEF Init
    <2>2. eval \in Evals /\ request \in [Requests -> Asked]
      BY NothingAsked DEF Init
    <2>3. now \in 0..Horizon /\ left \in 0..MaxPolicies
      BY IncidentDeskAssumption DEF Init
    <2> QED
      BY <2>1, <2>2, <2>3 DEF Init, TypeOK, Evals, Asked
  <1>2. RequestsInOrder
    BY NothingAsked DEF Init, RequestsInOrder, InOrder
  <1>3. InHand
    BY NothingAsked DEF Init, InHand
  <1>4. FreshRows /\ OneLivePerMachine /\ AlertHasItsIncident /\ EscalatedOncePerLevel
    BY EmptyRows DEF Init, FreshRows, OneLivePerMachine, Live, AlertHasItsIncident, EscalatedOncePerLevel
  <1>5. StandingAlertIsOwned
    BY EmptyRows DEF Init, StandingAlertIsOwned, Unresolved
  <1> QED
    BY <1>1, <1>2, <1>3, <1>4, <1>5 DEF DInv

\* Each action keeps the invariant by its own lemma.
LEMMA NextInv == DInv /\ [Next]_vars => DInv'
  <1> SUFFICES ASSUME DInv, [Next]_vars PROVE DInv'
    OBVIOUS
  <1>1. CASE Tick
    BY <1>1, TickSafe
  <1>2. CASE \E m \in Machines, firing \in SUBSET Rules : Fire(m, firing)
    BY <1>2, FireSafe
  <1>3. CASE EvalStep
    BY <1>3, InsertSafe, JoinSafe, SaveSafe, RolledBackSafe, LockLiveSafe, CommitSafe DEF EvalStep
  <1>4. CASE \E i \in IncidentIds : Acknowledge(i)
    BY <1>4, AcknowledgeSafe
  <1>5. CASE \E d \in Requests, i \in IncidentIds : ResolveLock(d, i) \/ RaiseRead(d, i)
    BY <1>5, ResolveLockSafe, RaiseReadSafe
  <1>6. CASE \E d \in Requests, a \in AlertIds, to \in Kinds \ {"resolve", "raise"} : TransitionRead(d, a, to)
    <2>1. Kinds \ {"resolve", "raise"} \subseteq {"acknowledged", "resolved"}
      BY IncidentDeskAssumption
    <2> QED
      BY <1>6, <2>1, TransitionReadSafe
  <1>7. CASE \E d \in Requests : RequestStep(d)
    BY <1>7, ResolveWriteSafe, RaiseSafe, TransitionSaveSafe DEF RequestStep
  <1>8. CASE \E a \in AlertIds : FinishJob(a) \/ ReopenJob(a)
    BY <1>8, JobsSafe
  <1>9. CASE \E rank \in Ranks, p \in Promises : SetPolicy(rank, p)
    BY <1>9, SetPolicySafe
  <1>10. CASE EscalateOverdue
    BY <1>10, EscalateSafe
  <1>11. CASE UNCHANGED vars
    <2>1. TypeOK'
      BY <1>11 DEF DInv, TypeOK, vars
    <2> QED
      BY <1>11, <2>1, ElsewhereSafe DEF vars
  <1> QED
    BY <1>1, <1>2, <1>3, <1>4, <1>5, <1>6, <1>7, <1>8, <1>9, <1>10, <1>11 DEF Next

\* The inductive invariant holds in every reachable state.
LEMMA Invariance == Spec => []DInv
  BY InitInv, NextInv, PTL DEF Spec

\* A commit leaves the incident it joined at least as tight as it was; one it
\* opened was not there.
LEMMA CommitTightens ==
  ASSUME DInv, Commit, NEW i \in IncidentIds
  PROVE  OnlyTightens(incident[i], incident'[i])
  <1>1. eval.id # 0 /\ incident' = [incident EXCEPT ![eval.id] = eval.row]
    BY DEF Commit
  <1>2. incident[i] \in IncidentRows
    BY DEF DInv, TypeOK
  <1>3. CASE i # eval.id
    BY <1>1, <1>2, <1>3 DEF OnlyTightens, IncidentRows
  <1>4. CASE i = eval.id
    <2>1. incident'[i] = eval.row
      BY <1>1, <1>4 DEF DInv, TypeOK
    <2>2. Opening \/ Joining
      BY <1>1 DEF DInv, InHand
    <2> QED
      BY <1>4, <2>1, <2>2 DEF Opening, Joining, OnlyTightens
  <1> QED
    BY <1>3, <1>4

\* No other step writes the severity or the times of an incident.
LEMMA TightensInAStep ==
  ASSUME DInv, [Next]_vars, NEW i \in IncidentIds
  PROVE  OnlyTightens(incident[i], incident'[i])
  <1>1. incident \in [IncidentIds -> IncidentRows] /\ incident[i] \in IncidentRows
    BY DEF DInv, TypeOK
  <1>2. CASE Commit
    BY <1>2, CommitTightens
  <1>3. CASE ~Commit
    <2>1. /\ incident'[i].severity = incident[i].severity
          /\ incident'[i].ackDue = incident[i].ackDue
          /\ incident'[i].resolveDue = incident[i].resolveDue
      <3>1. CASE UNCHANGED incident
        BY <3>1
      <3>2. CASE \E j \in IncidentIds : Acknowledge(j)
        BY <1>1, <3>2 DEF Acknowledge, IncidentRows
      <3>3. CASE \E d \in Requests : ResolveWrite(d)
        BY <1>1, <3>3 DEF ResolveWrite, IncidentRows
      <3>4. CASE EscalateOverdue
        BY <1>1, <3>4 DEF EscalateOverdue, Raised, IncidentRows
      <3>5. \/ UNCHANGED incident \/ EscalateOverdue
            \/ \E j \in IncidentIds : Acknowledge(j)
            \/ \E d \in Requests : ResolveWrite(d)
        BY <1>3 DEF Next, vars, EvalStep, RequestStep, Fire, Save, Refused, Insert, LockLive,
           LiveVanished, Join, ResolveLock, RaiseRead, Raise, FinishJob, ReopenJob,
           TransitionRead, TransitionSave, SetPolicy, Tick
      <3> QED
        BY <3>1, <3>2, <3>3, <3>4, <3>5
    <2> QED
      BY <1>1, <2>1 DEF OnlyTightens, IncidentRows
  <1> QED
    BY <1>2, <1>3

--------------------------------------------------------------------------------
(* The theorems. *)

\* Every variable keeps its type: the rows of both tables, what an evaluation
\* (AlertService.evaluateWindow) and a request have in hand, the locks.
THEOREM TypeCorrect == Spec => []TypeOK
  BY Invariance, PTL DEF DInv

\* A machine has at most one live incident, although evaluations open and join
\* incidents while people resolve them (absorbAlerts and resolve of
\* IncidentRecordService).
THEOREM OneLiveIncident == Spec => []OneLivePerMachine
  BY Invariance, PTL DEF DInv

\* An alert is linked to an incident of its own machine that is at least as
\* severe as the alert: they commit together, and no stale save of the alert
\* moves it (absorbAlerts, and AlertService.transition).
THEOREM AlertIsLinked == Spec => []AlertHasItsIncident
  BY Invariance, PTL DEF DInv

\* An alert that stands has a live incident, unless a stale acknowledgement
\* wrote it back (IncidentRecordService.resolve closes what is linked, under
\* the lock that a joining evaluation must take).
THEOREM StandingIsOwned == Spec => []StandingAlertIsOwned
  BY Invariance, PTL DEF DInv

\* An incident escalates to each level at most once, and an event was written
\* for its level (escalateOverdue).
THEOREM EscalatedOnce == Spec => []EscalatedOncePerLevel
  BY Invariance, PTL DEF DInv

\* Whatever the policy becomes and whichever alerts join, the severity of an
\* incident only rises and a promised time is only pulled in (tighter and the
\* join branch of absorbAlerts).
THEOREM PromisesTighten == Spec => PromiseOnlyTightens
  <1>1. DInv /\ [Next]_vars => [\A i \in IncidentIds : OnlyTightens(incident[i], incident'[i])]_vars
    BY TightensInAStep
  <1> QED
    BY <1>1, Invariance, PTL DEF Spec, PromiseOnlyTightens
================================================================================
