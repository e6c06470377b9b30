------------------------------ MODULE IncidentDesk ------------------------------
(***************************************************************************)
(* Alerts, the incidents that own them and the jobs raised on them         *)
(* (src/alert, src/incident, src/work), for one account.                   *)
(*                                                                         *)
(* The scoring pass fires alerts and absorbs them into incidents in one    *)
(* transaction; people acknowledge, resolve and raise work through         *)
(* requests of their own; a sweep escalates what is overdue.  Transactions *)
(* run under READ COMMITTED: a step below is a stretch between two points  *)
(* where another transaction can be seen, and what a transaction writes    *)
(* appears when it commits.  One evaluation runs at a time, which is what  *)
(* the pass lock of ShiftRunner is for.                                    *)
(*                                                                         *)
(* A due time of 0 is a null: no policy, no promise.                       *)
(***************************************************************************)
EXTENDS Integers, FiniteSets

CONSTANTS
    Machines,
    Rules,        \* enabled alert rules; all of them cover every machine
    Severity,     \* Severity[r]: the rank of the severity rule r fires with
    Requests,     \* concurrent API requests
    Evaluator,    \* the evaluation, as a holder of row locks
    Nobody,
    Kinds,        \* the requests people make in two steps: "resolve" an incident, "raise"
                  \* work on it, make a single alert "acknowledged" or "resolved"
    Promises,     \* the SLA policies an account may set
    MaxAlerts,    \* bound: rows of alert_event
    MaxIncidents, \* bound: rows of incident
    MaxPolicies,  \* bound: changes of policy
    Horizon       \* bound: the last minute

Ranks == {Severity[r] : r \in Rules}
NoPromise == [ack |-> 0, resolve |-> 0]

ASSUME IncidentDeskAssumption ==
    /\ Machines # {} /\ Rules # {}
    /\ Severity \in [Rules -> Nat]
    /\ Evaluator \notin Requests /\ Nobody \notin Requests /\ Nobody # Evaluator
    /\ Kinds \subseteq {"resolve", "raise", "acknowledged", "resolved"}
    /\ Promises \subseteq [ack : Nat, resolve : Nat]
    /\ \A p \in Promises : p = NoPromise \/ (0 < p.ack /\ p.ack <= p.resolve)
    /\ MaxAlerts \in Nat /\ MaxIncidents \in Nat /\ MaxPolicies \in Nat
    /\ Horizon \in Nat

AlertIds == 1..MaxAlerts
IncidentIds == 1..MaxIncidents

VARIABLES
    now,        \* the clock, in minutes
    policy,     \* incident_sla_policy, by severity
    alert,      \* alert_event rows; .incident is the row of incident_alert
    incident,   \* incident rows
    job,        \* work raised on each alert: none, some unfinished, all finished
    eval,       \* the evaluation in progress
    request,    \* the requests in progress
    lock,       \* who holds the row lock of each incident
    escalations,\* how many incident.escalated.v1 each incident has written, by level
    lost,       \* ghost: an evaluation that fired was rolled back
    revived,    \* ghost: resolved alerts a stale acknowledgement wrote back
    left        \* policy changes that remain

vars == <<now, policy, alert, incident, job, eval, request, lock, escalations, lost, revived,
          left>>

Unresolved == {"open", "acknowledged"}

NoAlert == [state |-> "absent", rule |-> CHOOSE r \in Rules : TRUE,
            machine |-> CHOOSE m \in Machines : TRUE, incident |-> 0]
NoIncident == [status |-> "absent", machine |-> CHOOSE m \in Machines : TRUE,
               severity |-> 0, openedAt |-> 0, ackDue |-> 0, resolveDue |-> 0, level |-> 0]
NoEval == [pc |-> "idle", machine |-> CHOOSE m \in Machines : TRUE, fired |-> {},
           absorbed |-> {}, id |-> 0, row |-> NoIncident]
NoRequest == [op |-> "none", id |-> 0, row |-> NoAlert]

AlertRows == [state : {"absent"} \cup Unresolved \cup {"resolved"}, rule : Rules,
              machine : Machines, incident : 0..MaxIncidents]
IncidentRows == [status : {"absent", "open", "acknowledged", "resolved"},
                 machine : Machines, severity : Nat, openedAt : Nat,
                 ackDue : Nat, resolveDue : Nat, level : 0..2]

TypeOK ==
    /\ now \in 0..Horizon
    /\ policy \in [Ranks -> Promises \cup {NoPromise}]
    /\ alert \in [AlertIds -> AlertRows]
    /\ incident \in [IncidentIds -> IncidentRows]
    /\ job \in [AlertIds -> {"none", "unfinished", "finished"}]
    /\ eval \in [pc : {"idle", "save", "insert", "join"}, machine : Machines, fired : SUBSET Rules,
                 absorbed : SUBSET Rules, id : 0..MaxIncidents, row : IncidentRows]
    /\ request \in [Requests -> [op : {"none", "resolve", "raise", "acknowledged", "resolved"},
                                 id : 0..(MaxAlerts + MaxIncidents), row : AlertRows]]
    /\ lock \in [IncidentIds -> Requests \cup {Evaluator, Nobody}]
    /\ escalations \in [IncidentIds -> [1..2 -> Nat]]
    /\ lost \in BOOLEAN
    /\ revived \in SUBSET AlertIds
    /\ left \in 0..MaxPolicies

Init ==
    /\ now = 0
    /\ policy \in [Ranks -> Promises \cup {NoPromise}]
    /\ alert = [a \in AlertIds |-> NoAlert]
    /\ incident = [i \in IncidentIds |-> NoIncident]
    /\ job = [a \in AlertIds |-> "none"]
    /\ eval = NoEval
    /\ request = [d \in Requests |-> NoRequest]
    /\ lock = [i \in IncidentIds |-> Nobody]
    /\ escalations = [i \in IncidentIds |-> [l \in 1..2 |-> 0]]
    /\ lost = FALSE
    /\ revived = {}
    /\ left = MaxPolicies

\* Rows in either table are used in order.
NextAlert == {a \in AlertIds : alert[a].state = "absent"}
NextIncident == {i \in IncidentIds : incident[i].status = "absent" /\
                     \A j \in IncidentIds : j < i => incident[j].status # "absent"}

Live(row) == row.status \in {"open", "acknowledged"}
LiveOn(m) == {i \in IncidentIds : Live(incident[i]) /\ incident[i].machine = m}
Linked(i) == {a \in AlertIds : alert[a].state # "absent" /\ alert[a].incident = i}

\* uq_alert_event_standing
Standing(r, m) == {a \in AlertIds : alert[a].state \in Unresolved /\ alert[a].rule = r
                                                                  /\ alert[a].machine = m}

--------------------------------------------------------------------------------
(* AlertService.evaluateWindow and absorbAlerts: one transaction. *)

\* Rules fire on a window; one whose alert still stands is suppressed.
Suppressed(r, m) == Standing(r, m) # {}

Fire(m, firing) ==
    /\ eval.pc = "idle"
    /\ LET fired == {r \in firing : ~Suppressed(r, m)} IN
         /\ fired # {}
         /\ NextIncident # {}
         /\ Cardinality(fired) <= Cardinality(NextAlert)
         /\ eval' = [NoEval EXCEPT !.pc = "save", !.machine = m, !.fired = fired]
    /\ UNCHANGED <<now, policy, alert, incident, job, request, lock, escalations, lost, revived, left>>

\* The alerts are inserted, to be seen when the transaction commits; from here on the
\* standing index holds their places.
Save ==
    /\ eval.pc = "save"
    /\ \A r \in eval.fired : Standing(r, eval.machine) = {}
    /\ eval' = [eval EXCEPT !.pc = "insert"]
    /\ UNCHANGED <<now, policy, alert, incident, job, request, lock, escalations, lost, revived, left>>

\* A stale acknowledgement was saved since the rule was found not to stand: the index
\* refuses the alert, and the whole evaluation is rolled back.
Refused ==
    /\ eval.pc = "save"
    /\ \E r \in eval.fired : Standing(r, eval.machine) # {}
    /\ eval' = NoEval
    /\ lost' = TRUE
    /\ UNCHANGED <<now, policy, alert, incident, job, request, lock, escalations, revived, left>>

Saving(r, m) == /\ eval.pc \in {"insert", "join"}
                /\ eval.machine = m
                /\ r \in eval.fired \cup eval.absorbed

Due(minutes, from) == IF minutes = 0 THEN 0 ELSE from + minutes

NewIncident(r, m) ==
    [status |-> "open", machine |-> m, severity |-> Severity[r], openedAt |-> now,
     ackDue |-> Due(policy[Severity[r]].ack, now),
     resolveDue |-> Due(policy[Severity[r]].resolve, now), level |-> 0]

\* Mutated form: the partial index covers open incidents only.
ConflictsOpen(m) == {i \in LiveOn(m) : incident[i].status = "open"}

\* INSERT ... ON CONFLICT DO NOTHING for the first alert.  A live row is a conflict even
\* while another transaction holds its lock.
Conflicts(m) == LiveOn(m)

Insert(r) ==
    /\ eval.pc = "insert"
    /\ r \in eval.fired
    /\ IF Conflicts(eval.machine) # {}
       THEN eval' = [eval EXCEPT !.pc = "join"]
       ELSE \E i \in NextIncident :
              eval' = [eval EXCEPT !.pc = "join", !.id = i, !.fired = @ \ {r},
                                   !.absorbed = {r}, !.row = NewIncident(r, eval.machine)]
    /\ UNCHANGED <<now, policy, alert, incident, job, request, lock, escalations, lost, revived, left>>

\* SELECT ... WHERE status <> 'resolved' FOR UPDATE waits for the lock and then looks again.
LockLive ==
    /\ eval.pc = "join"
    /\ eval.id = 0
    /\ \E i \in LiveOn(eval.machine) :
         /\ lock[i] = Nobody
         /\ lock' = [lock EXCEPT ![i] = Evaluator]
         /\ eval' = [eval EXCEPT !.id = i, !.row = incident[i]]
    /\ UNCHANGED <<now, policy, alert, incident, job, request, escalations, lost, revived, left>>

\* It was resolved while the SELECT waited: no row, live.id throws, all is rolled back.
LiveVanished ==
    /\ eval.pc = "join"
    /\ eval.id = 0
    /\ LiveOn(eval.machine) = {}
    /\ eval' = NoEval
    /\ lost' = TRUE
    /\ UNCHANGED <<now, policy, alert, incident, job, request, lock, escalations, revived, left>>

\* Mutated form: the promise of the new severity replaces the old one.
Replaced(current, minutes, openedAt) == IF minutes = 0 THEN current ELSE openedAt + minutes

\* A worse alert raises the severity and pulls the clock in, measured from the opening.
Tighter(current, minutes, openedAt) ==
    IF minutes = 0 THEN current
    ELSE LET candidate == openedAt + minutes IN
         IF current # 0 /\ current < candidate THEN current ELSE candidate

\* Mutated form: the ranks compared the wrong way round.
Better(row, rank) == rank < row.severity

Worse(row, rank) == rank > row.severity

Joined(row, r) ==
    LET p == policy[Severity[r]] IN
    IF Worse(row, Severity[r])
    THEN [row EXCEPT !.severity = Severity[r],
                     !.ackDue = Tighter(@, p.ack, row.openedAt),
                     !.resolveDue = Tighter(@, p.resolve, row.openedAt)]
    ELSE row

Join(r) ==
    /\ eval.pc = "join"
    /\ eval.id # 0
    /\ r \in eval.fired
    /\ eval' = [eval EXCEPT !.fired = @ \ {r}, !.absorbed = @ \cup {r}, !.row = Joined(@, r)]
    /\ UNCHANGED <<now, policy, alert, incident, job, request, lock, escalations, lost, revived, left>>

Unlocked(holder) == [i \in IncidentIds |-> IF lock[i] = holder THEN Nobody ELSE lock[i]]

\* Alerts, links and the incident commit together.
Commit ==
    /\ eval.pc = "join"
    /\ eval.id # 0
    /\ eval.fired = {}
    /\ \E place \in [eval.absorbed -> NextAlert] :
         /\ \A r, s \in eval.absorbed : place[r] = place[s] => r = s
         /\ \A a \in NextAlert : \A r \in eval.absorbed :
              a < place[r] => \E s \in eval.absorbed : place[s] = a
         /\ alert' = [a \in AlertIds |->
              IF \E r \in eval.absorbed : place[r] = a
              THEN [state |-> "open", rule |-> CHOOSE r \in eval.absorbed : place[r] = a,
                    machine |-> eval.machine, incident |-> eval.id]
              ELSE alert[a]]
    /\ incident' = [incident EXCEPT ![eval.id] = eval.row]
    /\ lock' = Unlocked(Evaluator)
    /\ eval' = NoEval
    /\ UNCHANGED <<now, policy, job, request, escalations, lost, revived, left>>

--------------------------------------------------------------------------------
(* IncidentRecordService: people. *)

\* acknowledge(): under the row's lock; its open alerts with it.
Acknowledge(i) ==
    /\ lock[i] = Nobody
    /\ incident[i].status = "open"
    /\ incident' = [incident EXCEPT ![i].status = "acknowledged"]
    /\ alert' = [a \in AlertIds |-> IF a \in Linked(i) /\ alert[a].state = "open"
                                    THEN [alert[a] EXCEPT !.state = "acknowledged"]
                                    ELSE alert[a]]
    /\ UNCHANGED <<now, policy, job, eval, request, lock, escalations, lost, revived, left>>

\* resolve(): takes the lock, looks for unfinished work ...
UnfinishedOn(i) == {a \in Linked(i) : job[a] = "unfinished"}

ResolveLock(d, i) ==
    /\ "resolve" \in Kinds
    /\ request[d].op = "none"
    /\ lock[i] = Nobody
    /\ Live(incident[i])
    /\ UnfinishedOn(i) = {}
    /\ lock' = [lock EXCEPT ![i] = d]
    /\ request' = [request EXCEPT ![d] = [NoRequest EXCEPT !.op = "resolve", !.id = i]]
    /\ UNCHANGED <<now, policy, alert, incident, job, eval, escalations, lost, revived, left>>

\* Mutated form: acknowledged alerts are forgotten.
ClosedOpen(i) == {a \in Linked(i) : alert[a].state = "open"}

\* ... and then resolves the incident and every unresolved alert linked to it.
Closed(i) == {a \in Linked(i) : alert[a].state \in Unresolved}

ResolveWrite(d) ==
    /\ request[d].op = "resolve"
    /\ LET i == request[d].id IN
         /\ incident' = [incident EXCEPT ![i].status = "resolved"]
         /\ alert' = [a \in AlertIds |-> IF a \in Closed(i)
                                         THEN [alert[a] EXCEPT !.state = "resolved"]
                                         ELSE alert[a]]
    /\ lock' = Unlocked(d)
    /\ request' = [request EXCEPT ![d] = NoRequest]
    /\ UNCHANGED <<now, policy, job, eval, escalations, lost, revived, left>>

\* raiseWork(): finds the worst unresolved alert in one transaction, without the lock ...
WorstUnresolved(i) ==
    {a \in Closed(i) : \A b \in Closed(i) : Severity[alert[b].rule] <= Severity[alert[a].rule]}

RaiseRead(d, i) ==
    /\ "raise" \in Kinds
    /\ request[d].op = "none"
    /\ Live(incident[i])
    /\ \E a \in WorstUnresolved(i) :
         request' = [request EXCEPT ![d] = [NoRequest EXCEPT !.op = "raise", !.id = a]]
    /\ UNCHANGED <<now, policy, alert, incident, job, eval, lock, escalations, lost, revived, left>>

\* ... and raises the job against it in another.
Raise(d) ==
    /\ request[d].op = "raise"
    /\ job' = [job EXCEPT ![request[d].id] = "unfinished"]
    /\ request' = [request EXCEPT ![d] = NoRequest]
    /\ UNCHANGED <<now, policy, alert, incident, eval, lock, escalations, lost, revived, left>>

\* WorkOrderService.act(): complete or cancel, and reopen.
FinishJob(a) ==
    /\ job[a] = "unfinished"
    /\ job' = [job EXCEPT ![a] = "finished"]
    /\ UNCHANGED <<now, policy, alert, incident, eval, request, lock, escalations, lost, revived, left>>

ReopenJob(a) ==
    /\ job[a] = "finished"
    /\ job' = [job EXCEPT ![a] = "unfinished"]
    /\ UNCHANGED <<now, policy, alert, incident, eval, request, lock, escalations, lost, revived, left>>

\* AlertService.transition(): find without a lock, then save the row as it was read.
TransitionRead(d, a, to) ==
    /\ request[d].op = "none"
    /\ alert[a].state \in Unresolved
    /\ to = "acknowledged" => alert[a].state = "open"
    /\ request' = [request EXCEPT ![d] = [op |-> to, id |-> a, row |-> alert[a]]]
    /\ UNCHANGED <<now, policy, alert, incident, job, eval, lock, escalations, lost, revived, left>>

\* The standing index refuses a save that would make a second standing alert; one that
\* meets an alert an evaluation is saving waits for that transaction to end.
Transitioned(d) == [request[d].row EXCEPT !.state = request[d].op]

TransitionSave(d) ==
    /\ request[d].op \in {"acknowledged", "resolved"}
    /\ request[d].op = "acknowledged" => ~Saving(request[d].row.rule, request[d].row.machine)
    /\ LET a == request[d].id
           refused == /\ request[d].op = "acknowledged"
                      /\ Standing(alert[a].rule, alert[a].machine) \ {a} # {} IN
         /\ alert' = IF refused THEN alert ELSE [alert EXCEPT ![a] = Transitioned(d)]
         /\ revived' = IF ~refused /\ request[d].op = "acknowledged"
                          /\ alert[a].state = "resolved"
                       THEN revived \cup {a} ELSE revived
    /\ request' = [request EXCEPT ![d] = NoRequest]
    /\ UNCHANGED <<now, policy, incident, job, eval, lock, escalations, lost, left>>

\* setPolicy() and deletePolicy(): the incidents already open are left alone.
SetPolicy(rank, p) ==
    /\ left > 0
    /\ left' = left - 1
    /\ policy' = [policy EXCEPT ![rank] = p]
    /\ UNCHANGED <<now, alert, incident, job, eval, request, lock, escalations, lost, revived>>

--------------------------------------------------------------------------------
(* escalateOverdue(): one pass over what is due and not locked. *)

AckOverdue(row) == row.status = "open" /\ row.ackDue # 0 /\ row.ackDue < now
ResolveOverdue(row) == Live(row) /\ row.resolveDue # 0 /\ row.resolveDue < now

\* Mutated forms: the stored level is not asked about; or only the first level is left.
EscalatesAgain(i) ==
    lock[i] = Nobody /\ (AckOverdue(incident[i]) \/ ResolveOverdue(incident[i]))

EscalatesOnce(i) ==
    /\ lock[i] = Nobody
    /\ AckOverdue(incident[i]) \/ ResolveOverdue(incident[i])
    /\ incident[i].level < 1

Escalates(i) ==
    /\ lock[i] = Nobody
    /\ \/ AckOverdue(incident[i]) /\ incident[i].level < 1
       \/ ResolveOverdue(incident[i]) /\ incident[i].level < 2

\* Mutated form: the level is counted up instead of set.
NextLevel(i) == incident[i].level + (IF ResolveOverdue(incident[i]) THEN 2 ELSE 1)

NewLevel(i) == IF ResolveOverdue(incident[i]) THEN 2 ELSE 1

Raised(i) == [incident[i] EXCEPT !.level = NewLevel(i)]

EscalateOverdue ==
    /\ \E i \in IncidentIds : Escalates(i)
    /\ incident' = [i \in IncidentIds |-> IF Escalates(i) THEN Raised(i) ELSE incident[i]]
    /\ escalations' = [i \in IncidentIds |->
                         IF Escalates(i)
                         THEN [escalations[i] EXCEPT ![NewLevel(i)] = @ + 1]
                         ELSE escalations[i]]
    /\ UNCHANGED <<now, policy, alert, job, eval, request, lock, lost, revived, left>>

Tick ==
    /\ now < Horizon
    /\ now' = now + 1
    /\ UNCHANGED <<policy, alert, incident, job, eval, request, lock, escalations, lost, revived, left>>

--------------------------------------------------------------------------------
EvalStep ==
    \/ \E r \in Rules : Insert(r) \/ Join(r)
    \/ Save \/ Refused \/ LockLive \/ LiveVanished \/ Commit

RequestStep(d) == ResolveWrite(d) \/ Raise(d) \/ TransitionSave(d)

Next ==
    \/ Tick
    \/ \E m \in Machines, firing \in SUBSET Rules : Fire(m, firing)
    \/ EvalStep
    \/ \E i \in IncidentIds : Acknowledge(i)
    \/ \E d \in Requests, i \in IncidentIds : ResolveLock(d, i) \/ RaiseRead(d, i)
    \/ \E d \in Requests, a \in AlertIds, to \in Kinds \ {"resolve", "raise"} : TransitionRead(d, a, to)
    \/ \E d \in Requests : RequestStep(d)
    \/ \E a \in AlertIds : FinishJob(a) \/ ReopenJob(a)
    \/ \E rank \in Ranks, p \in Promises : SetPolicy(rank, p)
    \/ EscalateOverdue

Spec == Init /\ [][Next]_vars

\* Transactions that began run to their end, the escalation timer keeps firing, time passes.
FairSpec ==
    /\ Spec
    /\ WF_vars(Tick)
    /\ WF_vars(EvalStep)
    /\ WF_vars(EscalateOverdue)
    /\ \A d \in Requests : WF_vars(RequestStep(d))

--------------------------------------------------------------------------------
(* Properties. *)

\* Safety: a machine has at most one live incident, whoever opens and resolves at once.
OneLivePerMachine ==
    \A i, j \in IncidentIds :
        Live(incident[i]) /\ Live(incident[j]) /\ incident[i].machine = incident[j].machine
            => i = j

\* Safety: an alert and the incident that owns it commit together: every alert is linked
\* to an incident of its own machine, at least as severe as itself.
AlertHasItsIncident ==
    \A a \in AlertIds : alert[a].state # "absent" =>
        /\ alert[a].incident # 0
        /\ LET row == incident[alert[a].incident] IN
             /\ row.status # "absent"
             /\ row.machine = alert[a].machine
             /\ Severity[alert[a].rule] <= row.severity

Owned(a) == \E i \in IncidentIds : i = alert[a].incident /\ Live(incident[i])

\* Safety: nothing is still wrong under a resolved incident.  A standing alert suppresses
\* its rule, so one without a live incident would hide the fault for good.  Alerts written
\* back by a stale acknowledgement are left to ListsNeverDisagree.
StandingAlertIsOwned ==
    \A a \in AlertIds \ revived : alert[a].state \in Unresolved => Owned(a)

\* Safety: an incident escalates to each level once, and the outbox holds an event for
\* exactly the levels it went through.
EscalatedOncePerLevel ==
    \A i \in IncidentIds :
        /\ \A l \in 1..2 : escalations[i][l] <= 1
        /\ \A l \in 1..2 : escalations[i][l] = 1 => l <= incident[i].level
        /\ incident[i].level # 0 => escalations[i][incident[i].level] = 1

\* Action property: severity only rises and a promised time is only pulled in, whatever
\* the policy becomes meanwhile.
OnlyTightens(row, next) ==
    row.status # "absent" =>
        /\ row.severity <= next.severity
        /\ row.ackDue # 0 => next.ackDue # 0 /\ next.ackDue <= row.ackDue
        /\ row.resolveDue # 0 => next.resolveDue # 0 /\ next.resolveDue <= row.resolveDue

PromiseOnlyTightens ==
    [][\A i \in IncidentIds : OnlyTightens(incident[i], incident'[i])]_vars

\* Liveness: a live incident past its resolution time is escalated to level 2 or resolved,
\* although the sweep skips rows somebody has locked.
OverdueIsEscalated ==
    \A i \in IncidentIds :
        ResolveOverdue(incident[i]) ~> (incident[i].level = 2 \/ ~Live(incident[i]))

--------------------------------------------------------------------------------
(* What comments in the code claim of it, and does not hold. *)

\* "An alert on a machine with no live incident opens one; on a machine with one, it joins
\* it" (absorbAlerts): no evaluation that fired is thrown away.
AlertOpensOrJoins == ~lost

\* "the alert list, the machine page and the incident view never disagree with the incident
\* about whether something is still wrong" (IncidentRecordService).
ListsNeverDisagree ==
    \A a \in AlertIds : alert[a].state \in Unresolved => Owned(a)

\* "Refused while work raised on its alerts is unfinished" (IncidentRecordService.resolve).
ResolveWaitsForWork ==
    [][\A i \in IncidentIds :
          Live(incident[i]) /\ incident'[i].status = "resolved" => UnfinishedOn(i) = {}]_vars
================================================================================
