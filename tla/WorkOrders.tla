------------------------------- MODULE WorkOrders -------------------------------
(* Jobs on one machine: the scorer that writes predictions and raises a job   *)
(* for a critical one in the same transaction (prediction.service.ts,         *)
(* prediction-work-raiser.service.ts), and the people who raise, assign,      *)
(* edit, start, complete, cancel and reopen jobs (work-order.service.ts,      *)
(* work-order-state-machine.ts).                                              *)
(*                                                                            *)
(* A transaction's writes are its own until it commits, and until then it has *)
(* the predictions it wrote and the account's counter locked.  A person's     *)
(* request loads a job, and saves it later: TypeORM reads the row again and   *)
(* updates the columns in which the loaded job differs from it.               *)
EXTENDS Naturals, Sequences, FiniteSets

CONSTANTS
    Scenarios,  \* scenarios active on the machine
    Scorers,    \* scoring runs that may be under way at once
    Users,      \* requests of people that may be under way at once
    Nobody,
    Horizon,    \* bound: the moment of the last reading
    MaxActs     \* bound: requests people make and scoring runs that die, together

Manual == 0  \* the fault of a job raised by hand

ASSUME ConstantsAssumption == /\ IsFiniteSet(Scenarios) /\ Manual \notin Scenarios
                              /\ Nobody \notin Scorers \cup Users
                              /\ Scorers \cap Users = {}
                              /\ Horizon \in Nat /\ MaxActs \in Nat

VARIABLES
    jobs,        \* work_order: the rows, in the order they were committed
    counter,     \* work_order_counter.next_number, as committed
    holder,      \* the transaction that holds the counter's row
    reading,     \* the moment of the machine's latest reading
    critical,    \* the scenarios it makes critical
    order,       \* the order in which the query of the active scenarios lists them
    predictions, \* the prediction table: <<scenario, occurred_at>>
    run,         \* each scoring run: its transaction and where it is in it
    request,     \* each person's request: the job it loaded and changed
    acts

vars == <<jobs, counter, holder, reading, critical, order, predictions, run, request, acts>>
table == <<jobs, counter>>
scores == <<reading, critical, order, predictions>>

Statuses == {"created", "in-progress", "completed", "cancelled"}
LiveStatuses == {"created", "in-progress"}
Moments == 0 .. Horizon

Orders ==
    {q \in [1 .. Cardinality(Scenarios) -> Scenarios] : \A i, j \in DOMAIN q : q[i] = q[j] => i = j}

\* A row: scenario is raised_for_scenario, or Manual; about is occurred_at of
\* the prediction it came from; resolution says whether a note is there.
Job == [reference : Nat, scenario : Scenarios \cup {Manual}, about : Moments,
        status : Statuses, resolution : BOOLEAN]

NewJob(n, f, at) ==
    [reference |-> n, scenario |-> f, about |-> at, status |-> "created", resolution |-> FALSE]

Live(rows, s) == \E j \in DOMAIN rows : rows[j].scenario = s /\ rows[j].status \in LiveStatuses

\* A scoring run's transaction: scenarios to do, the one whose job is being
\* raised, predictions and jobs written so far, and whether a statement failed.
NoRun == [at |-> "idle", todo |-> <<>>, scenario |-> Manual, seen |-> 0, written |-> {},
          raised |-> <<>>, aborted |-> FALSE]
NoRequest == [at |-> "idle"]

TypeOK ==
    /\ jobs \in Seq(Job)
    /\ counter \in Nat
    /\ holder \in Scorers \cup {Nobody}
    /\ reading \in Moments
    /\ critical \subseteq Scenarios
    /\ order \in Orders
    /\ predictions \subseteq Scenarios \X Moments
    /\ \A s \in Scorers : run[s].raised # <<>> => holder = s
    /\ holder # Nobody => run[holder].at # "idle"
    /\ \A j \in DOMAIN jobs : jobs[j].status = "completed" => jobs[j].resolution

Init ==
    /\ jobs = <<>> /\ counter = 1 /\ holder = Nobody
    /\ reading = 0 /\ critical \in SUBSET Scenarios /\ predictions = {}
    /\ order \in Orders
    /\ run = [s \in Scorers |-> NoRun]
    /\ request = [u \in Users |-> NoRequest]
    /\ acts = 0

\* One request or one death the more.
Counted == acts < MaxActs /\ acts' = acts + 1

----------------------------------------------------------------------------
(* Scoring                                                                  *)

\* A reading arrives, and with it what the scenarios make of it.
NewReading ==
    /\ reading < Horizon
    /\ reading' = reading + 1
    /\ critical' \in SUBSET Scenarios
    /\ UNCHANGED <<table, holder, order, predictions, run, request, acts>>

StartRun(s) ==
    /\ run[s].at = "idle"
    /\ run' = [run EXCEPT ![s].at = "scoring", ![s].todo = order]
    /\ UNCHANGED <<table, holder, scores, request, acts>>

\* The job rows a transaction sees: the committed ones and its own.
Seen(s) == jobs \o run[s].raised

\* A scenario raises a job once, whatever became of it.
RaisesOnce(s, f) ==
    f \in critical /\ \A j \in DOMAIN Seen(s) : Seen(s)[j].scenario # f

Raises(s, f) == f \in critical /\ ~Live(Seen(s), f)

\* The scenario a run comes to next.
Scoring(s) == run[s].at = "scoring" /\ ~run[s].aborted /\ run[s].todo # <<>>
Upcoming(s) == Head(run[s].todo)

\* Another transaction has the same prediction written and not committed.
RowHeld(s, t) == t # s /\ ~run[t].aborted /\ <<Upcoming(s), reading>> \in run[t].written

\* Its prediction is written, and the table is searched for a live automatic
\* job of the same machine and scenario.
Score(s) ==
    /\ Scoring(s)
    /\ \A t \in Scorers : ~RowHeld(s, t)
    /\ LET f == Upcoming(s)
           wrote == [run[s] EXCEPT !.todo = Tail(@), !.written = @ \cup {<<f, reading>>}]
       IN  run' = [run EXCEPT ![s] =
               IF Raises(s, f) THEN [wrote EXCEPT !.at = "number", !.scenario = f, !.seen = reading]
               ELSE wrote]
    /\ UNCHANGED <<table, holder, scores, request, acts>>

\* The number is read without the lock on its row.
FreeAlways(s) == TRUE

\* The upsert of the counter: the row stays locked until the transaction ends.
Free(s) == holder \in {Nobody, s}

TakeNumber(s) ==
    /\ run[s].at = "number"
    /\ Free(s)
    /\ holder' = s
    /\ run' = [run EXCEPT ![s].at = "insert"]
    /\ UNCHANGED <<table, scores, request, acts>>

\* The index covers the jobs nobody has started only.
TakenUnstarted(rows, f) ==
    \E j \in DOMAIN rows : rows[j].scenario = f /\ rows[j].status = "created"

\* uq_work_order_live_auto: one live automatic job per machine and scenario.
Taken(rows, f) == Live(rows, f)

\* The job is dated by the latest reading, not by the one that was scored.
AboutLatest(s) == reading

\* The prediction a job is dated by is the one that raised it.
About(s) == run[s].seen

\* A transaction that ends without letting go of the counter's row.
HeldOn(s) == {holder}

\* The lock goes to one who waits for it, and the wait is over.
Waiting == {t \in Scorers : run[t].at = "number"}
Released(s) == IF holder # s THEN {holder}
               ELSE IF Waiting \ {s} # {} THEN Waiting \ {s} ELSE {Nobody}
End(s) == run' = [run EXCEPT ![s] = NoRun] /\ holder' \in Released(s)

\* A statement of the raiser fails: the error is caught and logged, and the
\* run goes on, in a transaction that is already undone.
StatementFails(s) ==
    /\ run' = [run EXCEPT ![s].at = "scoring", ![s].aborted = TRUE, ![s].raised = <<>>,
                          ![s].scenario = Manual, ![s].seen = 0]
    /\ holder' \in Released(s)

InsertJob(s) ==
    /\ run[s].at = "insert"
    /\ LET f == run[s].scenario
           number == counter + Len(run[s].raised)
       IN  IF Taken(Seen(s), f)
           THEN StatementFails(s)
           ELSE /\ run' = [run EXCEPT ![s].at = "scoring", ![s].scenario = Manual, ![s].seen = 0,
                                      ![s].raised = Append(@, NewJob(number, f, About(s)))]
                /\ UNCHANGED holder
    /\ UNCHANGED <<table, scores, request, acts>>

\* Postgres ends a circle of transactions that wait for each other, each for a
\* prediction or the counter, by failing a statement of one.
WaitsFor(s, t) == \/ run[s].at = "number" /\ t # s /\ holder = t
                  \/ Scoring(s) /\ RowHeld(s, t)

InCircle(s) ==
    \E T \in SUBSET Scorers :
        /\ s \in T
        /\ \A t \in T : (\E u \in T : WaitsFor(t, u)) /\ (\E u \in T : WaitsFor(u, t))

Deadlock(s) ==
    /\ InCircle(s)
    /\ IF run[s].at = "number" THEN StatementFails(s) ELSE End(s)
    /\ UNCHANGED <<table, scores, request, acts>>

\* What a COMMIT leaves in the tables: everything, or nothing once a
\* statement has failed; the run is told of neither.
Commit(s) ==
    /\ run[s].at = "scoring" /\ run[s].todo = <<>>
    /\ IF run[s].aborted
       THEN UNCHANGED <<table, predictions>>
       ELSE /\ jobs' = jobs \o run[s].raised
            /\ counter' = counter + Len(run[s].raised)
            /\ predictions' = predictions \cup run[s].written
    /\ End(s)
    /\ UNCHANGED <<reading, critical, order, request, acts>>

\* The next scenario's first statement fails, and with it the run.
RunFails(s) ==
    /\ run[s].at = "scoring" /\ run[s].aborted /\ run[s].todo # <<>>
    /\ End(s)
    /\ UNCHANGED <<table, scores, request, acts>>

Crash(s) ==
    /\ Counted
    /\ run[s].at # "idle"
    /\ End(s)
    /\ UNCHANGED <<table, scores, request>>

----------------------------------------------------------------------------
(* People                                                                   *)

\* Somebody pauses a scenario and resumes it: its row is written anew, and the
\* query, which has no ORDER BY, may list it elsewhere.
Relist ==
    /\ Counted
    /\ order' \in Orders
    /\ UNCHANGED <<table, holder, reading, critical, predictions, run, request>>

\* A job raised by hand: one number, one row, in one transaction.
Raise(u) ==
    /\ Counted
    /\ request[u].at = "idle" /\ Free(u)
    /\ jobs' = Append(jobs, NewJob(counter, Manual, 0))
    /\ counter' = counter + 1
    /\ UNCHANGED <<holder, scores, run, request>>

\* TRANSITIONS: where each action works from, and where it leads.
From == [start    |-> {"created"},
         complete |-> {"created", "in-progress"},
         cancel   |-> {"created", "in-progress"},
         reopen   |-> {"completed", "cancelled"}]
To == [start |-> "in-progress", complete |-> "completed", cancel |-> "cancelled",
       reopen |-> "created"]
Actions == DOMAIN From

Acted(job, action) ==
    [job EXCEPT !.status = To[action],
                !.resolution = (@ \/ action = "complete") /\ action # "reopen"]

Loads(u, j, row) ==
    /\ Counted
    /\ request[u].at = "idle"
    /\ request' = [request EXCEPT ![u] = [at |-> "save", job |-> j, row |-> row]]
    /\ UNCHANGED <<table, holder, scores, run>>

\* The job is found, allowed the action, and changed in memory.
LoadAct(u) ==
    \E j \in DOMAIN jobs, action \in Actions :
        jobs[j].status \in From[action] /\ Loads(u, j, Acted(jobs[j], action))

\* An assignment, or an edit of the title, the text or the date: what they
\* change is none of the columns modelled here, but they save all of them.
LoadAssign(u) == \E j \in DOMAIN jobs : jobs[j].status \in LiveStatuses /\ Loads(u, j, jobs[j])
LoadEdit(u) == \E j \in DOMAIN jobs : Loads(u, j, jobs[j])

\* save() reads the row again: the columns to update are those that differ.
Compare(u) ==
    /\ request[u].at = "save"
    /\ LET row == request[u].row
           differ == {c \in DOMAIN row : row[c] # jobs[request[u].job][c]}
       IN  request' = [request EXCEPT ![u] = [at |-> "write", job |-> @.job, row |-> row,
                                              columns |-> differ]]
    /\ UNCHANGED <<table, holder, scores, run, acts>>

Updated(u) ==
    LET j == request[u].job
    IN  [c \in DOMAIN jobs[j] |-> IF c \in request[u].columns THEN request[u].row[c]
                                  ELSE jobs[j][c]]

\* What the table's constraints allow: a note on a completed job, and one
\* live automatic job per scenario.
Allowed(j, row) ==
    /\ row.status = "completed" => row.resolution
    /\ \/ row.status \notin LiveStatuses
       \/ row.scenario = Manual
       \/ \A k \in DOMAIN jobs \ {j} : ~(jobs[k].scenario = row.scenario
                                         /\ jobs[k].status \in LiveStatuses)

\* An index entry another transaction has written and not committed makes
\* the update wait for it.
Waits(row) == /\ row.status \in LiveStatuses
              /\ \E s \in Scorers : \E i \in DOMAIN run[s].raised :
                     row.scenario = run[s].raised[i].scenario

\* The update and the entry in the history, in one transaction; or the
\* request fails.
Write(u) ==
    /\ request[u].at = "write"
    /\ ~Waits(Updated(u))
    /\ LET j == request[u].job
       IN  IF Allowed(j, Updated(u))
           THEN jobs' = [jobs EXCEPT ![j] = Updated(u)]
           ELSE UNCHANGED jobs
    /\ request' = [request EXCEPT ![u] = NoRequest]
    /\ UNCHANGED <<counter, holder, scores, run, acts>>

RunStep(s) == \/ StartRun(s) \/ Score(s) \/ TakeNumber(s) \/ InsertJob(s) \/ Commit(s)
              \/ RunFails(s) \/ Deadlock(s)

Next == \/ NewReading \/ Relist
        \/ \E s \in Scorers : RunStep(s) \/ Crash(s)
        \/ \E u \in Users : Raise(u) \/ LoadAct(u) \/ LoadAssign(u) \/ LoadEdit(u)
                            \/ Compare(u) \/ Write(u)

Spec == Init /\ [][Next]_vars

\* Scoring runs are started again and again, and go on; who waits for a prediction
\* is woken when it is let go, and does not miss it every time.
Fairness == \A s \in Scorers : WF_vars(RunStep(s)) /\ SF_vars(Score(s))

FairSpec == Spec /\ Fairness

----------------------------------------------------------------------------
(* Properties                                                               *)

\* The same fault never has two unfinished automatic jobs, however scoring
\* runs overlap and whoever starts, ends or reopens a job meanwhile (the
\* index uq_work_order_live_auto; the raiser's own check alone is not enough).
OneLiveJobPerFault ==
    \A f \in Scenarios : \A j, k \in DOMAIN jobs :
        /\ jobs[j].scenario = f /\ jobs[j].status \in LiveStatuses
        /\ jobs[k].scenario = f /\ jobs[k].status \in LiveStatuses
        => j = k

\* The account's numbers are given out once each and none is left out, also
\* when a transaction that took one is rolled back (nextReference).
ReferencesInOrder == \A j \in DOMAIN jobs : jobs[j].reference = j

\* An automatic job can be traced to the prediction that raised it: the two
\* are committed together (scoreAsset).
AutoJobHasPrediction ==
    \A j \in DOMAIN jobs :
        jobs[j].scenario # Manual => <<jobs[j].scenario, jobs[j].about>> \in predictions

\* A scenario that stays critical has an unfinished job in the end, also when
\* somebody ends the one it had (raiseFromPrediction).
CriticalGetsAJob == \A f \in Scenarios : []<>(f \in critical => Live(jobs, f))

\* What raiseWork's comment says of a job that could not be raised: the
\* prediction is not lost for it: what a run that ends well answers it has
\* written is in the table.
PredictionIsKept ==
    [][\A s \in Scorers : Commit(s) => run[s].written \subseteq predictions']_vars
================================================================================
