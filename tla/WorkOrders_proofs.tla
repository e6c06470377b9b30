---------------------------- MODULE WorkOrders_proofs ----------------------------
(***************************************************************************)
(* What WorkOrders keeps for any scenarios, scoring runs, users and        *)
(* bounds: its types, one live automatic job per fault, the numbering, and *)
(* the prediction behind each automatic job.                               *)
(*                                                                         *)
(* The inductive invariant is about what is not committed yet: the rows a  *)
(* run has inserted are numbered on from the table's, clash with none of   *)
(* its live rows, and belong to the one run that has the counter.          *)
(***************************************************************************)
EXTENDS WorkOrders, FiniteSetTheorems, TLAPS

--------------------------------------------------------------------------------
(* The inductive invariant. *)

Columns == {"reference", "scenario", "about", "status", "resolution"}

Runs == [at : {"idle", "scoring", "number", "insert"}, todo : Seq(Scenarios),
         scenario : Scenarios \cup {Manual}, seen : Moments,
         written : SUBSET (Scenarios \X Moments), raised : Seq(Job), aborted : BOOLEAN]

Requests == [at : {"save"}, job : Nat, row : Job]
            \cup [at : {"write"}, job : Nat, row : Job, columns : SUBSET Columns]

LiveOf(row, f) == row.scenario = f /\ row.status \in LiveStatuses

\* The tables.
Tables ==
    /\ jobs \in Seq(Job)
    /\ counter = Len(jobs) + 1
    /\ reading \in Moments
    /\ critical \subseteq Scenarios
    /\ order \in Orders
    /\ predictions \subseteq Scenarios \X Moments
    /\ \A j \in DOMAIN jobs : jobs[j].status = "completed" => jobs[j].resolution
    /\ ReferencesInOrder
    /\ OneLiveJobPerFault
    /\ AutoJobHasPrediction

\* A job a run is about to insert is for a prediction the run has written.
Raising(r) ==
    r.at \in {"number", "insert"} => r.scenario \in Scenarios /\ <<r.scenario, r.seen>> \in r.written

\* The jobs a run has inserted go on from the table, in its numbers and in
\* what they are for.
GoesOn(r, rows) ==
    \A i \in DOMAIN r.raised :
        /\ r.raised[i].reference = Len(rows) + i
        /\ r.raised[i].status = "created"
        /\ r.raised[i].scenario \in Scenarios
        /\ <<r.raised[i].scenario, r.raised[i].about>> \in r.written
        /\ \A k \in DOMAIN r.raised : r.raised[k].scenario = r.raised[i].scenario => k = i
        /\ \A j \in DOMAIN rows : ~LiveOf(rows[j], r.raised[i].scenario)

\* Who has inserted a job, or is about to, has the counter.
HasCounter(s) == run[s].raised # <<>> \/ run[s].at = "insert" => holder = s

RunsSound ==
    /\ run \in [Scorers -> Runs]
    /\ holder \in Scorers \cup {Nobody}
    /\ holder # Nobody => run[holder].at # "idle"
    /\ \A s \in Scorers : Raising(run[s]) /\ GoesOn(run[s], jobs) /\ HasCounter(s)

\* What a person has loaded is a job that is still there, and still bears its
\* number, its fault and its prediction.
StillThere(r) ==
    /\ r.job \in DOMAIN jobs
    /\ r.row.reference = jobs[r.job].reference
    /\ r.row.scenario = jobs[r.job].scenario
    /\ r.row.about = jobs[r.job].about

RequestsSound ==
    /\ request \in [Users -> Requests \cup {NoRequest}]
    /\ \A u \in Users : request[u] # NoRequest => StillThere(request[u])

WInv == Tables /\ RunsSound /\ RequestsSound

--------------------------------------------------------------------------------
(* Sequences of rows. *)

\* The places of two sequences that are put together.
LEMMA Joined ==
  ASSUME NEW one \in Seq(Job), NEW two \in Seq(Job)
  PROVE  /\ one \o two \in Seq(Job)
         /\ Len(one \o two) = Len(one) + Len(two)
         /\ DOMAIN (one \o two) = 1 .. Len(one) + Len(two)
         /\ \A i \in DOMAIN one : i \in DOMAIN (one \o two) /\ (one \o two)[i] = one[i]
         /\ \A i \in DOMAIN two : /\ Len(one) + i \in DOMAIN (one \o two)
                                  /\ (one \o two)[Len(one) + i] = two[i]
         /\ \A i \in DOMAIN (one \o two) :
                i \in DOMAIN one \/ \E k \in DOMAIN two : i = Len(one) + k
  <1>1. /\ one \o two \in Seq(Job)
        /\ Len(one \o two) = Len(one) + Len(two)
        /\ DOMAIN (one \o two) = 1 .. Len(one) + Len(two)
        /\ DOMAIN one = 1 .. Len(one) /\ DOMAIN two = 1 .. Len(two)
        /\ Len(one) \in Nat /\ Len(two) \in Nat
    OBVIOUS
  <1>2. \A i \in 1 .. Len(one) + Len(two) :
            (one \o two)[i] = IF i <= Len(one) THEN one[i] ELSE two[i - Len(one)]
    OBVIOUS
  <1>3. ASSUME NEW i \in DOMAIN one
        PROVE  i \in DOMAIN (one \o two) /\ (one \o two)[i] = one[i]
    BY <1>1, <1>2
  <1>4. ASSUME NEW i \in DOMAIN two
        PROVE  Len(one) + i \in DOMAIN (one \o two) /\ (one \o two)[Len(one) + i] = two[i]
    BY <1>1, <1>2
  <1>5. ASSUME NEW i \in DOMAIN (one \o two), i \notin DOMAIN one
        PROVE  \E k \in DOMAIN two : i = Len(one) + k
    <2>1. i - Len(one) \in DOMAIN two /\ i = Len(one) + (i - Len(one))
      BY <1>1, <1>5
    <2> QED
      BY <2>1
  <1> QED
    BY <1>1, <1>3, <1>4, <1>5

\* The places of a sequence that got one more row.
LEMMA Appended ==
  ASSUME NEW rows \in Seq(Job), NEW row \in Job
  PROVE  /\ Append(rows, row) \in Seq(Job)
         /\ \A i \in DOMAIN rows : i \in DOMAIN Append(rows, row) /\ Append(rows, row)[i] = rows[i]
         /\ Append(rows, row)[Len(rows) + 1] = row
         /\ \A i \in DOMAIN Append(rows, row) : i \in DOMAIN rows \/ i = Len(rows) + 1
  <1>1. /\ DOMAIN rows = 1 .. Len(rows) /\ Len(rows) \in Nat
        /\ DOMAIN Append(rows, row) = 1 .. Len(rows) + 1
    OBVIOUS
  <1>2. /\ Append(rows, row) \in Seq(Job)
        /\ Append(rows, row)[Len(rows) + 1] = row
        /\ \A i \in 1 .. Len(rows) : Append(rows, row)[i] = rows[i]
    OBVIOUS
  <1> QED
    BY <1>1, <1>2

\* A row is appended as a sequence of one.
LEMMA OneRow ==
  ASSUME NEW rows \in Seq(Job), NEW row \in Job
  PROVE  /\ <<row>> \in Seq(Job) /\ Len(<<row>>) = 1 /\ DOMAIN <<row>> = {1} /\ <<row>>[1] = row
         /\ Append(rows, row) = rows \o <<row>>
  OBVIOUS

\* A job that is not live under a fault is not among the live ones.
LEMMA NotLive ==
  ASSUME NEW rows \in Seq(Job), NEW f
  PROVE  ~Live(rows, f) <=> \A j \in DOMAIN rows : ~LiveOf(rows[j], f)
  BY DEF Live, LiveOf

\* A new job is a row with the number, the fault and the time it was given.
LEMMA NewJobType ==
  ASSUME NEW n \in Nat, NEW f \in Scenarios \cup {Manual}, NEW at \in Moments
  PROVE  /\ NewJob(n, f, at) \in Job
         /\ NewJob(n, f, at).reference = n /\ NewJob(n, f, at).scenario = f
         /\ NewJob(n, f, at).about = at /\ NewJob(n, f, at).status = "created"
  BY DEF NewJob, Job, Statuses

--------------------------------------------------------------------------------
(* Rows that are appended to the table. *)

\* Rows that go on from the table leave its promises kept.
LEMMA GrownTables ==
  ASSUME Tables, NEW rows \in Seq(Job),
         jobs' = jobs \o rows, counter' = counter + Len(rows),
         UNCHANGED <<reading, critical, order>>,
         predictions \subseteq predictions', predictions' \subseteq Scenarios \X Moments,
         \A i \in DOMAIN rows :
             /\ rows[i].reference = Len(jobs) + i
             /\ rows[i].status = "created"
             /\ rows[i].scenario # Manual =>
                    /\ <<rows[i].scenario, rows[i].about>> \in predictions'
                    /\ \A k \in DOMAIN rows : rows[k].scenario = rows[i].scenario => k = i
                    /\ \A j \in DOMAIN jobs : ~LiveOf(jobs[j], rows[i].scenario)
  PROVE  Tables'
  <1>1. jobs \in Seq(Job)
    BY DEF Tables
  <1>2. /\ jobs' \in Seq(Job) /\ Len(jobs') = Len(jobs) + Len(rows)
        /\ \A i \in DOMAIN jobs : jobs'[i] = jobs[i]
        /\ \A i \in DOMAIN rows : jobs'[Len(jobs) + i] = rows[i]
        /\ \A i \in DOMAIN jobs' : i \in DOMAIN jobs \/ \E k \in DOMAIN rows : i = Len(jobs) + k
    BY <1>1, Joined
  <1>3. counter' = Len(jobs') + 1
    BY <1>1, <1>2 DEF Tables
  <1>4. \A j \in DOMAIN jobs' : /\ jobs'[j].status = "completed" => jobs'[j].resolution
                                /\ jobs'[j].reference = j
                                /\ jobs'[j].scenario # Manual =>
                                       <<jobs'[j].scenario, jobs'[j].about>> \in predictions'
    <2> TAKE j \in DOMAIN jobs'
    <2>1. CASE j \in DOMAIN jobs
      BY <1>2, <2>1 DEF Tables, ReferencesInOrder, AutoJobHasPrediction
    <2>2. CASE \E k \in DOMAIN rows : j = Len(jobs) + k
      BY <1>2, <2>2
    <2> QED
      BY <1>2, <2>1, <2>2
  <1>5. OneLiveJobPerFault'
    <2> SUFFICES ASSUME NEW f \in Scenarios, NEW j \in DOMAIN jobs', NEW k \in DOMAIN jobs',
                        LiveOf(jobs'[j], f), LiveOf(jobs'[k], f)
                 PROVE  j = k
      BY DEF OneLiveJobPerFault, LiveOf
    <2>0. f # Manual
      BY ConstantsAssumption DEF Manual
    <2>1. CASE j \in DOMAIN jobs /\ k \in DOMAIN jobs
      BY <1>2, <2>1 DEF Tables, OneLiveJobPerFault, LiveOf
    <2>2. ASSUME NEW i \in DOMAIN rows, j = Len(jobs) + i PROVE j = k
      <3>1. rows[i].scenario = f
        BY <1>2, <2>2 DEF LiveOf
      <3>2. k \notin DOMAIN jobs
        BY <1>2, <2>0, <3>1
      <3>3. PICK m \in DOMAIN rows : k = Len(jobs) + m
        BY <1>2, <3>2
      <3> QED
        BY <1>2, <2>0, <2>2, <3>1, <3>3 DEF LiveOf
    <2>3. ASSUME NEW i \in DOMAIN rows, k = Len(jobs) + i PROVE j = k
      <3>1. rows[i].scenario = f
        BY <1>2, <2>3 DEF LiveOf
      <3>2. j \notin DOMAIN jobs
        BY <1>2, <2>0, <3>1
      <3>3. PICK m \in DOMAIN rows : j = Len(jobs) + m
        BY <1>2, <3>2
      <3> QED
        BY <1>2, <2>0, <2>3, <3>1, <3>3 DEF LiveOf
    <2> QED
      BY <1>2, <2>1, <2>2, <2>3
  <1> QED
    BY <1>2, <1>3, <1>4, <1>5 DEF Tables, ReferencesInOrder, AutoJobHasPrediction

\* What people have loaded is still there when rows are appended.
LEMMA GrownRequests ==
  ASSUME Tables, RequestsSound, NEW rows \in Seq(Job), jobs' = jobs \o rows, UNCHANGED request
  PROVE  RequestsSound'
  <1>1. jobs \in Seq(Job)
    BY DEF Tables
  <1>2. \A i \in DOMAIN jobs : i \in DOMAIN jobs' /\ jobs'[i] = jobs[i]
    BY <1>1, Joined
  <1> QED
    BY <1>2 DEF RequestsSound, StillThere

--------------------------------------------------------------------------------
(* Scoring runs. *)

\* When nobody else has the counter, nobody else has inserted a job.
LEMMA Alone ==
  ASSUME RunsSound, NEW s \in Scorers, NEW t \in Scorers, t # holder
  PROVE  run[t].raised = <<>> /\ run[t].at # "insert"
  BY DEF RunsSound, HasCounter

\* A scoring run that is not under way is of its type and has raised nothing.
LEMMA NoRunType ==
  NoRun \in Runs /\ NoRun.at = "idle" /\ NoRun.raised = <<>>
  <1>1. 0 \in Moments
    BY ConstantsAssumption DEF Moments
  <1>2. <<>> \in Seq(Job)
    OBVIOUS
  <1> QED
    BY <1>1, <1>2 DEF NoRun, Runs

\* A run goes on, with what it has inserted going on from the table.
LEMMA GoingOn ==
  ASSUME RunsSound, NEW s \in Scorers, NEW r \in Runs, run' = [run EXCEPT ![s] = r],
         UNCHANGED <<jobs, holder>>, r.at # "idle", Raising(r), GoesOn(r, jobs),
         r.raised # <<>> \/ r.at = "insert" => holder = s
  PROVE  RunsSound'
  <1>1. run' \in [Scorers -> Runs]
    BY DEF RunsSound
  <1>2. \A t \in Scorers : run'[t] = IF t = s THEN r ELSE run[t]
    BY DEF RunsSound
  <1>3. \A t \in Scorers : Raising(run'[t]) /\ GoesOn(run'[t], jobs)
    BY <1>2 DEF RunsSound
  <1>4. \A t \in Scorers : HasCounter(t)'
    BY <1>2 DEF RunsSound, HasCounter
  <1>5. holder' # Nobody => run'[holder'].at # "idle"
    BY <1>2 DEF RunsSound
  <1> QED
    BY <1>1, <1>3, <1>4, <1>5 DEF RunsSound

\* A run lets go of what it inserted and of the counter: the table is as it
\* was, or has what the run inserted, and nobody else has anything in hand.
LEMMA LettingGo ==
  ASSUME RunsSound, NEW s \in Scorers, NEW r \in Runs, run' = [run EXCEPT ![s] = r],
         holder' \in Released(s), r.raised = <<>>, r.at \in {"idle", "scoring"},
         UNCHANGED jobs \/ holder = s
  PROVE  RunsSound'
  <1>1. run' \in [Scorers -> Runs]
    BY DEF RunsSound
  <1>2. \A t \in Scorers : run'[t] = IF t = s THEN r ELSE run[t]
    BY DEF RunsSound
  <1>3. holder' \in Scorers \cup {Nobody}
    BY DEF RunsSound, Released, Waiting
  <1>4. holder' # Nobody => run'[holder'].at # "idle"
    <2>1. CASE holder # s
      BY <1>2, <2>1 DEF Released, RunsSound
    <2>2. CASE holder = s
      <3>1. holder' # Nobody => holder' \in Waiting \ {s}
        BY <2>2 DEF Released
      <3> QED
        BY <1>2, <3>1 DEF Waiting
    <2> QED
      BY <2>1, <2>2
  <1>5. ASSUME NEW t \in Scorers
        PROVE  Raising(run'[t]) /\ GoesOn(run'[t], jobs') /\ HasCounter(t)'
    <2>1. CASE t = s
      <3>1. DOMAIN r.raised = {}
        OBVIOUS
      <3> QED
        BY <1>2, <2>1, <3>1 DEF Raising, GoesOn, HasCounter
    <2>2. CASE t # s
      <3>1. run'[t] = run[t]
        BY <1>2, <2>2
      <3>2. CASE holder = s
        <4>1. run[t].raised = <<>> /\ run[t].at # "insert"
          BY <2>2, <3>2, Alone
        <4>2. DOMAIN run[t].raised = {}
          BY <4>1
        <4> QED
          BY <3>1, <4>1, <4>2 DEF RunsSound, GoesOn, HasCounter
      <3>3. CASE holder # s
        <4>1. holder' = holder /\ jobs' = jobs
          BY <3>3 DEF Released
        <4> QED
          BY <3>1, <4>1 DEF RunsSound, HasCounter
      <3> QED
        BY <3>2, <3>3
    <2> QED
      BY <2>1, <2>2
  <1> QED
    BY <1>1, <1>3, <1>4, <1>5 DEF RunsSound

\* The query lists scenarios, and finitely many.
LEMMA OrderIsList == \A q \in Orders : q \in Seq(Scenarios)
  <1>1. Cardinality(Scenarios) \in Nat
    BY ConstantsAssumption, FS_CardinalityType
  <1> QED
    BY <1>1 DEF Orders

\* The scenario a run comes to, and those it has to do after it.
LEMMA UpcomingIsToDo ==
  ASSUME RunsSound, NEW s \in Scorers, run[s].todo # <<>>
  PROVE  Upcoming(s) \in Scenarios /\ Tail(run[s].todo) \in Seq(Scenarios)
  <1>1. run[s].todo \in Seq(Scenarios)
    BY DEF RunsSound, Runs
  <1> QED
    BY <1>1 DEF Upcoming

\* Everything but a run and the counter is left alone.
LEMMA OnlyRuns ==
  ASSUME Tables, RequestsSound, UNCHANGED <<table, scores, request>>
  PROVE  Tables' /\ RequestsSound'
  BY DEF Tables, RequestsSound, StillThere, table, scores, ReferencesInOrder,
         OneLiveJobPerFault, AutoJobHasPrediction

\* A run begins with nothing written and nothing raised.
LEMMA StartSafe ==
  ASSUME WInv, NEW s \in Scorers, StartRun(s)
  PROVE  WInv'
  <1> DEFINE r == [run[s] EXCEPT !.at = "scoring", !.todo = order]
  <1>0. order \in Seq(Scenarios)
    BY OrderIsList DEF WInv, Tables
  <1>1. r \in Runs /\ r.at = "scoring" /\ r.raised = run[s].raised /\ r.written = run[s].written
    BY <1>0 DEF WInv, RunsSound, Runs
  <1>2. run' = [run EXCEPT ![s] = r] /\ UNCHANGED <<jobs, holder>>
    BY DEF StartRun, table, WInv, RunsSound
  <1>3. Raising(r) /\ GoesOn(r, jobs) /\ (r.raised # <<>> \/ r.at = "insert" => holder = s)
    BY <1>1 DEF WInv, RunsSound, Raising, GoesOn, HasCounter
  <1> HIDE DEF r
  <1>4. RunsSound'
    BY <1>1, <1>2, <1>3, GoingOn DEF WInv
  <1> QED
    BY <1>4, OnlyRuns DEF WInv, StartRun

\* A prediction is written; a fault that has a live job raises no other.
LEMMA ScoreSafe ==
  ASSUME WInv, NEW s \in Scorers, Score(s)
  PROVE  WInv'
  <1> DEFINE f == Upcoming(s)
             wrote == [run[s] EXCEPT !.todo = Tail(@), !.written = @ \cup {<<f, reading>>}]
             numbered == [wrote EXCEPT !.at = "number", !.scenario = f, !.seen = reading]
             r == IF Raises(s, f) THEN numbered ELSE wrote
  <1>1. run[s] \in Runs /\ run[s].at = "scoring" /\ run[s].todo # <<>> /\ reading \in Moments
    BY DEF Score, Scoring, WInv, RunsSound, Tables
  <1>2. f \in Scenarios /\ Tail(run[s].todo) \in Seq(Scenarios)
    BY <1>1, UpcomingIsToDo DEF WInv
  <1>3. run' = [run EXCEPT ![s] = r] /\ UNCHANGED <<jobs, holder>>
    BY Zenon DEF Score, table
  <1> HIDE DEF f
  <1>0. (run[s].written \cup {<<f, reading>>}) \in SUBSET (Scenarios \X Moments)
    BY <1>1, <1>2 DEF Runs
  <1>4. /\ wrote \in Runs /\ wrote.at = "scoring" /\ wrote.raised = run[s].raised
        /\ wrote.written = run[s].written \cup {<<f, reading>>}
    BY <1>1, <1>2, <1>0 DEF Runs
  <1>5. /\ numbered \in Runs /\ numbered.at = "number" /\ numbered.raised = run[s].raised
        /\ numbered.written = run[s].written \cup {<<f, reading>>}
        /\ numbered.scenario = f /\ numbered.seen = reading
    BY <1>1, <1>2, <1>0 DEF Runs
  <1> HIDE DEF wrote, numbered
  <1>6. /\ r \in Runs /\ r.at \in {"scoring", "number"} /\ r.raised = run[s].raised
        /\ run[s].written \subseteq r.written
    BY <1>4, <1>5
  <1>7. Raising(r)
    BY <1>2, <1>4, <1>5 DEF Raising
  <1> HIDE DEF r
  <1>8. GoesOn(r, jobs) /\ (r.raised # <<>> \/ r.at = "insert" => holder = s)
    BY <1>6 DEF WInv, RunsSound, GoesOn, HasCounter
  <1>9. RunsSound'
    BY <1>3, <1>6, <1>7, <1>8, GoingOn DEF WInv
  <1> QED
    BY <1>9, OnlyRuns DEF WInv, Score

\* The counter is free or the run has it already: only one run has it afterwards.
LEMMA TakeNumberSafe ==
  ASSUME WInv, NEW s \in Scorers, TakeNumber(s)
  PROVE  WInv'
  <1>1. /\ run' = [run EXCEPT ![s].at = "insert"] /\ holder' = s /\ UNCHANGED jobs
        /\ run[s].at = "number" /\ holder \in {Nobody, s}
    BY DEF TakeNumber, Free, table
  <1>2. run' \in [Scorers -> Runs]
    BY <1>1 DEF WInv, RunsSound, Runs
  <1>3. \A t \in Scorers : t # s => run'[t] = run[t] /\ run[t].raised = <<>> /\ run[t].at # "insert"
    <2>1. ASSUME NEW t \in Scorers, t # s PROVE t # holder
      BY <1>1, <2>1, ConstantsAssumption
    <2> QED
      BY <1>1, <2>1, Alone DEF WInv, RunsSound
  <1>4. /\ run'[s].at = "insert" /\ run'[s].raised = run[s].raised
        /\ run'[s].written = run[s].written /\ run'[s].scenario = run[s].scenario
        /\ run'[s].seen = run[s].seen
    BY <1>1 DEF WInv, RunsSound, Runs
  <1>5. ASSUME NEW t \in Scorers
        PROVE  Raising(run'[t]) /\ GoesOn(run'[t], jobs') /\ HasCounter(t)'
    <2>1. CASE t = s
      <3>1. GoesOn(run[s], jobs) /\ Raising(run[s])
        BY DEF WInv, RunsSound
      <3>2. GoesOn(run'[s], jobs)
        BY <1>4, <3>1 DEF GoesOn
      <3>3. Raising(run'[s])
        BY <1>1, <1>4, <3>1 DEF Raising
      <3> QED
        BY <1>1, <2>1, <3>2, <3>3 DEF HasCounter
    <2>2. CASE t # s
      BY <1>1, <1>3, <2>2 DEF WInv, RunsSound, Raising, GoesOn, HasCounter
    <2> QED
      BY <2>1, <2>2
  <1>6. RunsSound'
    BY <1>1, <1>2, <1>4, <1>5 DEF RunsSound
  <1> QED
    BY <1>6, OnlyRuns DEF WInv, TakeNumber

\* A run that ends, or whose statement failed, has nothing in hand.
LEMMA EndSafe ==
  ASSUME RunsSound, NEW s \in Scorers, End(s), UNCHANGED jobs \/ holder = s
  PROVE  RunsSound'
  BY NoRunType, LettingGo DEF End

\* A statement that fails takes what the run had raised with it.
LEMMA StatementFailsSafe ==
  ASSUME RunsSound, NEW s \in Scorers, StatementFails(s), UNCHANGED jobs
  PROVE  RunsSound'
  <1> DEFINE r == [run[s] EXCEPT !.at = "scoring", !.aborted = TRUE, !.raised = <<>>,
                                 !.scenario = Manual, !.seen = 0]
  <1>1. run[s] \in Runs /\ 0 \in Moments /\ <<>> \in Seq(Job)
    BY ConstantsAssumption DEF RunsSound, Moments
  <1>2. r \in Runs /\ r.at = "scoring" /\ r.raised = <<>>
    BY <1>1 DEF Runs
  <1>3. run' = [run EXCEPT ![s] = r]
    BY DEF StatementFails, RunsSound
  <1>4. holder' \in Released(s)
    BY DEF StatementFails
  <1> HIDE DEF r
  <1> QED
    BY <1>2, <1>3, <1>4, LettingGo

\* The job that is inserted goes on from the others the run inserted.
LEMMA InsertedGoesOn ==
  ASSUME Tables, RunsSound, NEW s \in Scorers, run[s].at = "insert",
         ~Taken(Seen(s), run[s].scenario),
         NEW r \in Runs, r.written = run[s].written,
         r.raised = Append(run[s].raised,
                           NewJob(counter + Len(run[s].raised), run[s].scenario, About(s)))
  PROVE  GoesOn(r, jobs)
  <1> DEFINE f == run[s].scenario
             old == run[s].raised
             row == NewJob(counter + Len(old), f, About(s))
             m == Len(jobs)
             n == Len(old)
  <1>1. /\ run[s] \in Runs /\ jobs \in Seq(Job) /\ old \in Seq(Job) /\ counter = m + 1
    BY DEF RunsSound, Runs, Tables
  <1>2. f \in Scenarios /\ <<f, About(s)>> \in run[s].written /\ About(s) \in Moments
    BY <1>1 DEF RunsSound, Raising, About, Runs
  <1>3. m \in Nat /\ n \in Nat
    BY <1>1
  <1>4. r.raised = Append(old, row)
    OBVIOUS
  <1>5. /\ row \in Job /\ row.reference = counter + n /\ row.scenario = f
        /\ row.about = About(s) /\ row.status = "created"
    <2> HIDE DEF m, n, f
    <2>1. counter + n \in Nat
      BY <1>1, <1>3
    <2> QED
      BY <1>2, <2>1, NewJobType DEF n
  <1>6. /\ \A j \in DOMAIN jobs : ~LiveOf(jobs[j], f)
        /\ \A i \in DOMAIN old : ~LiveOf(old[i], f)
    <2>1. Seen(s) \in Seq(Job) /\ \A j \in DOMAIN Seen(s) : ~LiveOf(Seen(s)[j], f)
      BY <1>1, Joined, NotLive DEF Taken, Seen
    <2>2. /\ \A j \in DOMAIN jobs : j \in DOMAIN Seen(s) /\ Seen(s)[j] = jobs[j]
          /\ \A i \in DOMAIN old : m + i \in DOMAIN Seen(s) /\ Seen(s)[m + i] = old[i]
      BY <1>1, Joined DEF Seen
    <2> QED
      BY <2>1, <2>2
  <1>7. \A i \in DOMAIN old : old[i].scenario # f
    BY <1>6 DEF RunsSound, GoesOn, LiveOf, LiveStatuses
  <1>8. GoesOn(run[s], jobs)
    BY DEF RunsSound
  <1> HIDE DEF row, f
  <1>9. /\ \A i \in DOMAIN old : i \in DOMAIN r.raised /\ r.raised[i] = old[i]
        /\ r.raised[n + 1] = row
        /\ \A i \in DOMAIN r.raised : i \in DOMAIN old \/ i = n + 1
    <2> HIDE DEF old
    <2>1. old \in Seq(Job) /\ row \in Job
      BY <1>1, <1>5
    <2>2. /\ \A i \in DOMAIN old : i \in DOMAIN Append(old, row) /\ Append(old, row)[i] = old[i]
          /\ Append(old, row)[n + 1] = row
          /\ \A i \in DOMAIN Append(old, row) : i \in DOMAIN old \/ i = n + 1
      BY <2>1, Appended
    <2> QED
      BY <1>4, <2>2
  <1> SUFFICES ASSUME NEW i \in DOMAIN r.raised
               PROVE  /\ r.raised[i].reference = m + i
                      /\ r.raised[i].status = "created"
                      /\ r.raised[i].scenario \in Scenarios
                      /\ <<r.raised[i].scenario, r.raised[i].about>> \in r.written
                      /\ \A k \in DOMAIN r.raised : r.raised[k].scenario = r.raised[i].scenario => k = i
                      /\ \A j \in DOMAIN jobs : ~LiveOf(jobs[j], r.raised[i].scenario)
    BY DEF GoesOn
  <1>10. ASSUME NEW k \in DOMAIN r.raised, r.raised[k].scenario = r.raised[i].scenario
         PROVE  k = i
    <2>1. CASE i \in DOMAIN old /\ k \in DOMAIN old
      BY <1>8, <1>9, <1>10, <2>1 DEF GoesOn
    <2>2. CASE i \in DOMAIN old /\ k = n + 1
      BY <1>5, <1>7, <1>9, <1>10, <2>2
    <2>3. CASE i = n + 1 /\ k \in DOMAIN old
      BY <1>5, <1>7, <1>9, <1>10, <2>3
    <2> QED
      BY <1>9, <2>1, <2>2, <2>3
  <1>11. CASE i \in DOMAIN old
    BY <1>8, <1>9, <1>10, <1>11 DEF GoesOn
  <1>12. CASE i = n + 1
    <2>1. row.reference = m + i
      <3> HIDE DEF m, n
      <3> QED
        BY <1>1, <1>3, <1>5, <1>12
    <2>2. row.scenario \in Scenarios /\ <<row.scenario, row.about>> \in r.written
      BY <1>2, <1>5
    <2>3. \A j \in DOMAIN jobs : ~LiveOf(jobs[j], row.scenario)
      BY <1>5, <1>6
    <2> HIDE DEF m, n
    <2> QED
      BY <1>5, <1>9, <1>10, <1>12, <2>1, <2>2, <2>3
  <1> QED
    BY <1>9, <1>11, <1>12

\* The job inserted goes on from the table, for a fault that has no live job.
LEMMA InsertSafe ==
  ASSUME WInv, NEW s \in Scorers, InsertJob(s)
  PROVE  WInv'
  <1>1. run[s].at = "insert" /\ UNCHANGED <<table, scores, request>>
    BY DEF InsertJob
  <1>2. CASE Taken(Seen(s), run[s].scenario)
    <2>1. StatementFails(s) /\ UNCHANGED jobs
      BY <1>1, <1>2 DEF InsertJob, table
    <2> QED
      BY <1>1, <2>1, StatementFailsSafe, OnlyRuns DEF WInv
  <1>3. CASE ~Taken(Seen(s), run[s].scenario)
    <2> DEFINE row == NewJob(counter + Len(run[s].raised), run[s].scenario, About(s))
               r == [run[s] EXCEPT !.at = "scoring", !.scenario = Manual, !.seen = 0,
                                   !.raised = Append(@, row)]
    <2>1. /\ run[s] \in Runs /\ run[s].raised \in Seq(Job) /\ 0 \in Moments
          /\ run[s].scenario \in Scenarios /\ About(s) \in Moments
          /\ counter + Len(run[s].raised) \in Nat
      <3>1. /\ run[s] \in Runs /\ run[s].raised \in Seq(Job) /\ About(s) \in Moments
            /\ run[s].scenario \in Scenarios
        BY <1>1 DEF WInv, RunsSound, Runs, Raising, About
      <3>2. 0 \in Moments
        BY ConstantsAssumption DEF Moments
      <3>3. counter \in Nat /\ Len(run[s].raised) \in Nat
        <4>1. jobs \in Seq(Job) /\ counter = Len(jobs) + 1
          BY DEF WInv, Tables
        <4>2. Len(jobs) \in Nat
          BY <4>1
        <4> QED
          BY <3>1, <4>1, <4>2
      <3>4. counter + Len(run[s].raised) \in Nat
        BY <3>3
      <3> QED
        BY <3>1, <3>2, <3>4
    <2>2. row \in Job
      BY <2>1, NewJobType
    <2>3. run' = [run EXCEPT ![s] = r] /\ UNCHANGED <<jobs, holder>>
      BY <1>1, <1>3, Zenon DEF InsertJob, table
    <2> HIDE DEF row
    <2>4. Append(run[s].raised, row) \in Seq(Job)
      BY <2>1, <2>2
    <2>5. /\ r \in Runs /\ r.at = "scoring" /\ r.written = run[s].written
          /\ r.raised = Append(run[s].raised, row)
      BY <2>1, <2>4 DEF Runs
    <2> HIDE DEF r
    <2>6. GoesOn(r, jobs)
      BY <1>1, <1>3, <2>5, InsertedGoesOn DEF WInv, row
    <2>7. Raising(r) /\ holder = s
      BY <1>1, <2>5 DEF WInv, RunsSound, Raising, HasCounter
    <2>8. RunsSound'
      BY <2>3, <2>5, <2>6, <2>7, GoingOn DEF WInv
    <2> QED
      BY <1>1, <2>8, OnlyRuns DEF WInv
  <1> QED
    BY <1>2, <1>3

\* What was raised is put behind the table: its numbers go on and its faults were free.
LEMMA CommitSafe ==
  ASSUME WInv, NEW s \in Scorers, Commit(s)
  PROVE  WInv'
  <1> DEFINE rows == run[s].raised
  <1>0. /\ run[s] \in Runs /\ rows \in Seq(Job) /\ jobs \in Seq(Job) /\ End(s)
        /\ UNCHANGED <<reading, critical, order, request>> /\ run[s].written \subseteq Scenarios \X Moments
    BY DEF Commit, WInv, RunsSound, Runs, Tables
  <1>1. CASE run[s].aborted
    <2>1. UNCHANGED <<table, scores, request>>
      BY <1>0, <1>1 DEF Commit, scores
    <2> QED
      BY <1>0, <2>1, EndSafe, OnlyRuns DEF WInv, table
  <1>2. CASE ~run[s].aborted
    <2>1. /\ jobs' = jobs \o rows /\ counter' = counter + Len(rows)
          /\ predictions' = predictions \cup run[s].written
      BY <1>2 DEF Commit
    <2>2. RunsSound'
      <3>1. CASE rows = <<>>
        BY <1>0, <2>1, <3>1, EndSafe DEF WInv
      <3>2. CASE rows # <<>>
        BY <1>0, <3>2, EndSafe DEF WInv, RunsSound, HasCounter
      <3> QED
        BY <3>1, <3>2
    <2>3. RequestsSound'
      BY <1>0, <2>1, GrownRequests DEF WInv
    <2>4. \A i \in DOMAIN rows :
            /\ rows[i].reference = Len(jobs) + i
            /\ rows[i].status = "created"
            /\ <<rows[i].scenario, rows[i].about>> \in predictions'
            /\ \A k \in DOMAIN rows : rows[k].scenario = rows[i].scenario => k = i
            /\ \A j \in DOMAIN jobs : ~LiveOf(jobs[j], rows[i].scenario)
      BY <2>1 DEF WInv, RunsSound, GoesOn
    <2>5. predictions \subseteq predictions' /\ predictions' \subseteq Scenarios \X Moments
      BY <1>0, <2>1 DEF WInv, Tables
    <2> HIDE DEF rows
    <2>6. Tables'
      BY <1>0, <2>1, <2>4, <2>5, GrownTables DEF WInv
    <2> QED
      BY <2>2, <2>3, <2>6 DEF WInv
  <1> QED
    BY <1>1, <1>2

\* Every step of a run, and its death.
LEMMA RunSafe ==
  ASSUME WInv, NEW s \in Scorers, RunStep(s) \/ Crash(s)
  PROVE  WInv'
  <1>1. CASE RunFails(s) \/ Crash(s)
    <2>1. End(s) /\ UNCHANGED <<table, scores, request>>
      BY <1>1 DEF RunFails, Crash
    <2> QED
      BY <2>1, EndSafe, OnlyRuns DEF WInv, table
  <1>2. CASE Deadlock(s)
    <2>1. (StatementFails(s) \/ End(s)) /\ UNCHANGED <<table, scores, request>>
      BY <1>2 DEF Deadlock
    <2> QED
      BY <2>1, EndSafe, StatementFailsSafe, OnlyRuns DEF WInv, table
  <1> QED
    BY <1>1, <1>2, StartSafe, ScoreSafe, TakeNumberSafe, InsertSafe, CommitSafe DEF RunStep

--------------------------------------------------------------------------------
(* People. *)

\* A job raised by hand takes the counter's row, so nobody has it.
LEMMA RaiseSafe ==
  ASSUME WInv, NEW u \in Users, Raise(u)
  PROVE  WInv'
  <1> DEFINE row == NewJob(counter, Manual, 0)
  <1>1. /\ jobs' = Append(jobs, row) /\ counter' = counter + 1
        /\ UNCHANGED <<holder, scores, run, request>> /\ holder \in {Nobody, u}
    BY DEF Raise, Free
  <1>2. jobs \in Seq(Job) /\ counter = Len(jobs) + 1 /\ Len(jobs) \in Nat /\ counter \in Nat
    <2>1. jobs \in Seq(Job) /\ counter = Len(jobs) + 1
      BY DEF WInv, Tables
    <2>2. Len(jobs) \in Nat
      BY <2>1
    <2> QED
      BY <2>1, <2>2
  <1>3. /\ row \in Job /\ row.reference = counter /\ row.scenario = Manual
        /\ row.status = "created"
    <2>1. 0 \in Moments
      BY ConstantsAssumption DEF Moments
    <2>2. counter \in Nat /\ Manual \in Scenarios \cup {Manual}
      BY <1>2
    <2> QED
      BY <2>1, <2>2, Zenon DEF NewJob, Job, Statuses
  <1> HIDE DEF row
  <1>4. /\ <<row>> \in Seq(Job) /\ Len(<<row>>) = 1 /\ DOMAIN <<row>> = {1} /\ <<row>>[1] = row
        /\ jobs' = jobs \o <<row>>
    BY <1>1, <1>2, <1>3, OneRow
  <1>5. Tables'
    <2>1. UNCHANGED <<reading, critical, order, predictions>>
      BY <1>1 DEF scores
    <2>2. predictions \subseteq predictions' /\ predictions' \subseteq Scenarios \X Moments
      BY <2>1 DEF WInv, Tables
    <2>3. counter' = counter + Len(<<row>>)
      BY <1>1, <1>4
    <2>4. \A i \in DOMAIN <<row>> : /\ <<row>>[i].reference = Len(jobs) + i
                                   /\ <<row>>[i].status = "created"
                                   /\ <<row>>[i].scenario = Manual
      BY <1>2, <1>3, <1>4
    <2> QED
      BY <1>4, <2>1, <2>2, <2>3, <2>4, GrownTables DEF WInv
  <1>6. RequestsSound'
    BY <1>1, <1>4, GrownRequests DEF WInv
  <1>7. RunsSound'
    <2>1. \A s \in Scorers : s # holder
      BY <1>1, ConstantsAssumption
    <2>2. \A s \in Scorers : DOMAIN run[s].raised = {}
      BY <2>1, Alone DEF WInv
    <2>3. \A s \in Scorers : GoesOn(run[s], jobs)'
      BY <1>1, <2>2 DEF GoesOn
    <2> QED
      BY <1>1, <2>3 DEF WInv, RunsSound, HasCounter
  <1> QED
    BY <1>5, <1>6, <1>7 DEF WInv

\* Only requests change.
LEMMA OnlyRequests ==
  ASSUME Tables, RunsSound, UNCHANGED <<table, holder, scores, run>>
  PROVE  Tables' /\ RunsSound'
  BY DEF Tables, RunsSound, table, scores, ReferencesInOrder, OneLiveJobPerFault,
         AutoJobHasPrediction, HasCounter

\* A request loads a job as it is, but for its status and its note.
LEMMA LoadsSafe ==
  ASSUME WInv, NEW u \in Users, NEW j \in DOMAIN jobs, NEW row \in Job, Loads(u, j, row),
         row.reference = jobs[j].reference, row.scenario = jobs[j].scenario,
         row.about = jobs[j].about
  PROVE  WInv'
  <1> DEFINE r == [at |-> "save", job |-> j, row |-> row]
  <1>1. request' = [request EXCEPT ![u] = r] /\ UNCHANGED <<table, holder, scores, run>>
    BY DEF Loads
  <1>2. j \in Nat
    BY DEF WInv, Tables
  <1>3. r \in Requests /\ r.job = j /\ r.row = row
    BY <1>2 DEF Requests
  <1> HIDE DEF r
  <1>4. RequestsSound'
    BY <1>1, <1>3 DEF WInv, RequestsSound, StillThere, table
  <1> QED
    BY <1>1, <1>4, OnlyRequests DEF WInv

\* What a person loads and changes keeps its number, its fault and its prediction.
LEMMA LoadingSafe ==
  ASSUME WInv, NEW u \in Users, LoadAct(u) \/ LoadAssign(u) \/ LoadEdit(u)
  PROVE  WInv'
  <1>1. \A j \in DOMAIN jobs : jobs[j] \in Job
    BY DEF WInv, Tables
  <1>2. CASE LoadAct(u)
    <2>1. PICK j \in DOMAIN jobs, action \in Actions : Loads(u, j, Acted(jobs[j], action))
      BY <1>2 DEF LoadAct
    <2> DEFINE row == Acted(jobs[j], action)
    <2>2. To[action] \in Statuses
      BY DEF Actions, From, To, Statuses
    <2>3. /\ row \in Job /\ row.reference = jobs[j].reference
          /\ row.scenario = jobs[j].scenario /\ row.about = jobs[j].about
      BY <1>1, <2>2 DEF Acted, Job
    <2> QED
      BY <2>1, <2>3, LoadsSafe
  <1>3. CASE LoadAssign(u) \/ LoadEdit(u)
    <2>1. PICK j \in DOMAIN jobs : Loads(u, j, jobs[j])
      BY <1>3 DEF LoadAssign, LoadEdit
    <2> QED
      BY <1>1, <2>1, LoadsSafe
  <1> QED
    BY <1>2, <1>3

\* The columns that differ are none of those three.
LEMMA CompareSafe ==
  ASSUME WInv, NEW u \in Users, Compare(u)
  PROVE  WInv'
  <1> DEFINE row == request[u].row
             differ == {c \in DOMAIN row : row[c] # jobs[request[u].job][c]}
             r == [at |-> "write", job |-> request[u].job, row |-> row, columns |-> differ]
  <1>1. /\ request' = [request EXCEPT ![u] = r] /\ UNCHANGED <<table, holder, scores, run>>
        /\ request[u].at = "save"
    BY DEF Compare
  <1>2. request[u] # NoRequest /\ request[u] \in [at : {"save"}, job : Nat, row : Job]
    BY <1>1 DEF WInv, RequestsSound, Requests, NoRequest
  <1>3. differ \in SUBSET Columns
    <2>1. DOMAIN row = Columns
      BY <1>2 DEF Job, Columns
    <2> QED
      BY <2>1
  <1>4. r \in Requests /\ r.job = request[u].job /\ r.row = request[u].row
    BY <1>2, <1>3 DEF Requests
  <1> HIDE DEF r
  <1>5. RequestsSound'
    BY <1>1, <1>2, <1>4 DEF WInv, RequestsSound, StillThere, table
  <1> QED
    BY <1>1, <1>5, OnlyRequests DEF WInv

\* What save() makes of the row keeps its number, its fault and its prediction.
LEMMA UpdatedRow ==
  ASSUME WInv, NEW u \in Users, request[u].at = "write"
  PROVE  LET j == request[u].job IN
         /\ j \in DOMAIN jobs
         /\ Updated(u) \in Job
         /\ Updated(u).reference = jobs[j].reference
         /\ Updated(u).scenario = jobs[j].scenario
         /\ Updated(u).about = jobs[j].about
  <1> DEFINE j == request[u].job
             row == request[u].row
  <1>1. request[u] # NoRequest /\ row \in Job /\ j \in DOMAIN jobs
    BY DEF WInv, RequestsSound, Requests, NoRequest, StillThere
  <1>2. jobs[j] \in Job
    BY <1>1 DEF WInv, Tables
  <1>3. /\ row.reference = jobs[j].reference /\ row.scenario = jobs[j].scenario
        /\ row.about = jobs[j].about
    BY <1>1 DEF WInv, RequestsSound, StillThere
  <1>4. DOMAIN jobs[j] = Columns /\ DOMAIN row = Columns
    BY <1>1, <1>2 DEF Job, Columns
  <1>5. Updated(u) = [c \in Columns |-> IF c \in request[u].columns THEN row[c] ELSE jobs[j][c]]
    BY <1>4 DEF Updated
  <1> DEFINE new == [reference |-> Updated(u).reference, scenario |-> Updated(u).scenario,
                     about |-> Updated(u).about, status |-> Updated(u).status,
                     resolution |-> Updated(u).resolution]
  <1>6. Updated(u) = new
    BY <1>5, Zenon DEF Columns
  <1>7. /\ Updated(u).reference \in Nat /\ Updated(u).scenario \in Scenarios \cup {Manual}
        /\ Updated(u).about \in Moments /\ Updated(u).status \in Statuses
        /\ Updated(u).resolution \in BOOLEAN
    BY <1>1, <1>2, <1>5 DEF Job, Columns
  <1>8. new \in Job
    BY <1>7 DEF Job
  <1>9. /\ Updated(u)["reference"] = jobs[j]["reference"]
        /\ Updated(u)["scenario"] = jobs[j]["scenario"]
        /\ Updated(u)["about"] = jobs[j]["about"]
    BY <1>3, <1>5 DEF Columns
  <1> QED
    BY <1>1, <1>6, <1>8, <1>9

\* The update keeps them in the table, and waits or fails where the index says so.
LEMMA WriteSafe ==
  ASSUME WInv, NEW u \in Users, Write(u)
  PROVE  WInv'
  <1> DEFINE j == request[u].job
             row == Updated(u)
  <1>1. /\ request[u].at = "write" /\ ~Waits(row) /\ request' = [request EXCEPT ![u] = NoRequest]
        /\ UNCHANGED <<counter, holder, scores, run>>
        /\ IF Allowed(j, row) THEN jobs' = [jobs EXCEPT ![j] = row] ELSE UNCHANGED jobs
    BY DEF Write
  <1>2. /\ j \in DOMAIN jobs /\ row \in Job /\ row.reference = jobs[j].reference
        /\ row.scenario = jobs[j].scenario /\ row.about = jobs[j].about
    BY <1>1, UpdatedRow
  <1> HIDE DEF j, row
  <1>3. UNCHANGED <<reading, critical, order, predictions>>
    BY <1>1 DEF scores
  <1>4. request' \in [Users -> Requests \cup {NoRequest}]
    BY <1>1 DEF WInv, RequestsSound
  <1>5. CASE UNCHANGED jobs
    <2>1. Tables' /\ RunsSound'
      BY <1>1, <1>5, OnlyRequests DEF WInv, table
    <2>2. RequestsSound'
      BY <1>1, <1>4, <1>5 DEF WInv, RequestsSound, StillThere
    <2> QED
      BY <2>1, <2>2 DEF WInv
  <1>6. CASE Allowed(j, row) /\ jobs' = [jobs EXCEPT ![j] = row]
    <2>1. /\ jobs' \in Seq(Job) /\ Len(jobs') = Len(jobs) /\ DOMAIN jobs' = DOMAIN jobs
          /\ \A k \in DOMAIN jobs : jobs'[k] = IF k = j THEN row ELSE jobs[k]
      BY <1>2, <1>6 DEF WInv, Tables
    <2>2. \A k \in DOMAIN jobs : /\ jobs'[k].reference = jobs[k].reference
                                /\ jobs'[k].scenario = jobs[k].scenario
                                /\ jobs'[k].about = jobs[k].about
      BY <1>2, <2>1
    <2>3. RequestsSound'
      BY <1>1, <1>4, <2>1, <2>2 DEF WInv, RequestsSound, StillThere
    <2>4. ReferencesInOrder' /\ AutoJobHasPrediction'
      BY <1>3, <2>1, <2>2 DEF WInv, Tables, ReferencesInOrder, AutoJobHasPrediction
    <2>5. \A k \in DOMAIN jobs' : jobs'[k].status = "completed" => jobs'[k].resolution
      BY <1>2, <1>6, <2>1 DEF WInv, Tables, Allowed
    <2>6. OneLiveJobPerFault'
      <3> SUFFICES ASSUME NEW f \in Scenarios, NEW i \in DOMAIN jobs, NEW k \in DOMAIN jobs,
                          LiveOf(jobs'[i], f), LiveOf(jobs'[k], f)
                   PROVE  i = k
        BY <2>1 DEF OneLiveJobPerFault, LiveOf
      <3>0. f # Manual
        BY ConstantsAssumption DEF Manual
      <3>1. ASSUME LiveOf(row, f), NEW l \in DOMAIN jobs, l # j PROVE ~LiveOf(jobs[l], f)
        BY <1>6, <3>0, <3>1 DEF Allowed, LiveOf
      <3>2. CASE i = j
        BY <2>1, <3>1, <3>2
      <3>3. CASE k = j
        BY <2>1, <3>1, <3>3
      <3>4. CASE i # j /\ k # j
        BY <2>1, <3>4 DEF WInv, Tables, OneLiveJobPerFault, LiveOf
      <3> QED
        BY <3>2, <3>3, <3>4
    <2>7. Tables'
      BY <1>1, <1>3, <2>1, <2>4, <2>5, <2>6 DEF WInv, Tables
    <2>8. ASSUME NEW s \in Scorers PROVE GoesOn(run[s], jobs')
      <3>1. GoesOn(run[s], jobs)
        BY DEF WInv, RunsSound
      <3>2. ASSUME NEW i \in DOMAIN run[s].raised, NEW k \in DOMAIN jobs
            PROVE  ~LiveOf(jobs'[k], run[s].raised[i].scenario)
        <4>1. CASE k = j
          BY <1>1, <2>1, <4>1 DEF Waits, LiveOf
        <4>2. CASE k # j
          BY <2>1, <3>1, <4>2 DEF GoesOn
        <4> QED
          BY <4>1, <4>2
      <3> QED
        BY <2>1, <3>1, <3>2 DEF GoesOn
    <2>9. RunsSound'
      BY <1>1, <2>8 DEF WInv, RunsSound, HasCounter
    <2> QED
      BY <2>3, <2>7, <2>9 DEF WInv
  <1> QED
    BY <1>1, <1>5, <1>6

--------------------------------------------------------------------------------
(* Invariance, and what follows from it. *)

\* No job, no prediction, nobody at work.
LEMMA InitInv == Init => WInv
  <1> SUFFICES ASSUME Init PROVE WInv
    OBVIOUS
  <1>1. jobs = <<>> /\ jobs \in Seq(Job) /\ Len(jobs) = 0 /\ DOMAIN jobs = {} /\ counter = 1
    BY DEF Init
  <1>2. Tables
    <2>1. reading \in Moments
      BY ConstantsAssumption DEF Init, Moments
    <2>2. /\ critical \subseteq Scenarios /\ predictions \subseteq Scenarios \X Moments
          /\ order \in Orders
      BY DEF Init
    <2> QED
      BY <1>1, <2>1, <2>2
      DEF Tables, ReferencesInOrder, OneLiveJobPerFault, AutoJobHasPrediction
  <1>3. RunsSound
    <2>1. run \in [Scorers -> Runs] /\ holder = Nobody
      BY NoRunType DEF Init
    <2>2. \A s \in Scorers : run[s] = NoRun /\ DOMAIN run[s].raised = {}
      BY NoRunType DEF Init
    <2> QED
      BY <2>1, <2>2, NoRunType DEF RunsSound, Raising, GoesOn, HasCounter
  <1>4. RequestsSound
    BY DEF Init, RequestsSound
  <1> QED
    BY <1>2, <1>3, <1>4 DEF WInv

\* Each action keeps the invariant by its own lemma.
LEMMA NextInv == WInv /\ [Next]_vars => WInv'
  <1> SUFFICES ASSUME WInv, [Next]_vars PROVE WInv'
    OBVIOUS
  <1>1. CASE NewReading
    <2>1. /\ UNCHANGED <<table, holder, order, predictions, run, request>>
          /\ critical' \subseteq Scenarios /\ reading' \in Moments
      BY <1>1, ConstantsAssumption DEF NewReading, WInv, Tables, Moments
    <2>2. Tables'
      BY <2>1 DEF WInv, Tables, table, ReferencesInOrder, OneLiveJobPerFault, AutoJobHasPrediction
    <2>3. RunsSound' /\ RequestsSound'
      BY <2>1 DEF WInv, table, RunsSound, HasCounter, RequestsSound, StillThere
    <2> QED
      BY <2>2, <2>3 DEF WInv
  <1>2. CASE Relist
    <2>1. UNCHANGED <<table, holder, reading, critical, predictions, run, request>> /\ order' \in Orders
      BY <1>2 DEF Relist
    <2>2. Tables'
      BY <2>1 DEF WInv, Tables, table, ReferencesInOrder, OneLiveJobPerFault, AutoJobHasPrediction
    <2>3. RunsSound' /\ RequestsSound'
      BY <2>1 DEF WInv, table, RunsSound, HasCounter, RequestsSound, StillThere
    <2> QED
      BY <2>2, <2>3 DEF WInv
  <1>3. CASE UNCHANGED vars
    BY <1>3, OnlyRuns, OnlyRequests DEF vars, WInv, table, scores
  <1> QED
    BY <1>1, <1>2, <1>3, RunSafe, RaiseSafe, LoadingSafe, CompareSafe, WriteSafe DEF Next

\* The inductive invariant holds in every reachable state.
LEMMA Invariance == Spec => []WInv
  BY InitInv, NextInv, PTL DEF Spec

\* Every variable keeps its type: the counter's row is held by a run that is
\* under way, and by nobody else who has inserted a job; a completed job has
\* its note.
THEOREM TypeCorrect == Spec => []TypeOK
  <1>1. WInv => TypeOK
    <2> SUFFICES ASSUME WInv PROVE TypeOK
      OBVIOUS
    <2>1. counter \in Nat
      <3>1. jobs \in Seq(Job) /\ counter = Len(jobs) + 1
        BY DEF WInv, Tables
      <3>2. Len(jobs) \in Nat
        BY <3>1
      <3> QED
        BY <3>1, <3>2
    <2> QED
      BY <2>1 DEF WInv, Tables, RunsSound, HasCounter, TypeOK
  <1> QED
    BY <1>1, Invariance, PTL

\* However many runs overlap, fail and die, and whoever starts, ends and
\* reopens jobs meanwhile, a fault has one unfinished automatic job at most
\* (uq_work_order_live_auto).
THEOREM OneJobPerFault == Spec => []OneLiveJobPerFault
  <1>1. WInv => OneLiveJobPerFault
    BY DEF WInv, Tables
  <1> QED
    BY <1>1, Invariance, PTL

\* The numbers of the account's jobs are 1, 2, 3 and so on, without a gap and
\* without a repetition (nextReference).
THEOREM NumbersInOrder == Spec => []ReferencesInOrder
  <1>1. WInv => ReferencesInOrder
    BY DEF WInv, Tables
  <1> QED
    BY <1>1, Invariance, PTL

\* An automatic job is never without the prediction that raised it, also
\* when runs are undone between the two (scoreAsset).
THEOREM JobIsTraceable == Spec => []AutoJobHasPrediction
  <1>1. WInv => AutoJobHasPrediction
    BY DEF WInv, Tables
  <1> QED
    BY <1>1, Invariance, PTL
================================================================================
