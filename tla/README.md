# ThingsAlive IoT platform: specifications, model checks and proofs

TLA+ specifications of the concurrent core of the platform's API (`src/src`, NestJS on
PostgreSQL): the pass that scores finished shifts and the clock arithmetic it goes by, the
incident desk, the outbox that notifies people, the archive of raw readings, the jobs that
predictions raise, and whose a logger is and which signal it produces. TLC checks them on
small instances; TLAPS proves every invariant and every action property of the passing runs
for every instance. Every definition carries its source lines in `PROJECT.json` (`map`).

    tlc -config MCOutbox_outbox.cfg MCOutbox.tla       # model-check one run
    tlapm Outbox_proofs.tla                            # check the proofs of one module

## 1. Inventory: the system

An account's machines send readings to an existing platform and, some of them, straight to
2.0. When a shift ends, a pass pulls its readings, scores them, and fires alert rules on
what it found. Alerts join incidents; incidents carry promises (SLA) and escalate; an
escalation is an event in an outbox, and the outbox mails people. Predictions raise jobs,
people work them off. Readings past their hot days are exported, verified and dropped, a
month at a time. The platform's staff give loggers to accounts, accounts put them on
machines, and a binding says which logger produces a signal.

    loggers -> existing platform --pull--> SHIFT PASS --evaluateWindow--> ALERTS
         \     2.0 telemetry_reading <-----'   |  \                         | absorbAlerts
          \          |                         |   scoreAsset               v  (one transaction)
           \         | ARCHIVE PASS            |     \    people -->  INCIDENTS <-- JOBS
            \        v                         |      v                     | escalateOverdue
             \   object store     WINDOWS OF SHIFTS   PREDICTIONS --> JOBS   |
              \                                ^                  OUTBOX <---' (one transaction)
           CUSTODY and BINDINGS     people ----'                    | one() per event
           (platform, account)                                      v
                                                               mail provider

| Component | State it keeps | Operations | What is hard | What makes it correct |
|---|---|---|---|---|
| Scoring pass (`shift/services/shift-runner`, `shift-scheduler`, `pass-lock`, `own-telemetry`) | nothing of its own: an advisory lock on a connection, and the watermarks | tick, sweep for late readings, rewind, owed, pull, ingest, score, mark | two instances; dying between steps; one window failing; no route to the platform; readings that arrive between any two steps | no reading is passed by both watermarks unscored; windows are not passed untried; passes catch up |
| Shifts (`shift/services/shift.service`) | `scored_through`, `arrivals_through`, status, hours | create, applyTemplate, update, setStatus, owed, rewind, markScored | find-then-save over a row the pass also writes; an overlap check that commits later; two applies at once | the watermarks' joint promise; active hours never overlap; a template is written once |
| Shift windows (`shift/services/shift-window`) | none: pure functions of hours and zones | windowFor, windowsEndingBetween, shiftsOverlap | clocks that are changed; shifts over midnight and over the end of the week | every instance is owed once, when it has ended |
| Legacy reader (`legacy/legacy-telemetry.reader`) | none (another database) | pull by the logger's clock, lateArrivals by the receiver's | two clocks, late and unordered rows | late readings are found once |
| Alerts (`alert/services/alert.service`) | `alert_event`, a partial unique index of standing alerts | evaluateWindow, acknowledge, resolve | suppression while standing; unlocked find-then-save | nothing hides a fault for ever |
| Incidents (`incident/*`) | `incident`, `incident_alert`, a partial unique index of live incidents | absorb, acknowledge, resolve, raiseWork, setPolicy, escalateOverdue | INSERT racing a resolve; `FOR UPDATE` and `SKIP LOCKED`; policies changing under open promises | one live incident a machine; alerts owned; promises only tighten; each level escalated once and in the end |
| Work orders and predictions (`work/services/*`, `prediction/services/prediction.service`) | `work_order`, its counter, `prediction` | scoreAsset, raiseFromPrediction, raise, assign, update, act | a counter that stays locked while a run goes on; an error caught inside the transaction it aborted; find-then-save | one live automatic job per fault; numbers in order; a job beside its prediction |
| Outbox (`events/outbox-consumer`) | `domain_event` delivery columns | pass, one (claim, handle in a savepoint, settle or retry) | two consumers; crash after a mail went out; attempts, backoff and expiry at their limits | settled once and for good, held by one, delivered means told |
| Notifications (`incident/incident-notify.handler`) | `notification_delivery` | handle | partial success; a thrown query takes the record of sent mails back | at least once, repeats only after a fault |
| Telemetry and archive (`telemetry/services/telemetry.service`, `telemetry/archive/*`, the migration's function) | `telemetry_reading` in monthly partitions, `telemetry_archive`, the object store, `telemetry_partition_drop` | ingest, build partitions, export, record, read back, stamp, drop | late readings at every step of an export; a store that truncates or refuses; two passes on one key | no accepted reading is lost; verified means so, for ever; old months leave |
| Device inventory (`inventory/services/*`) | `device_inventory` and its events | register, assign, release, retire, return, edit, claim, unclaim, onboard | every operation is find-then-save of columns; the platform and the account write the same row | the holder is on record; an account changes only what it holds |
| Signal bindings (`signal-binding/services/*`) | `signal_binding_version` | propose, activate | end of one row and insert of another; overlapping windows; readers by primary | one binding in force; none lost on the way to its successor |
| Activation, telemetry freshness, geofences, proposals | state machines and upserts of their own | (section 2) | stale updates; holds | not modelled yet |
| Utilization, KPI, intelligence, forecast, device health, the probabilities of predictions | figures | arithmetic over readings | numeric | not modelled: no control a state machine would show |
| Catalogs, imports, equipment register, pages, identity, scope, tenancy, assistant, frontend, migrations | records, sessions, documents | CRUD, parsing, retrieval, UI | – | not modelled: reads, layout, or subjects of other methods |

The hazards this code is exposed to are listed in `PROJECT.json` (`hazards`), each at its
line, with the property that would catch it or the reason none does.

## 2. Plan

1. **Core (built).** `ShiftRunner`: the two watermarks and everybody who writes them.
   `IncidentDesk`: alerts, incidents and jobs under READ COMMITTED. `Outbox` with its
   abstract promise `Notifications`.
2. **Extension (built).** `TelemetryArchive`; `WorkOrders`; `DeviceCustody` and
   `SignalBindings`, composed in `Fleet`; `ShiftHours`.
3. **Proofs (built).** `Outbox_proofs`, `ShiftRunner_proofs` and, on top of it,
   `ShiftWatermarks_proofs`, `IncidentDesk_proofs`, `TelemetryArchive_proofs`,
   `WorkOrders_proofs`, `Fleet_proofs`, `ShiftHours_proofs` (section 5).
4. **Left to model.** `SignalState`: the guarded upsert of the freshest reading.
   `Activation`: its state machine and the event it writes. A composition of `IncidentDesk`
   and `Outbox` through the escalation event. `WorkOrders` as a refinement of the two-valued
   `job` of `IncidentDesk`. The crossing tracker of geofences, and the review of proposals.
5. **Left to prove.** What of the two watermarks' promise survives a lost lock (not the whole
   of it: `OverlapCorruptsNothing`, section 6). That a scan whose samples step over a date
   returns at least every other instance. That `WorkOrders` implements the two-valued `job`
   of `IncidentDesk`, once it is stated as a refinement.

## 3. The modules and the code

Time is in minutes, hours, months or ticks with a horizon; rows are records in functions or
sequences; an action is a stretch of the code between two points where another process can
be seen (an `await` outside a transaction, a lock that is taken, a statement that reads what
others commit, a commit). `left`/`Budget` count down how often each fault may still happen;
`Max...` bound how many requests are made; each bound is named where it is declared.

A pattern that comes back in `WorkOrders`, `DeviceCustody` and, with whole rows, in
`ShiftRunner` and `IncidentDesk`: a request finds a row without a lock, changes it in memory,
and calls TypeORM's `save()`. That reads the row again, and updates the columns in which the
entity differs from it. The models have all three points: the load, `Compare`, `Write`. What
is saved is therefore old in the columns the request never meant to change, if somebody
changed them between the load and the comparison.

### ShiftRunner (`src/src/shift`, `src/src/legacy`)

| Model | Code |
|---|---|
| `shift[s].scored`, `.arrivals` | `scored_through`, `arrivals_through` of `equipment_shift` (`Never` is a null) |
| `StartPass` | `ShiftScheduler.tick`, `tryTakePassLock`, and the query of the active shifts |
| `Sweep`, `RewindRead`, `RewindWrite` | the late-arrival loop of `run()`, `lateArrivals`, `rewindForLateArrivals` (it reads the row, then writes) |
| `Owed` | `ShiftService.owed` with its cap and the first-run look back |
| `Take`, `Ingest`, `Mark`, `Fail` | the loop over owed windows and `one()`: the pull, the ingest, and `markScored` last |
| `EndPass`, `LoseLock`, `Restart` | `release()`; the lock's connection dropping; the process dying |
| `EditRead`, `EditSave` | `update()` and `setStatus()`: find, then save of the row that was read |
| `Arrive`, `Post` | readings at the existing platform, and at 2.0's own ingest |

Ghosts: `covered` (readings a completed run had in hand), `attempt` (how the newest run of
each window ended) and `answerable` (the first window a shift answers for: a shift that never
ran owes only its newest window, one switched back on starts from now). The hours of a shift
are fixed and what scoring writes elsewhere is left out. A tick is longer than a millisecond,
so the `+ 1 ms` of `arrivals_through` is below the grain. `shift-window.ts:51` calls the
end of a window exclusive, while the pull reads `<= to`; the model follows the pull.
An edit that overlaps a pass is over before the next pass starts: passes are at least thirty
seconds apart, an edit is two queries.

### IncidentDesk (`src/src/alert`, `src/src/incident`, `src/src/work`)

| Model | Code |
|---|---|
| `Fire`, `Save`, `Insert`, `LockLive`, `Join`, `Commit` | `evaluateWindow` and `absorbAlerts` in one transaction: suppression, the alerts saved, `INSERT .. ON CONFLICT DO NOTHING`, `SELECT .. FOR UPDATE`, raise and tighten, commit |
| `LiveVanished`, `Refused` | the SELECT finds no row any more; the standing index refuses the alert: all is rolled back |
| `Acknowledge`, `ResolveLock`, `ResolveWrite` | `IncidentRecordService.acknowledge`, `resolve` under the row's lock |
| `RaiseRead`, `Raise`, `FinishJob`, `ReopenJob` | `raiseWork` (two transactions) and `WorkOrderService.raise`, `act` |
| `TransitionRead`, `TransitionSave` | `AlertService.transition`: find, then save of the row that was read |
| `SetPolicy`, `EscalateOverdue` | `setPolicy`/`deletePolicy`, and the sweep with `FOR UPDATE SKIP LOCKED` |

One evaluation runs at a time (the pass lock). The uniqueness of standing alerts and live
incidents is enforced by partial indexes in the code and appears as the guards of `Save`,
`Refused`, `TransitionSave` (which waits for an uncommitted alert in its place) and
`Conflicts`; the rules of one window are looked up together and then saved together; what the properties ask is whether the code's
locks and reads keep the rows around them consistent. `job[a]` says whether some work raised
on alert `a` is unfinished. `revived` remembers alerts a stale acknowledgement wrote back, so
that `StandingAlertIsOwned` says what holds besides that defect.

### Outbox and Notifications (`src/src/events`, `src/src/incident/incident-notify.*`)

| Model | Code |
|---|---|
| `StartPass`, `EndPass` | the timer, and the loop of `pass()` with its limit and its one clock reading |
| `Expire`, `Claim` | `one()`: `FOR UPDATE SKIP LOCKED`, oldest first, too old; then the handler's reads |
| `Mail`, `MailRefused`, `MailAnswerLost` | one `send()` and the delivery row inside the savepoint; false for a refusal and for a lost answer alike |
| `Deliver`, `NoRecipient`, `Retry`, `Throw` | the four ends of an attempt, with the retry's backoff and its last attempt |
| `Crash` | the process dies: the transaction is gone, the mails are not |

Whom to tell is chosen freely on every attempt, which covers every change of roles and
addresses. `Notifications` is what the rest of the system may rely on: an event is settled
once, people are mailed only while it is pending, a delivery is recorded only of an accepted
mail. It does not promise "at most once". The handler's comment that each recipient gets one
email holds only as long as nothing is thrown after a mail was accepted: the savepoint then
takes its record back, and the next attempt mails again (`RepeatsOnlyAfterMishap`).

### TelemetryArchive (`src/src/telemetry`, `1760300000000-TelemetryArchive`)

| Model | Code |
|---|---|
| `partitions`, `table` | the monthly partitions of `telemetry_reading` and their rows; a reading is its place in the keyset order |
| `archive`, `bucket`, `dropped` | `telemetry_archive` (the parts of a month and account), the objects under their keys, `telemetry_partition_drop` |
| `Ingest`, `EnsureUpcoming` | `ingestWithin` with its oldest month, the partition it makes sure of, and the dedupe index; the daily maintenance |
| `Start`, `CountRows`, `TakeTenant` | the timer or `POST platform/telemetry-archives/run`; the months past the hot days; the count by account; an account that is archived already is left alone |
| `ReadChunk`, `Put`, `Save`, `Get`, `Stamp` | `exportTenantMonth`, a query a chunk, each seeing the table as it is by then; the record; `verify` |
| `Drop` | `drop_archived_telemetry_partition`: every account's newest verified part holds exactly as many rows as the partition does, or the month stays |
| `PutTruncated`, `PutFails`, `GetFails`, `Crash` | the store keeps less than it was sent or refuses; the process dies |

The checksum of an export is the set of rows it is taken over, so `Matches` compares what the
code's SHA-256 compares. Ghost: `received`, every reading ever accepted. `Passes` is the set
of passes that may be under way at once: nothing but a flag in one process keeps them apart.

### WorkOrders (`src/src/work`, `src/src/prediction`)

| Model | Code |
|---|---|
| `jobs`, `counter`, `holder` | `work_order`, `work_order_counter` as committed, and the transaction that has the counter's row locked |
| `run[s]` | a scoring run's transaction: what it wrote and nobody else sees, and whether a statement of it failed |
| `StartRun`, `Score`, `TakeNumber`, `InsertJob`, `Commit` | `scoreAsset`, scenario after scenario; the raiser's check, `nextReference`, the insert against `uq_work_order_live_auto` |
| `order`, `Relist` | the order in which the query of the active scenarios, which has no ORDER BY, lists them: any at first, another when a row is written anew (somebody pauses and resumes a scenario) |
| `StatementFails`, `RunFails`, `Deadlock` | the error `raiseWork` catches in a transaction that is aborted by it; the next statement, which fails; Postgres ending a circle of waits, of any length |
| `Raise`, `LoadAct`, `LoadAssign`, `LoadEdit`, `Compare`, `Write` | `raise`, `act`, `assign`, `update`, with `save()` as above, and the table's constraints (`Allowed`, `Waits`) |

Which scenarios are critical is chosen freely with every reading. `IncidentDesk` has jobs of
its own kind: those raised on an alert, of which it needs only whether one is unfinished.

### Fleet: DeviceCustody and SignalBindings (`src/src/inventory`, `src/src/signal-binding`)

| Model | Code |
|---|---|
| `device`, `history` | `device_inventory` and `device_inventory_event` |
| `Register`, `Assign`, `Move`, `Edit` | `register`, `assign`, `platformTransition` (release, retire, return to stock), `updateDevice` |
| `Claim`, `Unclaim` with `Sees` | the account's side, under the policy `tenant_isolation`, which also decides which rows its `save()` reads and reaches |
| `Onboard`, `Insert`, `Fit` | the onboarding of an existing fleet: planned first, then inserts and conditional updates |
| `bindings` | `signal_binding_version` of one signal, in the order of insertion |
| `Propose`, `Activate`, `EndOld`, `InsertNew` | `propose`; `activate`: the binding in force is found without a lock, ended (its row stays locked), and its successor inserted under `ex_signal_binding_primary` |
| `Segments`, `ArchivedUnder` | what readers ask: `bindingSegments`, and the archive's query |

`Fleet` INSTANCEs both over one set of devices and interleaves them: nothing in the code
carries a change of custody over to the bindings. A batch of devices is one transaction per
device here; the code runs the batch as one transaction, which allows fewer behaviours.

### ShiftHours (`src/src/shift/services/shift-window.ts`, `shift.service.ts`)

| Model | Code |
|---|---|
| `Offset`, `ZonedWallToUtc` | `offsetMinutesAt`, and the two guesses of `zonedWallToUtc` with its choice for an hour that happens twice or never |
| `WindowFor`, `DatesScanned`, `WindowsEndingBetween` | `windowForLocalDate`, and the scan by samples of a day |
| `WeeklyIntervals`, `ShiftsOverlap` | the hours of a week, cut at its end |
| `Create`, `Update`, `Retire`, `Reinstate`, `Save` | the check and, later, the write: nothing keeps two of them apart |
| `Apply`, `ApplyNext`, `ApplyCommit` | `applyTemplate` under the lock of the machine's row, with what was there read once |
| `Owed` | `owed()`: the first-run look back, the limit a pass |

A minute of the code is an hour here, a day has `DAY` of them and a week `Week` days; the
operators are the code's with the two numbers as parameters. The properties compare them
with definitions that do not go by intervals or samples: the set of a shift's `Hours`, and
`Due`, the instances that ended, over all dates. Ghost: `raced`, that somebody saved on a
check that was out of date, which create() and update() allow.

## 4. The runs

Bounds are chosen so that each race, fault and limit the property is about happens, which
the mutants confirm: for each property of a passing run one plausible bug, put into the
model, is found under that run's own bounds.

| Run | Instance | Shows |
|---|---|---|
| `late` | one shift with windows ending at 1, 2, 4; one instance; cap 1; two late arrivals, one post, one edit, one restart; a route that may be missing | `LateReadingsAreScored`, `PassedWindowsWereTried`. Two late readings are the least that make one sweep overtake another; cap 1 makes every window a pass of its own; three windows make a rewind go over more than one |
| `live` | two shifts, one of them always failing; two instances; one arrival, one lost lock, one failed sweep | `OnePassAtATime`, `EventuallyCaughtUp`, `ReadingEventuallyScored` |
| `desk` | one machine (machines share nothing but the tables), two rules, three alerts, two incidents, two requests, all moves on alerts, jobs finished and reopened freely | `OneLivePerMachine`, `AlertHasItsIncident`, `StandingAlertIsOwned`. Two requests and an evaluation are the three actors of every race found in the code |
| `sla` | two severities, policies that change twice, resolves but no jobs (a job only keeps a resolve from happening, which nothing assumes of it), a horizon past every due time | `EscalatedOncePerLevel`, `PromiseOnlyTightens`, `OverdueIsEscalated` |
| `outbox` | one event, two people, two consumers, two attempts, a crash, a throw, a refusal and a lost answer | `HeldAlone`, `DeliveredMeansTold`, `RepeatsOnlyAfterMishap`, `SettledIsFinal`, `EveryEventSettles`, and the refinement `PromiseKept`. Events do not interact but for a consumer's order, so one event and two consumers show every race |
| `archive` | two readings of one account and one of another in the first month, three arrivals in all, chunks of one row, one hot month, four months, one mishap of the store, one crash, one pass at a time | `NothingLost`, `VerifiedIsTrue`, `OldMonthIsDropped`. Chunks of one row make every export end on a full chunk and let a reading arrive between two queries; an account with two readings has one early and one late |
| `jobs` | two scenarios, two scoring runs, one person; two requests, changes of the listing or crashes in all; one further reading; a listing that begins with one order, the scenarios being interchangeable | `OneLiveJobPerFault`, `ReferencesInOrder`, `AutoJobHasPrediction`, `CriticalGetsAJob`. Two runs over two scenarios are the least that wait for each other in a circle, for a prediction and the counter or for two predictions |
| `fleet` | two loggers, accounts, machines (one in each account), sessions, activations; four requests in all, three of them about bindings at most; three moments | `HolderIsOnRecord`, `OnlyTheHolderFits`, `OneInForce`, `NeverUnbound`. Register, assign, and two requests that overlap are four |
| `hours` | days of four hours, weeks of two days; a clock put back an hour in mid-week and one that skips two hours, one of the shifts ending inside them; halves of the day, a night over the end of the week, a shift of a whole day; two requests at a time, four in all | `ActiveShiftsApart`, `WindowsApart`, `OwedIsDue`, `AppliedOnce`. A pass asks at every moment, with every watermark, what every shift owes (of the shifts of the first two requests: the answer depends on one shift) |
| `overwritten`, `scored`, `spring` | the smallest instance with the race | a comment the code does not keep (section 6) |

Deadlock is checked for `Outbox`, `ShiftRunner` and `WorkOrders`, where a timer can always
start another pass. The other configurations switch it off: once the rows, requests and
months the bounds allow are used up, those models rightly stop.

**Fairness.** `ShiftRunner`: time passes, each instance's pass goes on (a timer that fires and
awaits that return), and a request that read a row saves it. No fairness of faults, arrivals
or requests that never come. `IncidentDesk`: a transaction that began goes on, the escalation
timer fires, time passes. `Outbox`: timers fire, an attempt that began goes on, time passes.
`TelemetryArchive`: the calendar, and each pass: the timer starts one, and it goes on.
`WorkOrders`: each scoring run is started again and goes on (the timer after every shift); a
person's request need not. Who waits for a prediction another run has locked is woken when
that run ends, and does not miss it every time (strong fairness of `Score`; for the counter the
lock itself is passed on). That runs stop meeting in opposite orders is no assumption of
fairness: in the model the listing changes when a scenario's row is written anew, which people
do finitely often (`MaxActs`). It matters: if every run might come with an order of its own,
two runs could end each other in turn for ever, each undoing the other's job, and TLC refutes
`CriticalGetsAJob` when `StartRun` chooses the order freely. All the rest is weak: every step
named stays enabled until it is taken, or a lock that delays it is held by somebody who is
himself fairly scheduled.
`Fleet` and `ShiftHours` are requests only, and nothing makes people send one.

## 5. What is proved

`Outbox_proofs` proves, for any sets of events, people and consumers, any limits, waits,
horizon and fault budget (`OutboxAssumption`: the constants have their types, there is an
event, nobody is not a consumer):

| Theorem | Statement |
|---|---|
| `TypeCorrect` | `Spec => []TypeOK`: attempts never exceed `MaxAttempts`, a pass never its limit |
| `WorkedAlone` | `Spec => []HeldAlone`: an event in hand is held by one consumer, pending, its deliveries mailed |
| `DeliveredIsTold` | `Spec => []DeliveredMeansTold` |
| `SettledForGood` | `Spec => SettledIsFinal` |
| `Implements` | `Spec => PromiseKept`: the outbox implements `Notifications` |
| `NobodyMailedTwice` | `Spec => []RepeatsOnlyAfterMishap`: mails about one event exceed one a person only by its mishaps |

The inductive invariant `IInv` is `TypeOK`, `HeldAlone` and `DeliveredMeansTold` with two
strengthenings. `AttemptLeft`: a pending event has an attempt left; without it a retry could
count past `MaxAttempts`, and `Backoff` would be asked for a wait it does not have.
`InHand`: unless a mail was refused, everybody who should be told is still to come, was
mailed in this attempt, or has a delivery; `Deliver` needs it, because the code decides
"delivered" from its loop's result and not from the table. `WorkApart` is the heart of
`HeldAlone`: two consumers at work hold two locks, so they work on two events. `Crash` and
`Throw` keep all of it because they give up everything in hand. The refinement maps
`Escalate` to `Happen`, `Mail` and `MailAnswerLost` to `Mail`, every end of an attempt but a
crash to `Attempt`, and the rest to stuttering. `NobodyMailedTwice` needs a count:
`Counted` says that the mails a person got about an event, as long as none of them is on
record (`OnRecord`: committed, or written by the attempt under way), are at most the mishaps
of that event: an answer that was lost, a throw, a crash. A consumer mails only somebody with
no record (`Working`), so one mail more is the first that is on record.

`ShiftRunner_proofs` proves, for any shifts, instances, windows, horizon and fault budget
(`ShiftRunnerAssumption`: the constants have their types, and "no instance" is not one):

| Theorem | Statement |
|---|---|
| `TypeCorrect` | `Spec => []TypeOK`: a rewind never reaches below the beginning of time, nothing runs past the horizon |
| `PassesApart` | `Spec => []OnePassAtATime`: until a lock is lost, no two instances are inside a pass |

`OnePassAtATime` is not inductive: nothing in it says that the lock is taken while a pass
runs, so a second one could start. `LInv` adds `InsideHolds` (until a lock is lost, whoever is
inside a pass is the one who holds the lock) and `SpentIsSpent` (a fault budget that was
touched never returns to its start, so "until a lock is lost" never becomes true again).
`Restart` and `EndPass` keep it because they leave the pass and the lock together. `HasMin`
and `HasMax`, from the well-founded order of the naturals, say that the oldest late reading
and the newest arrival a sweep reports exist.

`ShiftWatermarks_proofs` proves, under the same assumption, for any windows, caps, late
arrivals, edits, failures and restarts:

| Theorem | Statement |
|---|---|
| `LateReadings` | `Spec => []LateReadingsAreScored` |
| `WindowsTried` | `Spec => []PassedWindowsWereTried` |

Both properties speak of the rows, and only until a lock is lost: of two passes that overlap
the slower one takes a rewind back (section 6). The invariant `WInv` follows what the rows'
writers have in hand. `RowKeeps` says that every window a row's `scored` has passed is
`Accounted` for: it was tried, and every reading that had arrived by the row's `arrivals` was
in hand or the run is excused. `EditsKeep` says the same of the row an edit read, because the
edit will write it back, and that its `arrivals` is not ahead of the row's. Of the one pass
under way, `Sweeping` says that a shift not swept yet is as the pass found it (`Unswept`) and
that a rewind in hand knows the oldest reading that arrived unseen (`LateInHand`); `Scoring`
says that the windows left of a shift follow one another without a gap (`Follows`), that
those before them are accounted for (`Behind`), and that what was pulled is all there was
(`Pulled`). A mark then passes one more window and nothing between. An edit that overlaps a
sweep is over before the next pass starts; if one could last into it, its old `scored` would
go over the new rewind, which is why `StartPass` says so (section 3).

`IncidentDesk_proofs` proves, for any machines, rules, severities, policies, requests and
bounds (`IncidentDeskAssumption`: the constants have their types, there is a machine and a
rule, the evaluator is not a request):

| Theorem | Statement |
|---|---|
| `TypeCorrect` | `Spec => []TypeOK` |
| `OneLiveIncident` | `Spec => []OneLivePerMachine` |
| `AlertIsLinked` | `Spec => []AlertHasItsIncident` |
| `StandingIsOwned` | `Spec => []StandingAlertIsOwned` |
| `EscalatedOnce` | `Spec => []EscalatedOncePerLevel` |
| `PromisesTighten` | `Spec => PromiseOnlyTightens` |

The inductive invariant `DInv` says what an evaluation and a request bring when they write.
`InHand`: the incident of an evaluation is either new and conflicts with no live one
(`Opening`), or locked by the evaluator, live, and only tightened in memory (`Joining`); what
it has absorbed is no more severe than it is. `Resolving`: a request that is past its lock
still holds it, and the incident is still live, so no alert joins between the resolve's
reading of what is linked and its write. `Moving`: the alert a transition read has not
changed its rule, machine or incident, so a stale save leaves the link alone. `FreshRows`: a
row not used yet has escalated nothing.

`TelemetryArchive_proofs` proves, for any readings, accounts, months, chunk sizes, hot days
and fault budget (`ReadingsAssumption`: finitely many readings, each of an account and a
month; `BoundsAssumption`):

| Theorem | Statement |
|---|---|
| `TypeCorrect` | `Spec => []TypeOK`, for any number of passes that overlap |
| `VerifiedForEver` | `OnePass => (Spec => []VerifiedIsTrue)` |
| `NoReadingLost` | `OnePass => (Spec => []NothingLost)` |

`OnePass` says that there is one pass at a time at most; without it both are false (run
`overwritten`). The inductive invariant `Inv` adds what nobody can see in the tables.
`Counted`: the number of rows a part records is the number of rows its checksum is over.
`Sourced`: as long as a month was not dropped, the rows of its parts are rows of the table, of
that month and account. `Stored`: a pass about to read an object back finds one. `InHand`: the
part a pass is about to write is the next one, so its key is the key of no recorded part, and
what it has read is in the table. Then a partition is dropped by a counting argument: a
verified part holds some of the rows of that month and account, and as many as there are, so
it holds them all; and a month is dropped once.

`WorkOrders_proofs` proves, for any scenarios, scoring runs, users, horizon and bounds
(`ConstantsAssumption`: there are finitely many scenarios, a run is not a user), in whatever order
each run comes to the scenarios:

| Theorem | Statement |
|---|---|
| `TypeCorrect` | `Spec => []TypeOK`: the counter is held by a run that is under way, and a completed job has its note |
| `OneJobPerFault` | `Spec => []OneLiveJobPerFault` |
| `NumbersInOrder` | `Spec => []ReferencesInOrder` |
| `JobIsTraceable` | `Spec => []AutoJobHasPrediction` |

The three are one argument about what is not committed yet. `GoesOn`: the rows a run has
inserted are numbered on from the table's, each for a prediction the run has written, no two
for one fault, and none for a fault that has a live job in the table. That stays true while
others commit because of `HasCounter`: who has inserted a row holds the counter, so nobody
else appends to the table, and because an update that would make a job live again waits for
the entry in the index (`Waits`). `StillThere`: the job a person loaded still bears its
number, its fault and its prediction, so a stale save never changes them.

`Fleet_proofs` proves, for any devices, accounts, machines, sessions, approvers, horizon and
bounds (`FleetAssumption`):

| Theorem | Statement |
|---|---|
| `TypeCorrect` | `Spec => []TypeOK` |
| `HolderRecorded` | `Spec => []HolderIsOnRecord` |
| `HolderAlone` | `Spec => OnlyTheHolderFits` |
| `OneBinding` | `Spec => []OneInForce` |
| `NeverLeftUnbound` | `Spec => NeverUnbound` |

What makes stale saves harmless is `Sound`: whatever a request found and has changed in
memory, the account in it is on record in the history or in the entries the request will
write itself (`OnRecord`; the history only grows), an account's request has that account in
the row (`KeepsAccount`), and nobody saves a device out of the table (`NeverAbsent`). For the
bindings, `Apart` is the constraint (no two primaries overlap) and `Prepared` what an
activation in progress brings: its own window is one and is primary, and the binding it ends
began before that end, so ending it makes its window smaller and overlaps nothing new.

`ShiftHours_proofs` proves, for days and weeks of any length, any definitions, templates,
sessions and horizon (`ShiftHoursAssumption`):

| Theorem | Statement |
|---|---|
| `TypeCorrect` | `Spec => []TypeOK` |
| `ShiftsApart` | `Spec => []ActiveShiftsApart` |
| `AppliesApart` | `Spec => []AppliedOnce` |
| `WindowsNeverMeet` | `OrdinaryClocks => (Spec => []WindowsApart)` |
| `ToldWhatIsDue` | `OrdinaryClocks => (Spec => []OwedIsDue)` |

The first three are about the writers of the rows. `HourCovered` shows that the intervals of
`WeeklyIntervals`, cut at the week's end, are a shift's `Hours`, so `ShiftsOverlap` is false
only of shifts that share none (`NoHourShared`). `HInv` then says that a save or an apply
whose check is up to date (not `outdated`) may be written: `SaveKeeps`, `ApplyKeeps`, and
`OneApply`, the lock on the machine's row.

The last two are about clocks. `OrdinaryClocks` says that no clock is a day or more from UTC
and none is changed by a day or more. The time zones of the world keep it but for the few
islands that skipped or repeated a whole date when they crossed the date line; there the two
guesses of `zonedWallToUtc` need not find the instant. With it, `WallIsInstant` gives what the
guesses return in closed form (`Instant`), `InstantsInOrder` that later hours are never
earlier instants, and `WallsApart` that hours of the week apart stay apart from one week to
the next, from which windows do not meet. For `OwedIsDue`, `DateScanned` names the sample of
the scan that falls on a given date, `NoDateSkipped` says when there is one, `DateInTime` that
no instance that could be due lies outside `Dates`, and `ScanFindsInstances` that scan and
`Due` agree; `Told` carries that to the answer a pass was given. `OwedIsDue` itself excepts a
scan that steps over a date, which happens (run `spring`).

Three proofs did not go through at first because a model was wrong, and it was corrected.
`NotAnswerable` of `ShiftRunner` met a moment the last tick can reach; `Edited` had two arms
that both applied to one and the same edit; `Dates` of `ShiftHours` did not go back far
enough for a clock almost a day from UTC.

Only model-checked: the liveness properties (`EventuallyCaughtUp`, `ReadingEventuallyScored`,
`OverdueIsEscalated`, `EveryEventSettles`, `OldMonthIsDropped`, `CriticalGetsAJob`), because
fairness and ENABLED are beyond the prover, and the counterexamples of section 6.

## 6. What the code does not keep

Three runs end in a counterexample; `PROJECT.json` (`findings`) quotes the lines.

* `overwritten`: of two archive passes at once, the slower one puts an older export over an
  object that was verified and whose month is dropped by then: readings are lost.
* `scored`: `raiseWork()` catches an error of its own transaction, which Postgres has aborted;
  the COMMIT keeps none of the run's predictions, and nobody is told.
* `spring`: a scan for ended windows that begins late in the evening before the clock is put
  forward samples Saturday and Monday, and never returns Sunday's shift.

The modules also state these, which TLC refutes when they are put into a cfg of the same
module (`FairSpec` for the temporal ones):

* `UnscoredWindowIsStillOwed` (ShiftRunner): a window that failed, or waits for a route, is
  passed by the next window of its shift in the same pass, although comments say it stays owed.
* `NothingOwedFromTheTimeOff` (ShiftRunner): a shift switched back on is rewound into its time
  off, because only one of its two watermarks was moved to now.
* `OverlapCorruptsNothing` (ShiftRunner): of two overlapping passes (the lock's connection
  dropped) the slower one writes its watermark over the other's rewind.
* `AlertOpensOrJoins` (IncidentDesk): an incident resolved between `absorbAlerts`' INSERT and
  its SELECT makes the evaluation throw, and its alerts are rolled back.
* `ListsNeverDisagree` (IncidentDesk): acknowledging an alert while its incident is being
  resolved leaves the alert standing under a resolved incident, where it suppresses its rule.
* `ResolveWaitsForWork` (IncidentDesk): work raised or reopened between `resolve()`'s check and
  its write is left unfinished under a resolved incident.
* `OldMonthStaysOut` (TelemetryArchive): a late reading brings back the partition of a month
  that was dropped, and it can never be dropped again: `partition_name` is the primary key of
  the log of drops.
* `StockBelongsToNobody` (Fleet): retiring a device keeps its account, and returning it to the
  stock does too.
* `HistoryStaysAttributed` (Fleet): a binding that is superseded is no longer primary, and the
  archive, which looks for primaries, no longer finds it for the readings it interpreted.

And these are in the models as the code has them, met while translating, and kept out of the
properties by name:

* A job's history and its status may disagree: `act()`, `assign()` and `update()` save what
  they loaded, each with its own entry. So may a device's: two assignments at once give it to
  the second account without a release; a claim that was saved over a retirement, or whose
  UPDATE reached no row any more, is recorded all the same.
* A device assigned to another account may still be claimed on the first one's machine, and a
  release ends none of its bindings.
* `activate()` answers with the binding of the same device although its window may be over.
* A shift that begins or ends inside the hour a clock skips overlaps its neighbour in real
  time (`BoundedByTheGap`); the overlap check ignores time zones, so two zones on one machine
  may overlap (`WindowsApart` is about shifts of one zone).
* `create()` and `update()` check for overlaps without the lock `applyTemplate()` takes; two at
  once may both pass (`raced`).

## 7. What is not modelled

The arithmetic of prediction, utilization, KPIs and forecast, and everything of CRUD, layout,
retrieval and parsing (section 1). Of the modelled parts: what scoring writes besides the
watermarks; the evaluation of triggers and scenarios (which rules fire, and which scenarios
are critical, is chosen freely); who may do what, but for the row policy that decides what an
account's save reaches; the other platform's transactions (a row appears in the tick it is
stamped with); time below the millisecond; the 50,000-row cap of a pull; rejected readings
and the registration of unknown sensors at ingest; the shortest length of a shift, its name
and the status of its machine; a job's title, text, dates and assignee; the scores and
coverage of bindings and their discovery. Hazards without a property have a note in
`PROJECT.json` that says why.
