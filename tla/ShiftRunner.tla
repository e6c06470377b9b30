------------------------------ MODULE ShiftRunner ------------------------------
(***************************************************************************)
(* The pass that scores finished shifts (src/shift): ShiftScheduler ticks, *)
(* the advisory lock lets one instance in, the pass first rewinds shifts   *)
(* whose readings arrived late and then scores the windows that are owed.  *)
(*                                                                         *)
(* Each equipment_shift row keeps two watermarks.  scored says how far the *)
(* windows have been scored, on the logger's clock; arrivals says how far  *)
(* the late-arrival sweep has looked, on the receiving platform's clock.   *)
(* The module is about what the two watermarks promise together.           *)
(*                                                                         *)
(* Time is counted in ticks longer than a millisecond, and every row       *)
(* reaches the platform in a tick of its own; the "+ 1 ms" the code adds   *)
(* to arrivals is therefore below the model's grain.  The hours of a shift *)
(* are fixed; an edit changes the other columns of its row.                *)
(***************************************************************************)
EXTENDS Integers, FiniteSets

CONSTANTS
    Shifts,      \* the rows of equipment_shift
    Instances,   \* the API processes, each with its own timer
    NoInstance,  \* the lock is free
    Ends,        \* Ends[s]: when the windows of shift s end
    Length,      \* a window ending at e holds the readings in (e - Length, e]
    LookBack,    \* FIRST_RUN_LOOK_BACK_DAYS
    Cap,         \* limitPerShift of owed()
    Routes,      \* what a starting process may find: a route to the platform, or none
    Broken,      \* shifts whose scoring throws every time
    Horizon,     \* bound: the last tick
    Budget       \* bound: how often each fault, arrival or edit may still happen

Never == -1
Faults == {"arrive", "post", "failure", "sweepFailure", "restart", "lockLoss", "edit"}

ASSUME ShiftRunnerAssumption ==
    /\ NoInstance \notin Instances
    /\ Horizon \in Nat
    /\ Ends \in [Shifts -> SUBSET (1..Horizon)]
    /\ Length \in Nat \ {0}
    /\ LookBack \in Nat
    /\ Cap \in Nat \ {0}
    /\ Routes \subseteq BOOLEAN
    /\ Routes # {}
    /\ Broken \subseteq Shifts
    /\ Budget \in [Faults -> Nat]

VARIABLES
    now,        \* the clock
    arrived,    \* readings in the existing platform
    held,       \* readings in 2.0's own telemetry_reading
    shift,      \* the equipment_shift rows
    lock,       \* who holds the advisory lock
    route,      \* route[i]: instance i has a connection to the platform
    pass,       \* pass[i]: the pass instance i is making
    edit,       \* edit[s]: the request editing shift s and the row it read
    attempt,    \* ghost: how the last run of each window ended
    covered,    \* ghost: the readings a completed run of their window had in hand
    answerable, \* ghost: the first window end each shift answers for
    left        \* what remains of Budget

vars == <<now, arrived, held, shift, lock, route, pass, edit, attempt, covered,
          answerable, left>>
ghosts == <<attempt, covered, answerable>>

Readings == [shift : Shifts, ts : 1..Horizon, at : 1..Horizon]
Rows == [status : {"active", "retired"}, scored : Never..Horizon, arrivals : 0..Horizon]
Owing == [shift : Shifts, end : 1..Horizon]
Swept == [shift : Shifts, since : Nat]
Found == [shift : Shifts, earliest : 1..Horizon, seen : 1..Horizon,
          moves : BOOLEAN, read : BOOLEAN]
Passes == [pc    : {"idle", "sweep", "rewind", "take", "ingest", "mark"},
           now   : 0..Horizon,
           todo  : SUBSET Swept,
           late  : SUBSET Found,
           queue : SUBSET Owing,
           win   : SUBSET Owing,
           pull  : SUBSET Readings,
           own   : BOOLEAN]
Edits == [kind : {"none", "update", "retire", "reinstate"}, row : Rows]
Outcomes == {"none", "scored", "own", "failed", "waiting"}
NotAnswerable == Horizon + 2  \* later than any window and any restart

TypeOK ==
    /\ now \in 0..Horizon
    /\ arrived \in SUBSET Readings
    /\ held \in SUBSET Readings
    /\ shift \in [Shifts -> Rows]
    /\ lock \in Instances \cup {NoInstance}
    /\ route \in [Instances -> BOOLEAN]
    /\ pass \in [Instances -> Passes]
    /\ edit \in [Shifts -> Edits]
    /\ attempt \in [Owing -> Outcomes]
    /\ covered \in SUBSET Readings
    /\ answerable \in [Shifts -> 1..NotAnswerable]
    /\ left \in [Faults -> Nat]

Idle == [pc |-> "idle", now |-> 0, todo |-> {}, late |-> {}, queue |-> {}, win |-> {},
         pull |-> {}, own |-> FALSE]
NewRow == [status |-> "active", scored |-> Never, arrivals |-> 0]
NoEdit == [kind |-> "none", row |-> NewRow]

\* Shifts as create() and applyTemplate() write them: both watermarks null.
Init ==
    /\ now = 0
    /\ arrived = {}
    /\ held = {}
    /\ shift = [s \in Shifts |-> NewRow]
    /\ lock = NoInstance
    /\ route \in [Instances -> Routes]
    /\ pass = [i \in Instances |-> Idle]
    /\ edit = [s \in Shifts |-> NoEdit]
    /\ attempt = [w \in Owing |-> "none"]
    /\ covered = {}
    /\ answerable = [s \in Shifts |-> NotAnswerable]
    /\ left = Budget

Spend(f) == left[f] > 0 /\ left' = [left EXCEPT ![f] = @ - 1]

--------------------------------------------------------------------------------
(* The world around the runner. *)

Tick ==
    /\ now < Horizon
    /\ now' = now + 1
    /\ UNCHANGED <<arrived, held, shift, lock, route, pass, edit, ghosts, left>>

\* A logger's reading stamped ts reaches the existing platform, on time or late.
Arrive(s, ts) ==
    /\ now < Horizon
    /\ ts <= now + 1
    /\ Spend("arrive")
    /\ now' = now + 1
    /\ arrived' = arrived \cup {[shift |-> s, ts |-> ts, at |-> now + 1]}
    /\ UNCHANGED <<held, shift, lock, route, pass, edit, ghosts>>

\* A logger posts a reading straight to 2.0's ingest; the platform never sees it.
Post(s, ts) ==
    /\ now < Horizon
    /\ ts <= now + 1
    /\ Spend("post")
    /\ now' = now + 1
    /\ held' = held \cup {[shift |-> s, ts |-> ts, at |-> now + 1]}
    /\ UNCHANGED <<arrived, shift, lock, route, pass, edit, ghosts>>

\* The process dies, its connections (and the lock) with it, and starts again.
Restart(i) ==
    /\ Spend("restart")
    /\ \E r \in Routes : route' = [route EXCEPT ![i] = r]
    /\ pass' = [pass EXCEPT ![i] = Idle]
    /\ lock' = IF lock = i THEN NoInstance ELSE lock
    /\ UNCHANGED <<now, arrived, held, shift, edit, ghosts>>

\* The connection that holds the lock drops while the pass goes on.
LoseLock ==
    /\ lock # NoInstance
    /\ Spend("lockLoss")
    /\ lock' = NoInstance
    /\ UNCHANGED <<now, arrived, held, shift, route, pass, edit, ghosts>>

--------------------------------------------------------------------------------
(* One pass. *)

\* Mutated form: the advisory lock is not asked for.
MayStartUnlocked(i) == pass[i].pc = "idle"

\* tick() drops a tick while this instance runs; tryTakePassLock() drops it while
\* another does.  The pass then reads the active shifts, if it has a route.  Passes start
\* at least thirty seconds apart and an edit is two queries: an edit that overlaps a pass
\* is over before the next one starts (one that overlaps a start read the same row after).
MayStart(i) == pass[i].pc = "idle" /\ lock = NoInstance

ActiveShifts == {s \in Shifts : shift[s].status = "active"}

StartPass(i) ==
    /\ MayStart(i)
    /\ \A s \in Shifts : edit[s].kind = "none"
    /\ lock' = i
    /\ pass' = [pass EXCEPT ![i] = [Idle EXCEPT
            !.pc = "sweep",
            !.now = now,
            !.todo = IF route[i]
                     THEN {[shift |-> s, since |-> shift[s].arrivals] : s \in ActiveShifts}
                     ELSE {}]]
    /\ UNCHANGED <<now, arrived, held, shift, route, edit, ghosts, left>>

\* lateArrivals(): rows that arrived after the sweep last looked, up to this pass.
LateRows(t, upTo) ==
    {r \in arrived : r.shift = t.shift /\ r.at > t.since /\ r.at <= upTo}

SetMin(S) == CHOOSE x \in S : \A y \in S : x <= y
SetMax(S) == CHOOSE x \in S : \A y \in S : x >= y

Sweep(i) ==
    /\ pass[i].pc = "sweep"
    /\ \E t \in pass[i].todo :
         LET rows == LateRows(t, pass[i].now) IN
         pass' = [pass EXCEPT
             ![i].todo = @ \ {t},
             ![i].pc = IF rows = {} THEN "sweep" ELSE "rewind",
             ![i].late = IF rows = {} THEN {}
                         ELSE {[shift |-> t.shift,
                                earliest |-> SetMin({r.ts : r \in rows}),
                                seen |-> SetMax({r.at : r \in rows}),
                                moves |-> FALSE, read |-> FALSE]}]
    /\ UNCHANGED <<now, arrived, held, shift, lock, route, edit, ghosts, left>>

\* A query of the sweep throws; the shift is left as it was.
SweepFails(i) ==
    /\ pass[i].pc \in {"sweep", "rewind"}
    /\ Spend("sweepFailure")
    /\ \/ /\ pass[i].pc = "rewind"
          /\ pass' = [pass EXCEPT ![i].late = {}, ![i].pc = "sweep"]
       \/ /\ pass[i].pc = "sweep"
          /\ \E t \in pass[i].todo : pass' = [pass EXCEPT ![i].todo = @ \ {t}]
    /\ UNCHANGED <<now, arrived, held, shift, lock, route, edit, ghosts>>

\* rewindForLateArrivals() reads the row and decides, then writes it.  RewindTo is one
\* millisecond before the oldest late reading.
RewindTo(l) == l.earliest - 1
\* Mutated form: a reading at the watermark itself does not rewind.
RewindsBelow(l, row) == row.scored # Never /\ l.earliest < row.scored

Rewinds(l, row) == row.scored # Never /\ RewindTo(l) < row.scored

RewindRead(i) ==
    /\ pass[i].pc = "rewind"
    /\ \E l \in pass[i].late :
         /\ ~l.read
         /\ pass' = [pass EXCEPT ![i].late =
                {[l EXCEPT !.read = TRUE, !.moves = Rewinds(l, shift[l.shift])]}]
    /\ UNCHANGED <<now, arrived, held, shift, lock, route, edit, ghosts, left>>

\* Mutated forms: the sweep does not move its own watermark; or moves only that.
RewoundForEver(l, row) == [row EXCEPT !.scored = IF l.moves THEN RewindTo(l) ELSE @]
RewoundNever(l, row) == [row EXCEPT !.arrivals = l.seen]

Rewound(l, row) == [row EXCEPT !.arrivals = l.seen,
                               !.scored = IF l.moves THEN RewindTo(l) ELSE @]

RewindWrite(i) ==
    /\ pass[i].pc = "rewind"
    /\ \E l \in pass[i].late :
         /\ l.read
         /\ shift' = [shift EXCEPT ![l.shift] = Rewound(l, @)]
    /\ pass' = [pass EXCEPT ![i].late = {}, ![i].pc = "sweep"]
    /\ UNCHANGED <<now, arrived, held, lock, route, edit, ghosts, left>>

\* owed(): what has finished since the watermark, oldest first and capped; only the
\* newest window of a shift that never ran.
EndingBetween(s, after, upTo) == {e \in Ends[s] : after < e /\ e <= upTo}
\* Mutated form: the cap keeps the newest.
Newest(W, n) == {e \in W : Cardinality({d \in W : e < d}) < n}

Oldest(W, n) == {e \in W : Cardinality({d \in W : d < e}) < n}

OwedOf(s, upTo) ==
    IF shift[s].scored = Never
    THEN LET all == EndingBetween(s, upTo - LookBack, upTo) IN
         {e \in all : \A d \in all : d <= e}
    ELSE Oldest(EndingBetween(s, shift[s].scored, upTo), Cap)

Owed(i) ==
    /\ pass[i].pc = "sweep"
    /\ pass[i].todo = {}
    /\ pass' = [pass EXCEPT
           ![i].pc = "take",
           ![i].queue = UNION {{[shift |-> s, end |-> e] : e \in OwedOf(s, pass[i].now)} :
                               s \in ActiveShifts}]
    /\ UNCHANGED <<now, arrived, held, shift, lock, route, edit, ghosts, left>>

\* The readings of a window: after its start, up to and including its end.
InWindow(r, w) == r.shift = w.shift /\ w.end - Length < r.ts /\ r.ts <= w.end

\* What a window is scored from: the platform's readings, or 2.0's own without a route.
Pull(w) == {r \in arrived : InWindow(r, w)}
PullOwn(w) == {r \in held : InWindow(r, w)}

Front(i) == {w \in pass[i].queue : \A v \in pass[i].queue : w.end <= v.end}

\* run() takes the next window; without a route one that has no readings of its own is
\* left waiting, its watermark where it was.
Take(i) ==
    /\ pass[i].pc = "take"
    /\ \E w \in Front(i) :
         LET pulled == IF route[i] THEN Pull(w) ELSE PullOwn(w) IN
         IF ~route[i] /\ pulled = {}
         THEN /\ pass' = [pass EXCEPT ![i].queue = @ \ {w}]
              /\ attempt' = [attempt EXCEPT ![w] = "waiting"]
         ELSE /\ pass' = [pass EXCEPT ![i].queue = @ \ {w}, ![i].win = {w},
                                      ![i].pull = pulled, ![i].own = ~route[i],
                                      ![i].pc = "ingest"]
              /\ UNCHANGED attempt
    /\ UNCHANGED <<now, arrived, held, shift, lock, route, edit, covered, answerable, left>>

\* Pulled readings are stored, unless they are 2.0's own already or there are none.
Ingest(i) ==
    /\ pass[i].pc = "ingest"
    /\ held' = IF pass[i].own THEN held ELSE held \cup pass[i].pull
    /\ pass' = [pass EXCEPT ![i].pc = "mark"]
    /\ UNCHANGED <<now, arrived, shift, lock, route, edit, ghosts, left>>

\* Mutated form: the watermark moves to where the next window would end.
MarkedAhead(row, w) == [row EXCEPT !.scored = w.end + Length]

\* markScored(), last and only now: scored, nothing to score and not running alike.
Marked(row, w) == [row EXCEPT !.scored = w.end]

Mark(i) ==
    /\ pass[i].pc = "mark"
    /\ \E w \in pass[i].win :
         /\ w.shift \notin Broken
         /\ shift' = [shift EXCEPT ![w.shift] = Marked(@, w)]
         /\ attempt' = [attempt EXCEPT ![w] = IF pass[i].own THEN "own" ELSE "scored"]
         /\ answerable' = [answerable EXCEPT ![w.shift] =
                               IF @ = NotAnswerable THEN w.end ELSE @]
    /\ covered' = covered \cup (pass[i].pull \cap arrived)
    /\ pass' = [pass EXCEPT ![i].pc = "take", ![i].win = {}, ![i].pull = {}]
    /\ UNCHANGED <<now, arrived, held, lock, route, edit, left>>

\* Any step of one() throws: caught, filed as failed, and the pass goes on.
Fail(i) ==
    /\ pass[i].pc \in {"ingest", "mark"}
    /\ \E w \in pass[i].win :
         /\ IF w.shift \in Broken THEN UNCHANGED left ELSE Spend("failure")
         /\ attempt' = [attempt EXCEPT ![w] = "failed"]
    /\ pass' = [pass EXCEPT ![i].pc = "take", ![i].win = {}, ![i].pull = {}]
    /\ UNCHANGED <<now, arrived, held, shift, lock, route, edit, covered, answerable>>

\* release() unlocks on the connection that locked.
EndPass(i) ==
    /\ pass[i].pc = "take"
    /\ pass[i].queue = {}
    /\ pass' = [pass EXCEPT ![i] = Idle]
    /\ lock' = IF lock = i THEN NoInstance ELSE lock
    /\ UNCHANGED <<now, arrived, held, shift, route, edit, ghosts, left>>

--------------------------------------------------------------------------------
(* The account's own edits: find, then save.  save() writes every column that differs
   from the row then stored, the watermarks the request read among them. *)

EditRead(s, kind) ==
    /\ edit[s].kind = "none"
    /\ Spend("edit")
    /\ edit' = [edit EXCEPT ![s] = [kind |-> kind, row |-> shift[s]]]
    /\ UNCHANGED <<now, arrived, held, shift, lock, route, pass, ghosts>>

\* setStatus(): a shift switched back on starts from now.
SwitchesOn(e) == e.kind = "reinstate" /\ e.row.status # "active"

Edited(e) ==
    CASE SwitchesOn(e)      -> [e.row EXCEPT !.status = "active", !.scored = now]
      [] e.kind = "retire"  -> [e.row EXCEPT !.status = "retired"]
      [] OTHER              -> e.row

EditSave(s) ==
    /\ edit[s].kind # "none"
    /\ shift' = [shift EXCEPT ![s] = Edited(edit[s])]
    /\ answerable' = [answerable EXCEPT ![s] =
           CASE SwitchesOn(edit[s])              -> now + 1
             [] Edited(edit[s]).scored = Never   -> NotAnswerable
             [] OTHER                            -> @]
    /\ edit' = [edit EXCEPT ![s] = NoEdit]
    /\ UNCHANGED <<now, arrived, held, lock, route, pass, attempt, covered, left>>

--------------------------------------------------------------------------------
PassStep(i) ==
    \/ StartPass(i) \/ Sweep(i) \/ RewindRead(i) \/ RewindWrite(i) \/ Owed(i)
    \/ Take(i) \/ Ingest(i) \/ Mark(i) \/ EndPass(i)
    \/ \E w \in pass[i].win : w.shift \in Broken /\ Fail(i)

Next ==
    \/ Tick
    \/ \E s \in Shifts, ts \in 1..Horizon : Arrive(s, ts) \/ Post(s, ts)
    \/ \E i \in Instances : PassStep(i) \/ SweepFails(i) \/ Fail(i) \/ Restart(i)
    \/ LoseLock
    \/ \E s \in Shifts : EditSave(s)
    \/ \E s \in Shifts, k \in {"update", "retire", "reinstate"} : EditRead(s, k)

Spec == Init /\ [][Next]_vars

\* The interval timer keeps firing, a pass that runs keeps running, a request that read
\* its row goes on to save it, and time goes on.  Nothing is assumed of faults.
Fairness ==
    /\ WF_vars(Tick)
    /\ \A i \in Instances : WF_vars(PassStep(i))
    /\ \A s \in Shifts : WF_vars(EditSave(s))

FairSpec == Spec /\ Fairness

--------------------------------------------------------------------------------
(* Properties. *)

\* A reading both watermarks of its shift have passed: no sweep will report it and no
\* pass owes its window any more.
Passed(r, w) ==
    /\ InWindow(r, w)
    /\ w.end \in Ends[w.shift]
    /\ answerable[w.shift] <= w.end
    /\ w.end <= shift[w.shift].scored
    /\ r.at <= shift[w.shift].arrivals

\* Safety: a reading is passed by both watermarks only after a run of its window had it
\* in hand, unless the newest run of that window failed or had no route to the platform.
\* This is what the sweep, the rewind, the order of the pass and the mark that comes
\* last achieve together, late readings, edits and restarts included.
LateReadingsAreScored ==
    \A r \in arrived, w \in Owing :
        Passed(r, w) => r \in covered \/ attempt[w] \in {"failed", "waiting", "own"}

\* Safety: the scored watermark never passes a window nobody tried to score: the pass
\* takes the windows oldest first, and the cap cuts from the new end.
PassedWindowsWereTried ==
    \A s \in Shifts : \A e \in Ends[s] :
        answerable[s] <= e /\ e <= shift[s].scored
            => attempt[[shift |-> s, end |-> e]] # "none"

NoLockLost == left["lockLoss"] = Budget["lockLoss"]

\* Safety: until a lock is lost, two instances are never both inside a pass, whichever of
\* them die, start again or leave a pass that failed.
OnePassAtATime ==
    NoLockLost => \A i, j \in Instances :
                     pass[i].pc # "idle" /\ pass[j].pc # "idle" => i = j

LastEnd(s) == {e \in Ends[s] : \A d \in Ends[s] : d <= e}

\* Liveness: passes catch up for good.  Every working shift that stays on ends with its
\* watermark at its last window, however often it was rewound, whatever another shift
\* that always fails does, and the arrivals a sweep has seen never rewind it again.
EventuallyCaughtUp ==
    \A s \in Shifts \ Broken :
        <>[](shift[s].status = "active" => \A e \in LastEnd(s) : e <= shift[s].scored)

\* Liveness: a reading of an answered-for window is eventually scored, however late it
\* arrived, unless its window's run failed, or the shift was switched off or counts as
\* never run again, or two passes overlapped.
ReadingEventuallyScored ==
    \A r \in {x \in Readings : x.shift \notin Broken /\ x.ts <= x.at} :
        \A w \in {x \in Owing : InWindow(r, x) /\ x.end \in Ends[x.shift]} :
            (r \in arrived /\ answerable[w.shift] <= w.end)
              ~> (\/ r \in covered
                  \/ attempt[w] = "failed"
                  \/ shift[w.shift].status = "retired"
                  \/ ~NoLockLost
                  \/ w.end < answerable[w.shift])

--------------------------------------------------------------------------------
(* What comments in the code claim of it, and does not hold. *)

\* "a window that failed is still owed and comes round again" (shift-runner.service.ts,
\* class comment), "never past a window that was skipped" (markScored), "those stay owed;
\* nothing lost" (of the windows a pass without a route leaves waiting).  Windows before
\* the first one the shift was scored for are left out.
UnscoredWindowIsStillOwed ==
    \A s \in Shifts : \A e \in {x \in Ends[s] : answerable[s] < x} :
        attempt[[shift |-> s, end |-> e]] \in {"failed", "waiting"} => shift[s].scored < e

\* A shift switched back on is not "owed a month of scoring the moment it returns": a pass
\* owes it an older window only for a reading that arrived since.
NothingOwedFromTheTimeOff ==
    \A i \in Instances : \A w \in pass[i].queue :
        (w.end < answerable[w.shift] /\ answerable[w.shift] <= pass[i].now)
            => \E r \in arrived : r.shift = w.shift /\ r.at >= answerable[w.shift]

\* pass-lock.ts says of two overlapping passes that "nothing would be corrupted"; the same
\* promise as LateReadingsAreScored, checked with a lock that can be lost mid-pass.
OverlapCorruptsNothing == LateReadingsAreScored
================================================================================
