------------------------------- MODULE ShiftHours -------------------------------
(* A machine's working day: the arithmetic of wall clocks, windows and        *)
(* overlaps (shift-window.ts), the requests that write a machine's shifts,    *)
(* and what a pass is told it owes (shift.service.ts).                        *)
(*                                                                            *)
(* A minute of the code is an hour here, a day has DAY of them, a week Week   *)
(* days.  Instants are hours from the midnight, UTC, that begins day 0, a     *)
(* first day of the week.  A zone's clock is changed once.                    *)
EXTENDS Integers, Sequences, FiniteSets, FiniteSetsExt

CONSTANTS
    DAY,          \* MINUTES_PER_DAY
    Week,         \* days in a week
    Definitions,  \* shift definitions: start, end, days and zone
    Names,
    Template,     \* the shifts of a template, in order: name and definition
    Sessions,     \* requests that may be under way at once
    LimitPerShift,\* limitPerShift of owed()
    Horizon,      \* bound: the last moment a pass runs at
    MaxRequests,  \* bound
    MaxScans      \* bound: a pass asks within this many of the first requests
                  \* (what it is told depends on one shift alone)

Weekdays == 0 .. Week - 1

\* A clock that is base ahead of UTC, and base + jump from instant at on.
Zone == [base : Int, jump : Int, at : Int]

\* What validate() and the table's constraints let through.
Definition == [start : 0 .. DAY - 1, end : 1 .. DAY, days : SUBSET Weekdays \ {{}}, zone : Zone]

ASSUME ShiftHoursAssumption ==
    /\ DAY \in Nat \ {0} /\ Week \in Nat \ {0} /\ LimitPerShift \in Nat \ {0}
    /\ Definitions \subseteq Definition
    /\ Template \in Seq([name : Names, def : Definitions])
    /\ Horizon \in Nat /\ MaxRequests \in Nat /\ MaxScans \in Nat

VARIABLES
    shifts,   \* equipment_shift of the machine, in the order of insertion
    request,  \* each request: what it read, what it means to write
    requests, \* requests made so far
    answer,   \* what owed() last told a pass of a shift
    raced     \* ghost: somebody saved on a check that was out of date

vars == <<shifts, request, requests, answer, raced>>

----------------------------------------------------------------------------
(* Clocks                                                                   *)

Offset(zone, t) == IF t < zone.at THEN zone.base ELSE zone.base + zone.jump
Local(zone, t) == t + Offset(zone, t)
LocalDate(zone, t) == Local(zone, t) \div DAY
ReadsAs(zone, t, hour) == Local(zone, t) % DAY = hour

\* The instant at which the clock reads wall, counted from a date's midnight:
\* of two the first, and if the clock skips it the later guess.
ZonedWallToUtc(zone, date, wall) ==
    LET naive == date * DAY + wall
        guesses == {naive - Offset(zone, naive - DAY), naive - Offset(zone, naive + DAY)}
        valid == {t \in guesses : ReadsAs(zone, t, wall % DAY)}
    IN  IF valid # {} THEN Min(valid) ELSE Max(guesses)

----------------------------------------------------------------------------
(* Windows                                                                  *)

\* A shift that ends at the hour it starts at ends before it begins.
OvernightStrictly(def) == def.end < def.start

IsOvernight(def) == def.end <= def.start
EndWall(def) == IF IsOvernight(def) THEN def.end + DAY ELSE def.end
Length(def) == EndWall(def) - def.start

\* A window that is as long as its hours say.
WindowByLength(def, date) ==
    LET start == ZonedWallToUtc(def.zone, date, def.start)
    IN  [date |-> date, start |-> start, end |-> start + Length(def)]

WindowFor(def, date) ==
    [date |-> date, start |-> ZonedWallToUtc(def.zone, date, def.start),
     end |-> ZonedWallToUtc(def.zone, date, EndWall(def))]

RunsOn(def, date) == date % Week \in def.days
EndsIn(window, after, upTo) == after < window.end /\ window.end <= upTo

\* The scan begins where the last one stopped.
NoLookBack(def) == 0

\* The local dates a scan looks at: one sample every DAY hours, from two days
\* before, or three for a shift that runs past midnight.
LookBack(def) == IF IsOvernight(def) THEN 3 ELSE 2

DatesScanned(def, after, upTo) ==
    LET from == after - LookBack(def) * DAY
        samples == (upTo - from + DAY - 1) \div DAY + 1
    IN  {LocalDate(def.zone, from + i * DAY) : i \in 0 .. samples}

\* In the code a list, oldest first; the ends of a shift's windows differ.
WindowsEndingBetween(def, after, upTo) ==
    IF upTo <= after THEN {}
    ELSE {w \in {WindowFor(def, d) : d \in {e \in DatesScanned(def, after, upTo) : RunsOn(def, e)}} :
            EndsIn(w, after, upTo)}

Oldest(windows, n) == {w \in windows : Cardinality({v \in windows : v.end < w.end}) < n}
Newest(windows) == {w \in windows : \A v \in windows : v.end <= w.end}

----------------------------------------------------------------------------
(* Overlap                                                                  *)

WEEK == Week * DAY

\* An interval past the end of the week is left as it is.
UnwrappedIntervals(def) ==
    {<<d * DAY + def.start, d * DAY + def.start + Length(def)>> : d \in def.days}

WeeklyIntervals(def) ==
    UNION {LET from == d * DAY + def.start
               to == from + Length(def)
           IN  IF to <= WEEK THEN {<<from, to>>} ELSE {<<from, WEEK>>, <<0, to - WEEK>>}
           : d \in def.days}

ShiftsOverlap(one, other) ==
    \E i \in WeeklyIntervals(one), j \in WeeklyIntervals(other) : i[1] < j[2] /\ j[1] < i[2]

----------------------------------------------------------------------------
(* Requests                                                                 *)

Row == [name : Names, def : Definitions, status : {"active", "retired"}]
NewRow(name, def) == [name |-> name, def |-> def, status |-> "active"]
Done == [at |-> "idle"]
UnderWay == {x \in Sessions : request[x] # Done}
Nothing == [told |-> FALSE]

\* Rows are one machine's; a shift covers some of the week, and not all of a day twice.
TypeOK ==
    /\ shifts \in Seq(Row)
    /\ \A i, j \in DOMAIN shifts : shifts[i].name = shifts[j].name => i = j
    /\ \A i \in DOMAIN shifts : Length(shifts[i].def) \in 1 .. DAY
    /\ \A x \in UnderWay : request[x].at \in {"save", "apply"}
    /\ raced \in BOOLEAN

Init ==
    /\ shifts = <<>>
    /\ request = [x \in Sessions |-> Done]
    /\ requests = 0
    /\ answer = Nothing
    /\ raced = FALSE

Counted == requests < MaxRequests /\ requests' = requests + 1

Clashes(def, rows, but) ==
    \E i \in DOMAIN rows \ {but} : rows[i].status = "active" /\ ShiftsOverlap(def, rows[i].def)

\* A request has found no overlap, and means to write row, as shift number i
\* or as a new one.
NewShift == 0
Passes(x, i, row) ==
    /\ Counted
    /\ request[x] = Done
    /\ request' = [request EXCEPT ![x] = [at |-> "save", shift |-> i, row |-> row, outdated |-> FALSE]]
    /\ answer' = Nothing
    /\ UNCHANGED <<shifts, raced>>

Create(x) == \E name \in Names, def \in Definitions :
    ~Clashes(def, shifts, NewShift) /\ Passes(x, NewShift, NewRow(name, def))

Update(x, i) == \E name \in Names, def \in Definitions :
    /\ ~Clashes(def, shifts, i)
    /\ Passes(x, i, [shifts[i] EXCEPT !.name = name, !.def = def])

Retire(x, i) == Passes(x, i, [shifts[i] EXCEPT !.status = "retired"])

\* One that is active already is saved as it is, and not checked.
MayComeBack(i) == shifts[i].status = "active" \/ ~Clashes(shifts[i].def, shifts, i)

Reinstate(x, i) == MayComeBack(i) /\ Passes(x, i, [shifts[i] EXCEPT !.status = "active"])

\* Two applies side by side.
LockedNever(x) == FALSE

\* An apply has the machine's row locked until it is over.
Locked(x) == \E y \in UnderWay \ {x} : request[y].at = "apply"

\* What an apply saw when it began decides what is already there; what it has
\* written so far is seen by nobody else.
Apply(x) ==
    /\ Counted
    /\ request[x] = Done /\ ~Locked(x)
    /\ request' = [request EXCEPT ![x] = [at |-> "apply", existing |-> shifts, todo |-> Template,
                                          written |-> <<>>, outdated |-> FALSE]]
    /\ answer' = Nothing
    /\ UNCHANGED <<shifts, raced>>

Refused(x) == request' = [request EXCEPT ![x] = Done]

\* The template's next shift: left as it is if it is there with the same
\* hours, refused with everything before it if it is there with others or
\* overlaps, and written.
ApplyNext(x) ==
    /\ request[x].at = "apply" /\ request[x].todo # <<>>
    /\ LET r == request[x]
           next == Head(r.todo)
           same == {i \in DOMAIN r.existing : r.existing[i].name = next.name}
           skipped == [r EXCEPT !.todo = Tail(@)]
       IN  \/ /\ \E i \in same : r.existing[i].def = next.def
              /\ request' = [request EXCEPT ![x] = skipped]
           \/ /\ \E i \in same : r.existing[i].def # next.def
              /\ Refused(x)
           \/ /\ same = {}
              /\ IF Clashes(next.def, shifts \o r.written, NewShift)
                 THEN Refused(x)
                 ELSE request' = [request EXCEPT ![x] =
                          [skipped EXCEPT !.written = Append(@, NewRow(next.name, next.def))]]
    /\ UNCHANGED <<shifts, requests, answer, raced>>

\* Everybody under way is out of date once somebody commits; two applies wait
\* for each other instead.
Outdates(x) ==
    request' = [y \in Sessions |->
        IF y = x THEN Done
        ELSE IF request[y] = Done \/ (request[x].at = "apply" /\ request[y].at = "apply") THEN request[y]
        ELSE [request[y] EXCEPT !.outdated = TRUE]]

\* The commit, or the refusal by uq_equipment_shift_name.
Commits(x, rows) ==
    /\ IF \A i, j \in DOMAIN rows : rows[i].name = rows[j].name => i = j
       THEN /\ shifts' = rows
            /\ raced' = (raced \/ request[x].outdated)
            /\ Outdates(x)
       ELSE UNCHANGED <<shifts, raced>> /\ Refused(x)
    /\ UNCHANGED <<requests, answer>>

ApplyCommit(x) ==
    /\ request[x].at = "apply" /\ request[x].todo = <<>>
    /\ Commits(x, shifts \o request[x].written)

\* A name that an apply has written and not committed is waited for.
NameHeld(name) == \E y \in UnderWay : request[y].at = "apply" /\
    \E i \in DOMAIN request[y].written : request[y].written[i].name = name

\* save(): the row is written as it was read and changed.
Save(x) ==
    /\ request[x].at = "save"
    /\ ~NameHeld(request[x].row.name)
    /\ LET i == request[x].shift
       IN  Commits(x, IF i = NewShift THEN Append(shifts, request[x].row)
                      ELSE [shifts EXCEPT ![i] = request[x].row])

----------------------------------------------------------------------------
(* A pass asks what a shift owes                                            *)

Never == -100
FIRST_RUN_LOOK_BACK_DAYS == 3
After(scored, now) == IF scored = Never THEN now - FIRST_RUN_LOOK_BACK_DAYS * DAY ELSE scored

\* scored_through may be any moment: ends of windows, the moment before a late
\* reading, the moment a shift was switched on again.
Owed(i) ==
    /\ Counted /\ requests < MaxScans
    /\ shifts[i].status = "active"
    /\ \E now \in 0 .. Horizon, scored \in (0 .. Horizon) \cup {Never} :
         LET all == WindowsEndingBetween(shifts[i].def, After(scored, now), now)
         IN  answer' = [told |-> TRUE, def |-> shifts[i].def, scored |-> scored, now |-> now,
                        windows |-> IF scored = Never THEN Newest(all)
                                    ELSE Oldest(all, LimitPerShift)]
    /\ UNCHANGED <<shifts, request, raced>>

Next == \/ \E x \in Sessions : \/ Create(x) \/ Apply(x) \/ ApplyNext(x) \/ ApplyCommit(x) \/ Save(x)
                               \/ \E i \in DOMAIN shifts : Update(x, i) \/ Retire(x, i) \/ Reinstate(x, i)
        \/ \E i \in DOMAIN shifts : Owed(i)

Spec == Init /\ [][Next]_vars

----------------------------------------------------------------------------
(* Properties                                                               *)

\* The hours of the week a shift runs in, said without intervals.
Hours(def) == {(d * DAY + def.start + k) % WEEK : d \in def.days, k \in 0 .. Length(def) - 1}

\* Two active shifts of a machine never share an hour of the week, also
\* across midnight and the end of the week, however they were written, as
\* long as nobody saved on a check that was out of date (assertNoOverlap).
ActiveShiftsApart ==
    raced \/ \A i, j \in DOMAIN shifts :
        (i # j /\ shifts[i].status = "active" /\ shifts[j].status = "active")
        => Hours(shifts[i].def) \cap Hours(shifts[j].def) = {}

\* The instances that end in the modelled time.
Dates == -6 .. Horizon \div DAY + 3
Instances(def) == {WindowFor(def, d) : d \in {e \in Dates : RunsOn(def, e)}}

\* The clock skips this hour and the one before it.
InTheGap(zone, wall) == zone.at + zone.base < wall /\ wall < zone.at + zone.base + zone.jump
BoundedByTheGap(def, date) ==
    \E wall \in {def.start, EndWall(def)} : InTheGap(def.zone, date * DAY + wall)

\* And so no reading is in the windows of two of them, on the days the clock
\* is changed as on any other, if they go by the same clock and neither begins
\* or ends in the middle of what the clock skips (zonedWallToUtc).
WindowsApart ==
    raced \/ \A i, j \in DOMAIN shifts :
        (i # j /\ shifts[i].status = "active" /\ shifts[j].status = "active"
               /\ shifts[i].def.zone = shifts[j].def.zone)
        => \A v \in Instances(shifts[i].def), w \in Instances(shifts[j].def) :
               \/ v.end <= w.start \/ w.end <= v.start
               \/ BoundedByTheGap(shifts[i].def, v.date) \/ BoundedByTheGap(shifts[j].def, w.date)

\* What a pass has to be told.
Due(a) ==
    LET all == {w \in Instances(a.def) : EndsIn(w, After(a.scored, a.now), a.now)}
    IN  IF a.scored = Never THEN Newest(all) ELSE Oldest(all, LimitPerShift)

\* A scan that begins before the clock is put forward, and at an hour of the
\* day so late that the same hour a day on is over midnight: its samples skip
\* a date.
StepsOverADate(a) ==
    LET after == After(a.scored, a.now)
        hour == (after + a.def.zone.base) % DAY
    IN  after - LookBack(a.def) * DAY < a.def.zone.at /\ hour + a.def.zone.jump >= DAY

\* A pass is told of every instance that ended since the last one it scored,
\* the oldest first, and of no other, wherever in the day it starts to look
\* and also over a change of the clock, but for StepsOverADate (owed,
\* windowsEndingBetween).
OwedIsDue == answer.told /\ ~StepsOverADate(answer) => answer.windows = Due(answer)

\* What windowsEndingBetween's comment says: every instance that finished is
\* returned exactly once.
EveryInstanceReturned == answer.told /\ answer.scored # Never => answer.windows = Due(answer)

\* Two applies of a template never collide: what the one is about to write is
\* not there, unless somebody who does not take the lock has written it
\* (applyTemplate).
AppliedOnce ==
    \A x \in UnderWay : request[x].at = "apply" /\ ~request[x].outdated =>
        \A i \in DOMAIN request[x].written, j \in DOMAIN shifts :
            request[x].written[i].name # shifts[j].name
================================================================================
