------------------------- MODULE ShiftHours_proofs -------------------------
(***************************************************************************)
(* What the requests that write a machine's shifts keep for any days,      *)
(* weeks, definitions, templates and requests: types, that two active      *)
(* shifts never share an hour of the week unless a save went by a check    *)
(* that was out of date, and that two applies of the template never        *)
(* collide; and what the arithmetic of clocks is right about, for any      *)
(* hours, zones and instants: the windows of such shifts never meet, and a *)
(* pass is told of every instance that ended.                              *)
(*                                                                         *)
(* The inductive invariant says of a request under way what it knows as    *)
(* long as nobody commits before it: that what it means to write may be    *)
(* written.  Hours are reached from intervals by HourCovered.              *)
(***************************************************************************)
EXTENDS ShiftHours, SequenceTheorems, TLAPS

\* Requests under way, as they are: what a save means to write, and what an apply of the
\* template found, has still to do and has written.
Saving == [at : {"save"}, shift : Nat, row : Row, outdated : BOOLEAN]
Applying == [at : {"apply"}, existing : Seq(Row), todo : Seq([name : Names, def : Definitions]),
             written : Seq(Row), outdated : BOOLEAN]

Named(rows) == \A i, j \in DOMAIN rows : rows[i].name = rows[j].name => i = j

Typed ==
    /\ shifts \in Seq(Row) /\ Named(shifts)
    /\ request \in [Sessions -> {Done} \cup Saving \cup Applying]
    /\ raced \in BOOLEAN

\* No two active rows overlap.
Apart(rows) ==
    \A i, j \in DOMAIN rows : (i # j /\ rows[i].status = "active" /\ rows[j].status = "active")
                                => ~ShiftsOverlap(rows[i].def, rows[j].def)

\* A save that is up to date may be written: it goes to a row that is there or to a new one,
\* and as an active row it overlaps no other.
SaveKeeps(r) ==
    r.at = "save" =>
        /\ r.shift \in 0 .. Len(shifts)
        /\ ~raced /\ ~r.outdated /\ r.row.status = "active" => ~Clashes(r.row.def, shifts, r.shift)

\* So may what an apply that is up to date has written, all of it together; and it has
\* names that were not there when it began.
ApplyKeeps(r) ==
    r.at = "apply" =>
        /\ ~r.outdated => r.existing = shifts
        /\ \A i \in DOMAIN r.written, j \in DOMAIN r.existing : r.written[i].name # r.existing[j].name
        /\ ~raced /\ ~r.outdated => Apart(shifts \o r.written)

\* The machine's row is locked by one apply at a time.
OneApply == \A x, y \in Sessions : request[x].at = "apply" /\ request[y].at = "apply" => x = y

HInv ==
    /\ Typed /\ OneApply
    /\ raced \/ Apart(shifts)
    /\ \A x \in Sessions : SaveKeeps(request[x]) /\ ApplyKeeps(request[x])

--------------------------------------------------------------------------------
(* Hours and intervals. *)

\* What validate() lets through lasts some of a day, and not all of it twice.
LEMMA LengthType ==
  ASSUME NEW def \in Definitions
  PROVE  /\ def.start \in 0 .. DAY - 1 /\ def.days \subseteq Weekdays
         /\ Length(def) \in 1 .. DAY
  BY ShiftHoursAssumption DEF Definition, Length, EndWall, IsOvernight

\* The remainder of what is counted less than one week too far.
LEMMA AroundOnce ==
  ASSUME NEW w \in Nat \ {0}, NEW y \in 0 .. 2 * w - 1
  PROVE  y % w = IF y < w THEN y ELSE y - w
  <1>1. CASE y \in 0 .. w - 1
    BY <1>1
  <1>2. CASE y \in w .. 2 * w - 1
    BY <1>2
  <1> QED
    BY <1>1, <1>2

\* The hours of a day of the week are hours of the week.
LEMMA DayInWeek ==
  ASSUME NEW n \in Nat \ {0}, NEW m \in Nat \ {0}, NEW d \in 0 .. m - 1, NEW s \in 0 .. n - 1
  PROVE  /\ d * n + s \in 0 .. m * n - 1
         /\ m * n \in Nat \ {0} /\ n <= m * n
  OBVIOUS

\* Every hour of a shift lies in one of the intervals the overlap check compares.
LEMMA HourCovered ==
  ASSUME NEW def \in Definitions, NEW h \in Hours(def)
  PROVE  h \in Nat /\ \E i \in WeeklyIntervals(def) : /\ i[1] \in Nat /\ i[2] \in Nat
                                                      /\ i[1] <= h /\ h < i[2]
  <1>1. PICK d \in def.days, k \in 0 .. Length(def) - 1 : h = (d * DAY + def.start + k) % WEEK
    BY DEF Hours
  <1> DEFINE from == d * DAY + def.start
             to == from + Length(def)
             pieces == IF to <= WEEK THEN {<<from, to>>} ELSE {<<from, WEEK>>, <<0, to - WEEK>>}
  <1>2. /\ DAY \in Nat \ {0} /\ Week \in Nat \ {0} /\ d \in 0 .. Week - 1
        /\ def.start \in 0 .. DAY - 1 /\ Length(def) \in 1 .. DAY
    BY LengthType, ShiftHoursAssumption DEF Weekdays
  <1>3. from \in 0 .. WEEK - 1 /\ WEEK \in Nat \ {0} /\ DAY <= WEEK
    BY <1>2, DayInWeek DEF WEEK
  <1>4. pieces \subseteq WeeklyIntervals(def)
    BY DEF WeeklyIntervals
  <1> HIDE DEF from
  <1>5. from + k \in 0 .. 2 * WEEK - 1
    BY <1>2, <1>3
  <1>6. h = IF from + k < WEEK THEN from + k ELSE from + k - WEEK
    BY <1>1, <1>3, <1>5, AroundOnce DEF from
  <1>7. to \in Nat /\ k < Length(def) /\ k \in Nat /\ h \in Nat
    BY <1>2, <1>3, <1>5, <1>6
  <1>8. CASE from + k < WEEK
    <2>1. PICK end \in {to, WEEK} : <<from, end>> \in pieces /\ from + k < end
      BY <1>2, <1>3, <1>7, <1>8
    <2> QED
      BY <1>3, <1>4, <1>6, <1>7, <1>8, <2>1
  <1>9. CASE ~(from + k < WEEK)
    <2>1. <<0, to - WEEK>> \in pieces /\ h < to - WEEK /\ to - WEEK \in Nat
      BY <1>2, <1>3, <1>6, <1>7, <1>9
    <2> QED
      BY <1>4, <1>7, <2>1
  <1> QED
    BY <1>8, <1>9

\* Shifts the overlap check lets by share no hour of the week.
LEMMA NoHourShared ==
  ASSUME NEW one \in Definitions, NEW other \in Definitions, ~ShiftsOverlap(one, other)
  PROVE  Hours(one) \cap Hours(other) = {}
  <1> SUFFICES ASSUME NEW h \in Hours(one), h \in Hours(other) PROVE FALSE
    OBVIOUS
  <1>1. PICK i \in WeeklyIntervals(one) : i[1] \in Nat /\ i[2] \in Nat /\ i[1] <= h /\ h < i[2]
    BY HourCovered
  <1>2. PICK j \in WeeklyIntervals(other) : j[1] \in Nat /\ j[2] \in Nat /\ j[1] <= h /\ h < j[2]
    BY HourCovered
  <1>3. h \in Nat
    BY HourCovered
  <1>4. i[1] < j[2] /\ j[1] < i[2]
    BY <1>1, <1>2, <1>3
  <1> QED
    BY <1>4 DEF ShiftsOverlap

\* It does not matter which of two shifts is compared with which.
LEMMA OverlapEitherWay ==
  ASSUME NEW one, NEW other
  PROVE  ShiftsOverlap(one, other) <=> ShiftsOverlap(other, one)
  BY DEF ShiftsOverlap

--------------------------------------------------------------------------------
(* Rows written. *)

\* A row more that overlaps none leaves the rows apart.
LEMMA OneMoreApart ==
  ASSUME NEW rows \in Seq(Row), NEW row \in Row, Apart(rows),
         row.status = "active" => ~Clashes(row.def, rows, NewShift)
  PROVE  Apart(Append(rows, row))
  <1> DEFINE n == Len(rows)
             all == Append(rows, row)
  <1>1. /\ n \in Nat /\ DOMAIN rows = 1 .. n /\ DOMAIN all = 1 .. n + 1
        /\ all[n + 1] = row /\ \A i \in 1 .. n : all[i] = rows[i]
    OBVIOUS
  <1> HIDE DEF all
  <1> SUFFICES ASSUME NEW i \in 1 .. n + 1, NEW j \in 1 .. n + 1, i # j,
                      all[i].status = "active", all[j].status = "active"
               PROVE  ~ShiftsOverlap(all[i].def, all[j].def)
    BY <1>1 DEF Apart, all
  <1>2. row.status = "active" =>
          \A k \in 1 .. n : rows[k].status = "active" => ~ShiftsOverlap(row.def, rows[k].def)
    BY <1>1 DEF Clashes, NewShift
  <1>3. CASE i = n + 1
    BY <1>1, <1>2, <1>3
  <1>4. CASE j = n + 1
    BY <1>1, <1>2, <1>4, OverlapEitherWay
  <1>5. CASE i \in 1 .. n /\ j \in 1 .. n
    BY <1>1, <1>5 DEF Apart
  <1> QED
    BY <1>1, <1>3, <1>4, <1>5

\* So does a row written in another's place that overlaps none of the rest.
LEMMA OneChangedApart ==
  ASSUME NEW rows \in Seq(Row), NEW row \in Row, NEW k \in DOMAIN rows, Apart(rows),
         row.status = "active" => ~Clashes(row.def, rows, k)
  PROVE  Apart([rows EXCEPT ![k] = row])
  <1> DEFINE all == [rows EXCEPT ![k] = row]
  <1>1. DOMAIN all = DOMAIN rows /\ all[k] = row /\ \A i \in DOMAIN rows \ {k} : all[i] = rows[i]
    OBVIOUS
  <1> HIDE DEF all
  <1> SUFFICES ASSUME NEW i \in DOMAIN rows, NEW j \in DOMAIN rows, i # j,
                      all[i].status = "active", all[j].status = "active"
               PROVE  ~ShiftsOverlap(all[i].def, all[j].def)
    BY <1>1 DEF Apart, all
  <1>2. row.status = "active" =>
          \A m \in DOMAIN rows \ {k} : rows[m].status = "active" => ~ShiftsOverlap(row.def, rows[m].def)
    BY DEF Clashes
  <1>3. CASE i = k
    BY <1>1, <1>2, <1>3
  <1>4. CASE j = k
    BY <1>1, <1>2, <1>4, OverlapEitherWay
  <1>5. CASE i # k /\ j # k
    BY <1>1, <1>5 DEF Apart
  <1> QED
    BY <1>3, <1>4, <1>5

--------------------------------------------------------------------------------
(* Steps. *)

Requests == {Done} \cup Saving \cup Applying

\* One request moves on and nobody commits.
LEMMA OneMoves ==
  ASSUME HInv, UNCHANGED <<shifts, raced>>, NEW x \in Sessions, NEW r \in Requests,
         request' = [request EXCEPT ![x] = r], SaveKeeps(r), ApplyKeeps(r),
         r.at = "apply" => \A y \in Sessions \ {x} : request[y].at # "apply"
  PROVE  HInv'
  <1>1. request \in [Sessions -> Requests]
    BY DEF HInv, Typed, Requests
  <1>2. request'[x] = r /\ \A y \in Sessions \ {x} : request'[y] = request[y]
    BY <1>1
  <1>3. Typed'
    BY <1>1 DEF HInv, Typed, Requests
  <1>4. OneApply'
    BY <1>2 DEF HInv, OneApply
  <1>5. raced' \/ Apart(shifts)'
    BY DEF HInv
  <1>6. ASSUME NEW y \in Sessions PROVE SaveKeeps(request[y])' /\ ApplyKeeps(request[y])'
    <2>1. CASE y = x
      BY <1>2, <2>1 DEF SaveKeeps, ApplyKeeps
    <2>2. CASE y # x
      BY <1>2, <2>2 DEF HInv, SaveKeeps, ApplyKeeps
    <2> QED
      BY <2>1, <2>2
  <1> QED
    BY <1>3, <1>4, <1>5, <1>6 DEF HInv

\* A request that is over, refused or without an effect, keeps everything.
LEMMA OverSafe ==
  ASSUME HInv, UNCHANGED <<shifts, raced>>, NEW x \in Sessions, Refused(x)
  PROVE  HInv'
  <1>1. Done \in Requests /\ Done.at = "idle"
    BY DEF Requests, Done
  <1> QED
    BY <1>1, OneMoves DEF Refused, SaveKeeps, ApplyKeeps

\* A request whose check found no overlap means to write a row that may be written.
LEMMA PassesSafe ==
  ASSUME HInv, NEW x \in Sessions, NEW i \in 0 .. Len(shifts), NEW row \in Row, Passes(x, i, row),
         ~raced /\ row.status = "active" => ~Clashes(row.def, shifts, i)
  PROVE  HInv'
  <1> DEFINE r == [at |-> "save", shift |-> i, row |-> row, outdated |-> FALSE]
  <1>1. r \in Requests /\ r.at = "save" /\ r.shift = i /\ r.row = row
    BY DEF Requests, Saving
  <1>2. request' = [request EXCEPT ![x] = r] /\ UNCHANGED <<shifts, raced>>
    BY DEF Passes
  <1> HIDE DEF r
  <1> QED
    BY <1>1, <1>2, OneMoves DEF SaveKeeps, ApplyKeeps

\* create, update, setStatus: the four checks before a save.
LEMMA CheckedSafe ==
  ASSUME HInv, NEW x \in Sessions,
         Create(x) \/ \E i \in DOMAIN shifts : Update(x, i) \/ Retire(x, i) \/ Reinstate(x, i)
  PROVE  HInv'
  <1>1. /\ shifts \in Seq(Row) /\ Len(shifts) \in Nat /\ DOMAIN shifts = 1 .. Len(shifts)
        /\ \A i \in DOMAIN shifts : shifts[i] \in Row
    BY DEF HInv, Typed
  <1>2. CASE Create(x)
    <2>1. PICK name \in Names, def \in Definitions :
            ~Clashes(def, shifts, NewShift) /\ Passes(x, NewShift, NewRow(name, def))
      BY <1>2 DEF Create
    <2>2. NewRow(name, def) \in Row /\ NewRow(name, def).def = def
      BY DEF NewRow, Row
    <2>3. NewShift \in 0 .. Len(shifts)
      BY <1>1 DEF NewShift
    <2> QED
      BY <2>1, <2>2, <2>3, PassesSafe
  <1>3. ASSUME NEW i \in DOMAIN shifts, Update(x, i) PROVE HInv'
    <2>1. PICK name \in Names, def \in Definitions :
            /\ ~Clashes(def, shifts, i)
            /\ Passes(x, i, [shifts[i] EXCEPT !.name = name, !.def = def])
      BY <1>3 DEF Update
    <2>2. i \in 0 .. Len(shifts) /\ shifts[i] \in Row
      BY <1>1
    <2>3. PICK row \in Row : row = [shifts[i] EXCEPT !.name = name, !.def = def]
      BY <2>2 DEF Row
    <2>4. row.def = def
      BY <2>2, <2>3 DEF Row
    <2> QED
      BY <2>1, <2>2, <2>3, <2>4, PassesSafe
  <1>4. ASSUME NEW i \in DOMAIN shifts, Retire(x, i) PROVE HInv'
    <2>1. i \in 0 .. Len(shifts) /\ shifts[i] \in Row
      BY <1>1
    <2>2. PICK row \in Row : row = [shifts[i] EXCEPT !.status = "retired"]
      BY <2>1 DEF Row
    <2>3. row.status = "retired"
      BY <2>1, <2>2 DEF Row
    <2> QED
      BY <1>4, <2>1, <2>2, <2>3, PassesSafe DEF Retire
  <1>5. ASSUME NEW i \in DOMAIN shifts, Reinstate(x, i) PROVE HInv'
    <2>1. i \in 0 .. Len(shifts) /\ shifts[i] \in Row
      BY <1>1
    <2>2. PICK row \in Row : row = [shifts[i] EXCEPT !.status = "active"]
      BY <2>1 DEF Row
    <2>3. row.def = shifts[i].def
      BY <2>1, <2>2 DEF Row
    <2>4. ~raced => ~Clashes(row.def, shifts, i)
      <3>1. CASE shifts[i].status = "active"
        BY <2>3, <3>1 DEF HInv, Apart, Clashes
      <3>2. CASE ~Clashes(shifts[i].def, shifts, i)
        BY <2>3, <3>2
      <3> QED
        BY <1>5, <3>1, <3>2 DEF Reinstate, MayComeBack
    <2> QED
      BY <1>5, <2>1, <2>2, <2>4, PassesSafe DEF Reinstate
  <1> QED
    BY <1>2, <1>3, <1>4, <1>5

\* An apply that begins sees what is there, and is the only one.
LEMMA ApplySafe ==
  ASSUME HInv, NEW x \in Sessions, Apply(x)
  PROVE  HInv'
  <1> DEFINE r == [at |-> "apply", existing |-> shifts, todo |-> Template, written |-> <<>>,
                   outdated |-> FALSE]
  <1>1. shifts \in Seq(Row) /\ <<>> \in Seq(Row) /\ Template \in Seq([name : Names, def : Definitions])
    BY ShiftHoursAssumption DEF HInv, Typed
  <1>2. r \in Requests
    BY <1>1 DEF Requests, Applying
  <1>3. /\ r.at = "apply" /\ r.existing = shifts /\ r.written = <<>> /\ ~r.outdated
        /\ shifts \o r.written = shifts
    BY <1>1, ConcatEmptySeq
  <1>4. request' = [request EXCEPT ![x] = r] /\ UNCHANGED <<shifts, raced>>
    BY DEF Apply
  <1>5. \A y \in Sessions \ {x} : request[y].at # "apply"
    BY DEF Apply, Locked, UnderWay, Done
  <1> HIDE DEF r
  <1>6. SaveKeeps(r) /\ ApplyKeeps(r)
    BY <1>1, <1>3 DEF SaveKeeps, ApplyKeeps, HInv
  <1> QED
    BY <1>2, <1>4, <1>5, <1>6, OneMoves

\* An apply that goes on with the template writes what is not there and overlaps nothing.
LEMMA ApplyNextSafe ==
  ASSUME HInv, NEW x \in Sessions, ApplyNext(x)
  PROVE  HInv'
  <1> DEFINE r == request[x]
             next == Head(r.todo)
             skipped == [r EXCEPT !.todo = Tail(@)]
             new == NewRow(next.name, next.def)
             more == [skipped EXCEPT !.written = Append(@, new)]
  <1>1. r \in Applying /\ r.todo # <<>> /\ UNCHANGED <<shifts, raced>>
    BY DEF ApplyNext, HInv, Typed, Saving, Done
  <1>2. /\ r.at = "apply" /\ r.existing \in Seq(Row) /\ r.written \in Seq(Row)
        /\ r.todo \in Seq([name : Names, def : Definitions]) /\ shifts \in Seq(Row)
    BY <1>1 DEF Applying, HInv, Typed
  <1>3. next \in [name : Names, def : Definitions] /\ Tail(r.todo) \in Seq([name : Names, def : Definitions])
    BY <1>1, <1>2, HeadTailProperties
  <1>4. \A y \in Sessions \ {x} : request[y].at # "apply"
    BY <1>2 DEF HInv, OneApply
  <1>5. SaveKeeps(r) /\ ApplyKeeps(r)
    BY DEF HInv
  <1>6. new \in Row /\ new.name = next.name /\ new.def = next.def
    BY <1>3 DEF NewRow, Row
  <1> HIDE DEF r, next, new
  <1>7. /\ skipped \in Applying /\ skipped.at = "apply" /\ skipped.existing = r.existing
        /\ skipped.written = r.written /\ skipped.outdated = r.outdated
    BY <1>1, <1>3 DEF Applying
  <1>8. /\ more \in Applying /\ more.at = "apply" /\ more.existing = r.existing
        /\ more.written = Append(r.written, new) /\ more.outdated = r.outdated
    <2>1. Append(r.written, new) \in Seq(Row)
      BY <1>2, <1>6
    <2> QED
      BY <1>1, <1>3, <2>1 DEF Applying
  <1> HIDE DEF skipped, more
  <1>9. CASE request' = [request EXCEPT ![x] = skipped]
    <2>1. SaveKeeps(skipped) /\ ApplyKeeps(skipped)
      BY <1>2, <1>5, <1>7 DEF SaveKeeps, ApplyKeeps
    <2> QED
      BY <1>1, <1>4, <1>7, <1>9, <2>1, OneMoves DEF Requests
  <1>10. CASE Refused(x)
    BY <1>1, <1>10, OverSafe
  <1>11. CASE /\ request' = [request EXCEPT ![x] = more]
              /\ {i \in DOMAIN r.existing : r.existing[i].name = next.name} = {}
              /\ ~Clashes(next.def, shifts \o r.written, NewShift)
    <2>1. \A i \in DOMAIN more.written, j \in DOMAIN r.existing :
            more.written[i].name # r.existing[j].name
      <3>1. \A i \in DOMAIN more.written : more.written[i] = new \/
                (i \in DOMAIN r.written /\ more.written[i] = r.written[i])
        BY <1>2, <1>6, <1>8
      <3> QED
        BY <1>2, <1>5, <1>6, <1>11, <3>1 DEF ApplyKeeps
    <2>2. shifts \o more.written = Append(shifts \o r.written, new)
      BY <1>2, <1>6, <1>8
    <2>3. ~raced /\ ~r.outdated => Apart(shifts \o more.written)
      <3>1. shifts \o r.written \in Seq(Row)
        BY <1>2, ConcatProperties
      <3> QED
        BY <1>2, <1>5, <1>6, <1>11, <2>2, <3>1, OneMoreApart DEF ApplyKeeps
    <2>4. SaveKeeps(more) /\ ApplyKeeps(more)
      BY <1>2, <1>5, <1>8, <2>1, <2>3 DEF SaveKeeps, ApplyKeeps
    <2> QED
      BY <1>1, <1>4, <1>8, <1>11, <2>4, OneMoves DEF Requests
  <1> QED
    BY <1>9, <1>10, <1>11 DEF ApplyNext, r, next, skipped, new, more

\* Who was under way when somebody commits is out of date; its record is otherwise the same.
LEMMA OutdatedRecord ==
  ASSUME NEW r \in Saving \cup Applying
  PROVE  LET o == [r EXCEPT !.outdated = TRUE] IN
         /\ o \in Saving \cup Applying /\ o.at = r.at /\ o.outdated
         /\ r.at = "save" => o.shift = r.shift
         /\ r.at = "apply" => o.written = r.written /\ o.existing = r.existing
  BY DEF Saving, Applying

\* A commit of rows that are apart, or its refusal.
LEMMA CommitSafe ==
  ASSUME HInv, NEW x \in Sessions, request[x] \in Saving \cup Applying,
         NEW rows \in Seq(Row), Len(shifts) <= Len(rows), Commits(x, rows),
         ~raced /\ ~request[x].outdated => Apart(rows)
  PROVE  HInv'
  <1>1. CASE UNCHANGED <<shifts, raced>> /\ Refused(x)
    BY <1>1, OverSafe
  <1>2. CASE Named(rows) /\ shifts' = rows /\ raced' = (raced \/ request[x].outdated) /\ Outdates(x)
    <2>1. request \in [Sessions -> Requests] /\ request[x].outdated \in BOOLEAN /\ raced \in BOOLEAN
          /\ shifts \in Seq(Row)
      BY DEF HInv, Typed, Requests, Saving, Applying
    <2>2. raced' \in BOOLEAN /\ (raced' \/ Apart(rows))
      BY <1>2, <2>1
    <2>3. ASSUME NEW y \in Sessions
          PROVE  LET r == request[y]  q == request'[y] IN
                 \/ q = Done
                 \/ /\ r \in Saving \cup Applying /\ q \in Saving \cup Applying
                    /\ q.at = r.at /\ q.outdated
                    /\ r.at = "save" => q.shift = r.shift
                    /\ r.at = "apply" => q.written = r.written /\ q.existing = r.existing
      <3>1. CASE y = x
        BY <1>2, <3>1 DEF Outdates
      <3>2. CASE y # x /\ request[y] = Done
        BY <1>2, <3>2 DEF Outdates
      <3>3. CASE y # x /\ request[y] # Done
        <4>1. ~(request[x].at = "apply" /\ request[y].at = "apply")
          BY <3>3 DEF HInv, OneApply
        <4>2. request[y] \in Saving \cup Applying
          BY <2>1, <3>3 DEF Requests
        <4>3. request'[y] = [request[y] EXCEPT !.outdated = TRUE]
          BY <1>2, <3>3, <4>1 DEF Outdates
        <4> QED
          BY <4>2, <4>3, OutdatedRecord
      <3> QED
        BY <3>1, <3>2, <3>3
    <2>4. Done.at = "idle"
      BY DEF Done
    <2>5. Typed'
      <3>1. request' \in [Sessions -> Requests]
        BY <1>2, <2>3 DEF Outdates, Requests
      <3> QED
        BY <1>2, <2>2, <3>1 DEF Typed, Named, Requests
    <2>6. OneApply'
      BY <2>3, <2>4 DEF HInv, OneApply
    <2>7. ASSUME NEW y \in Sessions PROVE SaveKeeps(request[y])' /\ ApplyKeeps(request[y])'
      <3>1. SaveKeeps(request[y]) /\ ApplyKeeps(request[y])
        BY DEF HInv
      <3>2. CASE request'[y] = Done
        BY <2>4, <3>2 DEF SaveKeeps, ApplyKeeps
      <3>3. CASE request'[y] # Done
        <4>1. /\ request'[y].at = request[y].at /\ request'[y].outdated
              /\ request[y].at = "save" => request'[y].shift = request[y].shift
              /\ request[y].at = "apply" => /\ request'[y].written = request[y].written
                                            /\ request'[y].existing = request[y].existing
          BY <2>3, <3>3
        <4>2. SaveKeeps(request[y])'
          <5> SUFFICES ASSUME request[y].at = "save" PROVE request[y].shift \in 0 .. Len(rows)
            BY <1>2, <4>1 DEF SaveKeeps
          <5>1. request[y].shift \in 0 .. Len(shifts)
            BY <3>1 DEF SaveKeeps
          <5>2. Len(shifts) \in Nat /\ Len(rows) \in Nat
            BY <2>1
          <5> QED
            BY <5>1, <5>2
        <4>3. ApplyKeeps(request[y])'
          BY <3>1, <4>1 DEF ApplyKeeps
        <4> QED
          BY <4>2, <4>3
      <3> QED
        BY <3>2, <3>3
    <2> QED
      BY <1>2, <2>2, <2>5, <2>6, <2>7 DEF HInv
  <1> QED
    BY <1>1, <1>2 DEF Commits, Named

\* The commit of an apply.
LEMMA ApplyCommitSafe ==
  ASSUME HInv, NEW x \in Sessions, ApplyCommit(x)
  PROVE  HInv'
  <1> DEFINE r == request[x]
             rows == shifts \o r.written
  <1>1. r \in Applying /\ r.at = "apply" /\ Commits(x, rows) /\ ApplyKeeps(r)
    BY DEF ApplyCommit, HInv, Typed, Saving, Done
  <1>2. rows \in Seq(Row) /\ Len(shifts) <= Len(rows)
    <2>1. shifts \in Seq(Row) /\ r.written \in Seq(Row)
      BY <1>1 DEF HInv, Typed, Applying
    <2>2. Len(shifts) \in Nat /\ Len(r.written) \in Nat
      BY <2>1
    <2> QED
      BY <2>1, <2>2, ConcatProperties
  <1>3. ~raced /\ ~r.outdated => Apart(rows)
    BY <1>1 DEF ApplyKeeps
  <1> QED
    BY <1>1, <1>2, <1>3, CommitSafe

\* A save, to a new row or to the one it read.
LEMMA SaveSafe ==
  ASSUME HInv, NEW x \in Sessions, Save(x)
  PROVE  HInv'
  <1> DEFINE r == request[x]
  <1>1. r \in Saving /\ r.at = "save" /\ SaveKeeps(r)
    BY DEF Save, HInv, Typed, Applying, Done
  <1>2. /\ r.row \in Row /\ r.shift \in 0 .. Len(shifts) /\ shifts \in Seq(Row)
        /\ Len(shifts) \in Nat /\ DOMAIN shifts = 1 .. Len(shifts)
    BY <1>1 DEF Saving, SaveKeeps, HInv, Typed
  <1>3. CASE r.shift = NewShift
    <2>1. PICK rows : rows = Append(shifts, r.row)
      OBVIOUS
    <2>2. Commits(x, rows)
      BY <1>3, <2>1 DEF Save
    <2>3. rows \in Seq(Row) /\ Len(shifts) <= Len(rows)
      BY <1>2, <2>1
    <2>4. ~raced /\ ~r.outdated => Apart(rows)
      BY <1>1, <1>2, <1>3, <2>1, OneMoreApart DEF SaveKeeps, HInv
    <2> QED
      BY <1>1, <2>2, <2>3, <2>4, CommitSafe
  <1>4. CASE r.shift # NewShift
    <2>1. PICK rows : rows = [shifts EXCEPT ![r.shift] = r.row]
      OBVIOUS
    <2>2. Commits(x, rows)
      BY <1>4, <2>1 DEF Save
    <2>3. r.shift \in 1 .. Len(shifts)
      BY <1>2, <1>4 DEF NewShift
    <2>4. rows \in Seq(Row) /\ Len(shifts) <= Len(rows)
      BY <1>2, <2>1, <2>3, ExceptSeq
    <2>5. ~raced /\ ~r.outdated => Apart(rows)
      BY <1>1, <1>2, <2>1, <2>3, OneChangedApart DEF SaveKeeps, HInv
    <2> QED
      BY <1>1, <2>2, <2>4, <2>5, CommitSafe
  <1> QED
    BY <1>3, <1>4

--------------------------------------------------------------------------------
(* Clocks and windows: the instant of a wall in closed form. *)

\* No clock is a day or more from UTC, and none is changed by a day or more.
OrdinaryClock(zone) ==
    /\ -DAY < zone.base /\ zone.base < DAY
    /\ -DAY < zone.base + zone.jump /\ zone.base + zone.jump < DAY
    /\ -DAY < zone.jump /\ zone.jump < DAY

OrdinaryClocks == \A def \in Definitions : OrdinaryClock(def.zone)

\* A multiple that is less than the number either way is none of it.
LEMMA NoMultiple ==
  ASSUME NEW n \in Nat \ {0}, NEW k \in Int, -n < k * n, k * n < n
  PROVE  k = 0
  <1>1. CASE k >= 1
    <2>1. k * n >= n
      BY <1>1
    <2> QED
      BY <2>1
  <1>2. CASE k <= -1
    <2>1. k * n <= -n
      BY <1>2
    <2> QED
      BY <2>1
  <1> QED
    BY <1>1, <1>2

\* Division leaves a remainder.
LEMMA Divided ==
  ASSUME NEW n \in Nat \ {0}, NEW x \in Int
  PROVE  /\ x \div n \in Int /\ x % n \in 0 .. n - 1
         /\ x = (x \div n) * n + (x % n)
  OBVIOUS

\* And only one.
LEMMA DividedOnce ==
  ASSUME NEW n \in Nat \ {0}, NEW q \in Int, NEW r \in 0 .. n - 1
  PROVE  (q * n + r) \div n = q /\ (q * n + r) % n = r
  <1> DEFINE x == q * n + r
             p == x \div n
             s == x % n
  <1>1. x \in Int /\ q * n \in Int
    OBVIOUS
  <1>2. p \in Int /\ s \in 0 .. n - 1 /\ x = p * n + s
    BY <1>1, Divided
  <1> HIDE DEF p, s
  <1>3. (q - p) * n = q * n - p * n /\ p * n \in Int
    BY <1>2
  <1>4. (q - p) * n = s - r
    BY <1>1, <1>2, <1>3
  <1>5. q - p = 0
    BY <1>2, <1>4, NoMultiple
  <1>6. q = p /\ s = r
    BY <1>2, <1>4, <1>5
  <1> QED
    BY <1>6 DEF p, s

\* A number of whole days changes nothing in what the clock reads; less than a day does.
LEMMA SameHour ==
  ASSUME NEW n \in Nat \ {0}, NEW d \in Int, NEW w \in Int, NEW e \in Int, -n < e, e < n
  PROVE  (d * n + w + e) % n = w % n <=> e = 0
  <1> DEFINE p == w \div n
             s == w % n
             x == d * n + w + e
             q == x \div n
             r == x % n
  <1>1. p \in Int /\ s \in 0 .. n - 1 /\ w = p * n + s /\ d * n \in Int /\ x \in Int
    BY Divided
  <1>2. q \in Int /\ r \in 0 .. n - 1 /\ x = q * n + r
    BY <1>1, Divided
  <1> HIDE DEF p, s, q, r
  <1>3. (d + p) * n = d * n + p * n /\ (q - d - p) * n = q * n - d * n - p * n /\ p * n \in Int /\ q * n \in Int
    BY <1>1, <1>2
  <1>4. CASE e = 0
    <2>1. x = (d + p) * n + s
      BY <1>1, <1>3, <1>4
    <2>2. r = s
      BY <1>1, <2>1, DividedOnce DEF r
    <2> QED
      BY <1>4, <2>2 DEF r, s
  <1>5. CASE r = s
    <2>1. (q - d - p) * n = e
      BY <1>1, <1>2, <1>3, <1>5
    <2>2. q - d - p = 0
      BY <1>1, <1>2, <2>1, NoMultiple
    <2> QED
      BY <1>3, <1>5, <2>1, <2>2 DEF r, s
  <1> QED
    BY <1>4, <1>5 DEF r, s

\* The least and the greatest of a set are what they should be.
LEMMA LeastIs ==
  ASSUME NEW S \in SUBSET Int, NEW x \in S, \A y \in S : x <= y
  PROVE  Min(S) = x
  <1>1. Min(S) \in S /\ \A y \in S : Min(S) <= y
    BY Zenon DEF Min
  <1>2. PICK m \in S : m = Min(S)
    BY <1>1
  <1>3. m \in Int /\ x \in Int /\ x <= m /\ m <= x
    BY <1>1, <1>2
  <1> QED
    BY <1>2, <1>3

LEMMA GreatestIs ==
  ASSUME NEW S \in SUBSET Int, NEW x \in S, \A y \in S : x >= y
  PROVE  Max(S) = x
  <1>1. Max(S) \in S /\ \A y \in S : Max(S) >= y
    BY Zenon DEF Max
  <1>2. PICK m \in S : m = Max(S)
    BY <1>1
  <1>3. m \in Int /\ x \in Int /\ x >= m /\ m >= x
    BY <1>1, <1>2
  <1> QED
    BY <1>2, <1>3

\* The instant at which a clock reads what is n hours from the midnight of day 0.
Instant(zone, n) ==
    LET t == n - zone.base
    IN  IF t < zone.at \/ t < zone.at + zone.jump THEN t ELSE t - zone.jump

\* A guess made with an offset reads as asked for if that offset is in force there.
LEMMA GuessReads ==
  ASSUME NEW zone \in Zone, OrdinaryClock(zone), NEW date \in Int, NEW wall \in Int,
         NEW off \in {zone.base, zone.base + zone.jump}
  PROVE  LET t == (date * DAY + wall) - off
         IN  ReadsAs(zone, t, wall % DAY) <=> Offset(zone, t) = off
  <1> DEFINE t == (date * DAY + wall) - off
             e == Offset(zone, t) - off
  <1>1. DAY \in Nat \ {0} /\ zone.base \in Int /\ zone.jump \in Int /\ zone.at \in Int /\ date * DAY \in Int
    BY ShiftHoursAssumption DEF Zone
  <1>2. Offset(zone, t) \in {zone.base, zone.base + zone.jump} /\ off \in Int
    BY <1>1 DEF Offset
  <1>3. e \in Int /\ -DAY < e /\ e < DAY /\ (Offset(zone, t) = off <=> e = 0)
    BY <1>1, <1>2 DEF OrdinaryClock
  <1>4. Local(zone, t) = date * DAY + wall + e
    BY <1>1, <1>2 DEF Local
  <1> HIDE DEF t, e
  <1>5. (date * DAY + wall + e) % DAY = wall % DAY <=> e = 0
    BY <1>1, <1>3, SameHour
  <1>6. Local(zone, t) % DAY = wall % DAY <=> e = 0
    BY <1>4, <1>5
  <1>7. ReadsAs(zone, t, wall % DAY) <=> Offset(zone, t) = off
    BY <1>3, <1>6 DEF ReadsAs
  <1> QED
    BY <1>7 DEF t

\* The two guesses and the choice between them come to that.
LEMMA WallIsInstant ==
  ASSUME NEW zone \in Zone, OrdinaryClock(zone), NEW date \in Int, NEW wall \in Int
  PROVE  ZonedWallToUtc(zone, date, wall) = Instant(zone, date * DAY + wall)
  <1> DEFINE n == date * DAY + wall
             one == n - Offset(zone, n - DAY)
             two == n - Offset(zone, n + DAY)
             valid == {t \in {one, two} : ReadsAs(zone, t, wall % DAY)}
             b == zone.base
             j == zone.jump
             a == zone.at
  <1>1. DAY \in Nat \ {0} /\ b \in Int /\ j \in Int /\ a \in Int
    BY ShiftHoursAssumption DEF Zone
  <1>2. n \in Int
    BY <1>1
  <1>3. ZonedWallToUtc(zone, date, wall) = IF valid # {} THEN Min(valid) ELSE Max({one, two})
    BY DEF ZonedWallToUtc
  <1>4. -DAY < b /\ b < DAY /\ -DAY < b + j /\ b + j < DAY
    BY DEF OrdinaryClock
  <1>5. ASSUME NEW off \in {zone.base, zone.base + zone.jump}
        PROVE  ReadsAs(zone, n - off, wall % DAY) <=> Offset(zone, n - off) = off
    BY GuessReads
  <1>6. Instant(zone, n) = IF n - b < a \/ n - b < a + j THEN n - b ELSE n - b - j
    BY DEF Instant
  <1> SUFFICES (IF valid # {} THEN Min(valid) ELSE Max({one, two})) = Instant(zone, n)
    BY <1>3
  <1> HIDE DEF n
  <1>7. CASE n - DAY >= a
    <2>1. one = n - (b + j) /\ two = one
      BY <1>1, <1>2, <1>7 DEF Offset
    <2>2. Offset(zone, n - (b + j)) = b + j /\ Instant(zone, n) = n - (b + j)
      BY <1>1, <1>2, <1>4, <1>6, <1>7 DEF Offset
    <2>3. valid = {n - (b + j)} /\ n - (b + j) \in Int
      BY <1>1, <1>2, <1>5, <2>1, <2>2
    <2> HIDE DEF valid
    <2> QED
      BY <2>2, <2>3, LeastIs
  <1>8. CASE n + DAY < a
    <2>1. one = n - b /\ two = one
      BY <1>1, <1>2, <1>8 DEF Offset
    <2>2. Offset(zone, n - b) = b /\ Instant(zone, n) = n - b
      BY <1>1, <1>2, <1>4, <1>6, <1>8 DEF Offset
    <2>3. valid = {n - b} /\ n - b \in Int
      BY <1>1, <1>2, <1>5, <2>1, <2>2
    <2> HIDE DEF valid
    <2> QED
      BY <2>2, <2>3, LeastIs
  <1>9. CASE n - DAY < a /\ a <= n + DAY
    <2>1. one = n - b /\ two = n - (b + j)
      BY <1>1, <1>2, <1>9 DEF Offset
    <2>2. Offset(zone, n - b) = b <=> n - b < a \/ j = 0
      BY <1>1, <1>2 DEF Offset
    <2>3. Offset(zone, n - (b + j)) = b + j <=> n - (b + j) >= a \/ j = 0
      BY <1>1, <1>2 DEF Offset
    <2>4. /\ valid \in SUBSET {one, two}
          /\ one \in valid <=> (one < a \/ j = 0)
          /\ two \in valid <=> (two >= a \/ j = 0)
      BY <1>5, <2>1, <2>2, <2>3
    <2>5. one \in Int /\ two \in Int /\ two = one - j
      BY <1>1, <1>2, <2>1
    <2>6. Instant(zone, n) = IF one < a \/ one < a + j THEN one ELSE two
      BY <1>1, <1>2, <1>6, <2>1
    <2> HIDE DEF one, two, valid, a, j
    <2>7. CASE one < a
      <3>1. one \in valid /\ valid \in SUBSET Int /\ \A y \in valid : one <= y
        BY <1>1, <2>4, <2>5, <2>7
      <3> QED
        BY <2>6, <2>7, <3>1, LeastIs
    <2>8. CASE one >= a /\ one < a + j
      <3>1. valid = {} /\ {one, two} \in SUBSET Int /\ \A y \in {one, two} : one >= y
        BY <1>1, <2>4, <2>5, <2>8
      <3>2. Max({one, two}) = one
        BY <3>1, GreatestIs
      <3> QED
        BY <2>6, <2>8, <3>1, <3>2
    <2>9. CASE one >= a /\ one >= a + j
      <3>1. two \in valid /\ valid \in SUBSET Int /\ \A y \in valid : two <= y
        BY <1>1, <2>4, <2>5, <2>9
      <3>2. ~(one < a \/ one < a + j)
        BY <1>1, <2>5, <2>9
      <3> QED
        BY <2>6, <3>1, <3>2, LeastIs
    <2> QED
      BY <1>1, <2>5, <2>7, <2>8, <2>9
  <1> QED
    BY <1>1, <1>2, <1>7, <1>8, <1>9

\* What validate() lets through, in walls.
LEMMA WallType ==
  ASSUME NEW def \in Definitions
  PROVE  /\ DAY \in Nat \ {0} /\ def.zone \in Zone
         /\ def.start \in 0 .. DAY - 1 /\ EndWall(def) \in 1 .. 2 * DAY - 1
         /\ EndWall(def) = def.start + Length(def) /\ Length(def) \in 1 .. DAY
         /\ EndWall(def) > DAY => IsOvernight(def)
  <1>1. /\ def.zone \in Zone /\ def.start \in 0 .. DAY - 1 /\ def.end \in 1 .. DAY /\ DAY \in Nat \ {0}
    BY ShiftHoursAssumption DEF Definition
  <1>2. EndWall(def) = IF def.end <= def.start THEN def.end + DAY ELSE def.end
    BY DEF EndWall, IsOvernight
  <1> QED
    BY <1>1, <1>2 DEF Length, IsOvernight

\* A window as instants of its walls.
LEMMA WindowIsInstants ==
  ASSUME NEW def \in Definitions, OrdinaryClocks, NEW d \in Int
  PROVE  /\ OrdinaryClock(def.zone) /\ d * DAY \in Int
         /\ WindowFor(def, d).start = Instant(def.zone, d * DAY + def.start)
         /\ WindowFor(def, d).end = Instant(def.zone, d * DAY + EndWall(def))
         /\ WindowFor(def, d).date = d
  <1>1. DAY \in Nat \ {0} /\ def.zone \in Zone /\ def.start \in Int /\ EndWall(def) \in Int
    BY WallType
  <1>2. OrdinaryClock(def.zone)
    BY DEF OrdinaryClocks
  <1>3. ASSUME NEW wall \in Int
        PROVE  ZonedWallToUtc(def.zone, d, wall) = Instant(def.zone, d * DAY + wall)
    BY <1>1, <1>2, WallIsInstant
  <1> QED
    BY <1>1, <1>2, <1>3 DEF WindowFor

\* The later of two walls is the later instant, if the clock skips neither.
LEMMA InstantsInOrder ==
  ASSUME NEW zone \in Zone, NEW n \in Int, NEW m \in Int, n <= m,
         ~InTheGap(zone, n), ~InTheGap(zone, m)
  PROVE  Instant(zone, n) <= Instant(zone, m)
  <1>1. zone.base \in Int /\ zone.jump \in Int /\ zone.at \in Int
    BY DEF Zone
  <1> QED
    BY <1>1 DEF Instant, InTheGap

\* Whole days, or whole weeks, leave the remainder alone.
LEMMA WholeTimes ==
  ASSUME NEW n \in Nat \ {0}, NEW d \in Int, NEW x \in Int
  PROVE  (d * n + x) % n = x % n
  <1> DEFINE e == 0
  <1>0. e \in Int /\ -n < e /\ e < n
    OBVIOUS
  <1>1. (d * n + x + e) % n = x % n <=> e = 0
    <2> HIDE DEF e
    <2> QED
      BY <1>0, SameHour
  <1>2. d * n + x + 0 = d * n + x
    OBVIOUS
  <1> QED
    BY <1>1, <1>2

\* The hour of the week does not tell one week from another.
LEMMA HourOfWeek ==
  ASSUME NEW n \in Nat \ {0}, NEW m \in Nat \ {0}, NEW d \in Int, NEW x \in Int
  PROVE  (d * n + x) % (m * n) = ((d % m) * n + x) % (m * n)
  <1> DEFINE q == d \div m
             r == d % m
             w == m * n
             y == r * n + x
  <1>1. q \in Int /\ r \in 0 .. m - 1 /\ d = q * m + r
    BY Divided
  <1> HIDE DEF q, r
  <1>2. w \in Nat \ {0} /\ r * n \in Int /\ q * w \in Int
    BY <1>1
  <1>3. d * n = q * w + r * n
    BY <1>1
  <1> HIDE DEF w
  <1>4. y \in Int /\ d * n + x = q * w + y
    BY <1>2, <1>3
  <1> HIDE DEF y
  <1>5. (q * w + y) % w = y % w
    BY <1>1, <1>2, <1>4, WholeTimes
  <1>6. (d * n + x) % w = y % w
    BY <1>4, <1>5
  <1> QED
    BY <1>6 DEF w, y, r

\* Two stretches that meet have an hour in common.
LEMMA OneInBoth ==
  ASSUME NEW from \in Int, NEW start \in Int, NEW p \in Nat \ {0}, NEW q \in Nat \ {0},
         start < from + p, from < start + q
  PROVE  \E h \in Int : h - from \in 0 .. p - 1 /\ h - start \in 0 .. q - 1
  <1>1. CASE from <= start
    <2>1. start - from \in 0 .. p - 1 /\ start - start \in 0 .. q - 1
      BY <1>1
    <2> QED
      BY <2>1
  <1>2. CASE start < from
    <2>1. from - from \in 0 .. p - 1 /\ from - start \in 0 .. q - 1
      BY <1>2
    <2> QED
      BY <2>1
  <1> QED
    BY <1>1, <1>2

\* Shifts that share no hour of the week have no wall in common, in whatever weeks.
LEMMA WallsApart ==
  ASSUME NEW one \in Definitions, NEW other \in Definitions, OrdinaryClocks,
         Hours(one) \cap Hours(other) = {},
         NEW d \in Int, NEW e \in Int, RunsOn(one, d), RunsOn(other, e)
  PROVE  \/ d * DAY + EndWall(one) <= e * DAY + other.start
         \/ e * DAY + EndWall(other) <= d * DAY + one.start
  <1> DEFINE from == d * DAY + one.start
             start == e * DAY + other.start
  <1>1. /\ DAY \in Nat \ {0} /\ Week \in Nat \ {0}
        /\ one.start \in Int /\ EndWall(one) = one.start + Length(one) /\ Length(one) \in 1 .. DAY
        /\ d * DAY \in Int
    BY ShiftHoursAssumption, WallType
  <1>2. /\ other.start \in Int /\ EndWall(other) = other.start + Length(other)
        /\ Length(other) \in 1 .. DAY /\ e * DAY \in Int
    BY <1>1, WallType
  <1>3. /\ from \in Int /\ start \in Int /\ Length(one) \in Nat \ {0} /\ Length(other) \in Nat \ {0}
        /\ d * DAY + EndWall(one) = from + Length(one) /\ e * DAY + EndWall(other) = start + Length(other)
    BY <1>1, <1>2
  <1>4. \A h \in Int : h = d * DAY + (one.start + (h - from)) /\ h = e * DAY + (other.start + (h - start))
    BY <1>1, <1>2
  <1> HIDE DEF from, start
  <1> SUFFICES ASSUME start < from + Length(one), from < start + Length(other) PROVE FALSE
    BY <1>3 DEF from, start
  <1>5. PICK both \in Int : both - from \in 0 .. Length(one) - 1 /\ both - start \in 0 .. Length(other) - 1
    BY <1>3, OneInBoth
  <1>6. both = d * DAY + (one.start + (both - from)) /\ both = e * DAY + (other.start + (both - start))
    BY <1>4, <1>5
  <1>7. ASSUME NEW def \in Definitions, NEW c \in Int, RunsOn(def, c), NEW k \in 0 .. Length(def) - 1,
               def.start \in Int, Length(def) \in Nat, both = c * DAY + (def.start + k)
        PROVE  both % WEEK \in Hours(def)
    <2> DEFINE r == c % Week
               x == def.start + k
    <2>0. k \in Int /\ x \in Int /\ r \in def.days
      BY <1>7 DEF RunsOn
    <2>1. k \in Int /\ x \in Int /\ r \in Int /\ r \in def.days /\ r * DAY \in Int
      BY <1>1, <2>0
    <2>2. (c * DAY + x) % WEEK = (r * DAY + x) % WEEK
      BY <1>1, <2>1, HourOfWeek DEF WEEK
    <2>3. r * DAY + x = r * DAY + def.start + k
      BY <1>7, <2>1
    <2> HIDE DEF r
    <2>4. both % WEEK = (r * DAY + def.start + k) % WEEK
      BY <1>7, <2>2, <2>3
    <2> QED
      BY <2>1, <2>4 DEF Hours
  <1>8. both % WEEK \in Hours(one)
    BY <1>1, <1>3, <1>5, <1>6, <1>7
  <1>9. both % WEEK \in Hours(other)
    BY <1>2, <1>3, <1>5, <1>6, <1>7
  <1> QED
    BY <1>8, <1>9

--------------------------------------------------------------------------------
(* The scan for windows that ended. *)

\* A day that begins before another is over is no later.
LEMMA NoLaterDay ==
  ASSUME NEW n \in Nat \ {0}, NEW p \in Int, NEW q \in Int, p * n < q * n + n
  PROVE  p <= q
  <1> SUFFICES ASSUME p - q - 1 >= 0 PROVE FALSE
    OBVIOUS
  <1>1. (p - q - 1) * n >= 0
    OBVIOUS
  <1>2. (p - q - 1) * n = p * n - q * n - n /\ p * n \in Int /\ q * n \in Int
    OBVIOUS
  <1> QED
    BY <1>1, <1>2

\* A number of days later it is so many dates later, as long as the clock is not changed.
LEMMA DatesLater ==
  ASSUME NEW n \in Nat \ {0}, NEW x \in Int, NEW i \in Int
  PROVE  (x + i * n) \div n = x \div n + i
  <1> DEFINE q == x \div n
             r == x % n
  <1>1. q \in Int /\ r \in 0 .. n - 1 /\ x = q * n + r
    BY Divided
  <1> HIDE DEF q, r
  <1>2. (q + i) * n = q * n + i * n /\ q * n \in Int /\ i * n \in Int
    BY <1>1
  <1>3. x + i * n = (q + i) * n + r
    BY <1>1, <1>2
  <1>4. ((q + i) * n + r) \div n = q + i
    BY <1>1, DividedOnce
  <1> QED
    BY <1>3, <1>4 DEF q

\* A change of the clock that does not carry the hour over midnight leaves the date or
\* takes one back.
LEMMA DateAfterChange ==
  ASSUME NEW n \in Nat \ {0}, NEW x \in Int, NEW j \in Int, -n < j, (x % n) + j < n
  PROVE  (x + j) \div n \in {x \div n, x \div n - 1}
  <1> DEFINE q == x \div n
             r == x % n
  <1>1. q \in Int /\ r \in 0 .. n - 1 /\ x = q * n + r /\ q * n \in Int
    BY Divided
  <1>2. r + j < n
    OBVIOUS
  <1> HIDE DEF q, r
  <1>3. CASE r + j >= 0
    <2>1. x + j = q * n + (r + j) /\ r + j \in 0 .. n - 1
      BY <1>1, <1>2, <1>3
    <2>2. (x + j) \div n = q
      BY <1>1, <2>1, DividedOnce
    <2> QED
      BY <2>2 DEF q
  <1>4. CASE r + j < 0
    <2>1. (q - 1) * n = q * n - n
      BY <1>1
    <2>2. x + j = (q - 1) * n + (r + j + n) /\ r + j + n \in 0 .. n - 1 /\ q - 1 \in Int
      BY <1>1, <1>2, <1>4, <2>1
    <2>3. (x + j) \div n = q - 1
      BY <2>2, DividedOnce
    <2> QED
      BY <2>3 DEF q
  <1> QED
    BY <1>1, <1>3, <1>4

\* The dates the samples fall on: a count from one day before the change of the clock, from
\* another after it.
LEMMA DateOfSample ==
  ASSUME NEW zone \in Zone, NEW from \in Int, NEW i \in Int
  PROVE  LocalDate(zone, from + i * DAY)
           = IF from + i * DAY < zone.at THEN (from + zone.base) \div DAY + i
             ELSE (from + zone.base + zone.jump) \div DAY + i
  <1>1. DAY \in Nat \ {0} /\ zone.base \in Int /\ zone.jump \in Int /\ zone.at \in Int
    BY ShiftHoursAssumption DEF Zone
  <1>2. i * DAY \in Int /\ from + zone.base \in Int /\ from + zone.base + zone.jump \in Int
    BY <1>1
  <1>3. CASE from + i * DAY < zone.at
    <2>1. Local(zone, from + i * DAY) = (from + zone.base) + i * DAY
      BY <1>1, <1>2, <1>3 DEF Local, Offset
    <2>2. ((from + zone.base) + i * DAY) \div DAY = (from + zone.base) \div DAY + i
      BY <1>1, <1>2, DatesLater
    <2> QED
      BY <1>3, <2>1, <2>2 DEF LocalDate
  <1>4. CASE ~(from + i * DAY < zone.at)
    <2>1. Local(zone, from + i * DAY) = (from + zone.base + zone.jump) + i * DAY
      BY <1>1, <1>2, <1>4 DEF Local, Offset
    <2>2. ((from + zone.base + zone.jump) + i * DAY) \div DAY = (from + zone.base + zone.jump) \div DAY + i
      BY <1>1, <1>2, DatesLater
    <2> QED
      BY <1>4, <2>1, <2>2 DEF LocalDate
  <1> QED
    BY <1>3, <1>4

\* More days are no less.
LEMMA MoreDays ==
  ASSUME NEW n \in Nat \ {0}, NEW p \in Int, NEW q \in Int
  PROVE  /\ p * n \in Int /\ q * n \in Int
         /\ p * n <= q * n <=> p <= q
         /\ (p + 1) * n = p * n + n
  <1>1. p * n \in Int /\ q * n \in Int /\ (p + 1) * n = p * n + n
    OBVIOUS
  <1>2. p * n <= q * n => p <= q
    BY <1>1, NoLaterDay
  <1>3. ASSUME p <= q PROVE p * n <= q * n
    <2>1. (q - p) * n >= 0
      BY <1>3
    <2>2. (q - p) * n = q * n - p * n
      OBVIOUS
    <2> QED
      BY <1>1, <2>1, <2>2
  <1> QED
    BY <1>1, <1>2, <1>3

\* A count of dates from F that goes on from G once the clock is changed, where G is no
\* step ahead; and a date between its first and its last.
Between(n, from, a, last, F, G, d) ==
    /\ from < a => G \in {F, F - 1}
    /\ from < a => F <= d
    /\ from >= a => G <= d
    /\ from + last * n < a => d <= F + last
    /\ from + last * n >= a => d <= G + last

Count(n, from, a, F, G, i) == IF from + i * n < a THEN F + i ELSE G + i
Reached(n, from, a, last, F, G, d) == \E i \in 0 .. last : d = Count(n, from, a, F, G, i)

\* Such a count does not leave out the date.
LEMMA NoDateSkipped ==
  ASSUME NEW n \in Nat \ {0}, NEW from \in Int, NEW a \in Int, NEW last \in Nat,
         NEW F \in Int, NEW G \in Int, NEW d \in Int, Between(n, from, a, last, F, G, d)
  PROVE  Reached(n, from, a, last, F, G, d)
  <1>1. last * n \in Int
    OBVIOUS
  <1>2. CASE from >= a
    <2> DEFINE i == d - G
    <2>1. i \in Int /\ i >= 0 /\ i * n \in Int /\ i * n >= 0 /\ last * n >= 0
      BY <1>2 DEF Between
    <2>2. i <= last /\ ~(from + i * n < a) /\ d = G + i
      BY <1>1, <1>2, <2>1 DEF Between
    <2> HIDE DEF i
    <2> QED
      BY <2>1, <2>2 DEF Count, Reached
  <1>3. CASE from < a /\ from + (d - F) * n < a
    <2> DEFINE i == d - F
    <2>1. i \in Int /\ i >= 0 /\ d = F + i /\ i * n \in Int
      BY <1>3 DEF Between
    <2>2. from + i * n < a
      BY <1>3
    <2> HIDE DEF i
    <2>3. i <= last
      <3>1. i * n <= last * n <=> i <= last
        BY <2>1, MoreDays
      <3> QED
        BY <1>1, <2>1, <2>2, <3>1 DEF Between
    <2> QED
      BY <2>1, <2>2, <2>3 DEF Count, Reached
  <1>4. CASE from < a /\ from + (d - F) * n >= a
    <2> DEFINE k == d - F
               i == d - G
    <2>1. k \in Int /\ i \in Int /\ k >= 0 /\ i >= k /\ d = F + k /\ d = G + i
      BY <1>4 DEF Between
    <2>2. from + k * n >= a
      BY <1>4
    <2> HIDE DEF i, k
    <2>3. /\ k * n \in Int /\ i * n \in Int /\ k * n <= i * n
          /\ k * n <= last * n <=> k <= last
      BY <2>1, MoreDays
    <2>4. ~(from + i * n < a)
      BY <2>2, <2>3
    <2>5. i <= last
      BY <1>1, <2>1, <2>2, <2>3 DEF Between
    <2>6. i \in 0 .. last /\ d = Count(n, from, a, F, G, i)
      BY <2>1, <2>4, <2>5 DEF Count, Reached
    <2> QED
      BY <2>6 DEF Reached
  <1>5. (d - F) * n \in Int
    OBVIOUS
  <1> QED
    BY <1>2, <1>3, <1>4, <1>5

\* The wall at which a window ends is near the instant, and after a change of the clock it
\* is on the far side of it.
LEMMA EndNear ==
  ASSUME NEW zone \in Zone, NEW m \in Int
  PROVE  LET e == Instant(zone, m) IN
         /\ e \in Int
         /\ m = e + zone.base \/ m = e + zone.base + zone.jump
         /\ e < zone.at => m = e + zone.base
         /\ e >= zone.at /\ zone.jump < 0 => m = e + zone.base + zone.jump
  <1>1. zone.base \in Int /\ zone.jump \in Int /\ zone.at \in Int
    BY DEF Zone
  <1> QED
    BY <1>1 DEF Instant

\* The samples of a scan step over a date: StepsOverADate, of the hours and the stretch.
StepsOver(def, after) ==
    /\ after - LookBack(def) * DAY < def.zone.at
    /\ ((after + def.zone.base) % DAY) + def.zone.jump >= DAY

\* Every date whose window ends in the stretch a pass asks about is sampled, unless the
\* samples step over one.
LEMMA DateScanned ==
  ASSUME OrdinaryClocks, NEW def \in Definitions, NEW after \in Int, NEW upTo \in Int, NEW d \in Int,
         EndsIn(WindowFor(def, d), after, upTo),
         ~StepsOver(def, after)
  PROVE  d \in DatesScanned(def, after, upTo)
  <1> DEFINE b == def.zone.base
             j == def.zone.jump
             a == def.zone.at
             back == LookBack(def) * DAY
             from == after - back
             x == upTo - from + DAY - 1
             samples == x \div DAY + 1
             F == (from + b) \div DAY
             G == (from + b + j) \div DAY
             wall == EndWall(def)
             m == d * DAY + wall
             e == Instant(def.zone, m)
  <1>1. /\ DAY \in Nat \ {0} /\ def.zone \in Zone /\ b \in Int /\ j \in Int /\ a \in Int
        /\ wall \in 1 .. 2 * DAY - 1 /\ (wall > DAY => IsOvernight(def))
    BY WallType DEF Zone
  <1>2. -DAY < j /\ j < DAY
    BY DEF OrdinaryClocks, OrdinaryClock
  <1>3. back \in Int /\ back >= 2 * DAY /\ wall <= back - DAY
    BY <1>1 DEF LookBack
  <1>4. d * DAY \in Int /\ m \in Int /\ after < e /\ e <= upTo
    <2>1. d * DAY \in Int /\ WindowFor(def, d).end = e
      BY WindowIsInstants
    <2>2. m \in Int
      BY <1>1, <2>1
    <2> QED
      BY <2>1, <2>2 DEF EndsIn
  <1>5. /\ e \in Int /\ (m = e + b \/ m = e + b + j)
        /\ (e < a => m = e + b) /\ (e >= a /\ j < 0 => m = e + b + j)
    BY <1>1, <1>4, EndNear
  <1>6. from \in Int /\ from = after - back /\ x \in Int /\ x = upTo - from + DAY - 1
    BY <1>1, <1>3
  <1>7. DatesScanned(def, after, upTo) = {LocalDate(def.zone, from + i * DAY) : i \in 0 .. samples}
    BY DEF DatesScanned
  <1>8. d * DAY = m - wall
    BY <1>1, <1>4
  <1> SUFFICES \E i \in 0 .. samples : d = LocalDate(def.zone, from + i * DAY)
    BY <1>7
  <1> HIDE DEF back, from, m, e, wall, x
  <1>9. samples \in Nat /\ samples * DAY >= upTo - from + DAY
    <2>1. x \div DAY \in Int /\ x % DAY \in 0 .. DAY - 1 /\ x = (x \div DAY) * DAY + (x % DAY)
      BY <1>1, <1>6, Divided
    <2>2. (x \div DAY) * DAY \in Int /\ samples * DAY = (x \div DAY) * DAY + DAY
      BY <1>1, <2>1, MoreDays
    <2>3. x >= 0
      BY <1>1, <1>3, <1>4, <1>5, <1>6
    <2>4. 0 * DAY < (x \div DAY) * DAY + DAY
      BY <1>1, <2>1, <2>2, <2>3
    <2>5. 0 <= x \div DAY
      BY <1>1, <2>1, <2>4, NoLaterDay
    <2>6. samples \in Nat
      BY <2>1, <2>5
    <2>7. (x \div DAY) * DAY + DAY >= upTo - from + DAY
      BY <1>1, <1>6, <2>1, <2>2
    <2> QED
      BY <2>2, <2>6, <2>7
  <1> HIDE DEF samples
  <1>10. /\ F \in Int /\ F * DAY \in Int /\ F * DAY <= from + b /\ from + b < F * DAY + DAY
         /\ G \in Int /\ G * DAY \in Int /\ G * DAY <= from + b + j /\ from + b + j < G * DAY + DAY
    <2>1. from + b \in Int /\ from + b + j \in Int
      BY <1>1, <1>6
    <2>2. /\ F \in Int /\ (from + b) % DAY \in 0 .. DAY - 1 /\ from + b = F * DAY + ((from + b) % DAY)
          /\ G \in Int /\ (from + b + j) % DAY \in 0 .. DAY - 1
          /\ from + b + j = G * DAY + ((from + b + j) % DAY)
      BY <1>1, <2>1, Divided
    <2> HIDE DEF F, G
    <2>3. F * DAY \in Int /\ G * DAY \in Int
      BY <1>1, <2>2
    <2> QED
      BY <1>1, <2>1, <2>2, <2>3
  <1>11. from < a => G \in {F, F - 1}
    <2> SUFFICES ASSUME from < a PROVE G \in {F, F - 1}
      OBVIOUS
    <2>1. ((after + b) % DAY) + j < DAY
      <3>0. after + b \in Int
        BY <1>1
      <3>1. (after + b) % DAY \in 0 .. DAY - 1
        BY <1>1, <3>0, Divided
      <3> QED
        BY <1>1, <1>6, <3>1 DEF StepsOver, from, back
    <2>2. (from + b) % DAY = (after + b) % DAY
      <3>0. after + b = back + (from + b)
        BY <1>1, <1>3, <1>6
      <3>1. after + b = LookBack(def) * DAY + (from + b) /\ LookBack(def) \in Int
        BY <3>0 DEF back, LookBack
      <3>2. from + b \in Int
        BY <1>1, <1>6
      <3>3. (LookBack(def) * DAY + (from + b)) % DAY = (from + b) % DAY
        BY <1>1, <3>1, <3>2, WholeTimes
      <3> QED
        BY <3>1, <3>3
    <2>3. from + b \in Int
      BY <1>1, <1>6
    <2> QED
      BY <1>1, <1>2, <2>1, <2>2, <2>3, DateAfterChange
  <1> HIDE DEF F, G
  <1>12. samples * DAY \in Int /\ (F + samples) * DAY = F * DAY + samples * DAY
         /\ (G + samples) * DAY = G * DAY + samples * DAY
    BY <1>1, <1>9, <1>10
  <1>13. from < a => F <= d
    <2>1. from < a => F * DAY < d * DAY + DAY
      BY <1>1, <1>2, <1>3, <1>4, <1>5, <1>6, <1>8, <1>10
    <2> QED
      BY <1>1, <1>10, <2>1, NoLaterDay
  <1>14. from >= a => G <= d
    <2>1. from >= a => G * DAY < d * DAY + DAY
      BY <1>1, <1>2, <1>3, <1>4, <1>5, <1>6, <1>8, <1>10
    <2> QED
      BY <1>1, <1>10, <2>1, NoLaterDay
  <1>15. from + samples * DAY < a => d <= F + samples
    <2>1. from + samples * DAY < a => d * DAY < (F + samples) * DAY + DAY
      BY <1>1, <1>2, <1>3, <1>4, <1>5, <1>6, <1>8, <1>9, <1>10, <1>12
    <2> QED
      BY <1>1, <1>9, <1>10, <2>1, NoLaterDay
  <1>16. from + samples * DAY >= a => d <= G + samples
    <2>1. from + samples * DAY >= a => d * DAY < (G + samples) * DAY + DAY
      BY <1>1, <1>2, <1>3, <1>4, <1>5, <1>6, <1>8, <1>9, <1>10, <1>12
    <2> QED
      BY <1>1, <1>9, <1>10, <2>1, NoLaterDay
  <1>17. PICK i \in 0 .. samples : d = Count(DAY, from, a, F, G, i)
    <2>1. Between(DAY, from, a, samples, F, G, d)
      BY <1>11, <1>13, <1>14, <1>15, <1>16 DEF Between
    <2>2. DAY \in Nat \ {0} /\ from \in Int /\ a \in Int /\ samples \in Nat /\ F \in Int /\ G \in Int
      BY <1>1, <1>6, <1>9, <1>10
    <2>3. Reached(DAY, from, a, samples, F, G, d)
      BY <2>1, <2>2, NoDateSkipped
    <2> QED
      BY <2>3 DEF Reached
  <1>18. i \in Int
    BY <1>9
  <1> QED
    BY <1>1, <1>6, <1>17, <1>18, DateOfSample DEF F, G, Count

\* A window that ends in the modelled time is one of the modelled dates.
LEMMA DateInTime ==
  ASSUME OrdinaryClocks, NEW def \in Definitions, NEW d \in Int,
         -3 * DAY < WindowFor(def, d).end, WindowFor(def, d).end <= Horizon
  PROVE  d \in Dates
  <1> DEFINE b == def.zone.base
             j == def.zone.jump
             wall == EndWall(def)
             m == d * DAY + wall
             e == Instant(def.zone, m)
             h == Horizon \div DAY
  <1>1. /\ DAY \in Nat \ {0} /\ def.zone \in Zone /\ b \in Int /\ j \in Int
        /\ wall \in 1 .. 2 * DAY - 1 /\ Horizon \in Int
    BY WallType, ShiftHoursAssumption DEF Zone
  <1>2. -DAY < b /\ b < DAY /\ -DAY < b + j /\ b + j < DAY
    BY DEF OrdinaryClocks, OrdinaryClock
  <1>3. d * DAY \in Int /\ WindowFor(def, d).end = e
    BY WindowIsInstants
  <1>4. m \in Int /\ d * DAY = m - wall
    BY <1>1, <1>3
  <1>5. e \in Int /\ (m = e + b \/ m = e + b + j) /\ -3 * DAY < e /\ e <= Horizon
    BY <1>1, <1>3, <1>4, EndNear
  <1>6. h \in Int /\ Horizon % DAY \in 0 .. DAY - 1 /\ Horizon = h * DAY + (Horizon % DAY)
    BY <1>1, Divided
  <1> HIDE DEF m, e, wall, h
  <1>7. h * DAY \in Int /\ (h + 1) * DAY = h * DAY + DAY
    BY <1>1, <1>6
  <1>8. -6 * DAY < d * DAY + DAY /\ -6 \in Int
    BY <1>1, <1>2, <1>3, <1>4, <1>5
  <1>9. d * DAY < (h + 1) * DAY + DAY
    BY <1>1, <1>2, <1>3, <1>4, <1>5, <1>6, <1>7
  <1>10. -6 <= d
    BY <1>1, <1>8, NoLaterDay
  <1>11. d <= h + 1
    BY <1>1, <1>6, <1>9, NoLaterDay
  <1> QED
    BY <1>6, <1>10, <1>11 DEF Dates, h

\* The scan finds the instances that end in the stretch, and no other.
LEMMA ScanFindsInstances ==
  ASSUME OrdinaryClocks, NEW def \in Definitions, NEW after \in Int, NEW upTo \in Int,
         -3 * DAY <= after, upTo <= Horizon,
         ~StepsOver(def, after)
  PROVE  WindowsEndingBetween(def, after, upTo) = {w \in Instances(def) : EndsIn(w, after, upTo)}
  <1>1. /\ DAY \in Nat \ {0} /\ def.zone \in Zone /\ def.zone.base \in Int /\ def.zone.jump \in Int
        /\ def.zone.at \in Int /\ EndWall(def) \in Int /\ Horizon \in Int
    BY WallType, ShiftHoursAssumption DEF Zone
  <1>2. ASSUME NEW d \in Int PROVE WindowFor(def, d).end \in Int
    <2>1. d * DAY \in Int /\ WindowFor(def, d).end = Instant(def.zone, d * DAY + EndWall(def))
      BY WindowIsInstants
    <2>2. d * DAY + EndWall(def) \in Int
      BY <1>1, <2>1
    <2> QED
      BY <1>1, <2>1, <2>2, EndNear
  <1>3. Dates \subseteq Int
    BY DEF Dates
  <1>4. CASE upTo <= after
    <2>1. ASSUME NEW w \in Instances(def), EndsIn(w, after, upTo) PROVE FALSE
      <3>1. PICK d \in Dates : w = WindowFor(def, d)
        BY DEF Instances
      <3>2. w.end \in Int
        BY <1>2, <1>3, <3>1
      <3> QED
        BY <1>4, <2>1, <3>2 DEF EndsIn
    <2> QED
      BY <1>4, <2>1 DEF WindowsEndingBetween
  <1>5. CASE ~(upTo <= after)
    <2>1. ASSUME NEW w \in Instances(def), EndsIn(w, after, upTo)
          PROVE  w \in WindowsEndingBetween(def, after, upTo)
      <3>1. PICK d \in Dates : w = WindowFor(def, d) /\ RunsOn(def, d)
        BY DEF Instances
      <3>2. d \in DatesScanned(def, after, upTo)
        BY <1>3, <2>1, <3>1, DateScanned
      <3> QED
        BY <1>5, <2>1, <3>1, <3>2 DEF WindowsEndingBetween
    <2>2. ASSUME NEW w \in WindowsEndingBetween(def, after, upTo)
          PROVE  w \in Instances(def) /\ EndsIn(w, after, upTo)
      <3>1. PICK d \in DatesScanned(def, after, upTo) :
              w = WindowFor(def, d) /\ RunsOn(def, d) /\ EndsIn(w, after, upTo)
        BY <1>5 DEF WindowsEndingBetween
      <3>2. d \in Int
        <4>1. PICK t : d = LocalDate(def.zone, t) /\ t \in Int
          <5>1. LookBack(def) * DAY \in Int
            BY <1>1 DEF LookBack
          <5>2. after - LookBack(def) * DAY \in Int
            BY <5>1
          <5>3. PICK i \in 0 .. (upTo - (after - LookBack(def) * DAY) + DAY - 1) \div DAY + 1 :
                  d = LocalDate(def.zone, after - LookBack(def) * DAY + i * DAY)
            BY <3>1 DEF DatesScanned
          <5>4. i \in Int /\ i * DAY \in Int
            BY <1>1, <5>3
          <5> QED
            BY <5>2, <5>3, <5>4
        <4>2. Local(def.zone, t) \in Int
          BY <1>1, <4>1 DEF Local, Offset
        <4> QED
          BY <1>1, <4>1, <4>2, Divided DEF LocalDate
      <3>3. -3 * DAY < w.end /\ w.end <= Horizon
        BY <1>1, <1>2, <3>1, <3>2 DEF EndsIn
      <3>4. d \in Dates
        BY <3>1, <3>2, <3>3, DateInTime
      <3> QED
        BY <3>1, <3>4 DEF Instances
    <2> QED
      BY <2>1, <2>2
  <1> QED
    BY <1>4, <1>5

--------------------------------------------------------------------------------
(* The theorems. *)

\* Every row goes by one of the definitions.
LEMMA RowHours ==
  ASSUME shifts \in Seq(Row)
  PROVE  \A i \in DOMAIN shifts : shifts[i].def \in Definitions
  <1>1. \A i \in DOMAIN shifts : shifts[i] \in Row
    OBVIOUS
  <1> QED
    BY <1>1 DEF Row

\* The inductive invariant holds in every reachable state.
THEOREM Inductive == Spec => []HInv
  <1>1. Init => HInv
    <2> SUFFICES ASSUME Init PROVE HInv
      OBVIOUS
    <2>1. shifts = <<>> /\ shifts \in Seq(Row) /\ DOMAIN shifts = {}
      BY DEF Init
    <2>2. \A x \in Sessions : request[x] = Done /\ request[x].at = "idle"
      BY DEF Init, Done
    <2> QED
      BY <2>1, <2>2 DEF Init, HInv, Typed, Named, OneApply, Apart, SaveKeeps, ApplyKeeps
  <1>2. HInv /\ [Next]_vars => HInv'
    <2> SUFFICES ASSUME HInv, [Next]_vars PROVE HInv'
      OBVIOUS
    <2>1. ASSUME UNCHANGED <<shifts, request, raced>> PROVE HInv'
      BY <2>1 DEF HInv, Typed, Named, OneApply, Apart, SaveKeeps, ApplyKeeps
    <2>2. CASE UNCHANGED vars
      BY <2>1, <2>2 DEF vars
    <2>3. ASSUME NEW i \in DOMAIN shifts, Owed(i) PROVE HInv'
      BY <2>1, <2>3 DEF Owed
    <2> QED
      BY <2>2, <2>3, CheckedSafe, ApplySafe, ApplyNextSafe, ApplyCommitSafe, SaveSafe DEF Next
  <1> QED
    BY <1>1, <1>2, PTL DEF Spec

\* Rows keep their type, no two of a machine have one name, and each lasts some of a day.
THEOREM TypeCorrect == Spec => []TypeOK
  <1>1. HInv => TypeOK
    <2> SUFFICES ASSUME HInv PROVE TypeOK
      OBVIOUS
    <2>1. /\ shifts \in Seq(Row) /\ Named(shifts) /\ raced \in BOOLEAN
          /\ request \in [Sessions -> {Done} \cup Saving \cup Applying]
      BY DEF HInv, Typed
    <2>2. \A i \in DOMAIN shifts : Length(shifts[i].def) \in 1 .. DAY
      BY <2>1, RowHours, LengthType
    <2>3. \A x \in UnderWay : request[x].at \in {"save", "apply"}
      BY <2>1 DEF UnderWay, Saving, Applying
    <2> QED
      BY <2>1, <2>2, <2>3 DEF TypeOK, Named
  <1> QED
    BY <1>1, Inductive, PTL

\* However they were written, two active shifts of a machine share no hour of the week,
\* unless somebody saved on a check that was out of date (assertNoOverlap).
THEOREM ShiftsApart == Spec => []ActiveShiftsApart
  <1>1. HInv => ActiveShiftsApart
    <2> SUFFICES ASSUME HInv, ~raced, NEW i \in DOMAIN shifts, NEW j \in DOMAIN shifts, i # j,
                        shifts[i].status = "active", shifts[j].status = "active"
                 PROVE  Hours(shifts[i].def) \cap Hours(shifts[j].def) = {}
      BY DEF ActiveShiftsApart
    <2>1. shifts[i].def \in Definitions /\ shifts[j].def \in Definitions
      BY RowHours DEF HInv, Typed
    <2>2. ~ShiftsOverlap(shifts[i].def, shifts[j].def)
      BY DEF HInv, Apart
    <2> QED
      BY <2>1, <2>2, NoHourShared
  <1> QED
    BY <1>1, Inductive, PTL

\* The lock on the machine's row does what applyTemplate needs of it: what an apply is
\* about to write is not there, unless somebody who does not take the lock wrote it.
THEOREM AppliesApart == Spec => []AppliedOnce
  <1>1. HInv => AppliedOnce
    BY DEF HInv, ApplyKeeps, AppliedOnce, UnderWay
  <1> QED
    BY <1>1, Inductive, PTL

\* The windows of two shifts on one clock that is no day or more off, nor changed by a day
\* or more, never meet, on the days it is changed as on any other, unless one of them
\* begins or ends inside what it skips (zonedWallToUtc).
THEOREM WindowsNeverMeet == OrdinaryClocks => (Spec => []WindowsApart)
  <1> SUFFICES ASSUME OrdinaryClocks PROVE Spec => []WindowsApart
    OBVIOUS
  <1>1. HInv /\ ActiveShiftsApart => WindowsApart
    <2> SUFFICES ASSUME HInv, ActiveShiftsApart, ~raced,
                        NEW i \in DOMAIN shifts, NEW j \in DOMAIN shifts, i # j,
                        shifts[i].status = "active", shifts[j].status = "active",
                        shifts[i].def.zone = shifts[j].def.zone,
                        NEW v \in Instances(shifts[i].def), NEW w \in Instances(shifts[j].def),
                        ~BoundedByTheGap(shifts[i].def, v.date),
                        ~BoundedByTheGap(shifts[j].def, w.date)
                 PROVE  v.end <= w.start \/ w.end <= v.start
      BY DEF WindowsApart
    <2> DEFINE one == shifts[i].def
               other == shifts[j].def
    <2>1. one \in Definitions /\ other \in Definitions
      BY RowHours DEF HInv, Typed
    <2>2. Hours(one) \cap Hours(other) = {}
      BY DEF ActiveShiftsApart
    <2>3. PICK d \in Int : v = WindowFor(one, d) /\ RunsOn(one, d)
      BY DEF Instances, Dates
    <2>4. PICK e \in Int : w = WindowFor(other, e) /\ RunsOn(other, e)
      BY DEF Instances, Dates
    <2> DEFINE zone == one.zone
               from == d * DAY + one.start
               to == d * DAY + EndWall(one)
               from2 == e * DAY + other.start
               to2 == e * DAY + EndWall(other)
    <2>5. /\ d * DAY \in Int /\ v.date = d
          /\ v.start = Instant(zone, from) /\ v.end = Instant(zone, to)
      BY <2>1, <2>3, WindowIsInstants
    <2>6. /\ e * DAY \in Int /\ w.date = e
          /\ w.start = Instant(zone, from2) /\ w.end = Instant(zone, to2)
      BY <2>1, <2>4, WindowIsInstants
    <2>7. /\ zone \in Zone /\ from \in Int /\ to \in Int /\ from2 \in Int /\ to2 \in Int
      BY <2>1, <2>5, <2>6, WallType
    <2>8. /\ ~InTheGap(zone, from) /\ ~InTheGap(zone, to)
          /\ ~InTheGap(zone, from2) /\ ~InTheGap(zone, to2)
      BY <2>5, <2>6 DEF BoundedByTheGap
    <2>9. to <= from2 \/ to2 <= from
      BY <2>1, <2>2, <2>3, <2>4, WallsApart
    <2> HIDE DEF zone, from, to, from2, to2
    <2> QED
      BY <2>5, <2>6, <2>7, <2>8, <2>9, InstantsInOrder
  <1> QED
    BY <1>1, Inductive, ShiftsApart, PTL

\* What a pass was told last is what it was told of a shift of the machine.
Told ==
    answer.told =>
        /\ answer.def \in Definitions /\ answer.now \in 0 .. Horizon
        /\ answer.scored \in (0 .. Horizon) \cup {Never}
        /\ LET all == WindowsEndingBetween(answer.def, After(answer.scored, answer.now), answer.now)
           IN  answer.windows = IF answer.scored = Never THEN Newest(all) ELSE Oldest(all, LimitPerShift)

\* And stays so until the next is asked or told.
LEMMA ToldAlways == Spec => []Told
  <1>1. Init => Told
    BY DEF Init, Told, Nothing
  <1>2. HInv /\ Told /\ [Next]_vars => Told'
    <2> SUFFICES ASSUME HInv, Told, [Next]_vars PROVE Told'
      OBVIOUS
    <2>1. ASSUME UNCHANGED answer PROVE Told'
      BY <2>1 DEF Told
    <2>2. ASSUME answer' = Nothing PROVE Told'
      BY <2>2 DEF Told, Nothing
    <2>3. ASSUME NEW i \in DOMAIN shifts, Owed(i) PROVE Told'
      <3>1. shifts[i].def \in Definitions
        BY RowHours DEF HInv, Typed
      <3>2. PICK now \in 0 .. Horizon, scored \in (0 .. Horizon) \cup {Never} :
              LET all == WindowsEndingBetween(shifts[i].def, After(scored, now), now)
              IN  answer' = [told |-> TRUE, def |-> shifts[i].def, scored |-> scored, now |-> now,
                             windows |-> IF scored = Never THEN Newest(all)
                                         ELSE Oldest(all, LimitPerShift)]
        BY <2>3 DEF Owed
      <3>3. /\ answer'.def = shifts[i].def /\ answer'.now = now /\ answer'.scored = scored
            /\ LET all == WindowsEndingBetween(shifts[i].def, After(scored, now), now)
               IN  answer'.windows = IF scored = Never THEN Newest(all) ELSE Oldest(all, LimitPerShift)
        BY <3>2
      <3> QED
        BY <3>1, <3>3 DEF Told
    <2>4. CASE UNCHANGED vars
      BY <2>1, <2>4 DEF vars
    <2>5. ASSUME NEW x \in Sessions,
                 \/ Create(x) \/ Apply(x)
                 \/ \E i \in DOMAIN shifts : Update(x, i) \/ Retire(x, i) \/ Reinstate(x, i)
          PROVE  Told'
      BY <2>2, <2>5 DEF Create, Apply, Update, Retire, Reinstate, Passes
    <2>6. ASSUME NEW x \in Sessions, ApplyNext(x) \/ ApplyCommit(x) \/ Save(x) PROVE Told'
      BY <2>1, <2>6 DEF ApplyNext, ApplyCommit, Save, Commits
    <2> QED
      BY <2>3, <2>4, <2>5, <2>6 DEF Next
  <1> QED
    BY <1>1, <1>2, Inductive, PTL DEF Spec

\* Whatever a shift's hours, days and watermark, a pass is told of every instance that
\* ended since, the oldest first, and of no other, unless the samples of the scan step over
\* a date (owed, windowsEndingBetween).
THEOREM ToldWhatIsDue == OrdinaryClocks => (Spec => []OwedIsDue)
  <1> SUFFICES ASSUME OrdinaryClocks PROVE Spec => []OwedIsDue
    OBVIOUS
  <1>1. Told => OwedIsDue
    <2> SUFFICES ASSUME Told, answer.told, ~StepsOverADate(answer)
                 PROVE  answer.windows = Due(answer)
      BY DEF OwedIsDue
    <2> DEFINE after == After(answer.scored, answer.now)
    <2>1. /\ answer.def \in Definitions /\ answer.now \in 0 .. Horizon
          /\ answer.scored \in (0 .. Horizon) \cup {Never}
      BY DEF Told
    <2>2. DAY \in Nat \ {0} /\ Horizon \in Nat
      BY ShiftHoursAssumption
    <2>3. after \in Int /\ -3 * DAY <= after
      BY <2>1, <2>2 DEF After, Never, FIRST_RUN_LOOK_BACK_DAYS
    <2>4. ~StepsOver(answer.def, after)
      BY DEF StepsOverADate, StepsOver
    <2>5. answer.now \in Int /\ answer.now <= Horizon
      BY <2>1, <2>2
    <2> HIDE DEF after
    <2>6. WindowsEndingBetween(answer.def, after, answer.now)
            = {w \in Instances(answer.def) : EndsIn(w, after, answer.now)}
      BY <2>1, <2>3, <2>4, <2>5, ScanFindsInstances
    <2> QED
      BY <2>6 DEF Told, Due, after
  <1> QED
    BY <1>1, ToldAlways, PTL
================================================================================
