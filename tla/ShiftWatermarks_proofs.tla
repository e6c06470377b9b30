------------------------ MODULE ShiftWatermarks_proofs ------------------------
(***************************************************************************)
(* What the two watermarks of a shift promise together, for any shifts,    *)
(* windows, instances, caps and faults: no late reading is forgotten and   *)
(* no window is passed that nobody tried, until the connection that holds  *)
(* the lock is lost.                                                       *)
(*                                                                         *)
(* The properties speak of the rows alone.  The inductive invariant says   *)
(* the same of the row an edit read and will write back, and says of the   *)
(* one pass under way what it still has in hand: shifts the sweep has not  *)
(* been to, a rewind it is about to write, and windows, in order and       *)
(* without a gap, whose predecessors are accounted for.                    *)
(***************************************************************************)
EXTENDS ShiftRunner_proofs, FiniteSetTheorems

--------------------------------------------------------------------------------
(* What the two watermarks promise, as an inductive invariant. *)

\* The newest run of a window ended without the platform's readings.
Excused == {"failed", "waiting", "own"}

\* The window of s that ends at e was tried, and of what had arrived by upTo a
\* run of it had everything in hand.
Accounted(s, e, upTo) ==
    LET w == [shift |-> s, end |-> e] IN
    /\ attempt[w] # "none"
    /\ \A r \in arrived : InWindow(r, w) /\ r.at <= upTo => r \in covered \/ attempt[w] \in Excused

\* What a row's two watermarks have passed is accounted for.
RowKeeps(s, row) ==
    \A e \in Ends[s] : answerable[s] <= e /\ e <= row.scored => Accounted(s, e, row.arrivals)

RowsKeep ==
    \A s \in Shifts :
        /\ RowKeeps(s, shift[s])
        /\ shift[s].scored = Never <=> answerable[s] = NotAnswerable
        /\ shift[s].arrivals <= now

\* Nothing arrives in the future, or is stamped after it arrived.
ArrivedBefore == \A r \in arrived : r.at <= now /\ r.ts <= r.at

\* An edit holds a row that was once the shift's; saving it moves the arrivals
\* back, never on.
EditsKeep ==
    \A s \in Shifts : edit[s].kind # "none" =>
        /\ RowKeeps(s, edit[s].row)
        /\ edit[s].row.arrivals <= shift[s].arrivals
        /\ edit[s].row.scored # Never => answerable[s] # NotAnswerable

\* A shift the sweep has not been to is as the pass found it, for an edit too.
Unswept(s, since) ==
    /\ shift[s].arrivals = since
    /\ edit[s].kind # "none" => edit[s].row = shift[s]

\* A rewind in hand knows the oldest of what arrived unseen, and once it has read
\* the row, whether the row is ahead of it.
LateInHand(p, l) ==
    /\ \A t \in p.todo : t.shift # l.shift
    /\ Unswept(l.shift, shift[l.shift].arrivals)
    /\ shift[l.shift].arrivals < l.seen /\ l.seen <= p.now
    /\ l.earliest <= now
    /\ \A r \in arrived : r.shift = l.shift /\ shift[l.shift].arrivals < r.at /\ r.at <= p.now
                             => l.earliest <= r.ts
    /\ l.read /\ l.moves => RewindTo(l) < shift[l.shift].scored
    /\ l.read /\ ~l.moves => shift[l.shift].scored <= RewindTo(l)
                                \/ shift[l.shift].scored < answerable[l.shift]

Sweeping(p) ==
    /\ p.queue = {} /\ p.win = {}
    /\ \A t \in p.todo : Unswept(t.shift, t.since)
    /\ \A t, u \in p.todo : t.shift = u.shift => t = u
    /\ p.pc = "sweep" => p.late = {}
    /\ \A l \in p.late : p.late = {l} /\ LateInHand(p, l)

\* Of the windows a pass has left, those of a shift follow one another, and what
\* lies before them is accounted for.
Ahead(p) == p.queue \cup p.win

Follows(A) ==
    \A v, w \in A : v.shift = w.shift =>
        \A e \in Ends[w.shift] : v.end < e /\ e < w.end => [shift |-> w.shift, end |-> e] \in A

Behind(A) ==
    \A w \in A : \A e \in Ends[w.shift] :
        e < w.end /\ answerable[w.shift] <= e =>
            \/ [shift |-> w.shift, end |-> e] \in A
            \/ Accounted(w.shift, e, shift[w.shift].arrivals)

Pulled(p) ==
    \A w \in p.win :
        /\ p.win = {w} /\ w \notin p.queue
        /\ \A v \in p.queue : w.end <= v.end
        /\ ~p.own => \A r \in arrived : InWindow(r, w) /\ r.at <= p.now => r \in p.pull

Scoring(p) ==
    /\ p.todo = {} /\ p.late = {}
    /\ \A w \in Ahead(p) : w.end \in Ends[w.shift] /\ w.end <= p.now
    /\ p.pc = "take" => p.win = {}
    /\ Follows(Ahead(p)) /\ Behind(Ahead(p)) /\ Pulled(p)

PassKeeps(p) ==
    /\ p.now <= now
    /\ \A s \in Shifts : shift[s].arrivals <= p.now
    /\ p.pc \in {"sweep", "rewind"} => Sweeping(p)
    /\ p.pc \in {"take", "ingest", "mark"} => Scoring(p)

PassesKeep == \A i \in Instances : pass[i].pc # "idle" => PassKeeps(pass[i])

WInv == NoLockLost => RowsKeep /\ ArrivedBefore /\ EditsKeep /\ PassesKeep

--------------------------------------------------------------------------------
(* What stays accounted for. *)

AccountedNext(s, e, upTo) ==
    LET w == [shift |-> s, end |-> e] IN
    /\ attempt'[w] # "none"
    /\ \A r \in arrived' : InWindow(r, w) /\ r.at <= upTo =>
          r \in covered' \/ attempt'[w] \in Excused

\* A step respects what had arrived by upTo: nothing arrives before it any more,
\* and a run that ends had what its window should have in hand, or is excused.
Respects(upTo) ==
    /\ covered \subseteq covered'
    /\ \A r \in arrived' : r \in arrived \/ upTo < r.at
    /\ \A w \in Owing :
          \/ attempt'[w] = attempt[w]
          \/ attempt'[w] \in Excused
          \/ /\ attempt'[w] # "none"
             /\ \A r \in arrived : InWindow(r, w) /\ r.at <= upTo => r \in covered'

RowKeepsNext(s, row) ==
    \A e \in Ends[s] : answerable'[s] <= e /\ e <= row.scored => AccountedNext(s, e, row.arrivals)

\* A window of a shift is an owing, and ends within the horizon.
LEMMA WindowType ==
  ASSUME NEW s \in Shifts, NEW e \in Ends[s]
  PROVE  [shift |-> s, end |-> e] \in Owing /\ e \in 1..Horizon
  BY ShiftRunnerAssumption DEF Owing

\* What is accounted for stays so over a step that respects what had arrived by then.
LEMMA AccountedOn ==
  ASSUME TypeOK, TypeOK', NEW s \in Shifts, NEW e \in Ends[s], NEW upTo \in Nat,
         Respects(upTo), Accounted(s, e, upTo)
  PROVE  AccountedNext(s, e, upTo)
  <1> DEFINE w == [shift |-> s, end |-> e]
  <1>1. w \in Owing
    BY WindowType
  <1>2. attempt[w] # "none"
        /\ \A r \in arrived : InWindow(r, w) /\ r.at <= upTo => r \in covered \/ attempt[w] \in Excused
    BY DEF Accounted
  <1> HIDE DEF w
  <1>3. attempt'[w] # "none"
    BY <1>1, <1>2 DEF Respects, Excused
  <1>4. ASSUME NEW r \in arrived', InWindow(r, w), r.at <= upTo
        PROVE  r \in covered' \/ attempt'[w] \in Excused
    <2>1. r.at \in Nat
      BY DEF TypeOK, Readings
    <2>2. r \in arrived
      BY <1>4, <2>1 DEF Respects
    <2> QED
      BY <1>1, <1>2, <1>4, <2>2 DEF Respects
  <1> QED
    BY <1>3, <1>4 DEF AccountedNext, w

\* A row goes on keeping its promise if the shift answers for no more than before,
\* or the row for nothing.
LEMMA RowOn ==
  ASSUME TypeOK, TypeOK', NEW s \in Shifts, NEW row \in Rows, Respects(row.arrivals),
         RowKeeps(s, row), answerable[s] <= answerable'[s] \/ row.scored = Never
  PROVE  RowKeepsNext(s, row)
  <1> SUFFICES ASSUME NEW e \in Ends[s], answerable'[s] <= e, e <= row.scored
               PROVE  AccountedNext(s, e, row.arrivals)
    BY DEF RowKeepsNext
  <1>1. e \in 1..Horizon /\ answerable[s] \in Nat /\ answerable'[s] \in Nat /\ row.arrivals \in Nat
    BY WindowType, ShiftRunnerAssumption DEF TypeOK, NotAnswerable, Rows
  <1>2. row.scored # Never
    BY <1>1 DEF Never
  <1>3. answerable[s] <= e
    BY <1>1, <1>2
  <1>4. Accounted(s, e, row.arrivals)
    BY <1>3 DEF RowKeeps
  <1> QED
    BY <1>1, <1>4, AccountedOn

\* Steps that write no row of a shift and no edit.
World ==
    /\ UNCHANGED <<shift, edit, answerable>>
    /\ now <= now'
    /\ \A upTo \in 0..now : Respects(upTo)

\* A step of the world around the rows leaves what rows and edits promise.
LEMMA RowsStay ==
  ASSUME TypeOK, TypeOK', RowsKeep, EditsKeep, World
  PROVE  RowsKeep' /\ EditsKeep'
  <1> USE DEF World
  <1>0. now \in Nat /\ now' \in Nat
    BY DEF TypeOK
  <1>1. ASSUME NEW s \in Shifts, NEW row \in Rows, row.arrivals <= now, RowKeeps(s, row)
        PROVE  RowKeepsNext(s, row)
    <2>1. row.arrivals \in 0..now
      BY <1>0, <1>1 DEF Rows
    <2>2. answerable[s] \in Nat
      BY DEF TypeOK, NotAnswerable
    <2> QED
      BY <1>1, <2>1, <2>2, RowOn
  <1>2. RowsKeep'
    <2> SUFFICES ASSUME NEW s \in Shifts
                 PROVE  /\ RowKeeps(s, shift[s])'
                        /\ shift'[s].scored = Never <=> answerable'[s] = NotAnswerable
                        /\ shift'[s].arrivals <= now'
      BY DEF RowsKeep
    <2>1. /\ RowKeeps(s, shift[s]) /\ shift[s].arrivals <= now
          /\ shift[s].scored = Never <=> answerable[s] = NotAnswerable
      BY DEF RowsKeep
    <2>2. shift[s] \in Rows /\ shift[s].arrivals \in Nat
      BY DEF TypeOK, Rows
    <2>3. RowKeepsNext(s, shift[s])
      BY <1>1, <2>1, <2>2
    <2>4. RowKeeps(s, shift[s])'
      BY <2>3 DEF RowKeeps, RowKeepsNext, Accounted, AccountedNext
    <2> QED
      BY <1>0, <2>1, <2>2, <2>4
  <1>3. EditsKeep'
    <2> SUFFICES ASSUME NEW s \in Shifts, edit[s].kind # "none"
                 PROVE  /\ RowKeeps(s, edit[s].row)'
                        /\ edit[s].row.arrivals <= shift[s].arrivals
                        /\ edit[s].row.scored # Never => answerable[s] # NotAnswerable
      BY DEF EditsKeep
    <2>1. /\ RowKeeps(s, edit[s].row) /\ edit[s].row.arrivals <= shift[s].arrivals
          /\ edit[s].row.scored # Never => answerable[s] # NotAnswerable
      BY DEF EditsKeep
    <2>2. /\ edit[s].row \in Rows /\ edit[s].row.arrivals \in Nat
          /\ shift[s].arrivals \in Nat /\ shift[s].arrivals <= now
      BY DEF TypeOK, Edits, Rows, RowsKeep
    <2>3. RowKeepsNext(s, edit[s].row)
      BY <1>0, <1>1, <2>1, <2>2
    <2>4. RowKeeps(s, edit[s].row)'
      BY <2>3 DEF RowKeeps, RowKeepsNext, Accounted, AccountedNext
    <2> QED
      BY <2>1, <2>4
  <1> QED
    BY <1>2, <1>3

\* A pass that stays as it is keeps what it has in hand.
LEMMA PassStays ==
  ASSUME TypeOK, TypeOK', RowsKeep, World, NEW j \in Instances, pass'[j] = pass[j], PassKeeps(pass[j])
  PROVE  PassKeeps(pass[j])'
  <1> DEFINE p == pass[j]
  <1> USE DEF World
  <1>1. /\ now \in Nat /\ now' \in Nat /\ p \in Passes /\ p.now \in Nat /\ p.now <= now
        /\ p.now <= now'
    BY DEF TypeOK, Passes, PassKeeps
  <1>2. \A s \in Shifts : shift[s].arrivals <= p.now
    BY DEF PassKeeps
  <1>3. Respects(p.now)
    BY <1>1
  <1>4. \A r \in arrived' : r.at \in Nat
    BY DEF TypeOK, Readings
  <1>5. \A r \in arrived' : r.at <= p.now => r \in arrived
    BY <1>1, <1>3, <1>4 DEF Respects
  <1>6. ASSUME Sweeping(p) PROVE Sweeping(pass[j])'
    <2>1. ASSUME NEW l \in p.late PROVE p.late = {l} /\ LateInHand(p, l)
      BY <1>6 DEF Sweeping
    <2>2. ASSUME NEW l \in p.late PROVE LateInHand(pass[j], l)'
      <3>1. LateInHand(p, l)
        BY <2>2, <2>1
      <3>2. l.earliest \in Nat
        BY <2>2, <1>1 DEF Passes, Found
      <3>3. l.earliest <= now'
        BY <1>1, <3>1, <3>2 DEF LateInHand
      <3> QED
        BY <1>5, <3>1, <3>3 DEF LateInHand, Unswept
    <2> QED
      BY <1>6, <2>1, <2>2 DEF Sweeping, Unswept
  <1>7. ASSUME Scoring(p) PROVE Scoring(pass[j])'
    <2>1. Behind(Ahead(pass[j]))'
      <3> SUFFICES ASSUME NEW w \in Ahead(p), NEW e \in Ends[w.shift],
                          e < w.end, answerable[w.shift] <= e,
                          ~ ([shift |-> w.shift, end |-> e] \in Ahead(p))
                   PROVE  AccountedNext(w.shift, e, shift[w.shift].arrivals)
        BY DEF Behind, Ahead, Accounted, AccountedNext
      <3>1. w.shift \in Shifts
        BY <1>1 DEF Ahead, Passes, Owing
      <3>2. Accounted(w.shift, e, shift[w.shift].arrivals)
        BY <1>7 DEF Scoring, Behind
      <3>3. shift[w.shift].arrivals \in 0..now /\ shift[w.shift].arrivals \in Nat
        BY <1>1, <1>2, <3>1 DEF TypeOK, Rows
      <3> QED
        BY <3>1, <3>2, <3>3, AccountedOn
    <2>2. Pulled(pass[j])'
      BY <1>5, <1>7 DEF Scoring, Pulled
    <2> QED
      BY <1>7, <2>1, <2>2 DEF Scoring, Ahead, Follows
  <1> QED
    BY <1>1, <1>2, <1>6, <1>7 DEF PassKeeps

--------------------------------------------------------------------------------
(* Steps of the invariant. *)

Promise == RowsKeep /\ ArrivedBefore /\ EditsKeep /\ PassesKeep

\* Until a lock is lost, one pass goes on at most.
LEMMA Alone ==
  ASSUME LInv, NoLockLost, NEW i \in Instances, pass[i].pc # "idle"
  PROVE  \A j \in Instances \ {i} : pass[j].pc = "idle"
  BY DEF LInv, InsideHolds

\* So a step of a pass has to see to that pass only.
LEMMA OwnPass ==
  ASSUME LInv, NoLockLost, NEW i \in Instances, pass[i].pc # "idle",
         \A j \in Instances \ {i} : pass'[j] = pass[j],
         pass'[i].pc # "idle" => PassKeeps(pass[i])'
  PROVE  PassesKeep'
  <1>1. \A j \in Instances \ {i} : pass'[j].pc = "idle"
    BY Alone
  <1> QED
    BY <1>1 DEF PassesKeep

\* A step that keeps the evidence and the passes, or ends them.
LEMMA WorldSafe ==
  ASSUME TypeOK, TypeOK', Promise, World, ArrivedBefore',
         \A j \in Instances : pass'[j] = pass[j] \/ pass'[j].pc = "idle"
  PROVE  Promise'
  <1>1. RowsKeep' /\ EditsKeep'
    BY RowsStay DEF Promise
  <1>2. PassesKeep'
    <2> SUFFICES ASSUME NEW j \in Instances, pass'[j].pc # "idle"
                 PROVE  PassKeeps(pass[j])'
      BY DEF PassesKeep
    <2>1. pass'[j] = pass[j]
      OBVIOUS
    <2>2. PassKeeps(pass[j])
      BY <2>1 DEF Promise, PassesKeep
    <2> QED
      BY <2>1, <2>2, PassStays DEF Promise
  <1> QED
    BY <1>1, <1>2 DEF Promise

\* With what counts unchanged, everything is respected.
LEMMA NothingHappens ==
  ASSUME UNCHANGED <<arrived, attempt, covered>>
  PROVE  \A upTo : Respects(upTo)
  BY DEF Respects

\* Time, arrivals, posts, restarts and the end of a pass break no promise.
LEMMA AroundSafe ==
  ASSUME TypeOK, TypeOK', Promise,
         \/ Tick
         \/ \E s \in Shifts, ts \in 1..Horizon : Arrive(s, ts) \/ Post(s, ts)
         \/ \E i \in Instances : Restart(i) \/ EndPass(i)
         \/ UNCHANGED vars
  PROVE  Promise'
  <1>1. now \in Nat /\ now' \in Nat
    BY DEF TypeOK
  <1>2. \A r \in arrived : r.at \in Nat /\ r.ts \in Nat
    BY DEF TypeOK, Readings
  <1>3. CASE \E s \in Shifts, ts \in 1..Horizon : Arrive(s, ts)
    <2>1. PICK s \in Shifts, ts \in 1..Horizon : Arrive(s, ts)
      BY <1>3
    <2> DEFINE new == [shift |-> s, ts |-> ts, at |-> now + 1]
    <2>2. /\ ts <= now + 1 /\ now' = now + 1 /\ arrived' = arrived \cup {new}
          /\ UNCHANGED <<held, shift, lock, route, pass, edit, attempt, covered, answerable>>
      BY <2>1 DEF Arrive, ghosts
    <2>3. new.at = now + 1 /\ new.ts = ts
      OBVIOUS
    <2> HIDE DEF new
    <2>4. ASSUME NEW upTo \in 0..now PROVE Respects(upTo)
      <3>1. upTo < new.at
        BY <1>1, <2>3
      <3> QED
        BY <2>2, <3>1 DEF Respects
    <2>5. World
      BY <1>1, <2>2, <2>4 DEF World
    <2>6. ArrivedBefore'
      BY <1>1, <1>2, <2>2, <2>3 DEF Promise, ArrivedBefore
    <2> QED
      BY <2>2, <2>5, <2>6, WorldSafe
  <1>4. CASE \/ Tick \/ \E s \in Shifts, ts \in 1..Horizon : Post(s, ts)
             \/ \E i \in Instances : Restart(i) \/ EndPass(i)
             \/ UNCHANGED vars
    <2>1. /\ UNCHANGED <<arrived, shift, edit, attempt, covered, answerable>> /\ now <= now'
      BY <1>1, <1>4 DEF Tick, Post, Restart, EndPass, vars, ghosts
    <2>2. \A j \in Instances : pass'[j] = pass[j] \/ pass'[j].pc = "idle"
      BY <1>4 DEF Tick, Post, Restart, EndPass, vars, Idle, TypeOK
    <2>3. World
      BY <2>1, NothingHappens DEF World
    <2>4. ArrivedBefore'
      BY <1>1, <1>2, <2>1 DEF Promise, ArrivedBefore
    <2> QED
      BY <2>2, <2>3, <2>4, WorldSafe
  <1> QED
    BY <1>3, <1>4

\* A step of one pass that keeps the evidence and writes no row.
LEMMA PassMoves ==
  ASSUME LInv, TypeOK', NoLockLost, Promise, World, UNCHANGED <<arrived, now>>,
         NEW i \in Instances, pass[i].pc # "idle", \A j \in Instances \ {i} : pass'[j] = pass[j],
         PassKeeps(pass[i])'
  PROVE  Promise'
  <1>1. RowsKeep' /\ EditsKeep'
    BY RowsStay DEF Promise, LInv
  <1>2. PassesKeep'
    BY OwnPass
  <1>3. ArrivedBefore'
    BY DEF Promise, ArrivedBefore
  <1> QED
    BY <1>1, <1>2, <1>3 DEF Promise

\* The pass finds every shift as it is, and no edit half done.
LEMMA StartSafe ==
  ASSUME LInv, TypeOK', NoLockLost, Promise, NEW i \in Instances, StartPass(i)
  PROVE  Promise'
  <1> DEFINE todo == IF route[i]
                     THEN {[shift |-> s, since |-> shift[s].arrivals] : s \in ActiveShifts}
                     ELSE {}
  <1>1. /\ lock = NoInstance /\ \A s \in Shifts : edit[s].kind = "none"
        /\ pass' = [pass EXCEPT ![i] = [Idle EXCEPT !.pc = "sweep", !.now = now, !.todo = todo]]
        /\ UNCHANGED <<now, arrived, shift, edit, attempt, covered, answerable>>
    BY DEF StartPass, MayStart, ghosts
  <1>2. \A j \in Instances : pass[j].pc = "idle"
    BY <1>1, ShiftRunnerAssumption DEF LInv, InsideHolds
  <1>3. TypeOK /\ now \in Nat
    BY DEF LInv, TypeOK
  <1>4. /\ pass'[i].pc = "sweep" /\ pass'[i].now = now /\ pass'[i].todo = todo
        /\ pass'[i].late = {} /\ pass'[i].queue = {} /\ pass'[i].win = {}
        /\ \A j \in Instances \ {i} : pass'[j] = pass[j]
    BY <1>1, <1>3 DEF TypeOK, Idle
  <1>5. \A t \in todo : t.shift \in Shifts /\ t.since = shift[t.shift].arrivals
    BY DEF ActiveShifts
  <1>6. \A t, u \in todo : t.shift = u.shift => t = u
    OBVIOUS
  <1> HIDE DEF todo
  <1>7. Sweeping(pass[i])'
    BY <1>1, <1>4, <1>5, <1>6 DEF Sweeping, Unswept
  <1>8. PassKeeps(pass[i])'
    BY <1>1, <1>3, <1>4, <1>7 DEF PassKeeps, Promise, RowsKeep
  <1>9. World
    BY <1>1, <1>3, NothingHappens DEF World
  <1>10. RowsKeep' /\ EditsKeep'
    BY <1>3, <1>9, RowsStay DEF Promise
  <1>11. PassesKeep'
    BY <1>2, <1>4, <1>8 DEF PassesKeep
  <1>12. ArrivedBefore'
    BY <1>1 DEF Promise, ArrivedBefore
  <1> QED
    BY <1>10, <1>11, <1>12 DEF Promise

\* The sweep finds the oldest and the newest of what arrived since it last looked.
LEMMA SweepSafe ==
  ASSUME LInv, TypeOK', NoLockLost, Promise, NEW i \in Instances, Sweep(i)
  PROVE  Promise'
  <1> DEFINE p == pass[i]
  <1>1. TypeOK /\ p \in Passes /\ p.now \in Nat /\ p.pc = "sweep" /\ now \in Nat
    <2>1. p.pc = "sweep"
      BY DEF Sweep
    <2> QED
      BY <2>1 DEF LInv, TypeOK, Passes
  <1>2. PassKeeps(p) /\ Sweeping(p)
    BY <1>1 DEF Promise, PassesKeep, PassKeeps
  <1>3. UNCHANGED <<now, arrived, shift, edit, attempt, covered, answerable>>
    BY DEF Sweep, ghosts
  <1>4. PICK t \in p.todo :
          LET rows == LateRows(t, p.now) IN
          pass' = [pass EXCEPT
             ![i].todo = @ \ {t},
             ![i].pc = IF rows = {} THEN "sweep" ELSE "rewind",
             ![i].late = IF rows = {} THEN {}
                         ELSE {[shift |-> t.shift,
                                earliest |-> SetMin({r.ts : r \in rows}),
                                seen |-> SetMax({r.at : r \in rows}),
                                moves |-> FALSE, read |-> FALSE]}]
    BY DEF Sweep
  <1> DEFINE rows == LateRows(t, p.now)
             found == [shift |-> t.shift, earliest |-> SetMin({r.ts : r \in rows}),
                       seen |-> SetMax({r.at : r \in rows}), moves |-> FALSE, read |-> FALSE]
  <1>5. /\ pass'[i].todo = p.todo \ {t} /\ pass'[i].now = p.now
        /\ pass'[i].queue = p.queue /\ pass'[i].win = p.win
        /\ pass'[i].pc = (IF rows = {} THEN "sweep" ELSE "rewind")
        /\ pass'[i].late = (IF rows = {} THEN {} ELSE {found})
        /\ \A j \in Instances \ {i} : pass'[j] = pass[j]
    BY <1>1, <1>4 DEF TypeOK, Passes
  <1>6. t \in Swept /\ t.shift \in Shifts /\ Unswept(t.shift, t.since)
    BY <1>1, <1>2 DEF Passes, Swept, Sweeping
  <1>7. rows \in SUBSET Readings
    BY <1>1 DEF LateRows, TypeOK
  <1>8. ASSUME NEW l, l = found, rows # {} PROVE LateInHand(pass[i], l)'
    <2>1. {r.ts : r \in rows} \in SUBSET (1..Horizon) /\ {r.ts : r \in rows} # {}
      BY <1>7, <1>8 DEF Readings
    <2>2. {r.at : r \in rows} \in SUBSET (1..Horizon) /\ {r.at : r \in rows} # {}
      BY <1>7, <1>8 DEF Readings
    <2>3. /\ SetMin({r.ts : r \in rows}) \in {r.ts : r \in rows}
          /\ \A y \in {r.ts : r \in rows} : SetMin({r.ts : r \in rows}) <= y
      <3>1. {r.ts : r \in rows} \in SUBSET Nat
        BY <2>1
      <3> QED
        BY <2>1, <3>1, HasMin
    <2>4. SetMax({r.at : r \in rows}) \in {r.at : r \in rows}
      <3>1. {r.at : r \in rows} \in SUBSET (0..Horizon)
        BY <2>2
      <3> QED
        BY <2>2, <3>1, ShiftRunnerAssumption, HasMax
    <2>5. /\ l.shift = t.shift /\ l.read = FALSE
          /\ l.earliest = SetMin({r.ts : r \in rows}) /\ l.seen = SetMax({r.at : r \in rows})
      BY <1>8
    <2>6. PICK one \in rows : l.earliest = one.ts
      BY <2>3, <2>5
    <2>7. PICK last \in rows : l.seen = last.at
      BY <2>4, <2>5
    <2>8. \A r \in arrived : r.shift = t.shift /\ t.since < r.at /\ r.at <= p.now
                                => l.earliest <= r.ts
      <3> SUFFICES ASSUME NEW r \in arrived, r.shift = t.shift, t.since < r.at, r.at <= p.now
                   PROVE  l.earliest <= r.ts
        OBVIOUS
      <3>1. r.at \in Nat /\ t.since \in Nat
        BY <1>1, <1>6 DEF TypeOK, Readings, Swept
      <3>2. r \in rows
        BY <3>1 DEF LateRows
      <3> QED
        BY <2>3, <2>5, <3>2
    <2>9. l.earliest <= now
      <3>1. one \in arrived /\ one.at <= now /\ one.ts <= one.at /\ one.ts \in Nat /\ one.at \in Nat
        BY <1>1, <1>7 DEF Promise, ArrivedBefore, LateRows, Readings
      <3> QED
        BY <1>1, <2>6, <3>1
    <2>10. t.since < l.seen /\ l.seen <= p.now
      <3>1. last.at > t.since /\ last.at <= p.now /\ last.at \in Nat /\ t.since \in Nat
        BY <1>6, <1>7 DEF LateRows, Readings, Swept
      <3> QED
        BY <2>7, <3>1
    <2>11. \A u \in p.todo \ {t} : u.shift # t.shift
      BY <1>2 DEF Sweeping
    <2> QED
      BY <1>3, <1>5, <1>6, <2>5, <2>8, <2>9, <2>10, <2>11 DEF LateInHand, Unswept
  <1> HIDE DEF found, rows
  <1>9. Sweeping(pass[i])'
    BY <1>2, <1>3, <1>5, <1>8 DEF Sweeping, Unswept
  <1>10. PassKeeps(pass[i])'
    BY <1>2, <1>3, <1>5, <1>9 DEF PassKeeps
  <1>11. World
    BY <1>1, <1>3, NothingHappens DEF World
  <1> QED
    BY <1>1, <1>3, <1>5, <1>10, <1>11, PassMoves

\* A query that throws leaves the shift for the next pass.
LEMMA SweepFailsSafe ==
  ASSUME LInv, TypeOK', NoLockLost, Promise, NEW i \in Instances, SweepFails(i)
  PROVE  Promise'
  <1> DEFINE p == pass[i]
  <1>1. /\ TypeOK /\ p \in Passes /\ p.now \in Nat /\ p.pc \in {"sweep", "rewind"} /\ now \in Nat
        /\ UNCHANGED <<now, arrived, shift, edit, attempt, covered, answerable>>
    BY DEF LInv, TypeOK, Passes, SweepFails, ghosts
  <1>2. PassKeeps(p) /\ Sweeping(p)
    BY <1>1 DEF Promise, PassesKeep, PassKeeps
  <1>3. /\ pass'[i].now = p.now /\ pass'[i].queue = p.queue /\ pass'[i].win = p.win
        /\ pass'[i].pc = "sweep" /\ pass'[i].todo \subseteq p.todo /\ pass'[i].late = {}
        /\ \A j \in Instances \ {i} : pass'[j] = pass[j]
    <2>1. CASE pass' = [pass EXCEPT ![i].late = {}, ![i].pc = "sweep"]
      BY <1>1, <2>1 DEF TypeOK, Passes
    <2>2. CASE p.pc = "sweep" /\ \E t \in p.todo : pass' = [pass EXCEPT ![i].todo = @ \ {t}]
      BY <1>1, <1>2, <2>2 DEF TypeOK, Passes, Sweeping
    <2> QED
      BY <2>1, <2>2 DEF SweepFails
  <1>4. Sweeping(pass[i])'
    BY <1>1, <1>2, <1>3 DEF Sweeping, Unswept
  <1>5. PassKeeps(pass[i])'
    BY <1>1, <1>2, <1>3, <1>4 DEF PassKeeps
  <1>6. World
    BY <1>1, NothingHappens DEF World
  <1> QED
    BY <1>1, <1>3, <1>5, <1>6, PassMoves

\* The sweep decides on the row as it stands.
LEMMA RewindReadSafe ==
  ASSUME LInv, TypeOK', NoLockLost, Promise, NEW i \in Instances, RewindRead(i)
  PROVE  Promise'
  <1> DEFINE p == pass[i]
  <1>1. /\ TypeOK /\ p \in Passes /\ p.now \in Nat /\ p.pc = "rewind" /\ now \in Nat
        /\ UNCHANGED <<now, arrived, shift, edit, attempt, covered, answerable>>
    BY DEF LInv, TypeOK, Passes, RewindRead, ghosts
  <1>2. PassKeeps(p) /\ Sweeping(p)
    BY <1>1 DEF Promise, PassesKeep, PassKeeps
  <1>3. PICK l \in p.late :
          pass' = [pass EXCEPT ![i].late =
                     {[l EXCEPT !.read = TRUE, !.moves = Rewinds(l, shift[l.shift])]}]
    BY DEF RewindRead
  <1> PICK m : m = [l EXCEPT !.read = TRUE, !.moves = Rewinds(l, shift[l.shift])]
    OBVIOUS
  <1>4. /\ l \in Found /\ l.shift \in Shifts /\ l.earliest \in 1..Horizon
        /\ shift[l.shift] \in Rows /\ shift[l.shift].scored \in Never..Horizon
    BY <1>1 DEF Passes, Found, TypeOK, Rows
  <1>5. /\ m.shift = l.shift /\ m.earliest = l.earliest /\ m.seen = l.seen
        /\ m.moves <=> Rewinds(l, shift[l.shift])
    BY <1>4 DEF Found
  <1>6. /\ pass'[i].now = p.now /\ pass'[i].queue = p.queue /\ pass'[i].win = p.win
        /\ pass'[i].pc = "rewind" /\ pass'[i].todo = p.todo /\ pass'[i].late = {m}
        /\ \A j \in Instances \ {i} : pass'[j] = pass[j]
    BY <1>1, <1>3 DEF TypeOK, Passes
  <1>7. /\ m.moves => RewindTo(m) < shift[l.shift].scored
        /\ ~m.moves => shift[l.shift].scored <= RewindTo(m)
    <2>1. RewindTo(m) = RewindTo(l) /\ RewindTo(l) \in Nat
      BY <1>4, <1>5 DEF RewindTo
    <2>2. Rewinds(l, shift[l.shift]) => RewindTo(l) < shift[l.shift].scored
      BY DEF Rewinds
    <2>3. ~Rewinds(l, shift[l.shift]) => shift[l.shift].scored <= RewindTo(l)
      BY <1>4, <2>1, ShiftRunnerAssumption DEF Rewinds, Never
    <2> QED
      BY <1>5, <2>1, <2>2, <2>3
  <1>8. LateInHand(p, l)
    BY <1>2 DEF Sweeping
  <1>9. LateInHand(pass[i], m)'
    BY <1>1, <1>5, <1>6, <1>7, <1>8 DEF LateInHand, Unswept
  <1>10. Sweeping(pass[i])'
    BY <1>1, <1>2, <1>6, <1>9 DEF Sweeping, Unswept
  <1>11. PassKeeps(pass[i])'
    BY <1>1, <1>2, <1>6, <1>10 DEF PassKeeps
  <1>12. World
    BY <1>1, NothingHappens DEF World
  <1> QED
    BY <1>1, <1>6, <1>11, <1>12, PassMoves

\* The rewind moves both watermarks at once: what arrived unseen lies beyond the
\* one, or was beyond it already.
LEMMA RewoundKeeps ==
  ASSUME TypeOK, NEW s \in Shifts, NEW p \in Passes, NEW l \in Found, l.shift = s, l.read,
         LateInHand(p, l), RowKeeps(s, shift[s])
  PROVE  RowKeeps(s, Rewound(l, shift[s]))
  <1> DEFINE row == Rewound(l, shift[s])
  <1>1. /\ shift[s] \in Rows /\ shift[s].scored \in Never..Horizon /\ shift[s].arrivals \in Nat
        /\ l.earliest \in Nat /\ l.seen \in Nat /\ RewindTo(l) \in Int /\ p.now \in Nat
        /\ answerable[s] \in Nat /\ l.moves \in BOOLEAN
    BY DEF TypeOK, Rows, Found, RewindTo, Passes, NotAnswerable
  <1>2. /\ row.arrivals = l.seen
        /\ l.moves => row.scored = RewindTo(l)
        /\ ~l.moves => row.scored = shift[s].scored
    BY <1>1 DEF Rewound, Rows
  <1> HIDE DEF row
  <1> SUFFICES ASSUME NEW e \in Ends[s], answerable[s] <= e, e <= row.scored
               PROVE  Accounted(s, e, row.arrivals)
    BY DEF RowKeeps, row
  <1> DEFINE w == [shift |-> s, end |-> e]
  <1>3. e \in Nat /\ w \in Owing /\ w.shift = s /\ w.end = e
    BY WindowType DEF Owing
  <1>4. e <= RewindTo(l) /\ e <= shift[s].scored
    <2>1. CASE l.moves
      BY <1>1, <1>2, <1>3, <2>1 DEF LateInHand, Never
    <2>2. CASE ~l.moves
      BY <1>1, <1>2, <1>3, <2>2 DEF LateInHand, Never
    <2> QED
      BY <1>1, <2>1, <2>2
  <1>5. Accounted(s, e, shift[s].arrivals)
    BY <1>4 DEF RowKeeps
  <1> HIDE DEF w
  <1>6. ASSUME NEW r \in arrived, InWindow(r, w), r.at <= l.seen
        PROVE  r.at <= shift[s].arrivals
    <2>1. r.at \in Nat /\ r.ts \in Nat
      BY DEF TypeOK, Readings
    <2>2. r.shift = s /\ r.ts <= e
      BY <1>3, <1>6 DEF InWindow
    <2>3. SUFFICES ASSUME shift[s].arrivals < r.at PROVE FALSE
      BY <1>1, <2>1
    <2>4. r.at <= p.now
      BY <1>1, <1>6, <2>1 DEF LateInHand
    <2>5. l.earliest <= r.ts
      BY <2>2, <2>3, <2>4 DEF LateInHand
    <2> QED
      BY <1>1, <1>3, <1>4, <2>1, <2>2, <2>5 DEF RewindTo
  <1> QED
    BY <1>2, <1>5, <1>6 DEF Accounted, w

\* The rewind written: the shift answers for what is left below the mark.
LEMMA RewindWriteSafe ==
  ASSUME LInv, TypeOK', NoLockLost, Promise, NEW i \in Instances, RewindWrite(i)
  PROVE  Promise'
  <1> DEFINE p == pass[i]
  <1>1. /\ p.pc = "rewind"
        /\ pass' = [pass EXCEPT ![i].late = {}, ![i].pc = "sweep"]
        /\ UNCHANGED <<now, arrived, edit, attempt, covered, answerable>>
    BY DEF RewindWrite, ghosts
  <1>2. TypeOK /\ p \in Passes /\ p.now \in Nat /\ now \in Nat
    BY DEF LInv, TypeOK, Passes
  <1>3. PassKeeps(p) /\ Sweeping(p)
    BY <1>1 DEF Promise, PassesKeep, PassKeeps
  <1>4. PICK l \in p.late : l.read /\ shift' = [shift EXCEPT ![l.shift] = Rewound(l, @)]
    BY DEF RewindWrite
  <1>5. PICK s : s = l.shift
    OBVIOUS
  <1>6. /\ l \in Found /\ s \in Shifts /\ shift[s] \in Rows /\ l.seen \in Nat /\ l.earliest \in 1..Horizon
        /\ shift[s].arrivals \in Nat /\ shift[s].scored \in Never..Horizon /\ l.moves \in BOOLEAN
    BY <1>2, <1>5 DEF Passes, Found, TypeOK, Rows
  <1>7. LateInHand(p, l)
    BY <1>3 DEF Sweeping
  <1>8. /\ shift'[s] = Rewound(l, shift[s])
        /\ \A u \in Shifts : u # s => shift'[u] = shift[u]
    BY <1>2, <1>4, <1>5, <1>6 DEF TypeOK
  <1>9. /\ shift'[s].arrivals = l.seen
        /\ l.moves => shift'[s].scored = RewindTo(l)
        /\ ~l.moves => shift'[s].scored = shift[s].scored
    BY <1>6, <1>8 DEF Rewound, Rows
  <1>10. shift[s].arrivals < l.seen /\ l.seen <= p.now /\ p.now <= now
    BY <1>3, <1>5, <1>7 DEF LateInHand, PassKeeps
  <1>11. RowsKeep'
    <2> SUFFICES ASSUME NEW u \in Shifts
                 PROVE  /\ RowKeeps(u, shift[u])'
                        /\ shift'[u].scored = Never <=> answerable'[u] = NotAnswerable
                        /\ shift'[u].arrivals <= now'
      BY DEF RowsKeep
    <2>1. /\ RowKeeps(u, shift[u]) /\ shift[u].arrivals <= now
          /\ shift[u].scored = Never <=> answerable[u] = NotAnswerable
      BY DEF Promise, RowsKeep
    <2>2. CASE u # s
      BY <1>1, <1>8, <2>1, <2>2 DEF RowKeeps, Accounted
    <2>3. CASE u = s
      <3>1. RowKeeps(u, Rewound(l, shift[u]))
        BY <1>2, <1>4, <1>5, <1>6, <1>7, <2>1, <2>3, RewoundKeeps
      <3>2. RowKeeps(u, shift[u])'
        BY <1>1, <1>8, <2>3, <3>1 DEF RowKeeps, Accounted
      <3>3. shift'[u].scored = Never <=> shift[u].scored = Never
        BY <1>4, <1>5, <1>6, <1>7, <1>9, <2>3 DEF LateInHand, RewindTo, Never
      <3> QED
        BY <1>1, <1>2, <1>6, <1>9, <1>10, <2>1, <2>3, <3>2, <3>3
    <2> QED
      BY <2>2, <2>3
  <1>12. EditsKeep'
    <2> SUFFICES ASSUME NEW u \in Shifts, edit[u].kind # "none"
                 PROVE  /\ RowKeeps(u, edit[u].row)'
                        /\ edit[u].row.arrivals <= shift'[u].arrivals
                        /\ edit[u].row.scored # Never => answerable[u] # NotAnswerable
      BY <1>1 DEF EditsKeep
    <2>1. /\ RowKeeps(u, edit[u].row) /\ edit[u].row.arrivals <= shift[u].arrivals
          /\ edit[u].row.scored # Never => answerable[u] # NotAnswerable
      BY DEF Promise, EditsKeep
    <2>2. edit[u].row.arrivals \in Nat
      BY <1>2 DEF TypeOK, Edits, Rows
    <2> QED
      BY <1>1, <1>6, <1>8, <1>9, <1>10, <2>1, <2>2 DEF RowKeeps, Accounted
  <1>13. PassesKeep'
    <2>1. /\ pass'[i].now = p.now /\ pass'[i].queue = p.queue /\ pass'[i].win = p.win
          /\ pass'[i].pc = "sweep" /\ pass'[i].todo = p.todo /\ pass'[i].late = {}
          /\ \A j \in Instances \ {i} : pass'[j] = pass[j]
      BY <1>1, <1>2 DEF TypeOK, Passes
    <2>2. \A t \in p.todo : t.shift \in Shifts /\ t.shift # s
      BY <1>2, <1>5, <1>7 DEF Passes, Swept, LateInHand
    <2>3. Sweeping(pass[i])'
      <3>1. \A t \in p.todo : Unswept(t.shift, t.since)'
        BY <1>1, <1>3, <1>8, <2>2 DEF Sweeping, Unswept
      <3> QED
        BY <1>3, <2>1, <3>1 DEF Sweeping, Unswept
    <2>4. PassKeeps(pass[i])'
      BY <1>1, <1>3, <1>8, <1>9, <1>10, <2>1, <2>3 DEF PassKeeps
    <2> QED
      BY <1>1, <2>1, <2>4, OwnPass
  <1>14. ArrivedBefore'
    BY <1>1 DEF Promise, ArrivedBefore
  <1> QED
    BY <1>11, <1>12, <1>13, <1>14 DEF Promise

\* What is among the oldest has everything older among the oldest too.
LEMMA OldestDown ==
  ASSUME NEW n \in Nat, NEW W \in SUBSET (1..n), NEW k \in Nat, NEW d \in W, NEW e \in Oldest(W, k), d < e
  PROVE  d \in Oldest(W, k)
  <1>1. IsFiniteSet(W)
    <2>1. IsFiniteSet(1..n)
      BY FS_Interval
    <2> QED
      BY <2>1, FS_Subset
  <1>2. {x \in W : x < d} \subseteq {x \in W : x < e} /\ e \in W
    <2>1. e \in W /\ \A x \in W : x \in Nat
      BY DEF Oldest
    <2>2. ASSUME NEW x \in W, x < d PROVE x < e
      <3>1. x \in Nat /\ d \in Nat /\ e \in Nat
        BY <2>1
      <3> QED
        BY <2>2, <3>1
    <2> QED
      BY <2>1, <2>2
  <1>3. IsFiniteSet({x \in W : x < e})
    BY <1>1, FS_Subset
  <1>4. /\ IsFiniteSet({x \in W : x < d})
        /\ Cardinality({x \in W : x < d}) <= Cardinality({x \in W : x < e})
    BY <1>2, <1>3, FS_Subset
  <1>5. Cardinality({x \in W : x < d}) \in Nat /\ Cardinality({x \in W : x < e}) \in Nat
    BY <1>3, <1>4, FS_CardinalityType
  <1>6. Cardinality({x \in W : x < e}) < k
    BY DEF Oldest
  <1>7. Cardinality({x \in W : x < d}) < k
    BY <1>4, <1>5, <1>6
  <1> QED
    BY <1>7 DEF Oldest

\* What a shift is owed: windows of its own that are over, without a gap, from the
\* watermark on or, for one that never ran, the newest alone.
LEMMA OwedWindows ==
  ASSUME TypeOK, NEW s \in Shifts, NEW upTo \in Nat
  PROVE  /\ \A e \in OwedOf(s, upTo) : e \in Ends[s] /\ e <= upTo
         /\ \A c, e \in OwedOf(s, upTo) : \A d \in Ends[s] : c < d /\ d < e => d \in OwedOf(s, upTo)
         /\ shift[s].scored # Never =>
              \A e \in OwedOf(s, upTo) : \A d \in Ends[s] :
                 shift[s].scored < d /\ d < e => d \in OwedOf(s, upTo)
  <1> USE ShiftRunnerAssumption
  <1>1. /\ \A e \in Ends[s] : e \in 1..Horizon /\ e \in Nat
        /\ shift[s].scored \in Int
    BY DEF TypeOK, Rows, Never
  <1>2. CASE shift[s].scored = Never
    <2> DEFINE all == EndingBetween(s, upTo - LookBack, upTo)
    <2>1. OwedOf(s, upTo) = {e \in all : \A d \in all : d <= e}
      BY <1>2 DEF OwedOf
    <2>2. \A e \in all : e \in Ends[s] /\ e <= upTo
      BY DEF EndingBetween
    <2> HIDE DEF all
    <2>3. \A c, e \in OwedOf(s, upTo) : c <= e /\ e <= c
      BY <2>1
    <2> QED
      BY <1>1, <1>2, <2>1, <2>2, <2>3
  <1>3. CASE shift[s].scored # Never
    <2> DEFINE all == EndingBetween(s, shift[s].scored, upTo)
    <2>1. OwedOf(s, upTo) = Oldest(all, Cap)
      BY <1>3 DEF OwedOf
    <2>2. /\ all \in SUBSET (1..Horizon)
          /\ \A e \in all : e \in Ends[s] /\ e <= upTo /\ shift[s].scored < e
          /\ \A d \in Ends[s] : shift[s].scored < d /\ d <= upTo => d \in all
      BY <1>1 DEF EndingBetween
    <2> HIDE DEF all
    <2>3. \A e \in Oldest(all, Cap) : e \in all
      BY DEF Oldest
    <2>4. \A e \in Oldest(all, Cap) : \A d \in Ends[s] :
             shift[s].scored < d /\ d < e => d \in Oldest(all, Cap)
      <3> SUFFICES ASSUME NEW e \in Oldest(all, Cap), NEW d \in Ends[s],
                          shift[s].scored < d, d < e
                   PROVE  d \in Oldest(all, Cap)
        OBVIOUS
      <3>1. d \in all
        BY <1>1, <2>2, <2>3
      <3> QED
        BY <2>2, <3>1, OldestDown
    <2>5. \A c \in Oldest(all, Cap) : \A d \in Ends[s] : c < d => shift[s].scored < d
      <3> SUFFICES ASSUME NEW c \in Oldest(all, Cap), NEW d \in Ends[s], c < d
                   PROVE  shift[s].scored < d
        OBVIOUS
      <3>1. c \in all /\ shift[s].scored < c /\ c \in Nat /\ d \in Nat
        BY <1>1, <2>2, <2>3
      <3> QED
        BY <1>1, <3>1
    <2> QED
      BY <2>1, <2>2, <2>3, <2>4, <2>5
  <1> QED
    BY <1>2, <1>3

\* What a pass is owed lies beyond what the watermarks have passed.
LEMMA OwedSafe ==
  ASSUME LInv, TypeOK', NoLockLost, Promise, NEW i \in Instances, Owed(i)
  PROVE  Promise'
  <1> DEFINE p == pass[i]
             queue == UNION {{[shift |-> s, end |-> e] : e \in OwedOf(s, p.now)} : s \in ActiveShifts}
  <1>1. /\ p.pc = "sweep" /\ p.todo = {}
        /\ pass' = [pass EXCEPT ![i].pc = "take", ![i].queue = queue]
        /\ UNCHANGED <<now, arrived, shift, edit, attempt, covered, answerable>>
    BY DEF Owed, ghosts
  <1>2. TypeOK /\ p \in Passes /\ p.now \in Nat /\ now \in Nat
    BY DEF LInv, TypeOK, Passes
  <1>3. PassKeeps(p) /\ Sweeping(p)
    BY <1>1 DEF Promise, PassesKeep, PassKeeps
  <1>4. /\ pass'[i].now = p.now /\ pass'[i].queue = queue /\ pass'[i].win = {}
        /\ pass'[i].pc = "take" /\ pass'[i].todo = {} /\ pass'[i].late = {}
        /\ \A j \in Instances \ {i} : pass'[j] = pass[j]
    BY <1>1, <1>2, <1>3 DEF TypeOK, Passes, Sweeping
  <1>5. /\ \A w \in queue : w.shift \in Shifts /\ w.end \in OwedOf(w.shift, p.now)
        /\ \A w \in queue : \A e \in OwedOf(w.shift, p.now) : [shift |-> w.shift, end |-> e] \in queue
    BY DEF ActiveShifts
  <1> HIDE DEF queue
  <1>6. \A w \in queue : w.end \in Ends[w.shift] /\ w.end <= p.now
    BY <1>2, <1>5, OwedWindows
  <1>7. Follows(queue)
    BY <1>2, <1>5, OwedWindows DEF Follows
  <1>8. Behind(queue)
    <2> SUFFICES ASSUME NEW w \in queue, NEW e \in Ends[w.shift], e < w.end,
                        answerable[w.shift] <= e, ~([shift |-> w.shift, end |-> e] \in queue)
                 PROVE  Accounted(w.shift, e, shift[w.shift].arrivals)
      BY DEF Behind
    <2>1. w.shift \in Shifts /\ e \in 1..Horizon /\ e \notin OwedOf(w.shift, p.now)
      BY <1>5, WindowType
    <2>2. /\ RowKeeps(w.shift, shift[w.shift])
          /\ shift[w.shift].scored = Never <=> answerable[w.shift] = NotAnswerable
      BY <2>1 DEF Promise, RowsKeep
    <2>3. shift[w.shift].scored # Never
      BY <2>1, <2>2, ShiftRunnerAssumption DEF NotAnswerable
    <2>4. ~(shift[w.shift].scored < e)
      BY <1>2, <1>5, <2>1, <2>3, OwedWindows
    <2>5. shift[w.shift].scored \in Int
      BY <1>2, <2>1, ShiftRunnerAssumption DEF TypeOK, Rows, Never
    <2>6. e <= shift[w.shift].scored
      BY <2>1, <2>4, <2>5
    <2> QED
      BY <2>2, <2>6 DEF RowKeeps
  <1>9. Scoring(pass[i])'
    <2>1. Ahead(pass'[i]) = queue
      BY <1>4 DEF Ahead
    <2>2. Behind(Ahead(pass[i]))'
      BY <1>1, <1>8, <2>1 DEF Behind, Ahead, Accounted
    <2>3. Pulled(pass[i])'
      BY <1>4 DEF Pulled
    <2>4. Follows(Ahead(pass[i]))'
      BY <1>7, <2>1 DEF Follows, Ahead
    <2> QED
      BY <1>4, <1>6, <2>1, <2>2, <2>3, <2>4 DEF Scoring, Ahead
  <1>10. PassKeeps(pass[i])'
    BY <1>1, <1>3, <1>4, <1>9 DEF PassKeeps
  <1>11. World
    BY <1>1, <1>2, NothingHappens DEF World
  <1> QED
    BY <1>1, <1>4, <1>10, <1>11, PassMoves

\* The windows a pass has left stay as they are,
LEMMA BehindOn ==
  ASSUME TypeOK, TypeOK', NEW A \in SUBSET Owing, Behind(A), UNCHANGED <<shift, answerable>>,
         \A s \in Shifts : Respects(shift[s].arrivals)
  PROVE  Behind(A)'
  <1> SUFFICES ASSUME NEW w \in A, NEW e \in Ends[w.shift], e < w.end,
                      answerable[w.shift] <= e, ~([shift |-> w.shift, end |-> e] \in A)
               PROVE  AccountedNext(w.shift, e, shift[w.shift].arrivals)
    BY DEF Behind, Accounted, AccountedNext
  <1>1. w.shift \in Shifts /\ shift[w.shift].arrivals \in Nat
    BY DEF Owing, TypeOK, Rows
  <1>2. Accounted(w.shift, e, shift[w.shift].arrivals)
    BY DEF Behind
  <1> QED
    BY <1>1, <1>2, AccountedOn

\* or lose their oldest to the account.
LEMMA OneLess ==
  ASSUME TypeOK, TypeOK', NEW A \in SUBSET Owing, NEW w \in A, w.end \in Ends[w.shift],
         \A v \in A : v.shift = w.shift => w.end <= v.end,
         Follows(A), Behind(A),
         \A s \in Shifts : Respects(shift[s].arrivals) /\ shift'[s].arrivals = shift[s].arrivals,
         \A s \in Shifts : answerable'[s] = answerable[s] \/ (s = w.shift /\ answerable'[s] = w.end),
         AccountedNext(w.shift, w.end, shift[w.shift].arrivals)
  PROVE  Follows(A \ {w}) /\ Behind(A \ {w})'
  <1>1. /\ \A v \in A : v.shift \in Shifts /\ v.end \in Nat /\ v = [shift |-> v.shift, end |-> v.end]
        /\ \A s \in Shifts : \A e \in Ends[s] : e \in Nat
    BY ShiftRunnerAssumption DEF Owing
  <1>2. Follows(A \ {w})
    <2> SUFFICES ASSUME NEW u \in A \ {w}, NEW v \in A \ {w}, u.shift = v.shift,
                        NEW e \in Ends[v.shift], u.end < e, e < v.end
                 PROVE  [shift |-> v.shift, end |-> e] \in A \ {w}
      BY DEF Follows
    <2>1. [shift |-> v.shift, end |-> e] \in A
      BY DEF Follows
    <2>2. ASSUME [shift |-> v.shift, end |-> e] = w PROVE FALSE
      <3>1. w.shift = v.shift /\ w.end = e
        BY <2>2
      <3>2. w.end <= u.end
        BY <3>1
      <3> QED
        BY <1>1, <3>1, <3>2
    <2> QED
      BY <2>1, <2>2
  <1>3. ASSUME NEW v \in A \ {w}, NEW e \in Ends[v.shift], e < v.end, answerable'[v.shift] <= e,
               ~([shift |-> v.shift, end |-> e] \in A \ {w})
        PROVE  AccountedNext(v.shift, e, shift[v.shift].arrivals)
    <2>1. CASE [shift |-> v.shift, end |-> e] = w
      <3>1. v.shift = w.shift /\ e = w.end
        BY <2>1
      <3> QED
        BY <3>1
    <2>2. CASE [shift |-> v.shift, end |-> e] \notin A
      <3>1. v.shift \in Shifts /\ e \in Nat /\ v.end \in Nat /\ w.end \in Nat
        BY <1>1
      <3>2. answerable[v.shift] <= e
        <4> SUFFICES ASSUME v.shift = w.shift, answerable'[v.shift] = w.end PROVE FALSE
          BY <1>3, <3>1
        <4>1. w.end # e
          BY <1>1, <2>2
        <4>2. w.end < e
          BY <1>3, <3>1, <4>1
        <4> QED
          BY <1>3, <2>2, <4>2 DEF Follows
      <3>3. Accounted(v.shift, e, shift[v.shift].arrivals)
        BY <1>3, <2>2, <3>2 DEF Behind
      <3>4. shift[v.shift].arrivals \in Nat
        BY <3>1 DEF TypeOK, Rows
      <3> QED
        BY <3>1, <3>3, <3>4, AccountedOn
    <2> QED
      BY <1>3, <2>1, <2>2
  <1>4. Behind(A \ {w})'
    BY <1>1, <1>3 DEF Behind, Accounted, AccountedNext
  <1> QED
    BY <1>2, <1>4

\* A pass that scores knows what it has left.
LEMMA ScoringNow ==
  ASSUME LInv, Promise, NEW i \in Instances, pass[i].pc \in {"take", "ingest", "mark"}
  PROVE  /\ TypeOK /\ pass[i] \in Passes /\ pass[i].now \in Nat /\ now \in Nat
         /\ PassKeeps(pass[i]) /\ Scoring(pass[i]) /\ Ahead(pass[i]) \in SUBSET Owing
         /\ \A s \in Shifts : shift[s].arrivals \in Nat /\ shift[s].arrivals <= pass[i].now
         /\ pass[i].now <= now
  <1>1. TypeOK /\ pass[i] \in Passes /\ pass[i].now \in Nat /\ now \in Nat
    BY DEF LInv, TypeOK, Passes
  <1>2. PassKeeps(pass[i]) /\ Scoring(pass[i])
    BY DEF Promise, PassesKeep, PassKeeps
  <1>3. Ahead(pass[i]) \in SUBSET Owing
    BY <1>1 DEF Ahead, Passes
  <1>4. \A s \in Shifts : shift[s].arrivals \in Nat /\ shift[s].arrivals <= pass[i].now
    BY <1>1, <1>2 DEF PassKeeps, TypeOK, Rows
  <1> QED
    BY <1>1, <1>2, <1>3, <1>4 DEF PassKeeps

\* The next window is pulled with everything that has arrived, or left waiting.
LEMMA TakeSafe ==
  ASSUME LInv, TypeOK', NoLockLost, Promise, NEW i \in Instances, Take(i)
  PROVE  Promise'
  <1> DEFINE p == pass[i]
  <1>0. PICK A : A = Ahead(p)
    OBVIOUS
  <1>1. p.pc = "take" /\ UNCHANGED <<now, arrived, shift, edit, covered, answerable>>
    BY DEF Take
  <1>2. /\ TypeOK /\ p \in Passes /\ p.now \in Nat /\ now \in Nat
        /\ PassKeeps(p) /\ Scoring(p) /\ A \in SUBSET Owing
        /\ \A s \in Shifts : shift[s].arrivals \in Nat /\ shift[s].arrivals <= p.now
        /\ p.now <= now
    BY <1>0, <1>1, ScoringNow
  <1>3. PICK w \in Front(i) :
          LET pulled == IF route[i] THEN Pull(w) ELSE PullOwn(w) IN
          IF ~route[i] /\ pulled = {}
          THEN /\ pass' = [pass EXCEPT ![i].queue = @ \ {w}]
               /\ attempt' = [attempt EXCEPT ![w] = "waiting"]
          ELSE /\ pass' = [pass EXCEPT ![i].queue = @ \ {w}, ![i].win = {w},
                                       ![i].pull = pulled, ![i].own = ~route[i],
                                       ![i].pc = "ingest"]
               /\ UNCHANGED attempt
    BY DEF Take
  <1> DEFINE pulled == IF route[i] THEN Pull(w) ELSE PullOwn(w)
  <1>4. /\ w \in p.queue /\ p.win = {} /\ A = p.queue /\ w \in A /\ w \in Owing
        /\ \A v \in p.queue : w.end <= v.end
        /\ w.end \in Ends[w.shift] /\ w.shift \in Shifts
    BY <1>0, <1>1, <1>2 DEF Front, Scoring, Ahead, Owing
  <1>5. \A j \in Instances \ {i} : pass'[j] = pass[j]
    BY <1>2, <1>3 DEF TypeOK
  <1>6. attempt' = attempt \/ attempt' = [attempt EXCEPT ![w] = "waiting"]
    BY <1>3
  <1>7. \A upTo : Respects(upTo)
    BY <1>1, <1>2, <1>4, <1>6 DEF Respects, Excused, TypeOK
  <1>8. World
    BY <1>1, <1>2, <1>7 DEF World
  <1>9. CASE ~route[i] /\ pulled = {}
    <2>1. pass' = [pass EXCEPT ![i].queue = @ \ {w}] /\ attempt' = [attempt EXCEPT ![w] = "waiting"]
      BY <1>3, <1>9
    <2>2. /\ pass'[i].now = p.now /\ pass'[i].queue = p.queue \ {w} /\ pass'[i].win = {}
          /\ pass'[i].pc = "take" /\ pass'[i].todo = {} /\ pass'[i].late = {}
      BY <1>1, <1>2, <1>4, <2>1 DEF TypeOK, Passes, Scoring
    <2>3. AccountedNext(w.shift, w.end, shift[w.shift].arrivals)
      <3>1. [shift |-> w.shift, end |-> w.end] = w
        BY <1>4 DEF Owing
      <3>2. attempt'[w] = "waiting"
        BY <1>2, <1>4, <2>1 DEF TypeOK
      <3> QED
        BY <3>1, <3>2 DEF AccountedNext, Excused
    <2>4. Follows(A) /\ Behind(A)
      BY <1>0, <1>2 DEF Scoring
    <2>5. Follows(A \ {w}) /\ Behind(A \ {w})'
      <3>1. \A s \in Shifts : Respects(shift[s].arrivals) /\ shift'[s].arrivals = shift[s].arrivals
        BY <1>1, <1>7
      <3>2. \A s \in Shifts : answerable'[s] = answerable[s] \/ (s = w.shift /\ answerable'[s] = w.end)
        BY <1>1
      <3>3. \A v \in A : v.shift = w.shift => w.end <= v.end
        BY <1>4
      <3> QED
        BY <1>2, <1>4, <2>3, <2>4, <3>1, <3>2, <3>3, OneLess
    <2>6. Ahead(pass'[i]) = A \ {w}
      BY <1>4, <2>2 DEF Ahead
    <2>7. Behind(Ahead(pass[i]))'
      BY <1>4, <2>5, <2>6 DEF Behind, Ahead
    <2>8. Follows(Ahead(pass[i]))'
      BY <2>5, <2>6 DEF Follows, Ahead
    <2>9. Scoring(pass[i])'
      BY <1>2, <1>4, <2>2, <2>7, <2>8 DEF Scoring, Pulled, Ahead
    <2>10. PassKeeps(pass[i])'
      BY <1>1, <1>2, <2>2, <2>9 DEF PassKeeps
    <2> QED
      BY <1>1, <1>5, <1>8, <2>10, PassMoves
  <1>10. CASE ~(~route[i] /\ pulled = {})
    <2>1. /\ pass' = [pass EXCEPT ![i].queue = @ \ {w}, ![i].win = {w},
                                  ![i].pull = pulled, ![i].own = ~route[i], ![i].pc = "ingest"]
          /\ UNCHANGED attempt
      BY <1>3, <1>10
    <2>2. /\ pass'[i].now = p.now /\ pass'[i].queue = p.queue \ {w} /\ pass'[i].win = {w}
          /\ pass'[i].pc = "ingest" /\ pass'[i].todo = {} /\ pass'[i].late = {}
          /\ pass'[i].pull = pulled /\ (~pass'[i].own => route[i])
      BY <1>1, <1>2, <2>1 DEF TypeOK, Passes, Scoring
    <2>3. Ahead(pass'[i]) = A
      BY <1>4, <2>2 DEF Ahead
    <2>4. Behind(A)'
      BY <1>0, <1>1, <1>2, <1>7, BehindOn DEF Scoring
    <2>5. Behind(Ahead(pass[i]))'
      BY <2>3, <2>4 DEF Behind, Ahead
    <2>6. Follows(Ahead(pass[i]))'
      BY <1>0, <1>2, <2>3 DEF Scoring, Follows, Ahead
    <2>7. Pulled(pass[i])'
      <3>1. ~pass'[i].own => \A r \in arrived : InWindow(r, w) => r \in pass'[i].pull
        BY <2>2 DEF Pull
      <3> QED
        BY <1>1, <1>4, <2>2, <3>1 DEF Pulled
    <2>8. Scoring(pass[i])'
      BY <1>0, <1>2, <1>4, <2>2, <2>3, <2>5, <2>6, <2>7 DEF Scoring, Ahead
    <2>9. PassKeeps(pass[i])'
      BY <1>1, <1>2, <2>2, <2>8 DEF PassKeeps
    <2> QED
      BY <1>1, <1>5, <1>8, <2>9, PassMoves
  <1> QED
    BY <1>9, <1>10

\* Storing what was pulled moves no watermark.
LEMMA IngestSafe ==
  ASSUME LInv, TypeOK', NoLockLost, Promise, NEW i \in Instances, Ingest(i)
  PROVE  Promise'
  <1> DEFINE p == pass[i]
  <1>1. /\ p.pc = "ingest" /\ pass' = [pass EXCEPT ![i].pc = "mark"]
        /\ UNCHANGED <<now, arrived, shift, edit, attempt, covered, answerable>>
    BY DEF Ingest, ghosts
  <1>2. /\ TypeOK /\ p \in Passes /\ p.now \in Nat /\ now \in Nat /\ PassKeeps(p) /\ Scoring(p)
        /\ p.now <= now
    BY <1>1, ScoringNow
  <1>3. /\ pass'[i].now = p.now /\ pass'[i].queue = p.queue /\ pass'[i].win = p.win
        /\ pass'[i].pc = "mark" /\ pass'[i].todo = p.todo /\ pass'[i].late = p.late
        /\ pass'[i].pull = p.pull /\ pass'[i].own = p.own
        /\ \A j \in Instances \ {i} : pass'[j] = pass[j]
    BY <1>1, <1>2 DEF TypeOK, Passes
  <1>4. Behind(Ahead(pass[i]))'
    BY <1>1, <1>2, <1>3 DEF Scoring, Behind, Ahead, Accounted
  <1>5. Follows(Ahead(pass[i]))'
    BY <1>2, <1>3 DEF Scoring, Follows, Ahead
  <1>6. Pulled(pass[i])'
    BY <1>1, <1>2, <1>3 DEF Scoring, Pulled
  <1>7. Scoring(pass[i])'
    BY <1>1, <1>2, <1>3, <1>4, <1>5, <1>6 DEF Scoring, Ahead
  <1>8. PassKeeps(pass[i])'
    BY <1>1, <1>2, <1>3, <1>7 DEF PassKeeps
  <1>9. World
    BY <1>1, <1>2, NothingHappens DEF World
  <1> QED
    BY <1>1, <1>3, <1>8, <1>9, PassMoves

\* A run that ends has its window off the list, and the rest stays in order.
LEMMA RunEnds ==
  ASSUME LInv, TypeOK', Promise, NEW i \in Instances, pass[i].pc \in {"ingest", "mark"},
         NEW w \in pass[i].win,
         pass' = [pass EXCEPT ![i].pc = "take", ![i].win = {}, ![i].pull = {}],
         \A s \in Shifts : Respects(shift[s].arrivals) /\ shift'[s].arrivals = shift[s].arrivals,
         \A s \in Shifts : answerable'[s] = answerable[s] \/ (s = w.shift /\ answerable'[s] = w.end),
         AccountedNext(w.shift, w.end, shift[w.shift].arrivals), UNCHANGED now
  PROVE  PassKeeps(pass[i])' /\ \A j \in Instances \ {i} : pass'[j] = pass[j]
  <1> DEFINE p == pass[i]
  <1>0. PICK A : A = Ahead(p)
    OBVIOUS
  <1>1. /\ TypeOK /\ p \in Passes /\ p.now \in Nat /\ now \in Nat
        /\ PassKeeps(p) /\ Scoring(p) /\ A \in SUBSET Owing
        /\ p.now <= now
    BY <1>0, ScoringNow
  <1>2. /\ pass'[i].now = p.now /\ pass'[i].queue = p.queue /\ pass'[i].win = {}
        /\ pass'[i].pc = "take" /\ pass'[i].todo = {} /\ pass'[i].late = {}
        /\ \A j \in Instances \ {i} : pass'[j] = pass[j]
    BY <1>1 DEF TypeOK, Passes, Scoring
  <1>3. /\ p.win = {w} /\ w \notin p.queue /\ \A v \in p.queue : w.end <= v.end
        /\ w \in A /\ w.end \in Ends[w.shift]
    BY <1>0, <1>1 DEF Scoring, Pulled, Ahead
  <1>4. \A v \in A : w.end <= v.end
    <2>1. w.end \in Nat
      BY <1>1, <1>3 DEF Owing
    <2> QED
      BY <1>0, <1>3, <2>1 DEF Ahead
  <1>5. Ahead(pass'[i]) = A \ {w}
    BY <1>0, <1>2, <1>3 DEF Ahead
  <1>6. Follows(A) /\ Behind(A)
    BY <1>0, <1>1 DEF Scoring
  <1>7. Follows(A \ {w}) /\ Behind(A \ {w})'
    BY <1>1, <1>3, <1>4, <1>6, OneLess
  <1>8. Behind(Ahead(pass[i]))'
    BY <1>2, <1>5, <1>7 DEF Behind, Ahead
  <1>9. Follows(Ahead(pass[i]))'
    BY <1>5, <1>7 DEF Follows, Ahead
  <1>10. Scoring(pass[i])'
    BY <1>0, <1>1, <1>2, <1>5, <1>8, <1>9 DEF Scoring, Pulled, Ahead
  <1>11. PassKeeps(pass[i])'
    BY <1>1, <1>2, <1>10 DEF PassKeeps
  <1> QED
    BY <1>2, <1>11

\* A run that fails is excused, and its windows stay behind the pass.
LEMMA FailSafe ==
  ASSUME LInv, TypeOK', NoLockLost, Promise, NEW i \in Instances, Fail(i)
  PROVE  Promise'
  <1> DEFINE p == pass[i]
  <1>1. PICK w \in p.win : attempt' = [attempt EXCEPT ![w] = "failed"]
    BY DEF Fail
  <1>2. /\ p.pc \in {"ingest", "mark"}
        /\ pass' = [pass EXCEPT ![i].pc = "take", ![i].win = {}, ![i].pull = {}]
        /\ UNCHANGED <<now, arrived, shift, edit, covered, answerable>>
    BY DEF Fail
  <1>3. TypeOK /\ p \in Passes /\ w \in Owing /\ now \in Nat
    BY DEF LInv, TypeOK, Passes
  <1>4. \A upTo : Respects(upTo)
    BY <1>1, <1>2, <1>3 DEF Respects, Excused, TypeOK
  <1>5. AccountedNext(w.shift, w.end, shift[w.shift].arrivals)
    <2>1. [shift |-> w.shift, end |-> w.end] = w /\ attempt'[w] = "failed"
      BY <1>1, <1>3 DEF Owing, TypeOK
    <2> QED
      BY <2>1 DEF AccountedNext, Excused
  <1>6. PassKeeps(pass[i])' /\ \A j \in Instances \ {i} : pass'[j] = pass[j]
    <2>1. \A s \in Shifts : Respects(shift[s].arrivals) /\ shift'[s].arrivals = shift[s].arrivals
      BY <1>2, <1>4
    <2>2. \A s \in Shifts : answerable'[s] = answerable[s] \/ (s = w.shift /\ answerable'[s] = w.end)
      BY <1>2
    <2>3. now' = now
      BY <1>2
    <2> QED
      BY <1>1, <1>2, <1>5, <2>1, <2>2, <2>3, RunEnds
  <1>7. World
    BY <1>2, <1>3, <1>4 DEF World
  <1> QED
    BY <1>2, <1>6, <1>7, PassMoves

\* The mark comes last: what lies before the window was tried before it, and of
\* the window itself the run had everything that had arrived.
LEMMA MarkSafe ==
  ASSUME LInv, TypeOK', NoLockLost, Promise, NEW i \in Instances, Mark(i)
  PROVE  Promise'
  <1> DEFINE p == pass[i]
  <1>1. PICK w \in p.win :
          /\ shift' = [shift EXCEPT ![w.shift] = Marked(@, w)]
          /\ attempt' = [attempt EXCEPT ![w] = IF p.own THEN "own" ELSE "scored"]
          /\ answerable' = [answerable EXCEPT ![w.shift] = IF @ = NotAnswerable THEN w.end ELSE @]
    BY DEF Mark
  <1>2. /\ p.pc = "mark"
        /\ covered' = covered \cup (p.pull \cap arrived)
        /\ pass' = [pass EXCEPT ![i].pc = "take", ![i].win = {}, ![i].pull = {}]
        /\ UNCHANGED <<now, arrived, edit>>
    BY DEF Mark
  <1>3. /\ TypeOK /\ p \in Passes /\ p.now \in Nat /\ now \in Nat
        /\ PassKeeps(p) /\ Scoring(p) /\ Ahead(p) \in SUBSET Owing
        /\ \A s \in Shifts : shift[s].arrivals \in Nat /\ shift[s].arrivals <= p.now
        /\ p.now <= now
    BY <1>2, ScoringNow
  <1>4. /\ w \in Owing /\ w.shift \in Shifts /\ w.end \in 1..Horizon /\ w.end \in Ends[w.shift]
        /\ p.win = {w} /\ w \notin p.queue /\ \A v \in p.queue : w.end <= v.end
        /\ w = [shift |-> w.shift, end |-> w.end] /\ w \in Ahead(p)
        /\ ~p.own => \A r \in arrived : InWindow(r, w) /\ r.at <= p.now => r \in p.pull
    BY <1>3 DEF Scoring, Pulled, Ahead, Owing
  <1> DEFINE s == w.shift
  <1>5. PICK row \in Rows : row = shift[s]
    BY <1>3, <1>4 DEF TypeOK
  <1>6. /\ shift'[s].scored = w.end /\ shift'[s].arrivals = shift[s].arrivals
        /\ \A u \in Shifts : u # s => shift'[u] = shift[u]
    BY <1>1, <1>3, <1>4, <1>5 DEF TypeOK, Marked, Rows
  <1>7. /\ attempt'[w] # "none"
        /\ attempt'[w] \in Excused \/ ~p.own
        /\ \A v \in Owing : v # w => attempt'[v] = attempt[v]
    BY <1>1, <1>3, <1>4 DEF TypeOK, Excused
  <1>8. /\ answerable'[s] = answerable[s] \/ (answerable[s] = NotAnswerable /\ answerable'[s] = w.end)
        /\ answerable'[s] # NotAnswerable
        /\ \A u \in Shifts : u # s => answerable'[u] = answerable[u]
    BY <1>1, <1>3, <1>4, ShiftRunnerAssumption DEF TypeOK, NotAnswerable
  <1> HIDE DEF s
  <1>9. \A r \in arrived : r.at \in Nat
    BY <1>3 DEF TypeOK, Readings
  <1>10. \A upTo \in Nat : upTo <= p.now =>
            /\ Respects(upTo)
            /\ AccountedNext(s, w.end, upTo)
    <2> SUFFICES ASSUME NEW upTo \in Nat, upTo <= p.now
                 PROVE  Respects(upTo) /\ AccountedNext(s, w.end, upTo)
      OBVIOUS
    <2>1. attempt'[w] # "none"
      BY <1>1, <1>3, <1>4 DEF TypeOK
    <2>2. ASSUME NEW r \in arrived, InWindow(r, w), r.at <= upTo, ~p.own PROVE r \in covered'
      <3>1. r.at <= p.now
        BY <1>3, <1>9, <2>2
      <3>2. r \in p.pull
        BY <1>4, <2>2, <3>1
      <3> QED
        BY <1>2, <3>2
    <2>3. Respects(upTo)
      BY <1>2, <1>7, <2>1, <2>2 DEF Respects
    <2>4. AccountedNext(s, w.end, upTo)
      BY <1>2, <1>4, <1>7, <2>1, <2>2 DEF AccountedNext, s
    <2> QED
      BY <2>3, <2>4
  <1>11. \A u \in Shifts : Respects(shift[u].arrivals) /\ shift'[u].arrivals = shift[u].arrivals
    BY <1>3, <1>6, <1>10
  <1>12. \A u \in Shifts : answerable[u] \in 1..NotAnswerable /\ NotAnswerable \in Nat
    BY <1>3, ShiftRunnerAssumption DEF TypeOK, NotAnswerable
  <1>13. RowsKeep'
    <2> SUFFICES ASSUME NEW u \in Shifts
                 PROVE  /\ RowKeeps(u, shift[u])'
                        /\ shift'[u].scored = Never <=> answerable'[u] = NotAnswerable
                        /\ shift'[u].arrivals <= now'
      BY DEF RowsKeep
    <2>1. /\ RowKeeps(u, shift[u]) /\ shift[u].arrivals <= now
          /\ shift[u].scored = Never <=> answerable[u] = NotAnswerable
      BY DEF Promise, RowsKeep
    <2>2. CASE u # s
      <3>1. shift[u] \in Rows
        BY <1>3 DEF TypeOK
      <3>2. RowKeepsNext(u, shift[u])
        BY <1>3, <1>8, <1>11, <1>12, <2>1, <2>2, <3>1, RowOn
      <3> QED
        BY <1>2, <1>6, <1>8, <2>1, <2>2, <3>2
           DEF RowKeeps, RowKeepsNext, Accounted, AccountedNext
    <2>3. CASE u = s
      <3>1. ASSUME NEW e \in Ends[s], answerable'[s] <= e, e <= w.end
            PROVE  AccountedNext(s, e, shift[s].arrivals)
        <4>1. e \in Nat /\ w.end \in Nat /\ s \in Shifts
          <5>1. w.end \in Nat /\ s \in Shifts
            BY <1>4 DEF s
          <5>2. \A x \in Ends[s] : x \in 1..Horizon
            BY <5>1, WindowType
          <5>3. e \in Nat
            BY <5>2, ShiftRunnerAssumption
          <5> QED
            BY <5>1, <5>3
        <4>2. CASE e = w.end
          BY <1>3, <1>10, <4>1, <4>2
        <4>3. CASE e # w.end
          <5>1. e < w.end /\ answerable[s] <= e
            BY <1>8, <3>1, <4>1, <4>3
          <5>2. [shift |-> s, end |-> e] \notin Ahead(p)
            BY <1>4, <4>1, <5>1 DEF Ahead, s
          <5>3. Accounted(s, e, shift[s].arrivals)
            BY <1>3, <1>4, <5>1, <5>2 DEF Scoring, Behind, s
          <5> QED
            BY <1>3, <1>11, <4>1, <5>3, AccountedOn
        <4> QED
          BY <4>2, <4>3
      <3>2. RowKeeps(u, shift[u])'
        BY <1>6, <2>3, <3>1 DEF RowKeeps, Accounted, AccountedNext
      <3>3. shift'[u].scored # Never
        BY <1>4, <1>6, <2>3 DEF Never
      <3> QED
        BY <1>2, <1>6, <1>8, <2>1, <2>3, <3>2, <3>3
    <2> QED
      BY <2>2, <2>3
  <1>14. EditsKeep'
    <2> SUFFICES ASSUME NEW u \in Shifts, edit[u].kind # "none"
                 PROVE  /\ RowKeeps(u, edit[u].row)'
                        /\ edit[u].row.arrivals <= shift'[u].arrivals
                        /\ edit[u].row.scored # Never => answerable'[u] # NotAnswerable
      BY <1>2 DEF EditsKeep
    <2>1. /\ RowKeeps(u, edit[u].row) /\ edit[u].row.arrivals <= shift[u].arrivals
          /\ edit[u].row.scored # Never => answerable[u] # NotAnswerable
      BY DEF Promise, EditsKeep
    <2>2. edit[u].row \in Rows /\ edit[u].row.arrivals \in Nat /\ edit[u].row.arrivals <= p.now
      BY <1>3, <2>1 DEF TypeOK, Edits, Rows
    <2>3. answerable[u] <= answerable'[u] \/ edit[u].row.scored = Never
      BY <1>8, <1>12, <2>1
    <2>4. RowKeepsNext(u, edit[u].row)
      BY <1>3, <1>10, <2>1, <2>2, <2>3, RowOn
    <2>5. RowKeeps(u, edit[u].row)'
      BY <1>2, <2>4 DEF RowKeeps, RowKeepsNext, Accounted, AccountedNext
    <2> QED
      BY <1>8, <1>11, <2>1, <2>5
  <1>15. PassesKeep'
    <2>1. AccountedNext(w.shift, w.end, shift[w.shift].arrivals)
      BY <1>3, <1>4, <1>10 DEF s
    <2>2. \A u \in Shifts : answerable'[u] = answerable[u] \/ (u = w.shift /\ answerable'[u] = w.end)
      BY <1>8 DEF s
    <2>3. now' = now
      BY <1>2
    <2>4. PassKeeps(pass[i])' /\ \A j \in Instances \ {i} : pass'[j] = pass[j]
      BY <1>2, <1>11, <2>1, <2>2, <2>3, RunEnds
    <2> QED
      BY <1>2, <2>4, OwnPass
  <1>16. ArrivedBefore'
    BY <1>2 DEF Promise, ArrivedBefore
  <1> QED
    BY <1>13, <1>14, <1>15, <1>16 DEF Promise

\* An edit reads the row as it is.
LEMMA EditReadSafe ==
  ASSUME LInv, TypeOK', NoLockLost, Promise, NEW s \in Shifts,
         NEW kind \in {"update", "retire", "reinstate"}, EditRead(s, kind)
  PROVE  Promise'
  <1>1. /\ edit' = [edit EXCEPT ![s] = [kind |-> kind, row |-> shift[s]]]
        /\ UNCHANGED <<now, arrived, shift, pass, attempt, covered, answerable>>
    BY DEF EditRead, ghosts
  <1>2. TypeOK
    BY DEF LInv
  <1>3. /\ edit'[s].row = shift[s]
        /\ \A u \in Shifts : u # s => edit'[u] = edit[u]
    BY <1>1, <1>2 DEF TypeOK
  <1>4. RowsKeep' /\ ArrivedBefore'
    BY <1>1 DEF Promise, RowsKeep, ArrivedBefore, RowKeeps, Accounted
  <1>5. EditsKeep'
    <2> SUFFICES ASSUME NEW u \in Shifts, edit'[u].kind # "none"
                 PROVE  /\ RowKeeps(u, edit[u].row)'
                        /\ edit'[u].row.arrivals <= shift[u].arrivals
                        /\ edit'[u].row.scored # Never => answerable[u] # NotAnswerable
      BY <1>1 DEF EditsKeep
    <2>1. CASE u = s
      <3>1. /\ RowKeeps(u, shift[u]) /\ shift[u].arrivals \in Nat
            /\ shift[u].scored = Never <=> answerable[u] = NotAnswerable
        BY <1>2 DEF Promise, RowsKeep, TypeOK, Rows
      <3> QED
        BY <1>1, <1>3, <2>1, <3>1 DEF RowKeeps, Accounted
    <2>2. CASE u # s
      <3>1. edit'[u] = edit[u] /\ edit[u].kind # "none"
        BY <1>3, <2>2
      <3> QED
        BY <1>1, <3>1 DEF Promise, EditsKeep, RowKeeps, Accounted
    <2> QED
      BY <2>1, <2>2
  <1>6. \A u \in Shifts : \A since : Unswept(u, since) => Unswept(u, since)'
    BY <1>1, <1>3 DEF Unswept
  <1>7. PassesKeep'
    <2> SUFFICES ASSUME NEW j \in Instances, pass[j].pc # "idle"
                 PROVE  PassKeeps(pass[j])'
      BY <1>1 DEF PassesKeep
    <2> DEFINE p == pass[j]
    <2>1. PassKeeps(p) /\ p \in Passes
      BY <1>2 DEF Promise, PassesKeep, TypeOK
    <2>2. \A t \in p.todo : t.shift \in Shifts
      BY <2>1 DEF Passes, Swept
    <2>3. \A l \in p.late : l.shift \in Shifts
      BY <2>1 DEF Passes, Found
    <2>4. \A l \in p.late : LateInHand(p, l) => LateInHand(pass[j], l)'
      <3> SUFFICES ASSUME NEW l \in p.late, LateInHand(p, l) PROVE LateInHand(pass[j], l)'
        OBVIOUS
      <3>1. Unswept(l.shift, shift[l.shift].arrivals)'
        BY <1>1, <1>3, <2>3 DEF LateInHand, Unswept
      <3> QED
        BY <1>1, <3>1 DEF LateInHand
    <2>5. Sweeping(p) => Sweeping(pass[j])'
      <3> SUFFICES ASSUME Sweeping(p) PROVE Sweeping(pass[j])'
        OBVIOUS
      <3>1. \A t \in p.todo : Unswept(t.shift, t.since)'
        BY <1>6, <2>2 DEF Sweeping
      <3> QED
        BY <1>1, <2>4, <3>1 DEF Sweeping, Unswept
    <2>6. Scoring(p) => Scoring(pass[j])'
      BY <1>1 DEF Scoring, Ahead, Follows, Behind, Pulled, Accounted
    <2> QED
      BY <1>1, <2>1, <2>5, <2>6 DEF PassKeeps
  <1> QED
    BY <1>4, <1>5, <1>7 DEF Promise

\* What an edit writes: the row it read, or one that starts from now.
LEMMA EditWrites ==
  ASSUME TypeOK, NEW s \in Shifts, EditSave(s)
  PROVE  LET e == edit[s] IN
         /\ e.kind # "none" /\ e.row \in Rows
         /\ shift'[s].arrivals = e.row.arrivals
         /\ \/ shift'[s].scored = now /\ answerable'[s] = now + 1
            \/ shift'[s].scored = e.row.scored /\ e.row.scored = Never
               /\ answerable'[s] = NotAnswerable
            \/ shift'[s].scored = e.row.scored /\ e.row.scored # Never
               /\ answerable'[s] = answerable[s]
         /\ edit'[s].kind = "none"
         /\ \A u \in Shifts : u # s => /\ shift'[u] = shift[u] /\ edit'[u] = edit[u]
                                      /\ answerable'[u] = answerable[u]
         /\ UNCHANGED <<now, arrived, lock, route, pass, attempt, covered, left>>
  <1> DEFINE e == edit[s]
  <1>1. /\ e.kind # "none"
        /\ shift' = [shift EXCEPT ![s] = Edited(e)]
        /\ answerable' = [answerable EXCEPT ![s] =
               CASE SwitchesOn(e)              -> now + 1
                 [] Edited(e).scored = Never   -> NotAnswerable
                 [] OTHER                      -> @]
        /\ edit' = [edit EXCEPT ![s] = NoEdit]
        /\ UNCHANGED <<now, arrived, lock, route, pass, attempt, covered, left>>
    BY DEF EditSave
  <1>2. e \in Edits /\ e.row \in Rows /\ now \in Nat
    BY DEF TypeOK, Edits
  <1>3. /\ shift'[s] = Edited(e) /\ edit'[s].kind = "none"
        /\ \A u \in Shifts : u # s => /\ shift'[u] = shift[u] /\ edit'[u] = edit[u]
                                     /\ answerable'[u] = answerable[u]
    BY <1>1 DEF TypeOK, NoEdit
  <1>4. CASE SwitchesOn(e)
    <2>1. Edited(e) = [e.row EXCEPT !.status = "active", !.scored = now]
      BY <1>4 DEF Edited, SwitchesOn
    <2>2. Edited(e).scored = now /\ Edited(e).arrivals = e.row.arrivals
      BY <1>2, <2>1 DEF Rows
    <2>3. answerable'[s] = now + 1
      BY <1>1, <1>2, <1>4, <2>2 DEF TypeOK, Never
    <2> QED
      BY <1>1, <1>2, <1>3, <2>2, <2>3
  <1>5. CASE ~SwitchesOn(e)
    <2>1. Edited(e) = e.row \/ Edited(e) = [e.row EXCEPT !.status = "retired"]
      BY <1>1, <1>2, <1>5 DEF Edited, Edits
    <2>2. Edited(e).scored = e.row.scored /\ Edited(e).arrivals = e.row.arrivals
      BY <1>2, <2>1 DEF Rows
    <2>3. answerable'[s] = IF e.row.scored = Never THEN NotAnswerable ELSE answerable[s]
      BY <1>1, <1>5, <2>2 DEF TypeOK
    <2> QED
      BY <1>1, <1>2, <1>3, <2>2, <2>3
  <1> QED
    BY <1>4, <1>5

\* Saving brings both watermarks back together, as they were read: what they had
\* passed then is accounted for still.
LEMMA EditSaveSafe ==
  ASSUME LInv, TypeOK', NoLockLost, Promise, NEW s \in Shifts, EditSave(s)
  PROVE  Promise'
  <1>1. PICK row : row = edit[s].row
    OBVIOUS
  <1>2. TypeOK /\ now \in Nat /\ now <= Horizon /\ Horizon \in Nat /\ NotAnswerable = Horizon + 2
    BY ShiftRunnerAssumption DEF LInv, TypeOK, NotAnswerable
  <1>3. /\ edit[s].kind # "none" /\ row \in Rows
        /\ shift'[s].arrivals = row.arrivals
        /\ \/ shift'[s].scored = now /\ answerable'[s] = now + 1
           \/ shift'[s].scored = row.scored /\ row.scored = Never /\ answerable'[s] = NotAnswerable
           \/ shift'[s].scored = row.scored /\ row.scored # Never /\ answerable'[s] = answerable[s]
        /\ edit'[s].kind = "none"
        /\ \A u \in Shifts : u # s => /\ shift'[u] = shift[u] /\ edit'[u] = edit[u]
                                     /\ answerable'[u] = answerable[u]
        /\ UNCHANGED <<now, arrived, lock, route, pass, attempt, covered, left>>
    BY <1>1, <1>2, EditWrites
  <1>4. /\ RowKeeps(s, row) /\ row.arrivals <= shift[s].arrivals
        /\ row.scored # Never => answerable[s] # NotAnswerable
        /\ row.arrivals \in Nat /\ shift[s].arrivals \in Nat /\ row.scored \in Int
        /\ answerable[s] \in 1..NotAnswerable
    BY <1>1, <1>2, <1>3, ShiftRunnerAssumption DEF Promise, EditsKeep, TypeOK, Rows, Never
  <1>5. /\ RowKeeps(s, shift[s]) /\ shift[s].arrivals <= now
        /\ shift[s].scored = Never <=> answerable[s] = NotAnswerable
    BY DEF Promise, RowsKeep
  <1>6. RowsKeep'
    <2> SUFFICES ASSUME NEW u \in Shifts
                 PROVE  /\ RowKeeps(u, shift[u])'
                        /\ shift'[u].scored = Never <=> answerable'[u] = NotAnswerable
                        /\ shift'[u].arrivals <= now'
      BY DEF RowsKeep
    <2>1. CASE u # s
      BY <1>3, <2>1 DEF Promise, RowsKeep, RowKeeps, Accounted
    <2>2. CASE u = s
      <3>1. \A e \in Ends[s] : e \in 1..Horizon
        BY WindowType
      <3>2. RowKeeps(u, shift[u])'
        <4>1. CASE shift'[s].scored = now /\ answerable'[s] = now + 1
          BY <1>2, <2>2, <3>1, <4>1 DEF RowKeeps
        <4>2. CASE shift'[s].scored = Never
          BY <1>2, <2>2, <3>1, <4>2 DEF RowKeeps, Never
        <4>3. CASE shift'[s].scored = row.scored /\ answerable'[s] = answerable[s]
          BY <1>3, <1>4, <2>2, <4>3 DEF RowKeeps, Accounted
        <4> QED
          BY <1>3, <4>1, <4>2, <4>3
      <3>3. shift'[u].scored = Never <=> answerable'[u] = NotAnswerable
        BY <1>2, <1>3, <1>4, <2>2 DEF Never
      <3>4. shift'[u].arrivals <= now'
        BY <1>2, <1>3, <1>4, <1>5, <2>2
      <3> QED
        BY <3>2, <3>3, <3>4
    <2> QED
      BY <2>1, <2>2
  <1>7. EditsKeep'
    <2> SUFFICES ASSUME NEW u \in Shifts, edit'[u].kind # "none"
                 PROVE  /\ RowKeeps(u, edit[u].row)'
                        /\ edit'[u].row.arrivals <= shift'[u].arrivals
                        /\ edit'[u].row.scored # Never => answerable'[u] # NotAnswerable
      BY DEF EditsKeep
    <2>1. u # s
      BY <1>3
    <2> QED
      BY <1>3, <2>1 DEF Promise, EditsKeep, RowKeeps, Accounted
  <1>8. ASSUME NEW u \in Shifts, NEW since, Unswept(u, since) PROVE Unswept(u, since)'
    BY <1>1, <1>3, <1>8 DEF Unswept
  <1>9. PassesKeep'
    <2> SUFFICES ASSUME NEW j \in Instances, pass[j].pc # "idle"
                 PROVE  PassKeeps(pass[j])'
      BY <1>3 DEF PassesKeep
    <2> DEFINE p == pass[j]
    <2>1. PassKeeps(p) /\ p \in Passes /\ p.now \in Nat /\ p.now <= now /\ pass'[j] = p /\ now' = now
      BY <1>2, <1>3 DEF Promise, PassesKeep, TypeOK, PassKeeps, Passes
    <2>2. \A u \in Shifts : shift'[u].arrivals <= p.now
      <3>1. \A u \in Shifts : shift[u].arrivals <= p.now
        BY <2>1 DEF PassKeeps
      <3> QED
        BY <1>3, <1>4, <2>1, <3>1
    <2>3. ASSUME NEW l \in p.late, LateInHand(p, l) PROVE LateInHand(pass[j], l)'
      <3>1. l \in Found /\ l.shift \in Shifts /\ l.earliest \in Nat /\ RewindTo(l) = l.earliest - 1
        BY <2>1 DEF Passes, Found, RewindTo
      <3>2. shift'[l.shift].arrivals = shift[l.shift].arrivals
        BY <1>1, <1>3, <2>3, <3>1 DEF LateInHand, Unswept
      <3>3. Unswept(l.shift, shift[l.shift].arrivals)'
        BY <1>3, <2>3, <3>1 DEF LateInHand, Unswept
      <3>4. /\ l.read /\ l.moves => RewindTo(l) < shift'[l.shift].scored
            /\ l.read /\ ~l.moves => shift'[l.shift].scored <= RewindTo(l)
                                        \/ shift'[l.shift].scored < answerable'[l.shift]
        <4>1. CASE l.shift # s
          BY <1>3, <2>3, <3>1, <4>1 DEF LateInHand
        <4>2. CASE l.shift = s
          <5>1. shift[s].scored = row.scored /\ l.earliest <= now
            BY <1>1, <1>3, <2>3, <4>2 DEF LateInHand, Unswept
          <5>2. /\ l.read /\ l.moves => RewindTo(l) < row.scored
                /\ l.read /\ ~l.moves => row.scored <= RewindTo(l) \/ row.scored < answerable[s]
            BY <2>3, <4>2, <5>1 DEF LateInHand
          <5>3. CASE shift'[s].scored = now /\ answerable'[s] = now + 1
            BY <1>2, <3>1, <4>2, <5>1, <5>3
          <5>4. CASE shift'[s].scored = row.scored /\ answerable'[s] = NotAnswerable /\ row.scored = Never
            BY <1>2, <3>1, <4>2, <5>2, <5>4 DEF Never
          <5>5. CASE shift'[s].scored = row.scored /\ answerable'[s] = answerable[s]
            BY <4>2, <5>2, <5>5
          <5> QED
            BY <1>3, <5>3, <5>4, <5>5
        <4> QED
          BY <4>1, <4>2
      <3> QED
        BY <1>3, <2>1, <2>3, <3>2, <3>3, <3>4 DEF LateInHand
    <2>4. Sweeping(p) => Sweeping(pass[j])'
      <3> SUFFICES ASSUME Sweeping(p) PROVE Sweeping(pass[j])'
        OBVIOUS
      <3>1. \A t \in p.todo : Unswept(t.shift, t.since)'
        <4>1. \A t \in p.todo : t.shift \in Shifts /\ Unswept(t.shift, t.since)
          BY <2>1 DEF Sweeping, Passes, Swept
        <4> QED
          BY <1>8, <4>1
      <3>2. \A l \in p.late : LateInHand(pass[j], l)'
        BY <2>3 DEF Sweeping
      <3> QED
        BY <2>1, <3>1, <3>2 DEF Sweeping, Unswept
    <2>5. Scoring(p) => Scoring(pass[j])'
      <3> SUFFICES ASSUME Scoring(p) PROVE Scoring(pass[j])'
        OBVIOUS
      <3>1. PICK A : A = Ahead(p)
        OBVIOUS
      <3>2. \A w \in A : /\ w.shift \in Shifts /\ w.end \in Nat /\ w.end <= p.now
                         /\ \A e \in Ends[w.shift] : e \in Nat
        BY <2>1, <3>1, WindowType DEF Scoring, Ahead, Passes, Owing
      <3>3. ASSUME NEW w \in A, NEW e \in Ends[w.shift], e < w.end, answerable'[w.shift] <= e,
                   ~([shift |-> w.shift, end |-> e] \in A)
            PROVE  Accounted(w.shift, e, shift[w.shift].arrivals)'
        <4>1. w.shift \in Shifts /\ e \in Nat /\ w.end \in Nat /\ w.end <= now /\ e <= Horizon
          <5>1. w.shift \in Shifts /\ w.end \in Nat /\ w.end <= p.now /\ e \in Nat
            BY <3>2
          <5>2. e \in 1..Horizon
            BY <5>1, WindowType
          <5> QED
            BY <1>2, <2>1, <5>1, <5>2
        <4>2. answerable[w.shift] <= e
          <5>1. CASE w.shift # s
            BY <1>3, <3>3, <4>1, <5>1
          <5>2. CASE w.shift = s
            BY <1>2, <1>3, <3>3, <4>1, <5>2
          <5> QED
            BY <5>1, <5>2
        <4>3. Accounted(w.shift, e, shift[w.shift].arrivals)
          BY <3>1, <3>3, <4>2 DEF Scoring, Behind
        <4>4. shift'[w.shift].arrivals <= shift[w.shift].arrivals
              /\ shift'[w.shift].arrivals \in Nat /\ shift[w.shift].arrivals \in Nat
          <5>1. shift[w.shift].arrivals \in Nat /\ shift'[w.shift].arrivals \in Nat
            <6>1. CASE w.shift = s
              BY <1>3, <1>4, <6>1
            <6>2. CASE w.shift # s
              BY <1>2, <1>3, <4>1, <6>2 DEF TypeOK, Rows
            <6> QED
              BY <6>1, <6>2
          <5>2. CASE w.shift = s
            BY <1>3, <1>4, <5>1, <5>2
          <5>3. CASE w.shift # s
            BY <1>3, <4>1, <5>1, <5>3
          <5> QED
            BY <5>1, <5>2, <5>3
        <4>5. \A r \in arrived : r.at \in Nat
          BY <1>2 DEF TypeOK, Readings
        <4> QED
          BY <1>3, <4>3, <4>4, <4>5 DEF Accounted
      <3>4. Behind(Ahead(pass[j]))'
        BY <2>1, <3>1, <3>3 DEF Behind, Ahead, Accounted
      <3>5. Pulled(pass[j])'
        BY <1>3, <2>1 DEF Scoring, Pulled
      <3> QED
        BY <2>1, <3>4, <3>5 DEF Scoring, Ahead, Follows
    <2> QED
      BY <1>3, <2>1, <2>2, <2>4, <2>5 DEF PassKeeps
  <1>10. ArrivedBefore'
    BY <1>3 DEF Promise, ArrivedBefore
  <1> QED
    BY <1>6, <1>7, <1>9, <1>10 DEF Promise

--------------------------------------------------------------------------------
(* The promise from the start, over every step, and what follows from it. *)

\* Nothing is scored, nothing has arrived and nobody is at work.
LEMMA InitPromise == Init => Promise
  <1> SUFFICES ASSUME Init PROVE Promise
    OBVIOUS
  <1>1. \A s \in Shifts : /\ shift[s] = NewRow /\ edit[s].kind = "none"
                          /\ answerable[s] = NotAnswerable
    BY DEF Init, NoEdit
  <1>2. now = 0 /\ arrived = {} /\ \A i \in Instances : pass[i].pc = "idle"
    BY DEF Init, Idle
  <1>3. RowsKeep
    <2> SUFFICES ASSUME NEW s \in Shifts
                 PROVE  /\ RowKeeps(s, shift[s])
                        /\ shift[s].scored = Never <=> answerable[s] = NotAnswerable
                        /\ shift[s].arrivals <= now
      BY DEF RowsKeep
    <2>1. shift[s].scored = Never /\ shift[s].arrivals = 0
      BY <1>1 DEF NewRow
    <2>2. \A e \in Ends[s] : e \in 1..Horizon /\ e \in Nat
      BY WindowType, ShiftRunnerAssumption
    <2>3. RowKeeps(s, shift[s])
      BY <2>1, <2>2 DEF RowKeeps, Never
    <2> QED
      BY <1>1, <1>2, <2>1, <2>3
  <1> QED
    BY <1>1, <1>2, <1>3 DEF Promise, ArrivedBefore, EditsKeep, PassesKeep

\* Until a lock is lost every step keeps the promise; a lock that was lost stays so.
LEMMA StepPromise ==
  ASSUME LInv, TypeOK', WInv, [Next]_vars
  PROVE  WInv'
  <1> SUFFICES ASSUME NoLockLost' PROVE Promise'
    BY DEF WInv, Promise
  <1>1. TypeOK /\ left["lockLoss"] \in Nat /\ Budget["lockLoss"] \in Nat /\ "lockLoss" \in Faults
        /\ left["lockLoss"] <= Budget["lockLoss"]
    BY ShiftRunnerAssumption DEF LInv, TypeOK, SpentIsSpent, Faults
  <1>2. ~LoseLock
    <2> SUFFICES ASSUME LoseLock PROVE FALSE
      OBVIOUS
    <2>1. left'["lockLoss"] = left["lockLoss"] - 1
      BY <1>1 DEF LoseLock, Spend, TypeOK
    <2> QED
      BY <1>1, <2>1 DEF NoLockLost
  <1>3. NoLockLost
    <2>1. left'["lockLoss"] = left["lockLoss"]
      <3>1. CASE left' = left
        BY <3>1
      <3>2. ASSUME NEW f \in Faults \ {"lockLoss"}, Spend(f)
            PROVE  left'["lockLoss"] = left["lockLoss"]
        BY <1>1, <3>2, OtherFault
      <3>3. CASE \E s \in Shifts, ts \in 1..Horizon : Arrive(s, ts) \/ Post(s, ts)
        BY <3>2, <3>3 DEF Arrive, Post, Faults
      <3>4. CASE \E i \in Instances : SweepFails(i) \/ Fail(i) \/ Restart(i)
        BY <3>1, <3>2, <3>4 DEF SweepFails, Fail, Restart, Faults
      <3>5. CASE \E s \in Shifts, k \in {"update", "retire", "reinstate"} : EditRead(s, k)
        BY <3>2, <3>5 DEF EditRead, Faults
      <3>6. CASE Tick \/ (\E s \in Shifts : EditSave(s)) \/ UNCHANGED vars
        BY <3>1, <3>6 DEF Tick, EditSave, vars
      <3>7. CASE \E i \in Instances : PassStep(i)
        BY <3>1, <3>4, <3>7 DEF PassStep, StartPass, Sweep, RewindRead, RewindWrite, Owed,
                                Take, Ingest, Mark, EndPass
      <3> QED
        BY <1>2, <3>3, <3>4, <3>5, <3>6, <3>7 DEF Next
    <2> QED
      BY <2>1 DEF NoLockLost
  <1>4. Promise
    BY <1>3 DEF WInv, Promise
  <1>5. CASE \/ Tick
             \/ \E s \in Shifts, ts \in 1..Horizon : Arrive(s, ts) \/ Post(s, ts)
             \/ \E i \in Instances : Restart(i) \/ EndPass(i)
             \/ UNCHANGED vars
    BY <1>1, <1>4, <1>5, AroundSafe
  <1>6. ASSUME NEW i \in Instances, PassStep(i) \/ SweepFails(i) \/ Fail(i) PROVE Promise'
    BY <1>3, <1>4, <1>5, <1>6, StartSafe, SweepSafe, SweepFailsSafe, RewindReadSafe,
       RewindWriteSafe, OwedSafe, TakeSafe, IngestSafe, FailSafe, MarkSafe DEF PassStep
  <1>7. ASSUME NEW s \in Shifts, EditSave(s) PROVE Promise'
    BY <1>3, <1>4, <1>7, EditSaveSafe
  <1>8. ASSUME NEW s \in Shifts, NEW k \in {"update", "retire", "reinstate"}, EditRead(s, k)
        PROVE  Promise'
    BY <1>3, <1>4, <1>8, EditReadSafe
  <1> QED
    BY <1>2, <1>5, <1>6, <1>7, <1>8 DEF Next

\* The two properties are what the rows promise.
LEMMA PromiseIsEnough ==
  ASSUME TypeOK, RowsKeep
  PROVE  LateReadingsAreScored /\ PassedWindowsWereTried
  <1>1. ASSUME NEW s \in Shifts, NEW e \in Ends[s], answerable[s] <= e, e <= shift[s].scored
        PROVE  Accounted(s, e, shift[s].arrivals)
    BY <1>1 DEF RowsKeep, RowKeeps
  <1>2. PassedWindowsWereTried
    BY <1>1 DEF PassedWindowsWereTried, Accounted
  <1>3. ASSUME NEW r \in arrived, NEW w \in Owing, Passed(r, w)
        PROVE  r \in covered \/ attempt[w] \in {"failed", "waiting", "own"}
    <2>1. w.shift \in Shifts /\ w = [shift |-> w.shift, end |-> w.end]
      BY DEF Owing
    <2>2. Accounted(w.shift, w.end, shift[w.shift].arrivals)
      BY <1>1, <1>3, <2>1 DEF Passed
    <2>3. InWindow(r, w) /\ r.at <= shift[w.shift].arrivals
      BY <1>3 DEF Passed
    <2> QED
      BY <2>1, <2>2, <2>3 DEF Accounted, Excused
  <1> QED
    BY <1>2, <1>3 DEF LateReadingsAreScored

--------------------------------------------------------------------------------
(* The theorems. *)

\* The inductive invariant: until a lock is lost, the rows, what arrived, the edits
\* under way and the pass under way keep what the watermarks promise.
THEOREM WatermarksKeep == Spec => []WInv
  <1>1. Init => WInv
    BY InitPromise DEF WInv, Promise
  <1>2. LInv /\ LInv' /\ WInv /\ [Next]_vars => WInv'
    BY StepPromise DEF LInv
  <1> QED
    BY <1>1, <1>2, Inductive, PTL DEF Spec

\* Until a lock is lost, no late reading is forgotten: one that both watermarks of its
\* shift have passed was in hand when its window was scored, or the newest run of the
\* window failed or did without the platform.
THEOREM LateReadings == Spec => [](NoLockLost => LateReadingsAreScored)
  <1>1. TypeOK /\ WInv => (NoLockLost => LateReadingsAreScored)
    BY PromiseIsEnough DEF WInv
  <1> QED
    BY <1>1, TypeCorrect, WatermarksKeep, PTL

\* Until a lock is lost, the scored watermark never passes a window nobody tried.
THEOREM WindowsTried == Spec => [](NoLockLost => PassedWindowsWereTried)
  <1>1. TypeOK /\ WInv => (NoLockLost => PassedWindowsWereTried)
    BY PromiseIsEnough DEF WInv
  <1> QED
    BY <1>1, TypeCorrect, WatermarksKeep, PTL
================================================================================
