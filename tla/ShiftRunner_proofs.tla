--------------------------- MODULE ShiftRunner_proofs ---------------------------
(***************************************************************************)
(* What ShiftRunner keeps for any shifts, windows, instances, caps and     *)
(* faults: its types, and that two instances are never both inside a pass  *)
(* until the connection that holds the lock is lost.                       *)
(*                                                                         *)
(* The inductive invariant says that who is inside a pass holds the lock,  *)
(* and that a lost lock is not forgotten.                                  *)
(***************************************************************************)
EXTENDS ShiftRunner, WellFoundedInduction, TLAPS

\* Who is inside a pass holds the lock.
InsideHolds == NoLockLost => \A i \in Instances : pass[i].pc # "idle" => lock = i

\* What was spent of a budget does not come back.
SpentIsSpent == left["lockLoss"] <= Budget["lockLoss"]

LInv == TypeOK /\ SpentIsSpent /\ InsideHolds

--------------------------------------------------------------------------------
(* Earliest and latest readings. *)

\* A set of naturals that is not empty has a least member, and SetMin is it.
LEMMA HasMin ==
  ASSUME NEW S \in SUBSET Nat, S # {}
  PROVE  SetMin(S) \in S /\ \A y \in S : SetMin(S) <= y
  <1> DEFINE Less == OpToRel(<, Nat)
  <1>1. IsWellFoundedOn(Less, Nat)
    BY NatLessThanWellFounded
  <1> HIDE DEF Less
  <1>2. PICK x \in S : \A y \in S : ~ (<<y, x>> \in Less)
    BY <1>1, WFMin
  <1>3. \A y \in S : y < x => <<y, x>> \in Less
    BY DEF Less, OpToRel
  <1>4. ASSUME NEW y \in S PROVE x <= y
    <2>1. ~ (y < x)
      BY <1>2, <1>3
    <2>2. x \in Nat /\ y \in Nat
      OBVIOUS
    <2> QED
      BY <2>1, <2>2
  <1> QED
    BY <1>4 DEF SetMin

\* A bounded one has a greatest, and SetMax is it.
LEMMA HasMax ==
  ASSUME NEW n \in Nat, NEW S \in SUBSET (0..n), S # {}
  PROVE  SetMax(S) \in S /\ \A y \in S : SetMax(S) >= y
  <1> DEFINE T == {n - x : x \in S}
  <1>0. \A x \in S : x \in Nat /\ n - x \in Nat
    OBVIOUS
  <1>1. T \in SUBSET Nat /\ T # {}
    BY <1>0
  <1>2. SetMin(T) \in T /\ \A y \in T : SetMin(T) <= y
    BY <1>1, HasMin
  <1>3. PICK x \in S : SetMin(T) = n - x
    BY <1>2
  <1>4. \A y \in S : x >= y
    <2> SUFFICES ASSUME NEW y \in S PROVE x >= y
      OBVIOUS
    <2>1. n - y \in T
      OBVIOUS
    <2>2. n - x <= n - y
      BY <1>2, <1>3, <2>1
    <2> QED
      BY <2>2
  <1> QED
    BY <1>4 DEF SetMax

--------------------------------------------------------------------------------
(* Types. *)

\* A pass that rests, as a record of its type.
LEMMA IdleType == Idle \in Passes
  BY ShiftRunnerAssumption DEF Idle, Passes

\* The rows create() writes have their type, and so has an edit that is not going on.
LEMMA NewRowType == NewRow \in Rows /\ NoEdit \in Edits
  BY ShiftRunnerAssumption DEF NewRow, Rows, NoEdit, Edits, Never

\* The program starts with every variable of its type.
LEMMA InitTypeOK == Init => TypeOK
  <1> SUFFICES ASSUME Init PROVE TypeOK
    OBVIOUS
  <1> USE ShiftRunnerAssumption, IdleType, NewRowType
  <1>1. route \in [Instances -> BOOLEAN]
    BY DEF Init
  <1>2. NotAnswerable \in 1..NotAnswerable
    BY DEF NotAnswerable
  <1> QED
    BY <1>1, <1>2 DEF Init, TypeOK, Outcomes

\* A fault that happens leaves its budget a natural number.
LEMMA SpendType ==
  ASSUME TypeOK, NEW f \in Faults, Spend(f)
  PROVE  left' \in [Faults -> Nat]
  <1>1. left \in [Faults -> Nat] /\ left[f] \in Nat
    BY DEF TypeOK
  <1>2. left[f] - 1 \in Nat
    BY <1>1 DEF Spend
  <1> QED
    BY <1>1, <1>2 DEF Spend

\* What an instance works on next is a pass again, and the others keep theirs.
LEMMA PassType ==
  ASSUME TypeOK, NEW i \in Instances, NEW p \in Passes, pass' = [pass EXCEPT ![i] = p]
  PROVE  pass' \in [Instances -> Passes]
  BY DEF TypeOK

\* What the sweep finds late is of readings that arrived.
LEMMA SweepType ==
  ASSUME TypeOK, NEW i \in Instances, Sweep(i)
  PROVE  pass' \in [Instances -> Passes]
  <1> USE ShiftRunnerAssumption
  <1>1. PICK t \in pass[i].todo :
          LET rows == LateRows(t, pass[i].now) IN
          pass' = [pass EXCEPT
             ![i].todo = @ \ {t},
             ![i].pc = IF rows = {} THEN "sweep" ELSE "rewind",
             ![i].late = IF rows = {} THEN {}
                         ELSE {[shift |-> t.shift,
                                earliest |-> SetMin({r.ts : r \in rows}),
                                seen |-> SetMax({r.at : r \in rows}),
                                moves |-> FALSE, read |-> FALSE]}]
    BY DEF Sweep
  <1> DEFINE rows == LateRows(t, pass[i].now)
             l == [shift |-> t.shift, earliest |-> SetMin({r.ts : r \in rows}),
                   seen |-> SetMax({r.at : r \in rows}), moves |-> FALSE, read |-> FALSE]
  <1>2. pass[i] \in Passes /\ t \in Swept
    BY DEF TypeOK, Passes
  <1>3. rows \in SUBSET Readings
    BY DEF LateRows, TypeOK
  <1>4. ASSUME rows # {} PROVE l \in Found
    <2>1. {r.ts : r \in rows} \in SUBSET (1..Horizon) /\ {r.ts : r \in rows} # {}
      BY <1>3, <1>4 DEF Readings
    <2>2. {r.at : r \in rows} \in SUBSET (1..Horizon) /\ {r.at : r \in rows} # {}
      BY <1>3, <1>4 DEF Readings
    <2>3. SetMin({r.ts : r \in rows}) \in 1..Horizon
      <3>1. {r.ts : r \in rows} \in SUBSET Nat
        BY <2>1
      <3> QED
        BY <2>1, <3>1, HasMin
    <2>4. SetMax({r.at : r \in rows}) \in 1..Horizon
      <3>1. {r.at : r \in rows} \in SUBSET (0..Horizon)
        BY <2>2
      <3> QED
        BY <2>2, <3>1, HasMax
    <2>5. t.shift \in Shifts
      BY <1>2 DEF Swept
    <2> QED
      BY <2>3, <2>4, <2>5 DEF Found
  <1>5. CASE rows = {}
    <2>1. [pass[i] EXCEPT !.todo = @ \ {t}, !.pc = "sweep", !.late = {}] \in Passes
      BY <1>2 DEF Passes
    <2>2. pass' = [pass EXCEPT ![i] =
                     [pass[i] EXCEPT !.todo = @ \ {t}, !.pc = "sweep", !.late = {}]]
      BY <1>1, <1>5
    <2> QED
      BY <2>1, <2>2, PassType
  <1>6. CASE rows # {}
    <2> HIDE DEF l, rows
    <2>1. [pass[i] EXCEPT !.todo = @ \ {t}, !.pc = "rewind", !.late = {l}] \in Passes
      BY <1>2, <1>4, <1>6 DEF Passes
    <2>2. pass' = [pass EXCEPT ![i] =
                     [pass[i] EXCEPT !.todo = @ \ {t}, !.pc = "rewind", !.late = {l}]]
      BY <1>1, <1>6 DEF l, rows
    <2> QED
      BY <2>1, <2>2, PassType
  <1> QED
    BY <1>5, <1>6

\* What the sweep does about late readings, and what it leaves behind when a query throws.
LEMMA RewindType ==
  ASSUME TypeOK, NEW i \in Instances, RewindRead(i) \/ SweepFails(i)
  PROVE  pass' \in [Instances -> Passes]
  <1>1. pass[i] \in Passes
    BY DEF TypeOK
  <1>2. CASE RewindRead(i)
    <2>1. PICK l \in pass[i].late :
            pass' = [pass EXCEPT ![i].late =
                       {[l EXCEPT !.read = TRUE, !.moves = Rewinds(l, shift[l.shift])]}]
      BY <1>2 DEF RewindRead
    <2>2. l \in Found
      BY <1>1 DEF Passes
    <2>3. Rewinds(l, shift[l.shift]) \in BOOLEAN
      BY DEF Rewinds
    <2>4. PICK m \in Found : m = [l EXCEPT !.read = TRUE, !.moves = Rewinds(l, shift[l.shift])]
      BY <2>2, <2>3 DEF Found
    <2>5. [pass[i] EXCEPT !.late = {m}] \in Passes
      BY <1>1 DEF Passes
    <2>6. pass' = [pass EXCEPT ![i] = [pass[i] EXCEPT !.late = {m}]]
      BY <2>1, <2>4
    <2> QED
      BY <2>5, <2>6, PassType
  <1>3. CASE SweepFails(i) /\ pass[i].pc = "rewind"
    <2>1. [pass[i] EXCEPT !.late = {}, !.pc = "sweep"] \in Passes
      BY <1>1 DEF Passes
    <2>2. pass' = [pass EXCEPT ![i] = [pass[i] EXCEPT !.late = {}, !.pc = "sweep"]]
      BY <1>3 DEF SweepFails
    <2> QED
      BY <2>1, <2>2, PassType
  <1>4. CASE SweepFails(i) /\ pass[i].pc = "sweep"
    <2>1. PICK t \in pass[i].todo : pass' = [pass EXCEPT ![i].todo = @ \ {t}]
      BY <1>4 DEF SweepFails
    <2>2. [pass[i] EXCEPT !.todo = @ \ {t}] \in Passes
      BY <1>1 DEF Passes
    <2>3. pass' = [pass EXCEPT ![i] = [pass[i] EXCEPT !.todo = @ \ {t}]]
      BY <2>1
    <2> QED
      BY <2>2, <2>3, PassType
  <1> QED
    BY <1>2, <1>3, <1>4 DEF SweepFails

\* owed() names windows of the shift's own hours.
LEMMA OwedType ==
  ASSUME TypeOK, NEW i \in Instances, Owed(i)
  PROVE  pass' \in [Instances -> Passes]
  <1> USE ShiftRunnerAssumption
  <1> DEFINE queue == UNION {{[shift |-> s, end |-> e] : e \in OwedOf(s, pass[i].now)} :
                             s \in ActiveShifts}
  <1>1. pass[i] \in Passes
    BY DEF TypeOK
  <1>2. ASSUME NEW s \in Shifts PROVE OwedOf(s, pass[i].now) \subseteq 1..Horizon
    BY DEF OwedOf, EndingBetween, Oldest
  <1>3. queue \in SUBSET Owing
    BY <1>2 DEF ActiveShifts, Owing
  <1> HIDE DEF queue
  <1>4. [pass[i] EXCEPT !.pc = "take", !.queue = queue] \in Passes
    BY <1>1, <1>3 DEF Passes
  <1>5. pass' = [pass EXCEPT ![i] = [pass[i] EXCEPT !.pc = "take", !.queue = queue]]
    BY DEF Owed, queue
  <1> QED
    BY <1>4, <1>5, PassType

\* run() takes a window with its readings, or leaves it waiting.
LEMMA TakeType ==
  ASSUME TypeOK, NEW i \in Instances, Take(i)
  PROVE  pass' \in [Instances -> Passes] /\ attempt' \in [Owing -> Outcomes]
  <1>1. PICK w \in Front(i) :
          LET pulled == IF route[i] THEN Pull(w) ELSE PullOwn(w) IN
          IF ~route[i] /\ pulled = {}
          THEN /\ pass' = [pass EXCEPT ![i].queue = @ \ {w}]
               /\ attempt' = [attempt EXCEPT ![w] = "waiting"]
          ELSE /\ pass' = [pass EXCEPT ![i].queue = @ \ {w}, ![i].win = {w},
                                       ![i].pull = pulled, ![i].own = ~route[i],
                                       ![i].pc = "ingest"]
               /\ UNCHANGED attempt
    BY DEF Take
  <1> DEFINE pulled == IF route[i] THEN Pull(w) ELSE PullOwn(w)
  <1>2. pass[i] \in Passes /\ w \in Owing /\ route[i] \in BOOLEAN
    BY DEF TypeOK, Passes, Front
  <1>3. pulled \in SUBSET Readings
    BY DEF TypeOK, Pull, PullOwn
  <1>4. CASE ~route[i] /\ pulled = {}
    <2>1. [pass[i] EXCEPT !.queue = @ \ {w}] \in Passes
      BY <1>2 DEF Passes
    <2>2. pass' = [pass EXCEPT ![i] = [pass[i] EXCEPT !.queue = @ \ {w}]]
      BY <1>1, <1>4
    <2>3. attempt' = [attempt EXCEPT ![w] = "waiting"]
      BY <1>1, <1>4
    <2>4. attempt' \in [Owing -> Outcomes]
      BY <2>3 DEF TypeOK, Outcomes
    <2> QED
      BY <2>1, <2>2, <2>4, PassType
  <1>5. CASE ~(~route[i] /\ pulled = {})
    <2>0. PICK own \in BOOLEAN : own = ~route[i]
      BY <1>2
    <2> HIDE DEF pulled
    <2>1. [pass[i] EXCEPT !.queue = @ \ {w}, !.win = {w}, !.pull = pulled,
                          !.own = own, !.pc = "ingest"] \in Passes
      BY <1>2, <1>3 DEF Passes
    <2>2. pass' = [pass EXCEPT ![i] = [pass[i] EXCEPT
                     !.queue = @ \ {w}, !.win = {w}, !.pull = pulled, !.own = own,
                     !.pc = "ingest"]]
      BY <1>1, <1>5, <2>0 DEF pulled
    <2>3. attempt' = attempt
      BY <1>1, <1>5 DEF pulled
    <2> QED
      BY <2>1, <2>2, <2>3, PassType DEF TypeOK
  <1> QED
    BY <1>4, <1>5

\* The mark, or the failure, that ends the run of a window.
LEMMA RunEndType ==
  ASSUME TypeOK, NEW i \in Instances, Mark(i) \/ Fail(i)
  PROVE  /\ pass' \in [Instances -> Passes]
         /\ attempt' \in [Owing -> Outcomes]
  <1>1. pass[i] \in Passes
    BY DEF TypeOK
  <1>2. [pass[i] EXCEPT !.pc = "take", !.win = {}, !.pull = {}] \in Passes
    BY <1>1 DEF Passes
  <1>3. pass' = [pass EXCEPT ![i] = [pass[i] EXCEPT !.pc = "take", !.win = {}, !.pull = {}]]
    BY DEF Mark, Fail
  <1>4. attempt' \in [Owing -> Outcomes]
    BY <1>1 DEF Mark, Fail, TypeOK, Passes, Outcomes
  <1> QED
    BY <1>2, <1>3, <1>4, PassType

\* The rows as the pass and the account's edits write them.
LEMMA RowType ==
  ASSUME TypeOK
  PROVE  /\ \A i \in Instances : RewindWrite(i) \/ Mark(i) => shift' \in [Shifts -> Rows]
         /\ \A s \in Shifts : EditSave(s) => shift' \in [Shifts -> Rows]
  <1> USE ShiftRunnerAssumption
  <1>1. ASSUME NEW i \in Instances, RewindWrite(i) PROVE shift' \in [Shifts -> Rows]
    <2>1. PICK l \in pass[i].late : shift' = [shift EXCEPT ![l.shift] = Rewound(l, @)]
      BY <1>1 DEF RewindWrite
    <2>2. l \in Found
      BY DEF TypeOK, Passes
    <2>3. l.shift \in Shifts /\ l.seen \in 0..Horizon /\ RewindTo(l) \in Never..Horizon
      BY <2>2 DEF Found, RewindTo, Never
    <2>4. shift \in [Shifts -> Rows] /\ shift[l.shift] \in Rows
      BY <2>3 DEF TypeOK
    <2>5. Rewound(l, shift[l.shift]) \in Rows
      BY <2>3, <2>4 DEF Rewound, Rows
    <2> QED
      BY <2>1, <2>3, <2>4, <2>5
  <1>2. ASSUME NEW i \in Instances, Mark(i) PROVE shift' \in [Shifts -> Rows]
    <2>1. PICK w \in pass[i].win : shift' = [shift EXCEPT ![w.shift] = Marked(@, w)]
      BY <1>2 DEF Mark
    <2>2. w \in Owing
      BY DEF TypeOK, Passes
    <2>3. w.shift \in Shifts /\ w.end \in Never..Horizon
      BY <2>2 DEF Owing, Never
    <2>4. shift \in [Shifts -> Rows] /\ shift[w.shift] \in Rows
      BY <2>3 DEF TypeOK
    <2>5. Marked(shift[w.shift], w) \in Rows
      BY <2>3, <2>4 DEF Marked, Rows
    <2> QED
      BY <2>1, <2>3, <2>4, <2>5
  <1>3. ASSUME NEW s \in Shifts, EditSave(s) PROVE shift' \in [Shifts -> Rows]
    <2>1. edit[s] \in Edits /\ edit[s].kind # "none" /\ edit[s].row \in Rows
      BY <1>3 DEF EditSave, TypeOK, Edits
    <2>2. now \in Never..Horizon
      BY DEF TypeOK, Never
    <2>3. Edited(edit[s]) \in Rows
      BY <2>1, <2>2 DEF Edited, SwitchesOn, Rows, Edits
    <2> QED
      BY <1>3, <2>3 DEF EditSave, TypeOK
  <1> QED
    BY <1>1, <1>2, <1>3

\* The first window a shift answers for stays a moment, or the one past the last.
LEMMA AnswerableType ==
  ASSUME TypeOK
  PROVE  /\ \A i \in Instances : Mark(i) => answerable' \in [Shifts -> 1..NotAnswerable]
         /\ \A s \in Shifts : EditSave(s) => answerable' \in [Shifts -> 1..NotAnswerable]
  <1> USE ShiftRunnerAssumption
  <1>1. ASSUME NEW i \in Instances, Mark(i) PROVE answerable' \in [Shifts -> 1..NotAnswerable]
    <2>1. PICK w \in pass[i].win :
            answerable' = [answerable EXCEPT ![w.shift] = IF @ = NotAnswerable THEN w.end ELSE @]
      BY <1>1 DEF Mark
    <2>2. w \in Owing
      BY DEF TypeOK, Passes
    <2>3. w.end \in 1..NotAnswerable /\ w.shift \in Shifts
      BY <2>2 DEF Owing, NotAnswerable
    <2> QED
      BY <2>1, <2>3 DEF TypeOK
  <1>2. ASSUME NEW s \in Shifts, EditSave(s)
        PROVE  answerable' \in [Shifts -> 1..NotAnswerable]
    <2>1. now + 1 \in 1..NotAnswerable /\ NotAnswerable \in 1..NotAnswerable
      BY DEF TypeOK, NotAnswerable
    <2>2. answerable \in [Shifts -> 1..NotAnswerable]
      BY DEF TypeOK
    <2>3. PICK x \in 1..NotAnswerable : answerable' = [answerable EXCEPT ![s] = x]
      BY <1>2, <2>1, <2>2 DEF EditSave
    <2> QED
      BY <2>2, <2>3
  <1> QED
    BY <1>1, <1>2

\* Every step keeps the types.
LEMMA StepTypeOK ==
  ASSUME TypeOK, [Next]_vars
  PROVE  TypeOK'
  <1> USE ShiftRunnerAssumption
  <1>1. CASE Tick
    BY <1>1 DEF Tick, TypeOK, ghosts
  <1>2. ASSUME NEW s \in Shifts, NEW ts \in 1..Horizon, Arrive(s, ts) \/ Post(s, ts)
        PROVE  TypeOK'
    <2>1. now' \in 0..Horizon /\ now + 1 \in 1..Horizon
      BY <1>2 DEF Arrive, Post, TypeOK
    <2>2. [shift |-> s, ts |-> ts, at |-> now + 1] \in Readings
      BY <2>1 DEF Readings
    <2>3. left' \in [Faults -> Nat]
      BY <1>2, SpendType DEF Arrive, Post, Faults
    <2>4. arrived' \in SUBSET Readings /\ held' \in SUBSET Readings
      BY <1>2, <2>2 DEF Arrive, Post, TypeOK
    <2> QED
      BY <1>2, <2>1, <2>3, <2>4 DEF Arrive, Post, TypeOK, ghosts
  <1>3. ASSUME NEW i \in Instances, Restart(i) PROVE TypeOK'
    <2>1. left' \in [Faults -> Nat]
      BY <1>3, SpendType DEF Restart, Faults
    <2>2. pass' \in [Instances -> Passes]
      BY <1>3, IdleType DEF Restart, TypeOK
    <2>3. route' \in [Instances -> BOOLEAN]
      BY <1>3 DEF Restart, TypeOK
    <2>4. lock' \in Instances \cup {NoInstance}
      BY <1>3 DEF Restart, TypeOK
    <2> QED
      BY <1>3, <2>1, <2>2, <2>3, <2>4 DEF Restart, TypeOK, ghosts
  <1>4. CASE LoseLock
    <2>1. left' \in [Faults -> Nat]
      BY <1>4, SpendType DEF LoseLock, Faults
    <2> QED
      BY <1>4, <2>1 DEF LoseLock, TypeOK, ghosts
  <1>5. ASSUME NEW i \in Instances, StartPass(i) PROVE TypeOK'
    <2> DEFINE p == [Idle EXCEPT !.pc = "sweep", !.now = now,
                       !.todo = IF route[i]
                                THEN {[shift |-> s, since |-> shift[s].arrivals] : s \in ActiveShifts}
                                ELSE {}]
    <2>1. {[shift |-> s, since |-> shift[s].arrivals] : s \in ActiveShifts} \in SUBSET Swept
      BY DEF ActiveShifts, Swept, TypeOK, Rows
    <2>2. p \in Passes
      BY <2>1 DEF Idle, Passes, TypeOK
    <2>3. pass' = [pass EXCEPT ![i] = p]
      BY <1>5 DEF StartPass
    <2>4. pass' \in [Instances -> Passes]
      BY <2>2, <2>3, PassType
    <2> QED
      BY <1>5, <2>4 DEF StartPass, TypeOK, ghosts
  <1>6. ASSUME NEW i \in Instances, Sweep(i) \/ RewindRead(i) PROVE TypeOK'
    BY <1>6, SweepType, RewindType DEF Sweep, RewindRead, TypeOK, ghosts
  <1>7. ASSUME NEW i \in Instances, SweepFails(i) PROVE TypeOK'
    <2>1. left' \in [Faults -> Nat]
      BY <1>7, SpendType DEF SweepFails, Faults
    <2>2. pass' \in [Instances -> Passes]
      BY <1>7, RewindType
    <2> QED
      BY <1>7, <2>1, <2>2 DEF SweepFails, TypeOK, ghosts
  <1>8. ASSUME NEW i \in Instances, RewindWrite(i) PROVE TypeOK'
    <2>1. [pass[i] EXCEPT !.late = {}, !.pc = "sweep"] \in Passes
      BY DEF TypeOK, Passes
    <2>2. pass' = [pass EXCEPT ![i] = [pass[i] EXCEPT !.late = {}, !.pc = "sweep"]]
      BY <1>8 DEF RewindWrite
    <2>3. pass' \in [Instances -> Passes]
      BY <2>1, <2>2, PassType
    <2>4. shift' \in [Shifts -> Rows]
      BY <1>8, RowType
    <2> QED
      BY <1>8, <2>3, <2>4 DEF RewindWrite, TypeOK, ghosts
  <1>9. ASSUME NEW i \in Instances, Owed(i) PROVE TypeOK'
    BY <1>9, OwedType DEF Owed, TypeOK, ghosts
  <1>10. ASSUME NEW i \in Instances, Take(i) PROVE TypeOK'
    BY <1>10, TakeType DEF Take, TypeOK
  <1>11. ASSUME NEW i \in Instances, Ingest(i) PROVE TypeOK'
    <2>1. [pass[i] EXCEPT !.pc = "mark"] \in Passes /\ pass[i].pull \in SUBSET Readings
      BY DEF TypeOK, Passes
    <2>2. pass' = [pass EXCEPT ![i] = [pass[i] EXCEPT !.pc = "mark"]]
      BY <1>11 DEF Ingest
    <2>3. pass' \in [Instances -> Passes]
      BY <2>1, <2>2, PassType
    <2>4. held' \in SUBSET Readings
      BY <1>11, <2>1 DEF Ingest, TypeOK
    <2> QED
      BY <1>11, <2>3, <2>4 DEF Ingest, TypeOK, ghosts
  <1>12. ASSUME NEW i \in Instances, Mark(i) PROVE TypeOK'
    <2>1. shift' \in [Shifts -> Rows]
      BY <1>12, RowType
    <2>2. answerable' \in [Shifts -> 1..NotAnswerable]
      BY <1>12, AnswerableType
    <2>3. pass' \in [Instances -> Passes] /\ attempt' \in [Owing -> Outcomes]
      BY <1>12, RunEndType
    <2>4. covered' \in SUBSET Readings
      BY <1>12 DEF Mark, TypeOK
    <2> QED
      BY <1>12, <2>1, <2>2, <2>3, <2>4 DEF Mark, TypeOK
  <1>13. ASSUME NEW i \in Instances, Fail(i) PROVE TypeOK'
    <2>1. left' \in [Faults -> Nat]
      BY <1>13, SpendType DEF Fail, Faults, TypeOK
    <2>2. pass' \in [Instances -> Passes] /\ attempt' \in [Owing -> Outcomes]
      BY <1>13, RunEndType
    <2> QED
      BY <1>13, <2>1, <2>2 DEF Fail, TypeOK
  <1>14. ASSUME NEW i \in Instances, EndPass(i) PROVE TypeOK'
    <2>1. pass' \in [Instances -> Passes]
      BY <1>14, IdleType, PassType DEF EndPass
    <2>2. lock' \in Instances \cup {NoInstance}
      BY <1>14 DEF EndPass, TypeOK
    <2> QED
      BY <1>14, <2>1, <2>2 DEF EndPass, TypeOK, ghosts
  <1>15. ASSUME NEW s \in Shifts, NEW k \in {"update", "retire", "reinstate"}, EditRead(s, k)
         PROVE  TypeOK'
    <2>1. left' \in [Faults -> Nat]
      BY <1>15, SpendType DEF EditRead, Faults
    <2>2. [kind |-> k, row |-> shift[s]] \in Edits
      BY DEF Edits, TypeOK
    <2>3. edit' \in [Shifts -> Edits]
      BY <1>15, <2>2 DEF EditRead, TypeOK
    <2> QED
      BY <1>15, <2>1, <2>3 DEF EditRead, TypeOK, ghosts
  <1>16. ASSUME NEW s \in Shifts, EditSave(s) PROVE TypeOK'
    <2>1. shift' \in [Shifts -> Rows]
      BY <1>16, RowType
    <2>2. answerable' \in [Shifts -> 1..NotAnswerable]
      BY <1>16, AnswerableType
    <2>3. edit' \in [Shifts -> Edits]
      BY <1>16, NewRowType DEF EditSave, TypeOK
    <2> QED
      BY <1>16, <2>1, <2>2, <2>3 DEF EditSave, TypeOK
  <1>17. CASE UNCHANGED vars
    BY <1>17 DEF vars, TypeOK
  <1>18. ASSUME NEW i \in Instances, PassStep(i) PROVE TypeOK'
    BY <1>18, <1>5, <1>6, <1>8, <1>9, <1>10, <1>11, <1>12, <1>13, <1>14 DEF PassStep
  <1> QED
    BY <1>1, <1>2, <1>3, <1>4, <1>7, <1>13, <1>15, <1>16, <1>17, <1>18 DEF Next

--------------------------------------------------------------------------------
(* One pass at a time. *)

\* A fault other than a lost lock leaves the lock's budget alone.
LEMMA OtherFault ==
  ASSUME TypeOK, NEW f \in Faults \ {"lockLoss"}, Spend(f)
  PROVE  left'["lockLoss"] = left["lockLoss"]
  BY DEF Spend, TypeOK, Faults

\* A step that takes no lock and gives none up, and starts no pass.
LEMMA StillInside ==
  ASSUME InsideHolds, left'["lockLoss"] = left["lockLoss"], lock' = lock,
         \A i \in Instances : pass'[i].pc # "idle" => pass[i].pc # "idle"
  PROVE  InsideHolds'
  BY DEF InsideHolds, NoLockLost

\* One instance goes on with its pass.
LEMMA GoesOn ==
  ASSUME TypeOK, NEW i \in Instances, pass[i].pc # "idle",
         \A j \in Instances \ {i} : pass'[j] = pass[j]
  PROVE  \A j \in Instances : pass'[j].pc # "idle" => pass[j].pc # "idle"
  OBVIOUS

\* Who is inside a pass holds the lock, and what was spent stays spent.
LEMMA StepInside ==
  ASSUME TypeOK, SpentIsSpent, InsideHolds, [Next]_vars
  PROVE  SpentIsSpent' /\ InsideHolds'
  <1> DEFINE Goal == SpentIsSpent' /\ InsideHolds'
  <1>0. left["lockLoss"] \in Nat /\ Budget["lockLoss"] \in Nat
    BY ShiftRunnerAssumption DEF TypeOK, Faults
  <1>1. ASSUME left' = left, lock' = lock, pass' = pass PROVE Goal
    BY <1>1 DEF SpentIsSpent, InsideHolds, NoLockLost
  <1>2. CASE Tick \/ UNCHANGED vars \/ \E s \in Shifts : EditSave(s)
    BY <1>1, <1>2 DEF Tick, EditSave, vars, ghosts
  <1>3. ASSUME NEW s \in Shifts, NEW ts \in 1..Horizon, Arrive(s, ts) \/ Post(s, ts) PROVE Goal
    <2>1. left'["lockLoss"] = left["lockLoss"] /\ pass' = pass /\ lock' = lock
      BY <1>3, OtherFault DEF Arrive, Post, Faults
    <2> QED
      BY <2>1, StillInside DEF SpentIsSpent
  <1>4. ASSUME NEW s \in Shifts, NEW k \in {"update", "retire", "reinstate"}, EditRead(s, k)
        PROVE  Goal
    <2>1. left'["lockLoss"] = left["lockLoss"] /\ pass' = pass /\ lock' = lock
      BY <1>4, OtherFault DEF EditRead, Faults
    <2> QED
      BY <2>1, StillInside DEF SpentIsSpent
  <1>5. ASSUME NEW i \in Instances, Restart(i) PROVE Goal
    <2>1. left'["lockLoss"] = left["lockLoss"]
      BY <1>5, OtherFault DEF Restart, Faults
    <2>2. pass'[i].pc = "idle" /\ \A j \in Instances \ {i} : pass'[j] = pass[j]
      BY <1>5 DEF Restart, TypeOK, Idle
    <2>3. lock' = IF lock = i THEN NoInstance ELSE lock
      BY <1>5 DEF Restart
    <2> QED
      BY <2>1, <2>2, <2>3 DEF SpentIsSpent, InsideHolds, NoLockLost
  <1>6. CASE LoseLock
    <2>1. left'["lockLoss"] = left["lockLoss"] - 1
      BY <1>6 DEF LoseLock, Spend, TypeOK, Faults
    <2> QED
      BY <1>0, <2>1 DEF SpentIsSpent, InsideHolds, NoLockLost
  <1>7. ASSUME NEW i \in Instances, StartPass(i) PROVE Goal
    <2>1. left' = left /\ lock' = i /\ lock = NoInstance
      BY <1>7 DEF StartPass, MayStart
    <2>2. \A j \in Instances \ {i} : pass'[j] = pass[j]
      BY <1>7 DEF StartPass, TypeOK
    <2> QED
      BY <2>1, <2>2, ShiftRunnerAssumption DEF SpentIsSpent, InsideHolds, NoLockLost
  <1>8. ASSUME NEW i \in Instances,
               \/ Sweep(i) \/ RewindRead(i) \/ RewindWrite(i) \/ Owed(i)
               \/ Take(i) \/ Ingest(i) \/ Mark(i)
        PROVE  Goal
    <2>1. pass[i].pc # "idle" /\ left' = left /\ lock' = lock
      BY <1>8 DEF Sweep, RewindRead, RewindWrite, Owed, Take, Ingest, Mark
    <2>2. \A j \in Instances \ {i} : pass'[j] = pass[j]
      BY <1>8 DEF Sweep, RewindRead, RewindWrite, Owed, Take, Ingest, Mark, TypeOK
    <2> QED
      BY <2>1, <2>2, GoesOn, StillInside DEF SpentIsSpent
  <1>9. ASSUME NEW i \in Instances, SweepFails(i) \/ Fail(i) PROVE Goal
    <2>1. left'["lockLoss"] = left["lockLoss"]
      BY <1>9, OtherFault DEF SweepFails, Fail, Faults
    <2>2. pass[i].pc # "idle" /\ lock' = lock
      BY <1>9 DEF SweepFails, Fail
    <2>3. \A j \in Instances \ {i} : pass'[j] = pass[j]
      BY <1>9 DEF SweepFails, Fail, TypeOK
    <2> QED
      BY <2>1, <2>2, <2>3, GoesOn, StillInside DEF SpentIsSpent
  <1>10. ASSUME NEW i \in Instances, EndPass(i) PROVE Goal
    <2>1. pass'[i].pc = "idle" /\ \A j \in Instances \ {i} : pass'[j] = pass[j]
      BY <1>10 DEF EndPass, TypeOK, Idle
    <2>2. left' = left /\ lock' = IF lock = i THEN NoInstance ELSE lock
      BY <1>10 DEF EndPass
    <2> QED
      BY <2>1, <2>2 DEF SpentIsSpent, InsideHolds, NoLockLost
  <1>11. ASSUME NEW i \in Instances, PassStep(i) PROVE Goal
    BY <1>11, <1>7, <1>8, <1>9, <1>10 DEF PassStep
  <1> QED
    BY <1>2, <1>3, <1>4, <1>5, <1>6, <1>9, <1>11 DEF Next

--------------------------------------------------------------------------------
(* The theorems. *)

\* The inductive invariant holds in every reachable state.
THEOREM Inductive == Spec => []LInv
  <1>1. Init => LInv
    <2> SUFFICES ASSUME Init PROVE LInv
      OBVIOUS
    <2>1. TypeOK
      BY InitTypeOK
    <2>2. SpentIsSpent
      BY ShiftRunnerAssumption DEF Init, SpentIsSpent, Faults
    <2>3. \A i \in Instances : pass[i].pc = "idle"
      BY DEF Init, Idle
    <2>4. InsideHolds
      BY <2>3 DEF InsideHolds
    <2> QED
      BY <2>1, <2>2, <2>4 DEF LInv
  <1>2. LInv /\ [Next]_vars => LInv'
    BY StepTypeOK, StepInside DEF LInv
  <1> QED
    BY <1>1, <1>2, PTL DEF Spec

\* Every variable keeps its type: watermarks, windows and readings within the horizon.
THEOREM TypeCorrect == Spec => []TypeOK
  <1>1. LInv => TypeOK
    BY DEF LInv
  <1> QED
    BY <1>1, Inductive, PTL

\* The advisory lock keeps the passes of any number of instances apart, until it is lost.
THEOREM PassesApart == Spec => []OnePassAtATime
  <1>1. LInv => OnePassAtATime
    BY DEF LInv, InsideHolds, OnePassAtATime
  <1> QED
    BY <1>1, Inductive, PTL
================================================================================
