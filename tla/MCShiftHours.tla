------------------------------ MODULE MCShiftHours ------------------------------
(* Small instances of ShiftHours: days of four hours, weeks of two days. *)
EXTENDS ShiftHours, TLC

CONSTANTS x1, x2, A, B

Shift(start, end, days, zone) == [start |-> start, end |-> end, days |-> days, zone |-> zone]

Autumn == [base |-> 1, jump |-> -1, at |-> 6]
Spring == [base |-> 1, jump |-> 1, at |-> 4]

LongSpring == [base |-> 1, jump |-> 2, at |-> 3]

Every == {0, 1}

\* Halves of the day, a night that runs over the end of the week, and a day
\* and a night in one; and, where the clock skips two hours, a shift that ends
\* in the middle of what it skips.
AutumnShifts == {Shift(0, 2, Every, Autumn), Shift(2, 4, {1}, Autumn), Shift(3, 1, {1}, Autumn),
                 Shift(2, 2, {1}, Autumn)}
SpringShifts == {Shift(0, 2, Every, LongSpring), Shift(2, 3, {1}, LongSpring), Shift(3, 1, {0}, LongSpring)}
Clocks == AutumnShifts \cup SpringShifts

TwoShifts == <<[name |-> A, def |-> Shift(0, 2, Every, Autumn)],
               [name |-> B, def |-> Shift(2, 4, {1}, Autumn)]>>

SpringDay == {Shift(1, 3, Every, Spring)}
NoShifts == <<>>

Symmetry == Permutations(Sessions)
================================================================================
