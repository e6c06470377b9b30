----------------------------- MODULE MCShiftRunner -----------------------------
(* Small instances of ShiftRunner. *)
EXTENDS ShiftRunner, TLC

CONSTANTS s1, s2, i1, i2

Symmetry == Permutations(Instances)

\* One shift with two or three windows, or two shifts whose windows end together.
OneShift == (s1 :> {2, 4})
OneShiftThrice == (s1 :> {1, 2, 4})
TwoShifts == (s1 :> {2, 3}) @@ (s2 :> {3})

None0 == [f \in Faults |-> 0]

\* Late arrivals around an edit and a crash, after which the instance may
\* find a route or none.
LateBudget == [None0 EXCEPT !["arrive"] = 2, !["post"] = 1, !["edit"] = 1,
                            !["restart"] = 1]

\* A lock that is lost while the pass that took it goes on.
OverlapBudget == [None0 EXCEPT !["arrive"] = 1, !["lockLoss"] = 1]

\* The same, and a sweep that fails once.
LiveBudget == [OverlapBudget EXCEPT !["sweepFailure"] = 1]

\* One fault each, for the claims the code does not keep.
SkipBudget == [None0 EXCEPT !["failure"] = 1]
MonthOffBudget == [None0 EXCEPT !["arrive"] = 1, !["edit"] = 2]
================================================================================
