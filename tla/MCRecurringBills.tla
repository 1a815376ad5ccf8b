--------------------------- MODULE MCRecurringBills ---------------------------
(* Instances of RecurringBills.  The scaled month keeps the claims of one  *)
(* occurrence clear of the next, as 28 days and the windows 3, 5 and 5 do; *)
(* the week has the windows of the code.                                   *)
EXTENDS RecurringBills, TLC

DueMonth  == "c1" :> 1 @@ "c2" :> 5
DateMonth == "c1" :> 2 @@ "c2" :> 4

DueWeek  == "c2" :> 8
DateWeek == "c2" :> 6

SessionSymmetry == Permutations(Sessions)
=============================================================================
