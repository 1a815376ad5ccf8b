----------------------------- MODULE MCLedgerSync -----------------------------
(* Instances of LedgerSync.  Each gives a bank account or two and the      *)
(* external ids the provider may hand out on them:                         *)
(*   Twin     one purchase, pending under one id and posted under another; *)
(*   Transfer a transfer out of one account into the other, its debit      *)
(*            under d1 or, posted under a new id, d3, and reported once    *)
(*            more as the phantom d2 the day after.                        *)
EXTENDS LedgerSync, TLC

AcctTwin == "t1" :> "a" @@ "t2" :> "a"
OpTwin   == "t1" :> "purchase" @@ "t2" :> "purchase"
DayTwin  == "t1" :> 5 @@ "t2" :> 5
SideTwin == "t1" :> "debit" @@ "t2" :> "debit"

AcctTransfer == "d1" :> "a" @@ "d3" :> "a" @@ "d2" :> "a" @@ "c1" :> "b"
OpTransfer   == "d1" :> "out" @@ "d3" :> "out" @@ "d2" :> "out" @@ "c1" :> "in"
DayTransfer  == "d1" :> 5 @@ "d3" :> 5 @@ "d2" :> 6 @@ "c1" :> 5
SideTransfer == "d1" :> "debit" @@ "d3" :> "debit" @@ "d2" :> "debit" @@ "c1" :> "credit"

OnlyBalanced == {FALSE}
AnyBalance == BOOLEAN

PassSymmetry == Permutations(Passes)
=============================================================================
