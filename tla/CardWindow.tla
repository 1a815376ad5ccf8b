----------------------------- MODULE CardWindow -----------------------------
(* The window of dates of the page of an account. A card's window is a cycle *)
(* between two closings, or a bill of the bank's own: from the day after the *)
(* due date of the bill before it to its own. The page picks one when its    *)
(* data arrive, until the user has picked another.                           *)
EXTENDS Integers, Sequences, FiniteSetsExt, QueryCache

CONSTANT MaxWrites          \* bound: changes of the account's settings

VARIABLES ui, q, net, log

vars == <<ui, q, net, log>>

(* The days of December to June are numbered; nothing here leaves February to April. *)
Lengths == <<31, 31, 28, 31, 30, 31, 30>>
Months == DOMAIN Lengths
Firsts == <<1, 32, 63, 91, 122, 152, 183>>
First(m) == Firsts[m]
MonthOf(d) == Max({m \in Months : First(m) <= d})
March(d) == First(4) + d - 1
None == 0
Calendar == First(2)..(First(7) - 1)    \* bound: the days a window reaches

(* closes, due: days of the month, or none; set, dueOn: as fetched and as they are;       *)
(* dueOn: the bank's bills, by due date. The clocks go back on the day long, which has 25 *)
(* hours.                                                                                 *)
Settings == {[closes |-> c, due |-> d] : c \in {10, 16, 31}, d \in {9, 16, 30}}
                \cup {[closes |-> None, due |-> None]}
Feeds == {{}, {March(16)}, {First(3) + 15, March(16)}}
Todays == {March(1), March(13), March(20)}
TypeOK ==
  /\ ui \in [account : BOOLEAN, set : Settings, dueOn : Feeds, touched : BOOLEAN, from : Calendar,
             to : Calendar]
  /\ q \in [card : BOOLEAN, set : Settings, dueOn : Feeds, today : Calendar, long : {March(9), None}]
  /\ net = {}
  /\ log \in [n : 0..MaxWrites, chosen : SUBSET [from : Calendar, to : Calendar], landed : BOOLEAN]
-----------------------------------------------------------------------------
(* A day of the month that a month does not have is its last. *)
On(day, m) == First(m) + (IF day < Lengths[m] THEN day ELSE Lengths[m]) - 1

(* The cycle of a day: what is bought on the day of a closing is in the next one. *)
CycleClosed(closes, d) ==              \* broken: the day of a closing is in the one it closes
  LET m == MonthOf(d)
      next == IF On(closes, m) >= d THEN m ELSE m + 1
  IN [from |-> On(closes, next - 1), to |-> On(closes, next) - 1]
Cycle(closes, d) ==
  LET m == MonthOf(d)
      next == IF On(closes, m) > d THEN m ELSE m + 1
  IN IF closes = None THEN [from |-> First(m - 1), to |-> d]
     ELSE [from |-> On(closes, next - 1), to |-> On(closes, next) - 1]

(* The next due date from a day on, or after it; the closing at a day or before it. *)
NextDue(due, d, after) ==
  LET m == MonthOf(d) IN IF On(due, m) > d \/ (~after /\ On(due, m) = d) THEN On(due, m) ELSE On(due, m + 1)
ClosedAt(closes, d) ==
  LET m == MonthOf(d) IN IF On(closes, m) <= d THEN On(closes, m) ELSE On(closes, m - 1)
DueOf(set, to) == NextDue(set.due, to, TRUE)

(* The cycle whose bill is due next, not the one that today is in. *)
DefaultOpen(set, today) == Cycle(set.closes, today)    \* broken: the one that today is in
Default(set, today) ==
  IF set.closes = None \/ set.due = None THEN Cycle(set.closes, today)
  ELSE Cycle(set.closes, ClosedAt(set.closes, NextDue(set.due, today, FALSE)) - 1)

(* A bill's days; the oldest one is given some more before it. *)
Bill(dueOn, b) ==
  [from |-> IF \E a \in dueOn : a < b THEN Max({a \in dueOn : a < b}) + 1 ELSE b - 45, to |-> b]
Month(d) == [from |-> First(MonthOf(d)), to |-> First(MonthOf(d) + 1) - 1]
-----------------------------------------------------------------------------
Shows(v, w) == [v EXCEPT !.from = w.from, !.to = w.to]

Init ==
  /\ q \in [card : BOOLEAN, set : Settings, dueOn : Feeds, today : Todays, long : {March(9), None}]
  /\ q.card \/ (q.dueOn = {} /\ q.set.closes = None /\ q.long = None)
  /\ ui = Shows([account |-> FALSE, set |-> [closes |-> None, due |-> None], dueOn |-> {},
                 touched |-> FALSE, from |-> None, to |-> None], Month(q.today))
  /\ net = {} /\ log = [n |-> 0, chosen |-> {}, landed |-> FALSE]

(* The window the page picks: a bill that is due, the cycle that runs, or by its default. *)
Landing(v) ==
  IF ~q.card THEN [from |-> v.from, to |-> v.to]
  ELSE IF \E b \in v.dueOn : b >= q.today THEN Bill(v.dueOn, Min({b \in v.dueOn : b >= q.today}))
  ELSE IF v.dueOn # {} /\ v.set.closes # None THEN Cycle(v.set.closes, q.today)
  ELSE Default(v.set, q.today)

(* An answer the effect watches: the account, changed or not, and the bills, which come *)
(* after it. What the user has picked stays.                                            *)
Landed(v) ==
  /\ ui' = IF v.touched THEN v ELSE Shows(v, Landing(v))
  /\ log' = [log EXCEPT !.landed = ~v.touched /\ q.card /\ v.dueOn = {}]
Account == Landed([ui EXCEPT !.account = TRUE, !.set = q.set]) /\ UNCHANGED <<q, net>>
Bills ==
  /\ q.card /\ ui.account /\ ui.dueOn # q.dueOn
  /\ Landed([ui EXCEPT !.dueOn = q.dueOn])
  /\ UNCHANGED <<q, net>>
(* The bank has a new bill; midnight passes. *)
NewBill == q.dueOn # {} /\ q' = [q EXCEPT !.dueOn = @ \cup {March(16)}] /\ UNCHANGED <<ui, net, log>>
Midnight ==
  /\ q.today \in Todays /\ q' = [q EXCEPT !.today = @ + 1]
  /\ log' = [log EXCEPT !.landed = FALSE] /\ UNCHANGED <<ui, net>>
(* The dialog of the card's settings is answered, and the account is fetched again. *)
SettingsSaved(set) ==
  /\ q.card /\ ui.account /\ log.n < MaxWrites /\ set # q.set
  /\ q' = [q EXCEPT !.set = set]
  /\ log' = [log EXCEPT !.n = @ + 1]
  /\ UNCHANGED <<ui, net>>
-----------------------------------------------------------------------------
Chosen(ws) == log' = [log EXCEPT !.chosen = ws, !.landed = FALSE] /\ UNCHANGED <<q, net>>
PickUntouched(w) == ui' = Shows(ui, w) /\ Chosen({w})     \* broken: the page may pick again
Pick(w) ==
  /\ ui.account /\ w.from \in Calendar /\ w.to \in Calendar
  /\ ui' = Shows([ui EXCEPT !.touched = TRUE], w) /\ Chosen({w})

PickFrom(d) == Pick([from |-> d, to |-> ui.to])
PickTo(d) == Pick([from |-> ui.from, to |-> d])

(* The strip of bars: the bills and the cycle that runs, or the last cycles. *)
Back(w) == Cycle(ui.set.closes, w.from - 1)
Strip ==
  IF ui.dueOn # {} THEN {Bill(ui.dueOn, b) : b \in ui.dueOn}
                          \cup (IF ui.set.closes = None THEN {} ELSE {Cycle(ui.set.closes, q.today)})
  ELSE IF ui.set.closes = None THEN {} ELSE LET now == Cycle(ui.set.closes, q.today) IN {now, Back(now)}
PickBar == q.card /\ \E w \in Strip : Pick(w)

(* The arrows: along the bills when there are any, then along the cycles, or by a month. *)
(* A window that ends on no bill counts as the one after the newest.                     *)
Older == {b \in ui.dueOn : ui.to \in ui.dueOn => b < ui.to}
Newer == {b \in ui.dueOn : ui.to \in ui.dueOn /\ b > ui.to}
ByCycle(ref) == Pick(Cycle(ui.set.closes, ref))
ByMonth(d, by) ==
  LET m == MonthOf(d) IN On(d - First(m) + 1, m + by)
ByMonths(by) ==
  Pick([from |-> ByMonth(ui.from, by), to |-> ByMonth(ui.to, by)])
StepBack ==
  /\ q.card
  /\ IF Older # {} THEN Pick(Bill(ui.dueOn, Max(Older)))
     ELSE IF ui.set.closes # None THEN ByCycle(ui.from - 1)
     ELSE ByMonths(-1)
StepOn ==
  /\ q.card
  /\ IF Newer # {} THEN Pick(Bill(ui.dueOn, Min(Newer)))
     ELSE IF ui.to \in ui.dueOn /\ ui.set.closes # None THEN ByCycle(q.today)
     ELSE IF ui.set.closes # None THEN ByCycle(IF ui.to = q.long THEN ui.to ELSE ui.to + 1)
     ELSE ByMonths(1)

(* Clearing shows the default, whatever bills there are, and lets the page pick again. *)
Clear ==
  /\ ui.account
  /\ ui' = Shows([ui EXCEPT !.touched = FALSE], IF q.card THEN Default(ui.set, q.today) ELSE Month(q.today))
  /\ Chosen({})

Next ==
  \/ Account \/ Bills \/ NewBill \/ Midnight \/ PickBar \/ StepBack \/ StepOn \/ Clear
  \/ \E set \in {[closes |-> 10, due |-> 16]} : SettingsSaved(set)
  \/ \E d \in {March(5)} : PickFrom(d) \/ PickTo(d)

Spec == Init /\ [][Next]_vars
-----------------------------------------------------------------------------
(* A window the user picked is there until the user picks another: no account, no bill *)
(* and no settings that come later take it away.                                       *)
ChosenWindowStays == log.chosen \subseteq {[from |-> ui.from, to |-> ui.to]}

(* A card without the bank's bills opens on the cycle whose bill is due next, by the same *)
(* due date that the page then shows for it: unless a month cuts both days to the same.   *)
OpensOnTheBillDue ==
  log.landed /\ ui.set.closes # None =>
    \/ DueOf(ui.set, ui.to) = NextDue(ui.set.due, q.today, FALSE)
    \/ \E m \in Months : On(ui.set.closes, m) = On(ui.set.due, m)

(* An arrow moves one of the two ends its way at least, unless the bank's bills are ahead *)
(* of the cycle by its closing day, the window ends on none of them and before the        *)
(* newest, or on a day of 25 hours.                                                       *)
Regular ==
  /\ ui.to # q.long
  /\ ui.dueOn = {} \/ (Max(ui.dueOn) < Cycle(ui.set.closes, q.today).to
                       /\ (ui.to \in ui.dueOn \/ ui.to > Max(ui.dueOn)))
StepGoesItsWay ==
  Regular =>
    /\ StepBack => ui'.from < ui.from \/ ui'.to < ui.to
    /\ StepOn => ui'.from > ui.from \/ ui'.to > ui.to
StepsGoTheirWay == [][StepGoesItsWay]_vars
=============================================================================
