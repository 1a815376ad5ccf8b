--------------------------- MODULE PlanningPages ----------------------------
(* Four pages of one shape: recurring bills, goals, budgets and collections. *)
(* Each has a list, a dialog to add or edit a row of it, a prompt to delete  *)
(* one, and its requests. They differ in where the fields of the form live,  *)
(* in which buttons wait for an answer, and in what they ask for afterwards. *)
EXTENDS Naturals, FiniteSets, QueryCache

CONSTANT MaxWrites          \* bound: writes in a behaviour

VARIABLES ui, q, net, log

vars == <<ui, q, net, log>>

None == "none"
New == "new"                \* what an empty form is filled from
Ids == {"a", "b"}
Lists == {"bills", "goals", "budgets", "collections"}
(* The page's list, the ledger's views, and the advice beside the budgets. *)
Keys == {"rows", "money", "insights"}
Writes == {"create", "update", "delete", "status", "backfill", "generate"}

(* editing: the row the page has; keyed: what the mounted form was filled from; kept: what *)
(* the fields in the page's own state were filled from. then: a backfill is to follow.     *)
TypeOK ==
  /\ ui \in [list : Lists, open : BOOLEAN, editing : Ids \cup {None}, keyed : Ids \cup {New},
             kept : Ids \cup {New}, deleting : Ids \cup {None}]
  /\ q \in Caches(Keys)
  /\ net \subseteq [do : Writes, st : {"sent", "done"},
                    of : [id : Ids \cup {New, None}, from : SUBSET (Ids \cup {New}), then : BOOLEAN]]
  /\ log \in [n : 0..MaxWrites, left : BOOLEAN]
-----------------------------------------------------------------------------
Init ==
  /\ \E list \in Lists :
       ui = [list |-> list, open |-> FALSE, editing |-> None, keyed |-> New, kept |-> New,
             deleting |-> None]
  /\ q \in Settled(Keys)
  /\ net = {}
  /\ log = [n |-> 0, left |-> FALSE]

On(lists) == ui.list \in lists
Page == ~ui.open /\ ui.deleting = None        \* a dialog takes every click
Changes(v) == ui' = v /\ UNCHANGED <<q, net, log>>

(* A form is filled when the dialog opens; a goal's date, icon, colour and kind, and all of *)
(* a collection, are the page's, set with the row: by the buttons, and by an effect.        *)
Source(v) == IF v.editing = None THEN New ELSE v.editing
Filled(v) == [v EXCEPT !.open = TRUE, !.keyed = Source(v), !.kept = Source(v)]
Closed(v) == [v EXCEPT !.open = FALSE, !.kept = IF On({"collections"}) THEN Source(v) ELSE @]
Opens(r) == Page /\ Changes(Filled([ui EXCEPT !.editing = r]))
OpenBill(r) == On({"bills"}) /\ Opens(r)
OpenGoalKeeping(r) ==                  \* broken: the page's own fields are not set
  On({"goals"}) /\ Page /\ Changes([Filled([ui EXCEPT !.editing = r]) EXCEPT !.kept = ui.kept])
OpenGoal(r) == On({"goals"}) /\ Opens(r)
OpenBudget(r) == On({"budgets"}) /\ Opens(r)
OpenCollection(r) == On({"collections"}) /\ Opens(r)
Close == ui.open /\ Changes(Closed([ui EXCEPT !.editing = None]))

Request(do, id, from, then) == Sent(do, [id |-> id, from |-> from, then |-> then])
Write(do, id, from, then) ==
  /\ log.n < MaxWrites
  /\ net' = net \cup {Request(do, id, from, then)}
  /\ log' = [log EXCEPT !.n = @ + 1]
  /\ UNCHANGED <<ui, q>>

(* A save sends the fields of the form, here by what they were filled from. A budget's *)
(* category and month are sent when it is new only. Only a bill's form asks for a      *)
(* backfill, with a start that is not in the future.                                   *)
Save(from, then) ==
  /\ ui.open /\ ~Pending(net, {"create", "update"})
  /\ Write(IF ui.editing = None THEN "create" ELSE "update", Source(ui), from, then)
BillForm == {ui.keyed}
SaveBill(then) == On({"bills"}) /\ Save(BillForm, then)
GoalForm == {ui.keyed, ui.kept}
SaveGoal == On({"goals"}) /\ Save(GoalForm, FALSE)
SaveBudget == On({"budgets"}) /\ Save({ui.keyed}, FALSE)
CollectionForm == {ui.kept}
SaveCollection == On({"collections"}) /\ Save(CollectionForm, FALSE)

AskDelete(r) ==
  /\ Page /\ (On({"bills", "budgets"}) => ~Pending(net, {"delete"}))
  /\ Changes([ui EXCEPT !.deleting = r])
CloseDelete == ui.deleting # None /\ Changes([ui EXCEPT !.deleting = None])
Delete == ui.deleting # None /\ ~Pending(net, {"delete"}) /\ Write("delete", ui.deleting, {}, FALSE)

(* The buttons in a row: a goal's do not wait for an answer, the others' do. *)
SetStatus(r) == Page /\ On({"goals"}) /\ Write("status", r, {}, FALSE)
Backfill(r) == Page /\ On({"bills"}) /\ ~Pending(net, {"backfill"}) /\ Write("backfill", r, {}, FALSE)
Generate == Page /\ On({"bills"}) /\ ~Pending(net, {"generate"}) /\ Write("generate", None, {}, FALSE)
-----------------------------------------------------------------------------
(* What the server derives from a write, and what the page asks for again after it. *)
Affects ==
  CASE On({"bills"}) -> {"rows", "money"}
    [] On({"budgets"}) -> {"rows", "insights"}
    [] On({"goals", "collections"}) -> {"rows"}
Refetches == IF On({"bills"}) THEN {"rows", "money"} ELSE {"rows"}

Serve(c) ==
  /\ c \in net /\ c.st = "sent"
  /\ net' = Served(net, c)
  /\ q' = Wrote(q, Affects)
  /\ UNCHANGED <<ui, log>>

(* A handler closes the dialog of its kind, whichever row that is about by now; only an    *)
(* update forgets the row as well. The form's backfill follows, of the row that was saved. *)
Handled(c) ==
  CASE c.do = "create" -> Closed(ui)
    [] c.do = "update" -> Closed([ui EXCEPT !.editing = None])
    [] c.do = "delete" -> [ui EXCEPT !.deleting = None]
    [] OTHER -> ui
Follows(c) == IF c.of.then THEN {Request("backfill", c.of.id, {}, FALSE)} ELSE {}
Answer(c) ==
  /\ c \in net /\ c.st = "done"
  /\ net' = (net \ {c}) \cup Follows(c)
  /\ ui' = Handled(c)
  /\ q' = Refetch(q, Refetches)
  /\ log' = [log EXCEPT !.left = (@ \/ (On({"budgets"}) /\ q.key = "insights")) /\ q.key \notin Refetches]

(* A failure, or an answer that is lost, leaves the lists as they are; so does a failed fetch. *)
Fail(c) ==
  /\ c \in net
  /\ net' = net \ {c}
  /\ log' = [log EXCEPT !.left = @ \/ (c.st = "done" /\ q.key \in Affects)]
  /\ UNCHANGED <<ui, q>>

Fetch ==
  /\ q' \in Fetched(q)
  /\ log' = [log EXCEPT !.left = @ /\ q'.old]
  /\ UNCHANGED <<ui, net>>
FetchFails ==
  /\ q.fetch # "none" /\ q' = Dropped(q)
  /\ log' = [log EXCEPT !.left = @ \/ q.old]
  /\ UNCHANGED <<ui, net>>
Revisit == q.fetch = "none" /\ q' = Revisited(q) /\ UNCHANGED <<ui, net, log>>

Next ==
  \/ SaveGoal \/ SaveBudget \/ SaveCollection \/ Close \/ CloseDelete \/ Delete \/ Generate
  \/ Fetch \/ FetchFails \/ Revisit
  \/ \E then \in BOOLEAN : SaveBill(then)
  \/ \E r \in Ids \cup {None} : OpenBill(r) \/ OpenGoal(r) \/ OpenBudget(r) \/ OpenCollection(r)
  \/ \E r \in Ids : AskDelete(r) \/ SetStatus(r) \/ Backfill(r)
  \/ \E c \in net : Serve(c) \/ Answer(c) \/ Fail(c)

Spec == Init /\ [][Next]_vars
-----------------------------------------------------------------------------
(* A row is only ever sent fields that were all filled from it, and a new row none of     *)
(* another's, wherever the fields live and whichever answers closed the dialog meanwhile. *)
PlansReachTheirRow == \A c \in net : c.do \in {"create", "update"} => c.of.from \subseteq {c.of.id}

(* Once everything is answered the pages show what the server holds, whichever writes and *)
(* fetches overlapped; except after a lost answer or a failed fetch, until an answer asks *)
(* again, and for the advice beside the budgets, which their writes leave as it was.      *)
ListsFreshWhenQuiet == net = {} /\ q.fetch = "none" /\ q.old => log.left
=============================================================================
