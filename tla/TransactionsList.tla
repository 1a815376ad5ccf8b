-------------------------- MODULE TransactionsList --------------------------
(* The list of the transactions page: its filters and pages, the selection,  *)
(* and the writes over the selected rows. The selection is a set of ids kept *)
(* beside the list, cleared by an effect that watches some of what decides   *)
(* the rows of the page.                                                     *)
EXTENDS Naturals, FiniteSets, QueryCache

CONSTANT MaxWrites          \* bound: writes in a behaviour

VARIABLES ui, q, net, log

vars == <<ui, q, net, log>>

None == "none"
Rows == 1..5                    \* newest last; bound: one row, 5, is entered
Own == {1, 2, 4, 5}             \* 3 is shared by another user: listed, never selected
Size == 3                       \* bound: rows of a page
Overs == {"delete", "group", "link"}

(* watched: the filters the effect watches; other: the ones it does not. q: the rows that *)
(* are not there, and those that match the filters watched. of: the rows a deletion names *)
(* (nothing later depends on the other writes').                                          *)
TypeOK ==
  /\ ui \in [view : {"list", "calendar"}, writer : BOOLEAN, page : 1..2, watched : 0..1,
             other : 0..1, sel : SUBSET Own, over : Overs \cup {None}]
  /\ q \in [gone : SUBSET Own, fit : SUBSET Rows]
  /\ net \subseteq [do : {"categorize", "tags", "group", "delete", "link", "counterpart"},
                    of : SUBSET Own, st : {"sent"}]
  /\ log \in [n : 0..MaxWrites]
-----------------------------------------------------------------------------

Init ==
  /\ ui \in [view : {"list", "calendar"}, writer : BOOLEAN, page : {1}, watched : {0},
             other : {0}, sel : {{}}, over : {None}]
  /\ q = [gone |-> {5}, fit |-> {1, 3}] /\ net = {}
  /\ log = [n |-> 0]

(* The rows of a page, the newest first: two filters, and two pages. *)
Matches(v) == {r \in Rows \ q.gone : (v.watched = 1 => r \in q.fit) /\ (v.other = 1 => r # 2)}
Newer(v, r) == {x \in Matches(v) : x > r}
Listed(v) == {r \in Matches(v) : (Cardinality(Newer(v, r)) < Size) = (v.page = 1)}
Selectable == Listed(ui) \cap Own

(* The effects that clear the selection: on the page and the filters watched, and in the *)
(* calendar.                                                                             *)
Cleared(v) ==
  IF v.page # ui.page \/ v.watched # ui.watched \/ v.view = "calendar"
  THEN [v EXCEPT !.sel = {}] ELSE v

Page == ui.over = None
List == Page /\ ui.view = "list"
Changes(v) == ui' = Cleared(v) /\ UNCHANGED <<q, net, log>>
FromPage(v) == [v EXCEPT !.page = 1]
Filters(f) == Page /\ Changes(FromPage([ui EXCEPT !.watched = f]))
FiltersAside(g) == Page /\ Changes(FromPage([ui EXCEPT !.other = g]))
-----------------------------------------------------------------------------
(* The filter bar, the menu of a phone, and the chips: one filter each. *)
PickAccounts(f) == Filters(f)
PickCategories(f) == Filters(f)
PickPayee(f) == Filters(f)
PickType(f) == Filters(f)
PickStatus(f) == Filters(f)
PickDates(f) == Filters(f)
PickAmounts(f) == Filters(f)
StepMonth(f) == Filters(f)
PickGroup(g) == FiltersAside(g)
Tag(g) == FiltersAside(g)
HideIgnored(g) == FiltersAside(g)
PageSize(g) == List /\ FiltersAside(g)
ClearAll == Page /\ Changes(FromPage([ui EXCEPT !.watched = 0, !.other = 0]))

(* Neither the order of a column nor the collection of the sidebar sets the page. *)
Sort == List /\ Changes([ui EXCEPT !.other = 1 - @])
SwitchCollection == Page /\ Changes([ui EXCEPT !.other = 1 - @])
Turn(p) == List /\ Matches(ui) # Listed(ui) /\ Changes([ui EXCEPT !.page = p])

(* The search box: what is typed reaches the filter a while later, whatever is open then. *)
Debounced(f) == Changes(FromPage([ui EXCEPT !.watched = f]))
SubmitSearch(f, g) == Page /\ Changes(FromPage([ui EXCEPT !.watched = f, !.other = g]))

(* A link into the page while it is open, from the command palette. *)
FollowLink(f, g, view) ==
  Page /\ Changes(FromPage([ui EXCEPT !.watched = f, !.other = g, !.view = view]))
SwitchView(view) == Page /\ view # ui.view /\ Changes([ui EXCEPT !.view = view])
Calendar == Page /\ ui.view = "calendar" /\ Changes(ui)
SelectDay == Calendar
SelectOnTrend == Calendar
SelectOnBars == Calendar
-----------------------------------------------------------------------------
Select(s) == List /\ ui.writer /\ Changes([ui EXCEPT !.sel = s])

(* One row, or with shift every row between it and the one clicked before it. *)
Between(r, last) == {x \in Selectable : (x - r) * (x - last) <= 0}
Toggle(r) ==
  List /\ r \in Selectable /\ Select(IF r \in ui.sel THEN ui.sel \ {r} ELSE ui.sel \cup {r})
ToggleRange(r, last) ==
  /\ List /\ r \in Selectable /\ last \in Listed(ui)
  /\ Select(IF r \in ui.sel THEN ui.sel \ Between(r, last) ELSE ui.sel \cup Between(r, last))
ToggleAll == List /\ Selectable # {} /\ Select(IF Selectable \subseteq ui.sel THEN {} ELSE Selectable)
ClearSelection == List /\ ui.sel # {} /\ Changes([ui EXCEPT !.sel = {}])

(* A write over the selection; its button is off while its own kind is pending. *)
Write(do, ids) ==
  /\ log.n < MaxWrites /\ ~Pending(net, {do})
  /\ net' = net \cup {Sent(do, IF do = "delete" THEN ids ELSE {})}
  /\ log' = [log EXCEPT !.n = @ + 1]
  /\ UNCHANGED <<ui, q>>
Bar == List /\ ui.sel # {}
Categorize == Bar /\ Write("categorize", ui.sel)
Retag == Bar /\ Write("tags", ui.sel)
Open(over) == Changes([ui EXCEPT !.over = over])
(* The dialog of a link needs two rows of the page, or one whose counterpart is searched. *)
Linkable == ui.sel \subseteq Listed(ui) /\ Cardinality(ui.sel) \in 1..2
OpenDelete == Bar /\ Open("delete")
OpenGroup == Bar /\ Open("group")
OpenLink == Bar /\ Linkable /\ Open("link")
Close == ui.over # None /\ Open(None)

Confirm(over, do) == ui.over = over /\ Write(do, ui.sel)
BulkDelete == Confirm("delete", "delete")
BulkAddToGroup == Confirm("group", "group")
LinkTransfer == Linkable /\ ~Pending(net, {"counterpart"}) /\ Confirm("link", "link")
CreateCounterpart ==
  /\ Linkable /\ Cardinality(ui.sel) = 1 /\ ~Pending(net, {"link"})
  /\ Confirm("link", "counterpart")
-----------------------------------------------------------------------------
(* A handler clears the selection there is now, and closes the dialog of its kind. *)
Closes(c) == IF c.do = "counterpart" THEN "link" ELSE c.do
(* Rows that go, go from the list too, and the page stays where it is. *)
Answer(c) ==
  /\ c \in net
  /\ net' = net \ {c}
  /\ q' = IF c.do = "delete" THEN [q EXCEPT !.gone = @ \cup c.of] ELSE q
  /\ ui' = [ui EXCEPT !.sel = {}, !.over = IF @ = Closes(c) THEN None ELSE @]
  /\ UNCHANGED log
Fail(c) == c \in net /\ net' = net \ {c} /\ UNCHANGED <<ui, q, log>>

(* The dialog of one row, with its request: the list is asked for again, and the selection *)
(* stays. The row may match the filters no longer, and a new one moves others to page 2.   *)
InDialog(v) ==
  /\ List /\ ui.writer /\ log.n < MaxWrites
  /\ q' = v
  /\ log' = [log EXCEPT !.n = @ + 1]
  /\ UNCHANGED <<ui, net>>
CreateOne(r) == r \in q.gone /\ InDialog([q EXCEPT !.gone = @ \ {r}])
UpdateOne(r) ==
  r \in Selectable /\ InDialog([q EXCEPT !.fit = IF r \in @ THEN @ \ {r} ELSE @ \cup {r}])
DeleteOne(r) == r \in Selectable /\ InDialog([q EXCEPT !.gone = @ \cup {r}])

Next ==
  \/ \E f \in 0..1 : \/ PickAccounts(f) \/ PickCategories(f) \/ PickPayee(f) \/ PickType(f) \/ PickStatus(f)
                     \/ PickDates(f) \/ PickAmounts(f) \/ StepMonth(f) \/ Debounced(f)
                     \/ \E g \in 0..1 : \/ SubmitSearch(f, g)
                                        \/ \E view \in {"list", "calendar"} : FollowLink(f, g, view)
  \/ \E g \in 0..1 : PickGroup(g) \/ Tag(g) \/ HideIgnored(g) \/ PageSize(g)
  \/ \E view \in {"list", "calendar"} : SwitchView(view)
  \/ \E p \in 1..2 : Turn(p)
  \/ \E r \in Own : Toggle(r) \/ UpdateOne(r) \/ DeleteOne(r) \/ \E last \in Own : ToggleRange(r, last)
  \/ CreateOne(5) \/ ClearAll \/ Sort \/ SwitchCollection \/ SelectDay \/ SelectOnTrend \/ SelectOnBars \/ ToggleAll
  \/ ClearSelection
  \/ Categorize \/ Retag \/ OpenDelete \/ OpenGroup \/ OpenLink \/ Close
  \/ BulkDelete \/ BulkAddToGroup \/ LinkTransfer \/ CreateCounterpart
  \/ \E c \in net : Answer(c) \/ Fail(c)

Spec == Init /\ [][Next]_vars
-----------------------------------------------------------------------------
(* The rows a bulk write would name, and whose sum is shown, are on the page the user sees. *)
SelectionIsOnThePage == ui.sel \subseteq Listed(ui)
=============================================================================
