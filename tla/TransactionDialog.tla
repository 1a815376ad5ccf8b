------------------------- MODULE TransactionDialog -------------------------
(* The dialogs of the transactions page about one row: which row the form is *)
(* about, which it was filled from, and which the prompts stacked over it    *)
(* hold. The form is filled once, when it is mounted; a change of the row    *)
(* under it mounts another; the page's draft of a duplicate is kept beside.  *)
EXTENDS Naturals, FiniteSets, QueryCache

CONSTANT MaxWrites          \* bound: writes in a behaviour

VARIABLES ui, q, net, log

vars == <<ui, q, net, log>>

None == "none"
Series == "series"          \* a row of a manual installment series
Leg == "leg"                \* a row of a transfer
Ids == {Series, Leg}
New == "new"                \* the form of a new transaction

(* editing: the row the page has; form: what the mounted form was filled from, a draft *)
(* being "draft"; asked: Duplicate opened it. scope: the form whose edit waits for a   *)
(* scope; category: the leg and the form that wait for "both legs"; series: to delete. *)
TypeOK ==
  /\ ui \in [editing : Ids \cup {None}, form : Ids \cup {New, "draft", None}, asked : BOOLEAN,
             draft : BOOLEAN, scope : Ids \cup {None}, category : Ids \cup {None},
             series : {Series, None}, over : {"rule", "transfer", None}]
  /\ q = None
  /\ net \subseteq [do : {"get", "create", "update", "delete", "unlink", "rule", "transfer"},
                    of : [id : Ids \cup {None, "another", "again"},
                          data : Ids \cup {New, "draft", None}], st : {"sent"}]
  /\ log \in [n : 0..MaxWrites, switched : BOOLEAN, left : BOOLEAN]
-----------------------------------------------------------------------------
Blank ==
  [editing |-> None, form |-> None, asked |-> FALSE, draft |-> FALSE, scope |-> None,
   category |-> None, series |-> None, over |-> None]

Init ==
  /\ ui = Blank /\ q = None /\ net = {}
  /\ log = [n |-> 0, switched |-> FALSE, left |-> FALSE]

Prompted == ui.scope # None \/ ui.category # None \/ ui.series # None
Page == ui.form = None /\ ui.over = None /\ ~Prompted
Form == ui.form # None /\ ui.over = None /\ ~Prompted
Changes(v) == ui' = v /\ UNCHANGED <<q, net, log>>
Loading == Pending(net, {"create", "update", "delete", "unlink"})

(* The form is filled when the dialog opens, and again when its key changes. *)
Filled(v) == [v EXCEPT !.form = IF v.editing # None THEN v.editing ELSE IF v.draft THEN "draft" ELSE New]
Shut(v) == [v EXCEPT !.form = None, !.asked = FALSE]

(* The page's button "add" does not look at the draft there may be. *)
Add == Page /\ Changes(Filled([ui EXCEPT !.editing = None]))
Edit(r) == Page /\ Changes(Filled([ui EXCEPT !.editing = r]))
(* Not for a leg. *)
Duplicate == Page /\ Changes(Filled([ui EXCEPT !.editing = None, !.draft = TRUE, !.asked = TRUE]))

(* A day of the calendar names rows that are asked for first; the list stays clickable, *)
(* and the answer opens the dialog whatever is open by then.                            *)
OpenFromCalendar(r) ==
  /\ Page /\ log.n < MaxWrites
  /\ net' = net \cup {Sent("get", [id |-> r, data |-> None])}
  /\ log' = [log EXCEPT !.n = @ + 1]
  /\ UNCHANGED <<ui, q>>
Got(c) ==
  /\ c \in net /\ c.do = "get"
  /\ net' = net \ {c}
  /\ ui' = LET v == [ui EXCEPT !.editing = c.of.id, !.draft = FALSE, !.asked = FALSE]
           IN IF ui.editing = c.of.id /\ ui.form # None THEN v ELSE Filled(v)
  /\ log' = [log EXCEPT !.switched = @ \/ ui.scope \notin {None, c.of.id}]
  /\ UNCHANGED q

(* Closing forgets the row, the draft and the prompts. *)
CloseKeeping == Form /\ Changes([Shut(ui) EXCEPT !.editing = None])     \* broken: the draft is kept
Close == Form /\ Changes([Shut(ui) EXCEPT !.editing = None, !.draft = FALSE])
-----------------------------------------------------------------------------
(* A write, one of its kind at a time. *)
Write(do, id, data, v) ==
  /\ log.n < MaxWrites
  /\ ui' = v
  /\ net' = net \cup {Sent(do, [id |-> id, data |-> data])}
  /\ log' = [log EXCEPT !.n = @ + 1]
  /\ UNCHANGED q

(* The page's handler: a new row, the category of a leg asked about, or an update. *)
Submit(data, changesCategory, v) ==
  IF ui.editing = None THEN Write("create", None, data, v)
  ELSE IF ui.editing = Leg /\ changesCategory THEN Changes([v EXCEPT !.category = data])
  ELSE Write("update", ui.editing, data, v)

(* The dialog's handler: an edit of more than the status of an installment waits for its *)
(* scope.                                                                                *)
SaveWhileLoading(onlyStatus, changesCategory) ==   \* broken: saves while a write is pending
  /\ Form
  /\ IF ui.editing = Series /\ ~onlyStatus THEN Changes([ui EXCEPT !.scope = ui.form])
     ELSE Submit(ui.form, changesCategory, ui)
Save(onlyStatus, changesCategory) ==
  /\ Form /\ ~Loading
  /\ IF ui.editing = Series /\ ~onlyStatus THEN Changes([ui EXCEPT !.scope = ui.form])
     ELSE Submit(ui.form, changesCategory, ui)
SubmitScope ==
  /\ ui.scope # None /\ ~Loading
  /\ Submit(ui.scope, FALSE, [ui EXCEPT !.scope = None])
SubmitCategory ==
  /\ ui.category # None /\ ~Pending(net, {"update"})
  /\ Write("update", Leg, ui.category, [ui EXCEPT !.category = None])
(* A new transaction can be saved to enter another, blank or the same again. *)
SaveAndNew(again) ==
  /\ Form /\ ui.editing = None /\ ~Loading
  /\ Write("create", IF again THEN "again" ELSE "another", ui.form, ui)

Delete ==
  /\ Form /\ ui.editing # None /\ ~Loading
  /\ IF ui.editing = Series THEN Changes([ui EXCEPT !.series = Series])
     ELSE Write("delete", ui.editing, None, ui)
SubmitSeries ==
  /\ ui.series # None /\ ~Pending(net, {"update", "delete"})
  /\ Write("delete", ui.series, None, [ui EXCEPT !.series = None])
ClosePrompt == Prompted /\ Changes([ui EXCEPT !.scope = None, !.category = None, !.series = None])
Unlink == Form /\ ui.editing = Leg /\ ~Loading /\ Write("unlink", Leg, None, ui)

(* A rule from the row: its dialog takes the place of this one, and keeps the draft. *)
RuleFromRow == Form /\ ui.editing # None /\ Changes([Shut(ui) EXCEPT !.editing = None, !.over = "rule"])
OpenOver(over) == Page /\ Changes([ui EXCEPT !.over = over])
CloseOver == ui.over # None /\ Changes([ui EXCEPT !.over = None])
SubmitOver == ui.over # None /\ ~Pending(net, {ui.over}) /\ Write(ui.over, None, None, ui)
-----------------------------------------------------------------------------
(* A handler closes the dialog of its kind, whichever row that is about by now, and a *)
(* row created and closed leaves its draft behind.                                    *)
Renewed(v) == IF ui.form \in {New, "draft"} THEN Filled(v) ELSE v
Another == [ui EXCEPT !.draft = FALSE]
Again == [ui EXCEPT !.draft = TRUE, !.asked = ui.form \in {New, "draft"}]
Handled(c) ==
  CASE c.do = "create" /\ c.of.id = "another" -> Renewed(Another)
    [] c.do = "create" /\ c.of.id = "again" -> Renewed(Again)
    [] c.do = "create" /\ c.of.id = None -> Shut(ui)
    [] c.do \in {"update", "delete", "unlink"} -> [Shut(ui) EXCEPT !.editing = None]
    [] c.do \in {"rule", "transfer"} -> [ui EXCEPT !.over = IF @ = c.do THEN None ELSE @]

Answer(c) ==
  /\ c \in net /\ c.do # "get"
  /\ net' = net \ {c}
  /\ ui' = Handled(c)
  /\ log' = [log EXCEPT !.left = @ \/ (Handled(c).draft /\ Handled(c).form # "draft")]
  /\ UNCHANGED q
Fail(c) == c \in net /\ net' = net \ {c} /\ UNCHANGED <<ui, q, log>>

Next ==
  \/ Add \/ Duplicate \/ Close \/ SubmitScope \/ SubmitCategory \/ Delete \/ SubmitSeries
  \/ ClosePrompt \/ Unlink \/ RuleFromRow \/ CloseOver \/ SubmitOver
  \/ \E r \in Ids : Edit(r) \/ OpenFromCalendar(r)
  \/ \E onlyStatus, changesCategory \in BOOLEAN : Save(onlyStatus, changesCategory)
  \/ \E again \in BOOLEAN : SaveAndNew(again)
  \/ \E over \in {"rule", "transfer"} : OpenOver(over)
  \/ \E c \in net : Got(c) \/ Answer(c) \/ Fail(c)

Spec == Init /\ [][Next]_vars
-----------------------------------------------------------------------------
(* A row is only ever sent the fields of the form that was filled from it, and an edit  *)
(* never becomes a new transaction, through the prompts in between; unless the calendar *)
(* put another row under a prompt that holds an edit.                                   *)
EditsReachTheirRow ==
  ~log.switched => \A c \in net :
    /\ c.do = "update" => c.of.data = c.of.id
    /\ c.do = "create" => c.of.data \notin Ids

(* A new transaction starts from another's fields only when one was duplicated; unless *)
(* a draft was left behind by a dialog that its own save closed.                       *)
DraftsAreAskedFor == ~log.left /\ ui.form = "draft" => ui.asked
=============================================================================
