---------------------- MODULE TransactionDialogProofs -----------------------
(* EditsReachTheirRow and DraftsAreAskedFor of TransactionDialog, for any    *)
(* number of writes: through the prompts stacked over the form, and whatever *)
(* answer closes, fills or replaces it.                                      *)
EXTENDS TransactionDialog, TLAPS

Views == [editing : Ids \cup {None}, form : Ids \cup {New, "draft", None}, asked : BOOLEAN,
          draft : BOOLEAN, scope : Ids \cup {None}, category : Ids \cup {None},
          series : {Series, None}, over : {"rule", "transfer", None}]
Kinds == {"get", "create", "update", "delete", "unlink", "rule", "transfer"}
Targets == [id : Ids \cup {None, "another", "again"}, data : Ids \cup {New, "draft", None}]
Calls == [do : Kinds, of : Targets, st : {"sent"}]
Logs == [n : Nat, switched : BOOLEAN, left : BOOLEAN]
Addressed(calls) ==
  \A c \in calls : /\ c.do = "get" => c.of.id \in Ids
                   /\ c.do = "create" => c.of.id \in {None, "another", "again"}
Shapes == ui \in Views /\ net \subseteq Calls /\ Addressed(net) /\ log \in Logs

(* The form is of the row that the page has, or of no row if it has none.    *)
OfTheRow(v) ==
  v.form # None => IF v.editing # None THEN v.form = v.editing ELSE v.form \in {New, "draft"}

(* A prompt holds what the form under it held, and while the one for a scope *)
(* is open nothing is pending that could take the row away from under it.    *)
Saves == {"create", "update", "delete", "unlink"}
Held(v, calls) ==
  /\ v.scope # None => v.scope = v.editing /\ ~Pending(calls, Saves)
  /\ v.category # None => v.category = Leg

(* The prompt for a scope is the only dialog over the form.                  *)
Alone(v) == v.scope # None => v.category = None /\ v.series = None /\ v.over = None

(* EditsReachTheirRow, of the calls.                                         *)
Reach(calls) ==
  \A c \in calls : /\ c.do = "update" => c.of.data = c.of.id
                   /\ c.do = "create" => c.of.data \notin Ids

(* The draft is there as long as the form that is filled from it.            *)
Asked(v) == /\ v.draft => v.form = "draft"
            /\ v.form = "draft" => v.draft /\ v.asked

IInv ==
  /\ Shapes /\ OfTheRow(ui) /\ Alone(ui)
  /\ ~log.switched => Held(ui, net) /\ Reach(net)
  /\ ~log.left => Asked(ui)
-----------------------------------------------------------------------------
LEMMA NamesDiffer ==
  /\ Series # Leg /\ None \notin Ids /\ New \notin Ids /\ "draft" \notin Ids
  /\ New # None /\ "draft" # None /\ New # "draft"
BY DEF Series, Leg, None, New, Ids

LEMMA InitIInv == Init => IInv
<1> SUFFICES ASSUME Init PROVE IInv
  OBVIOUS
<1>1. ui \in Views
  BY DEF Init, Blank, Views
<1>2. log \in Logs /\ net = {}
  BY DEF Init, Logs
<1> QED
  BY <1>1, <1>2, NamesDiffer DEF Init, Blank, IInv, Shapes, Addressed, OfTheRow, Alone, Held, Reach, Asked

(* A step that sends nothing: each part of IInv is about the view. *)
LEMMA ViewKeeps ==
  ASSUME IInv, ui' \in Views, net' \subseteq net, log' \in Logs,
         log.switched => log'.switched, log.left => log'.left,
         OfTheRow(ui)', Alone(ui)', log'.switched \/ (Held(ui, net) => Held(ui', net)),
         log'.left \/ (Asked(ui) => Asked(ui)')
  PROVE  IInv'
<1>1. Held(ui', net) => Held(ui', net')
  BY DEF Held, Pending
<1>2. Reach(net) => Reach(net')
  BY DEF Reach
<1>3. Shapes'
  BY DEF IInv, Shapes, Addressed
<1> QED
  BY <1>1, <1>2, <1>3 DEF IInv, Shapes, Logs

(* Only the dialog beside the form changes, or a prompt is closed. *)
LEMMA BesideKeeps ==
  ASSUME IInv, ui' \in Views, net' \subseteq net, log' = log,
         ui'.editing = ui.editing, ui'.form = ui.form, ui'.draft = ui.draft, ui'.asked = ui.asked,
         ui'.scope \in {ui.scope, None}, ui'.category \in {ui.category, None},
         Alone(ui)'
  PROVE  IInv'
BY ViewKeeps DEF IInv, Shapes, Logs, OfTheRow, Held, Asked

(* A form is filled from what the page has. *)
LEMMA FilledFits ==
  ASSUME NEW v \in Views
  PROVE  /\ Filled(v) \in Views /\ OfTheRow(Filled(v))
         /\ Filled(v).editing = v.editing /\ Filled(v).draft = v.draft /\ Filled(v).asked = v.asked
         /\ Filled(v).scope = v.scope /\ Filled(v).category = v.category
         /\ Filled(v).series = v.series /\ Filled(v).over = v.over
         /\ Filled(v).form = IF v.editing # None THEN v.editing ELSE IF v.draft THEN "draft" ELSE New
<1> DEFINE form == IF v.editing # None THEN v.editing ELSE IF v.draft THEN "draft" ELSE New
<1>1. form \in Ids \cup {New, "draft"}
  BY DEF Views
<1>2. Filled(v) = [v EXCEPT !.form = form]
  BY DEF Filled
<1> HIDE DEF form
<1>3. Filled(v) \in Views /\ Filled(v).form = form
  BY <1>1, <1>2 DEF Views
<1>4. /\ Filled(v).editing = v.editing /\ Filled(v).draft = v.draft /\ Filled(v).asked = v.asked
      /\ Filled(v).scope = v.scope /\ Filled(v).category = v.category
      /\ Filled(v).series = v.series /\ Filled(v).over = v.over
  BY <1>2 DEF Views
<1> USE DEF form
<1> QED
  BY <1>3, <1>4 DEF OfTheRow

(* A page without a form has no draft that was not left behind, and no prompt. *)
LEMMA OpenKeeps ==
  ASSUME IInv, Page, NEW v \in Views, Changes(Filled(v)), v.scope = None, v.category = None,
         v.draft => (~ui.draft => v.editing = None /\ v.asked)
  PROVE  IInv'
<1>1. ui' = Filled(v) /\ net' = net /\ log' = log
  BY DEF Changes
<1>2. Held(ui', net)
  BY <1>1, FilledFits DEF Held
<1>3. Asked(ui) => ~ui.draft
  BY NamesDiffer DEF Page, Asked
<1>4. Asked(ui) => Asked(ui)'
  BY <1>1, <1>3, FilledFits, NamesDiffer DEF Asked, Views
<1> QED
  BY <1>1, <1>2, <1>4, FilledFits, ViewKeeps DEF IInv, Shapes, Alone

(* A write sends fields of the form, or of a prompt, to the row the page has. *)
LEMMA WriteKeeps ==
  ASSUME IInv, NEW do \in Kinds, NEW id \in Ids \cup {None, "another", "again"},
         NEW data \in Ids \cup {New, "draft", None}, NEW v \in Views, Write(do, id, data, v),
         v.editing = ui.editing, v.form = ui.form, v.draft = ui.draft, v.asked = ui.asked,
         v.scope = None, v.category \in {ui.category, None},
         do # "get", do = "create" => id \in {None, "another", "again"},
         do = "update" /\ ~log.switched => data = id,
         do = "create" /\ ~log.switched => data \notin Ids
  PROVE  IInv'
<1> DEFINE c == Sent(do, [id |-> id, data |-> data])
<1>1. c \in Calls /\ c.do = do /\ c.of.id = id /\ c.of.data = data
  BY DEF Sent, Calls, Targets
<1>2. ui' = v /\ net' = net \cup {c} /\ log' = [log EXCEPT !.n = @ + 1]
  BY DEF Write
<1>3. log.n + 1 \in Nat
  BY DEF IInv, Shapes, Logs
<1>4. log' \in Logs /\ log'.switched = log.switched /\ log'.left = log.left
  BY <1>2, <1>3 DEF IInv, Shapes, Logs
<1> HIDE DEF c
<1>5. Shapes'
  BY <1>1, <1>2, <1>4 DEF IInv, Shapes, Addressed
<1>6. OfTheRow(ui)' /\ Alone(ui)' /\ (Asked(ui) => Asked(ui)')
  BY <1>2 DEF IInv, OfTheRow, Alone, Asked
<1>7. ~log.switched => Held(ui', net') /\ Reach(net')
  BY <1>1, <1>2 DEF IInv, Held, Reach
<1> QED
  BY <1>4, <1>5, <1>6, <1>7 DEF IInv
-----------------------------------------------------------------------------
LEMMA GotKeeps ==
  ASSUME IInv, NEW c \in net, Got(c)
  PROVE  IInv'
<1> DEFINE v == [ui EXCEPT !.editing = c.of.id, !.draft = FALSE, !.asked = FALSE]
<1>1. c.of.id \in Ids /\ ui \in Views /\ log \in Logs
  BY DEF IInv, Shapes, Addressed, Got
<1>2. v \in Views /\ v.editing = c.of.id /\ v.form = ui.form /\ v.draft = FALSE /\ v.scope = ui.scope
        /\ v.category = ui.category /\ v.series = ui.series /\ v.over = ui.over
  BY <1>1 DEF Views
<1>3. ui' = (IF ui.editing = c.of.id /\ ui.form # None THEN v ELSE Filled(v)) /\ net' \subseteq net
  BY DEF Got
<1>4. log' = [log EXCEPT !.switched = @ \/ ui.scope \notin {None, c.of.id}]
  BY DEF Got
<1>5. log' \in Logs /\ log'.switched = (log.switched \/ ui.scope \notin {None, c.of.id})
      /\ log'.left = log.left
  <2>1. (ui.scope \notin {None, c.of.id}) \in BOOLEAN
    OBVIOUS
  <2> QED
    BY <1>1, <1>4, <2>1 DEF Logs
<1> HIDE DEF v
<1>6. ui' \in Views /\ OfTheRow(ui)' /\ ui'.editing = c.of.id /\ ui'.scope = ui.scope
      /\ ui'.category = ui.category
        /\ ui'.draft = FALSE /\ ui'.form \in Ids /\ ui'.series = ui.series /\ ui'.over = ui.over
  <2>1. CASE ui.editing = c.of.id /\ ui.form # None
    <3>1. ui.form = c.of.id
      BY <1>1, <2>1, NamesDiffer DEF IInv, OfTheRow
    <3> QED
      BY <1>1, <1>2, <1>3, <2>1, <3>1 DEF OfTheRow
  <2>2. CASE ~(ui.editing = c.of.id /\ ui.form # None)
    BY <1>1, <1>2, <1>3, <2>2, FilledFits, NamesDiffer
  <2> QED
    BY <2>1, <2>2
<1>7. log'.switched \/ (Held(ui, net) => Held(ui', net))
  BY <1>5, <1>6 DEF Held
<1>8. Asked(ui)' /\ Alone(ui)'
  BY <1>6, NamesDiffer DEF IInv, Asked, Alone
<1> QED
  BY <1>3, <1>5, <1>6, <1>7, <1>8, ViewKeeps

LEMMA ShutFits ==
  ASSUME NEW v \in Views
  PROVE  /\ Shut(v) \in Views /\ Shut(v).form = None /\ Shut(v).editing = v.editing /\ Shut(v).draft = v.draft
         /\ Shut(v).scope = v.scope /\ Shut(v).category = v.category
         /\ Shut(v).series = v.series /\ Shut(v).over = v.over
BY DEF Shut, Views

(* An answer closes the form, fills a new one, or leaves it. While a prompt *)
(* for a scope is open none of the first two can come.                      *)
LEMMA HandledFits ==
  ASSUME IInv, NEW c \in net, c.do # "get"
  PROVE  /\ Handled(c) \in Views /\ OfTheRow(Handled(c)) /\ Alone(Handled(c))
         /\ Held(ui, net) => Held(Handled(c), net)
         /\ Asked(ui) /\ (Handled(c).draft => Handled(c).form = "draft") => Asked(Handled(c))
<1>0. ui \in Views /\ c \in Calls /\ OfTheRow(ui) /\ Alone(ui)
  BY DEF IInv, Shapes
<1>1. Held(ui, net) /\ c.do \in Saves => ui.scope = None
  BY DEF Held, Pending
<1>2. CASE c.do = "create" /\ c.of.id = "another"
  <2> DEFINE v == Another
  <2> HIDE DEF v
  <2>1. Handled(c) = Renewed(Another)
    BY <1>2 DEF Handled, None
  <2>2. v \in Views /\ v.editing = ui.editing /\ v.form = ui.form /\ v.draft = FALSE /\ v.scope = ui.scope
          /\ v.category = ui.category /\ v.series = ui.series /\ v.over = ui.over
    BY <1>0 DEF Views, v, Another
  <2>3. CASE ui.form \in {New, "draft"}
    <3>1. Handled(c) = Filled(v)
      BY <2>1, <2>3 DEF Renewed, v
    <3>2. ui.editing = None
      BY <1>0, <2>3, NamesDiffer DEF OfTheRow, Views
    <3> QED
      BY <1>0, <1>1, <1>2, <2>2, <3>1, <3>2, FilledFits, NamesDiffer DEF Alone, Held, Asked, Saves
  <2>4. CASE ui.form \notin {New, "draft"}
    <3>1. Handled(c) = v
      BY <2>1, <2>4 DEF Renewed, v
    <3> QED
      BY <1>0, <1>1, <1>2, <2>2, <2>4, <3>1 DEF Alone, Held, Asked, Saves, OfTheRow
  <2> QED
    BY <2>3, <2>4
<1>3. CASE c.do = "create" /\ c.of.id = "again"
  <2> DEFINE v == Again
  <2> HIDE DEF v
  <2>1. Handled(c) = Renewed(Again)
    BY <1>3 DEF Handled, None
  <2>0. (ui.form \in {New, "draft"}) \in BOOLEAN
    OBVIOUS
  <2>2. v \in Views /\ v.editing = ui.editing /\ v.form = ui.form /\ v.draft = TRUE /\ v.scope = ui.scope
          /\ v.category = ui.category /\ v.series = ui.series /\ v.over = ui.over
             /\ v.asked = (ui.form \in {New, "draft"})
    BY <1>0, <2>0 DEF Views, v, Again
  <2>3. CASE ui.form \in {New, "draft"}
    <3>1. Handled(c) = Filled(v)
      BY <2>1, <2>3 DEF Renewed, v
    <3>2. ui.editing = None
      BY <1>0, <2>3, NamesDiffer DEF OfTheRow, Views
    <3>3. v.asked
      BY <2>2, <2>3
    <3> QED
      BY <1>0, <1>1, <1>3, <2>2, <3>1, <3>2, <3>3, FilledFits, NamesDiffer DEF Alone, Held, Asked, Saves
  <2>4. CASE ui.form \notin {New, "draft"}
    <3>1. Handled(c) = v
      BY <2>1, <2>4 DEF Renewed, v
    <3> QED
      BY <1>0, <1>1, <1>3, <2>2, <2>4, <3>1 DEF Alone, Held, Asked, Saves, OfTheRow
  <2> QED
    BY <2>3, <2>4
<1>4. CASE c.do = "create" /\ c.of.id = None
  <2>1. Handled(c) = Shut(ui)
    BY <1>4 DEF Handled, None
  <2> QED
    BY <1>0, <1>1, <1>4, <2>1, ShutFits, NamesDiffer DEF OfTheRow, Alone, Held, Asked, Saves
<1>5. CASE c.do \in {"update", "delete", "unlink"}
  <2> DEFINE v == [Shut(ui) EXCEPT !.editing = None]
  <2>1. Handled(c) = v
    BY <1>5 DEF Handled
  <2>2. v \in Views /\ v.form = None /\ v.draft = ui.draft /\ v.scope = ui.scope
        /\ v.category = ui.category /\ v.series = ui.series /\ v.over = ui.over
    BY <1>0, ShutFits DEF Views
  <2> HIDE DEF v
  <2> QED
    BY <1>0, <1>1, <1>5, <2>1, <2>2, NamesDiffer DEF OfTheRow, Alone, Held, Asked, Saves
<1>6. CASE c.do \in {"rule", "transfer"}
  <2>1. Handled(c) = [ui EXCEPT !.over = IF @ = c.do THEN None ELSE @]
    BY <1>6 DEF Handled
  <2> QED
    BY <1>0, <2>1 DEF Views, OfTheRow, Alone, Held, Asked
<1>7. c.do \in Kinds /\ (c.do = "create" => c.of.id \in {None, "another", "again"})
  BY <1>0 DEF IInv, Shapes, Addressed, Calls
<1> QED
  BY <1>2, <1>3, <1>4, <1>5, <1>6, <1>7 DEF Kinds

LEMMA AnswerKeeps ==
  ASSUME IInv, NEW c \in net, Answer(c)
  PROVE  IInv'
<1> DEFINE left == Handled(c).draft /\ Handled(c).form # "draft"
<1>1. c.do # "get" /\ ui' = Handled(c) /\ net' \subseteq net /\ log' = [log EXCEPT !.left = @ \/ left]
  BY DEF Answer
<1>2. left \in BOOLEAN
  BY <1>1, HandledFits DEF Views
<1> HIDE DEF left
<1>3. log' \in Logs /\ log'.switched = log.switched /\ log'.left = (log.left \/ left)
  BY <1>1, <1>2 DEF IInv, Shapes, Logs
<1> USE DEF left
<1> QED
  BY <1>1, <1>3, HandledFits, ViewKeeps
-----------------------------------------------------------------------------
(* The page's handler: what the form or its prompt holds goes to its row. *)
LEMMA SubmitKeeps ==
  ASSUME IInv, NEW data \in Ids \cup {New, "draft"}, NEW changesCategory \in BOOLEAN, NEW v \in Views,
         Submit(data, changesCategory, v), v.editing = ui.editing, v.form = ui.form, v.draft = ui.draft,
         v.asked = ui.asked, v.scope = None, v.category = ui.category,
         ui.editing # None => data \in Ids,
         ~log.switched => data = ui.editing \/ (ui.editing = None /\ data \in {New, "draft"})
  PROVE  IInv'
<1>0. ui \in Views /\ log \in Logs
  BY DEF IInv, Shapes
<1>1. CASE ui.editing = None
  <2>1. Write("create", None, data, v)
    BY <1>1 DEF Submit
  <2>2. ~log.switched => data \notin Ids
    BY <1>1, NamesDiffer
  <2> QED
    BY <2>1, <2>2, WriteKeeps DEF Kinds
<1>2. CASE ui.editing = Leg /\ changesCategory
  <2> DEFINE w == [v EXCEPT !.category = data]
  <2>0. data \in Ids
    BY <1>2, NamesDiffer DEF Ids
  <2>1. ui' = w /\ net' = net /\ log' = log
    BY <1>2, NamesDiffer DEF Submit, Changes, Ids
  <2>2. w \in Views /\ w.editing = ui.editing /\ w.form = ui.form /\ w.draft = ui.draft /\ w.asked = ui.asked
          /\ w.scope = None /\ w.category = data
    BY <2>0 DEF Views
  <2> HIDE DEF w
  <2>3. ~log.switched => data = Leg
    BY <1>2, NamesDiffer DEF Ids
  <2> QED
    BY <1>0, <2>1, <2>2, <2>3, ViewKeeps DEF IInv, OfTheRow, Alone, Held, Asked
<1>3. CASE ui.editing # None /\ ~(ui.editing = Leg /\ changesCategory)
  <2>1. Write("update", ui.editing, data, v)
    BY <1>3 DEF Submit
  <2> QED
    BY <1>0, <1>3, <2>1, WriteKeeps DEF Kinds, Views
<1> QED
  BY <1>1, <1>2, <1>3

(* The buttons of the page and of the form, and those of the prompts. *)
LEMMA OpensKeep ==
  ASSUME IInv, Add \/ Duplicate \/ \E r \in Ids : Edit(r)
  PROVE  IInv'
<1>0. ui \in Views
  BY DEF IInv, Shapes
<1>1. CASE Add
  <2> DEFINE v == [ui EXCEPT !.editing = None]
  <2>1. Page /\ Changes(Filled(v))
    BY <1>1 DEF Add
  <2>2. v \in Views /\ v.scope = None /\ v.category = None /\ v.draft = ui.draft
    BY <1>0, <2>1 DEF Views, Page, Prompted
  <2> HIDE DEF v
  <2> QED
    BY <2>1, <2>2, OpenKeeps
<1>2. CASE Duplicate
  <2> DEFINE v == [ui EXCEPT !.editing = None, !.draft = TRUE, !.asked = TRUE]
  <2>1. Page /\ Changes(Filled(v))
    BY <1>2 DEF Duplicate
  <2>2. v \in Views /\ v.scope = None /\ v.category = None /\ v.editing = None /\ v.asked
    BY <1>0, <2>1 DEF Views, Page, Prompted
  <2> HIDE DEF v
  <2> QED
    BY <2>1, <2>2, OpenKeeps
<1>3. ASSUME NEW r \in Ids, Edit(r) PROVE IInv'
  <2> DEFINE v == [ui EXCEPT !.editing = r]
  <2>1. Page /\ Changes(Filled(v))
    BY <1>3 DEF Edit
  <2>2. v \in Views /\ v.scope = None /\ v.category = None /\ v.draft = ui.draft
    BY <1>0, <2>1 DEF Views, Page, Prompted
  <2> HIDE DEF v
  <2> QED
    BY <2>1, <2>2, OpenKeeps
<1> QED
  BY <1>1, <1>2, <1>3

LEMMA ClosesKeep ==
  ASSUME IInv, Close \/ RuleFromRow
  PROVE  IInv'
<1>0. ui \in Views /\ log \in Logs
  BY DEF IInv, Shapes
<1>1. ui.scope = None /\ ui.category = None /\ net' = net /\ log' = log
  BY DEF Close, RuleFromRow, Form, Prompted, Changes
<1>2. ui' \in Views /\ ui'.form = None /\ ui'.scope = None /\ ui'.category = None
      /\ ui'.draft \in {ui.draft, FALSE}
  <2>1. CASE Close
    BY <1>0, <1>1, <2>1, ShutFits DEF Close, Changes, Views
  <2>2. CASE RuleFromRow
    BY <1>0, <1>1, <2>2, ShutFits DEF RuleFromRow, Changes, Views
  <2> QED
    BY <2>1, <2>2
<1>3. OfTheRow(ui)' /\ Alone(ui)' /\ Held(ui', net)
  BY <1>2 DEF OfTheRow, Alone, Held
<1>4. CASE Close
  <2>1. ui'.draft = FALSE
    BY <1>0, <1>4, ShutFits DEF Close, Changes, Views
  <2> QED
    BY <1>0, <1>1, <1>2, <1>3, <2>1, ViewKeeps, NamesDiffer DEF Asked
<1>5. CASE RuleFromRow
  <2>1. ui.editing # None /\ ui.form # None
    BY <1>5 DEF RuleFromRow, Form
  <2>2. ui'.draft = ui.draft
    BY <1>0, <1>5, ShutFits DEF RuleFromRow, Changes, Views
  <2>3. ui.form \in Ids
    BY <1>0, <2>1 DEF IInv, OfTheRow, Views
  <2>4. Asked(ui) => Asked(ui)'
    BY <1>2, <2>2, <2>3, NamesDiffer DEF Asked
  <2> QED
    BY <1>0, <1>1, <1>2, <1>3, <2>4, ViewKeeps
<1> QED
  BY <1>4, <1>5

LEMMA PromptsKeep ==
  ASSUME IInv, ClosePrompt \/ CloseOver \/ \E over \in {"rule", "transfer"} : OpenOver(over)
  PROVE  IInv'
<1>0. ui \in Views
  BY DEF IInv, Shapes
<1>1. CASE ClosePrompt
  <2> DEFINE v == [ui EXCEPT !.scope = None, !.category = None, !.series = None]
  <2>1. ui' = v /\ net' = net /\ log' = log
    BY <1>1 DEF ClosePrompt, Changes
  <2>2. v \in Views /\ v.editing = ui.editing /\ v.form = ui.form /\ v.draft = ui.draft
          /\ v.asked = ui.asked /\ v.scope = None /\ v.category = None
    BY <1>0 DEF Views
  <2> HIDE DEF v
  <2> QED
    BY <2>1, <2>2, BesideKeeps DEF Alone
<1>2. ASSUME NEW o \in {"rule", "transfer", None}, Changes([ui EXCEPT !.over = o]),
             ui.scope # None => o = None
      PROVE IInv'
  <2> DEFINE v == [ui EXCEPT !.over = o]
  <2>1. ui' = v /\ net' = net /\ log' = log
    BY <1>2 DEF Changes
  <2>2. v \in Views /\ v.editing = ui.editing /\ v.form = ui.form /\ v.draft = ui.draft /\ v.asked = ui.asked
          /\ v.scope = ui.scope /\ v.category = ui.category /\ v.series = ui.series /\ v.over = o
    BY <1>0 DEF Views
  <2> HIDE DEF v
  <2> QED
    BY <1>2, <2>1, <2>2, BesideKeeps DEF IInv, Alone
<1>3. CASE CloseOver
  BY <1>2, <1>3 DEF CloseOver
<1>4. ASSUME NEW over \in {"rule", "transfer"}, OpenOver(over) PROVE IInv'
  <2>1. ui.scope = None
    BY <1>4 DEF OpenOver, Page, Prompted
  <2> QED
    BY <1>2, <1>4, <2>1 DEF OpenOver
<1> QED
  BY <1>1, <1>3, <1>4
-----------------------------------------------------------------------------
LEMMA SaveKeeps ==
  ASSUME IInv, NEW onlyStatus \in BOOLEAN, NEW changesCategory \in BOOLEAN, Save(onlyStatus, changesCategory)
  PROVE  IInv'
<1>0. ui \in Views /\ log \in Logs /\ OfTheRow(ui) /\ Alone(ui)
  BY DEF IInv, Shapes
<1>1. /\ ui.form # None /\ ui.over = None /\ ~Loading
      /\ ui.scope = None /\ ui.category = None /\ ui.series = None
  BY DEF Save, Form, Prompted
<1>2. /\ ui.editing # None => ui.form = ui.editing /\ ui.form \in Ids
      /\ ui.editing = None => ui.form \in {New, "draft"}
  BY <1>0, <1>1 DEF OfTheRow, Views
<1>3. CASE ui.editing = Series /\ ~onlyStatus
  <2> DEFINE v == [ui EXCEPT !.scope = ui.form]
  <2>1. ui' = v /\ net' = net /\ log' = log
    BY <1>3 DEF Save, Changes
  <2>2. ui.editing # None
    BY <1>3, NamesDiffer DEF Ids
  <2>3. v \in Views /\ v.editing = ui.editing /\ v.form = ui.form /\ v.draft = ui.draft /\ v.asked = ui.asked
          /\ v.scope = ui.form /\ v.category = None /\ v.series = None /\ v.over = None
    BY <1>0, <1>1, <1>2, <2>2 DEF Views
  <2> HIDE DEF v
  <2>4. Held(ui', net)
    BY <1>1, <1>2, <2>1, <2>2, <2>3 DEF Held, Loading, Saves
  <2> QED
    BY <1>0, <2>1, <2>3, <2>4, ViewKeeps DEF OfTheRow, Alone, Asked
<1>4. CASE ~(ui.editing = Series /\ ~onlyStatus)
  <2>1. Submit(ui.form, changesCategory, ui)
    BY <1>4 DEF Save
  <2>2. ui.form \in Ids \cup {New, "draft"}
    BY <1>2
  <2> QED
    BY <1>0, <1>1, <1>2, <2>1, <2>2, SubmitKeeps
<1> QED
  BY <1>3, <1>4

LEMMA SubmitScopeKeeps ==
  ASSUME IInv, SubmitScope
  PROVE  IInv'
<1> DEFINE v == [ui EXCEPT !.scope = None]
<1>0. ui \in Views /\ ui.scope \in Ids
  BY DEF IInv, Shapes, Views, SubmitScope
<1>1. Submit(ui.scope, FALSE, v)
  BY DEF SubmitScope
<1>2. v \in Views /\ v.editing = ui.editing /\ v.form = ui.form /\ v.draft = ui.draft /\ v.asked = ui.asked
        /\ v.scope = None /\ v.category = ui.category
  BY <1>0 DEF Views
<1>3. ~log.switched => ui.scope = ui.editing
  BY <1>0, NamesDiffer DEF IInv, Held
<1> HIDE DEF v
<1> QED
  BY <1>0, <1>1, <1>2, <1>3, SubmitKeeps

(* The other writes of the form: none is an update but that of the leg asked about. *)
LEMMA OtherWritesKeep ==
  ASSUME IInv, \/ SubmitCategory \/ Delete \/ SubmitSeries \/ Unlink \/ SubmitOver
               \/ \E again \in BOOLEAN : SaveAndNew(again)
  PROVE  IInv'
<1>0. ui \in Views /\ log \in Logs /\ OfTheRow(ui) /\ Alone(ui) /\ Leg \in Ids
  BY DEF IInv, Shapes, Ids
<1>1. CASE SubmitCategory
  <2> DEFINE v == [ui EXCEPT !.category = None]
  <2>1. Write("update", Leg, ui.category, v) /\ ui.category # None
    BY <1>1 DEF SubmitCategory
  <2>2. v \in Views /\ v.editing = ui.editing /\ v.form = ui.form /\ v.draft = ui.draft /\ v.asked = ui.asked
          /\ v.scope = ui.scope /\ v.category = None
    BY <1>0 DEF Views
  <2>3. ui.scope = None /\ (~log.switched => ui.category = Leg) /\ ui.category \in Ids
    BY <1>0, <2>1 DEF Alone, IInv, Held, Views
  <2> HIDE DEF v
  <2> QED
    BY <1>0, <2>1, <2>2, <2>3, WriteKeeps DEF Kinds
<1>2. CASE Delete
  <2>1. ui.scope = None /\ ui.category = None /\ ui.editing \in Ids
    BY <1>0, <1>2 DEF Delete, Form, Prompted, Views
  <2>2. CASE ui.editing = Series
    <3> DEFINE v == [ui EXCEPT !.series = Series]
    <3>1. ui' = v /\ net' = net /\ log' = log
      BY <1>2, <2>2 DEF Delete, Changes
    <3>2. v \in Views /\ v.editing = ui.editing /\ v.form = ui.form /\ v.draft = ui.draft
            /\ v.asked = ui.asked /\ v.scope = None /\ v.category = None
      BY <1>0, <2>1 DEF Views
    <3> HIDE DEF v
    <3> QED
      BY <3>1, <3>2, BesideKeeps DEF Alone
  <2>3. CASE ui.editing # Series
    <3>1. Write("delete", ui.editing, None, ui)
      BY <1>2, <2>3 DEF Delete
    <3> QED
      BY <1>0, <2>1, <3>1, WriteKeeps DEF Kinds
  <2> QED
    BY <2>2, <2>3
<1>3. CASE SubmitSeries
  <2> DEFINE v == [ui EXCEPT !.series = None]
  <2>1. Write("delete", ui.series, None, v) /\ ui.series # None
    BY <1>3 DEF SubmitSeries
  <2>2. v \in Views /\ v.editing = ui.editing /\ v.form = ui.form /\ v.draft = ui.draft /\ v.asked = ui.asked
          /\ v.scope = ui.scope /\ v.category = ui.category
    BY <1>0 DEF Views
  <2>3. ui.scope = None /\ ui.series \in Ids
    BY <1>0, <2>1 DEF Alone, Views, Ids
  <2> HIDE DEF v
  <2> QED
    BY <1>0, <2>1, <2>2, <2>3, WriteKeeps DEF Kinds
<1>4. CASE Unlink
  <2>1. Write("unlink", Leg, None, ui) /\ ui.scope = None
    BY <1>4 DEF Unlink, Form, Prompted
  <2> QED
    BY <1>0, <2>1, WriteKeeps DEF Kinds
<1>5. CASE SubmitOver
  <2>1. Write(ui.over, None, None, ui) /\ ui.over \in {"rule", "transfer"}
    BY <1>0, <1>5 DEF SubmitOver, Views
  <2>2. ui.scope = None
    BY <1>0, <1>5 DEF SubmitOver, Alone
  <2> QED
    BY <1>0, <2>1, <2>2, WriteKeeps DEF Kinds
<1>6. ASSUME NEW again \in BOOLEAN, SaveAndNew(again) PROVE IInv'
  <2>1. ui.scope = None /\ ui.form \in {New, "draft"}
    BY <1>0, <1>6 DEF SaveAndNew, Form, Prompted, OfTheRow
  <2>2. PICK id \in {"another", "again"} : Write("create", id, ui.form, ui)
    BY <1>6 DEF SaveAndNew
  <2> QED
    BY <1>0, <2>1, <2>2, WriteKeeps, NamesDiffer DEF Kinds
<1> QED
  BY <1>1, <1>2, <1>3, <1>4, <1>5, <1>6

(* Asking for a row of the calendar sends nothing that could close the form. *)
LEMMA CalendarKeeps ==
  ASSUME IInv, NEW r \in Ids, OpenFromCalendar(r)
  PROVE  IInv'
<1>1. ui.scope = None
  BY DEF OpenFromCalendar, Page, Prompted
<1>3. PICK c : c = Sent("get", [id |-> r, data |-> None])
  OBVIOUS
<1>4. c \in Calls /\ c.do = "get" /\ c.of.id = r
  BY <1>3 DEF Sent, Calls, Kinds, Targets
<1>5. net' = net \cup {c} /\ ui' = ui /\ log' = [log EXCEPT !.n = @ + 1]
  BY <1>3 DEF OpenFromCalendar
<1>6. log.n + 1 \in Nat
  BY DEF IInv, Shapes, Logs
<1>7. log' \in Logs /\ log'.switched = log.switched /\ log'.left = log.left
  BY <1>5, <1>6 DEF IInv, Shapes, Logs
<1>8. Shapes'
  BY <1>4, <1>5, <1>7 DEF IInv, Shapes, Addressed
<1>9. ~log.switched => Held(ui', net') /\ Reach(net')
  BY <1>1, <1>4, <1>5 DEF IInv, Held, Reach
<1> QED
  BY <1>5, <1>7, <1>8, <1>9 DEF IInv, OfTheRow, Alone, Asked
-----------------------------------------------------------------------------
LEMMA NextIInv == IInv /\ [Next]_vars => IInv'
<1> SUFFICES ASSUME IInv, [Next]_vars PROVE IInv'
  OBVIOUS
<1>1. ASSUME NEW c \in net, Fail(c) PROVE IInv'
  <2>1. net' \subseteq net /\ ui' = ui /\ log' = log
    BY <1>1 DEF Fail
  <2> QED
    BY <2>1, ViewKeeps DEF IInv, Shapes, OfTheRow, Alone, Asked
<1>2. CASE UNCHANGED vars
  BY <1>2, ViewKeeps DEF vars, IInv, Shapes, OfTheRow, Alone, Asked
<1> QED
  BY <1>1, <1>2, OpensKeep, ClosesKeep, PromptsKeep, SaveKeeps, SubmitScopeKeeps, OtherWritesKeep,
     CalendarKeeps,
     GotKeeps, AnswerKeeps DEF Next

LEMMA Invariant == Spec => []IInv
BY InitIInv, NextIInv, PTL DEF Spec

(* A row is only ever sent the fields of the form that was filled from it, and an edit  *)
(* never becomes a new transaction, through the prompts in between; unless the calendar *)
(* put another row under a prompt that holds an edit: whatever the number of writes.    *)
THEOREM EditsReachTheirRowAlways == Spec => []EditsReachTheirRow
<1>1. IInv => EditsReachTheirRow
  BY DEF IInv, Reach, EditsReachTheirRow
<1> QED
  BY <1>1, Invariant, PTL

(* A form filled from a draft was asked for as a duplicate, unless a save that closed its *)
(* own dialog left the draft behind: whatever the number of writes.                       *)
THEOREM DraftsAreAskedForAlways == Spec => []DraftsAreAskedFor
<1>1. IInv => DraftsAreAskedFor
  BY DEF IInv, Asked, DraftsAreAskedFor
<1> QED
  BY <1>1, Invariant, PTL
=============================================================================
