---------------------------- MODULE PagesProofs -----------------------------
(* What the pages promise, for any bound on the writes: each property of Pages that *)
(* a theorem below names holds in every state of every behaviour of Pages!Spec.     *)
(*                                                                                  *)
(* For each page an inductive invariant is proved first: that its Init gives it and *)
(* that each of its actions keeps it. The pages of groups and the dialog of a       *)
(* transaction have theirs in a module of their own, whose lemmas are cited here    *)
(* through the instances of Pages. The rest are below, one section a page. The last *)
(* section composes them: a step of Pages on a page is a step of the page's module, *)
(* and a page is never left for another. TypeOK is proved in PageTypesProofs.       *)
EXTENDS Pages, Integers, TLAPS

CategoryCalls ==
  [do : Categories!Writes \cup {"look"}, used : BOOLEAN, asked : BOOLEAN, off : BOOLEAN,
   st : {"sent", "done"}]
CategoryRows == [hidden : BOOLEAN, used : BOOLEAN, shown : BOOLEAN, fetch : {"none", "clean", "dirty"}]
CategoryShapes == q \in CategoryRows /\ net \subseteq CategoryCalls /\ log \in [n : Nat, late : BOOLEAN]

(* HidesAreAsked speaks of hides that are sent. One is sent unasked because  *)
(* a look found no rules: that answer, too, has to be true while it travels. *)
LooksAreTrue == \A c \in net : c.do = "look" /\ c.st = "done" /\ ~c.used => ~q.used
HidesAreSafe == \A c \in net : c.do = "hide" /\ c.st = "sent" /\ ~c.asked => ~q.used

CategoryInv == CategoryShapes /\ (~log.late => LooksAreTrue /\ HidesAreSafe)
-----------------------------------------------------------------------------
LEMMA InitCategory == Categories!Init => CategoryInv
<1> SUFFICES ASSUME Categories!Init PROVE CategoryInv
  OBVIOUS
<1>1. q \in CategoryRows
  BY DEF Categories!Init, CategoryRows
<1>2. log \in [n : Nat, late : BOOLEAN]
  BY DEF Categories!Init
<1> QED
  BY <1>1, <1>2 DEF Categories!Init, CategoryInv, CategoryShapes, LooksAreTrue, HidesAreSafe

(* What leaves calls and the rules as they are keeps everything. *)
LEMMA FewerCalls ==
  ASSUME CategoryInv, net' \subseteq net, log' = log, q' \in CategoryRows, q'.used = q.used
  PROVE  CategoryInv'
BY DEF CategoryInv, CategoryShapes, LooksAreTrue, HidesAreSafe

(* A call more, if it is no hide unasked and no answer to a look. *)
LEMMA OneCallMore ==
  ASSUME CategoryInv, NEW c \in CategoryCalls, c.st = "sent", c.do # "hide" \/ c.asked,
         net' \subseteq net \cup {c}, q' = q,
         log' \in [n : Nat, late : BOOLEAN], log'.late = log.late
  PROVE  CategoryInv'
BY DEF CategoryInv, CategoryShapes, LooksAreTrue, HidesAreSafe

LEMMA CallsAre ==
  ASSUME NEW do \in Categories!Writes \cup {"look"}
  PROVE  /\ Categories!Call(do) \in CategoryCalls
         /\ Categories!Call(do).do = do /\ Categories!Call(do).st = "sent"
            /\ Categories!Call(do).asked = FALSE
BY DEF Categories!Call, CategoryCalls

LEMMA HideWriteKeeps ==
  ASSUME CategoryInv, NEW c \in CategoryCalls, c.st = "sent", c.do # "hide" \/ c.asked, Categories!Write(c)
  PROVE  CategoryInv'
<1>1. net' = net \cup {c} /\ q' = q /\ log' = [log EXCEPT !.n = @ + 1]
  BY DEF Categories!Write
<1>2. log.n + 1 \in Nat
  BY DEF CategoryInv, CategoryShapes
<1>3. log' \in [n : Nat, late : BOOLEAN] /\ log'.late = log.late
  BY <1>1, <1>2 DEF CategoryInv, CategoryShapes
<1> QED
  BY <1>1, <1>3, OneCallMore

(* A look that found nothing is followed by a hide, unless it is not true any more. *)
LEMMA LookedKeeps ==
  ASSUME CategoryInv, NEW c \in net, Categories!Looked(c)
  PROVE  CategoryInv'
<1>1. c \in CategoryCalls /\ c.do = "look" /\ c.st = "done" /\ q' = q
  BY DEF CategoryInv, CategoryShapes, Categories!Looked
<1>2. CASE c.used
  BY <1>1, <1>2, FewerCalls DEF Categories!Looked, CategoryInv, CategoryShapes
<1>3. CASE ~c.used
  <2> DEFINE d == Categories!Call("hide")
  <2>1. net' = (net \ {c}) \cup {d} /\ log' = [log EXCEPT !.n = @ + 1]
    BY <1>3 DEF Categories!Looked
  <2>2. d \in CategoryCalls
    BY CallsAre DEF Categories!Writes
  <2>3. log.n + 1 \in Nat
    BY DEF CategoryInv, CategoryShapes
  <2>4. log' \in [n : Nat, late : BOOLEAN] /\ log'.late = log.late
    BY <2>1, <2>3 DEF CategoryInv, CategoryShapes
  <2>5. ~log.late => ~q.used
    BY <1>1, <1>3 DEF CategoryInv, LooksAreTrue
  <2>6. d.do = "hide"
    BY DEF Categories!Call
  <2> HIDE DEF d
  <2> QED
    BY <1>1, <2>1, <2>2, <2>4, <2>5, <2>6 DEF CategoryInv, CategoryShapes, LooksAreTrue, HidesAreSafe
<1> QED
  BY <1>2, <1>3

(* The server's answer to a look is true, and no service writes a rule. *)
LEMMA HideServeKeeps ==
  ASSUME CategoryInv, NEW c \in net, Categories!Serve(c)
  PROVE  CategoryInv'
<1> DEFINE d == [c EXCEPT !.st = "done", !.used = c.do = "look" /\ q.used]
<1>1. c \in CategoryCalls /\ q \in CategoryRows
  BY DEF CategoryInv, CategoryShapes
<1>2. (c.do = "look" /\ q.used) \in BOOLEAN
  OBVIOUS
<1>3. d \in CategoryCalls
  BY <1>1, <1>2 DEF CategoryCalls
<1>4. d.do = c.do /\ d.st = "done" /\ d.used = (c.do = "look" /\ q.used)
  BY <1>1 DEF CategoryCalls
<1>5. net' = (net \ {c}) \cup {d} /\ log' = log
  BY DEF Categories!Serve
<1> HIDE DEF d
<1>6. q' \in CategoryRows /\ (q'.used => q.used)
  <2>1. CASE c.do = "hide"
    <3>1. q' = [q EXCEPT !.hidden = TRUE, !.used = @ /\ ~c.off, !.fetch = IF @ = "none" THEN @ ELSE "dirty"]
      BY <2>1 DEF Categories!Serve
    <3>2. (q.used /\ ~c.off) \in BOOLEAN
      OBVIOUS
    <3>3. q' \in CategoryRows /\ q'.used = (q.used /\ ~c.off)
      BY <1>1, <3>1, <3>2 DEF CategoryRows
    <3> QED
      BY <3>3
  <2>2. CASE c.do = "show"
    <3>1. q' = [q EXCEPT !.hidden = FALSE, !.fetch = IF @ = "none" THEN @ ELSE "dirty"]
      BY <2>2 DEF Categories!Serve
    <3> QED
      BY <1>1, <3>1 DEF CategoryRows
  <2>3. CASE c.do \notin {"hide", "show"}
    BY <1>1, <2>3 DEF Categories!Serve
  <2> QED
    BY <2>1, <2>2, <2>3
<1>7. ASSUME ~log.late PROVE LooksAreTrue' /\ HidesAreSafe'
  <2>1. LooksAreTrue /\ HidesAreSafe
    BY <1>7 DEF CategoryInv
  <2>2. LooksAreTrue'
    BY <1>4, <1>5, <1>6, <2>1 DEF LooksAreTrue
  <2>3. HidesAreSafe'
    BY <1>4, <1>5, <1>6, <2>1 DEF HidesAreSafe
  <2> QED
    BY <2>2, <2>3
<1> QED
  BY <1>3, <1>5, <1>6, <1>7 DEF CategoryInv, CategoryShapes

(* Another's rule falsifies what is on its way, and is late if anything is. *)
LEMMA OtherRuleKeeps == CategoryInv /\ Categories!OtherAddsRule => CategoryInv'
<1> SUFFICES ASSUME CategoryInv, Categories!OtherAddsRule PROVE CategoryInv'
  OBVIOUS
<1> DEFINE late == \E c \in net : c.do = "hide" \/ (c.do = "look" /\ c.st = "done")
<1>1. net' = net /\ q' = [q EXCEPT !.used = TRUE] /\ log' = [n |-> log.n + 1, late |-> late]
  BY DEF Categories!OtherAddsRule
<1>2. log.n + 1 \in Nat /\ late \in BOOLEAN
  BY DEF CategoryInv, CategoryShapes
<1>3. log' \in [n : Nat, late : BOOLEAN] /\ log'.late = late
  BY <1>1, <1>2
<1>4. q' \in CategoryRows
  BY <1>1 DEF CategoryInv, CategoryShapes, CategoryRows
<1> QED
  BY <1>1, <1>3, <1>4 DEF CategoryInv, CategoryShapes, LooksAreTrue, HidesAreSafe
-----------------------------------------------------------------------------
LEMMA NextCategory == CategoryInv /\ [Categories!Next]_Categories!vars => CategoryInv'
<1> SUFFICES ASSUME CategoryInv, [Categories!Next]_Categories!vars PROVE CategoryInv'
  OBVIOUS
<1>0. q \in CategoryRows
  BY DEF CategoryInv, CategoryShapes
<1>1. CASE UNCHANGED Categories!vars
  BY <1>0, <1>1, FewerCalls DEF Categories!vars
<1>2. CASE \/ Categories!Close \/ Categories!Collapse
           \/ \E over \in Categories!Forms : Categories!Open(over)
           \/ \E over \in Categories!Confirms : Categories!Ask(over)
  BY <1>0, <1>2, FewerCalls DEF Categories!Close, Categories!Collapse, Categories!Open, Categories!Ask,
     Categories!Changes
<1>3. CASE Categories!Save \/ Categories!Confirm \/ Categories!HideGroup \/ Categories!Show
  <2>1. PICK do \in Categories!Writes : do # "hide" /\ Categories!Write(Categories!Call(do))
    BY <1>3 DEF Categories!Save, Categories!Confirm, Categories!HideGroup, Categories!Show,
                Categories!Writes, Categories!Forms, Categories!Confirms
  <2> QED
    BY <2>1, CallsAre, HideWriteKeeps
<1>4. CASE Categories!Hide
  <2> DEFINE d == Categories!Call("look")
  <2>1. net' \subseteq net \cup {d} /\ q' = q /\ log' = log
    BY <1>4 DEF Categories!Hide
  <2>2. d \in CategoryCalls /\ d.st = "sent" /\ d.do = "look"
    BY CallsAre
  <2> HIDE DEF d
  <2> QED
    BY <2>1, <2>2, OneCallMore DEF CategoryInv, CategoryShapes
<1>5. ASSUME NEW off \in BOOLEAN, Categories!HideAsked(off) PROVE CategoryInv'
  <2> DEFINE d == [Categories!Call("hide") EXCEPT !.asked = TRUE, !.off = off]
  <2>0. "hide" \in Categories!Writes
    BY DEF Categories!Writes
  <2>1. d \in CategoryCalls
    BY <2>0 DEF Categories!Call, CategoryCalls
  <2>2. d.st = "sent" /\ d.asked
    BY DEF Categories!Call
  <2>3. Categories!Write(d)
    BY <1>5 DEF Categories!HideAsked
  <2> HIDE DEF d
  <2> QED
    BY <2>1, <2>2, <2>3, HideWriteKeeps
<1>6. CASE Categories!OtherAddsRule
  BY <1>6, OtherRuleKeeps
<1>7. CASE Categories!Fetched_
  <2>1. PICK shown \in {~q.hidden} \cup (IF q.fetch = "dirty" THEN {q.shown} ELSE {}) :
          q' = [q EXCEPT !.shown = shown, !.fetch = "none"]
    BY <1>7 DEF Categories!Fetched_
  <2>2. shown \in BOOLEAN
    BY <1>0, <2>1 DEF CategoryRows
  <2>3. q' \in CategoryRows /\ q'.used = q.used
    BY <1>0, <2>1, <2>2 DEF CategoryRows
  <2> QED
    BY <1>7, <2>3, FewerCalls DEF Categories!Fetched_
<1>8. ASSUME NEW c \in net,
             \/ Categories!Looked(c) \/ Categories!Serve(c)
             \/ Categories!Answer(c) \/ Categories!Fail(c)
      PROVE  CategoryInv'
  <2>1. CASE Categories!Answer(c) \/ Categories!Fail(c)
    <3>1. net' \subseteq net /\ log' = log
      BY <2>1 DEF Categories!Answer, Categories!Fail
    <3>2. q' \in CategoryRows /\ q'.used = q.used
      BY <1>0, <2>1 DEF Categories!Answer, Categories!Fail, CategoryRows
    <3> QED
      BY <3>1, <3>2, FewerCalls
  <2> QED
    BY <1>8, <2>1, LookedKeeps, HideServeKeeps
<1> QED
  BY <1>1, <1>2, <1>3, <1>4, <1>5, <1>6, <1>7, <1>8 DEF Categories!Next
-----------------------------------------------------------------------------
(* The planning pages. However the dialog was closed and whatever is being   *)
(* answered, a dialog that is open has fields of its own row in both places. *)
PlanViews ==
  [list : Planning!Lists, open : BOOLEAN, editing : Planning!Ids \cup {Planning!None},
   keyed : Planning!Ids \cup {Planning!New}, kept : Planning!Ids \cup {Planning!New},
   deleting : Planning!Ids \cup {Planning!None}]
PlanFits(v) == v.open => v.keyed = Planning!Source(v) /\ v.kept = Planning!Source(v)
PlanRows == Planning!Ids \cup {Planning!New, Planning!None}
PlanCalls ==
  [do : Planning!Writes, of : [id : PlanRows, from : SUBSET PlanRows, then : BOOLEAN], st : {"sent", "done"}]
PlanInv == ui \in PlanViews /\ net \subseteq PlanCalls /\ PlanFits(ui) /\ Planning!PlansReachTheirRow

LEMMA InitPlan == Planning!Init => PlanInv
BY DEF Planning!Init, PlanInv, PlanViews, PlanFits, Planning!PlansReachTheirRow, Planning!None, Planning!New

LEMMA PlanSourceIs ==
  ASSUME NEW v \in PlanViews
  PROVE  Planning!Source(v) \in Planning!Ids \cup {Planning!New}
BY DEF PlanViews, Planning!Source

(* What is sent or served has its fields, and the page's view fits. *)
LEMMA PlanChangesKeeps ==
  ASSUME PlanInv, NEW v \in PlanViews, PlanFits(v), Planning!Changes(v)
  PROVE  PlanInv'
BY DEF PlanInv, Planning!Changes, Planning!PlansReachTheirRow, PlanFits, Planning!Source

LEMMA PlanWriteKeeps ==
  ASSUME PlanInv, NEW do \in Planning!Writes, NEW id \in PlanRows, NEW from \in SUBSET PlanRows,
         NEW then \in BOOLEAN, Planning!Write(do, id, from, then),
         do \in {"create", "update"} => from \subseteq {id}
  PROVE  PlanInv'
<1> DEFINE c == Planning!Request(do, id, from, then)
<1>1. net' = net \cup {c} /\ ui' = ui
  BY DEF Planning!Write
<1>2. c \in PlanCalls /\ c.do = do /\ c.of.id = id /\ c.of.from = from
  BY DEF Planning!Request, Planning!Sent, PlanCalls
<1> HIDE DEF c
<1>3. Planning!PlansReachTheirRow'
  BY <1>1, <1>2 DEF PlanInv, Planning!PlansReachTheirRow
<1> QED
  BY <1>1, <1>2, <1>3 DEF PlanInv, PlanFits, Planning!Source

LEMMA PlanOpensKeeps ==
  ASSUME PlanInv, NEW r \in Planning!Ids \cup {Planning!None}, Planning!Opens(r)
  PROVE  PlanInv'
<1> DEFINE u == [ui EXCEPT !.editing = r]
           v == Planning!Filled(u)
<1>1. u \in PlanViews /\ Planning!Changes(v)
  BY DEF PlanInv, PlanViews, Planning!Opens
<1>2. Planning!Source(u) \in Planning!Ids \cup {Planning!New}
  BY <1>1, PlanSourceIs
<1> HIDE DEF u
<1>3. v \in PlanViews /\ v.editing = u.editing
      /\ v.keyed = Planning!Source(u) /\ v.kept = Planning!Source(u)
  BY <1>1, <1>2 DEF Planning!Filled, PlanViews
<1>4. Planning!Source(v) = Planning!Source(u)
  BY <1>3 DEF Planning!Source
<1> HIDE DEF v
<1> QED
  BY <1>1, <1>3, <1>4, PlanChangesKeeps DEF PlanFits

LEMMA PlanClosedFits ==
  ASSUME PlanInv, NEW v \in {ui, [ui EXCEPT !.editing = Planning!None]}
  PROVE  Planning!Closed(v) \in PlanViews /\ PlanFits(Planning!Closed(v))
<1>1. v \in PlanViews
  BY DEF PlanInv, PlanViews
<1>2. Planning!Source(v) \in Planning!Ids \cup {Planning!New}
  BY <1>1, PlanSourceIs
<1> QED
  BY <1>1, <1>2 DEF Planning!Closed, PlanViews, PlanFits

(* The form sends what it was filled from, in both places, and that is its row. *)
LEMMA PlanSaveKeeps ==
  ASSUME PlanInv, NEW from \in SUBSET {ui.keyed, ui.kept}, NEW then \in BOOLEAN, Planning!Save(from, then)
  PROVE  PlanInv'
<1>1. from \subseteq {Planning!Source(ui)}
  BY DEF PlanInv, PlanFits, Planning!Save
<1>2. Planning!Source(ui) \in PlanRows
  BY PlanSourceIs DEF PlanInv, PlanRows
<1>3. {"create", "update"} \subseteq Planning!Writes
  BY DEF Planning!Writes
<1> QED
  BY <1>1, <1>2, <1>3, PlanWriteKeeps DEF Planning!Save

LEMMA PlanAnswerKeeps ==
  ASSUME PlanInv, NEW c \in net, Planning!Answer(c)
  PROVE  PlanInv'
<1> DEFINE v == Planning!Handled(c)
           d == Planning!Request("backfill", c.of.id, {}, FALSE)
<1>1. ui' = v /\ net' \subseteq net \cup {d}
  BY DEF Planning!Answer, Planning!Follows
<1>2. d \in PlanCalls /\ d.do \notin {"create", "update"}
  BY DEF PlanInv, PlanCalls, Planning!Request, Planning!Sent, Planning!Writes
<1>3. Planning!Closed(ui) \in PlanViews /\ PlanFits(Planning!Closed(ui))
  BY PlanClosedFits
<1>4. /\ Planning!Closed([ui EXCEPT !.editing = Planning!None]) \in PlanViews
      /\ PlanFits(Planning!Closed([ui EXCEPT !.editing = Planning!None]))
  BY PlanClosedFits
<1>5. [ui EXCEPT !.deleting = Planning!None] \in PlanViews /\ PlanFits([ui EXCEPT !.deleting = Planning!None])
  BY DEF PlanInv, PlanViews, PlanFits, Planning!Source
<1>6. ui \in PlanViews /\ PlanFits(ui)
  BY DEF PlanInv
<1>7. v \in {Planning!Closed(ui), Planning!Closed([ui EXCEPT !.editing = Planning!None]),
             [ui EXCEPT !.deleting = Planning!None], ui}
  BY DEF Planning!Handled
<1>8. v \in PlanViews /\ PlanFits(v)
  BY <1>3, <1>4, <1>5, <1>6, <1>7
<1> HIDE DEF v, d
<1>9. Planning!PlansReachTheirRow'
  BY <1>1, <1>2 DEF PlanInv, Planning!PlansReachTheirRow
<1> QED
  BY <1>1, <1>2, <1>8, <1>9 DEF PlanInv, PlanFits, Planning!Source

LEMMA PlanCallsKeep ==
  ASSUME PlanInv, NEW c \in net, Planning!Serve(c) \/ Planning!Fail(c)
  PROVE  PlanInv'
<1> DEFINE d == [c EXCEPT !.st = "done"]
<1>1. ui' = ui /\ net' \subseteq net \cup {d}
  BY DEF Planning!Serve, Planning!Fail, Planning!Served
<1>2. d \in PlanCalls /\ d.do = c.do /\ d.of = c.of
  BY DEF PlanInv, PlanCalls
<1> HIDE DEF d
<1>3. Planning!PlansReachTheirRow'
  BY <1>1, <1>2 DEF PlanInv, Planning!PlansReachTheirRow
<1> QED
  BY <1>1, <1>2, <1>3 DEF PlanInv, PlanFits, Planning!Source

LEMMA NextPlan == PlanInv /\ [Planning!Next]_Planning!vars => PlanInv'
<1> SUFFICES ASSUME PlanInv, [Planning!Next]_Planning!vars PROVE PlanInv'
  OBVIOUS
<1>1. CASE UNCHANGED Planning!vars
  BY <1>1 DEF Planning!vars, PlanInv, PlanFits, Planning!Source, Planning!PlansReachTheirRow
<1>2. CASE Planning!Fetch \/ Planning!FetchFails \/ Planning!Revisit
  BY <1>2 DEF Planning!Fetch, Planning!FetchFails, Planning!Revisit, PlanInv, PlanFits, Planning!Source,
     Planning!PlansReachTheirRow
<1>3. CASE \/ Planning!SaveGoal \/ Planning!SaveBudget \/ Planning!SaveCollection
           \/ \E then \in BOOLEAN : Planning!SaveBill(then)
  <2>1. PICK from \in SUBSET {ui.keyed, ui.kept}, then \in BOOLEAN : Planning!Save(from, then)
    BY <1>3 DEF Planning!SaveGoal, Planning!SaveBudget, Planning!SaveCollection, Planning!SaveBill,
                Planning!GoalForm, Planning!CollectionForm, Planning!BillForm
  <2> QED
    BY <2>1, PlanSaveKeeps
<1>4. CASE Planning!Close
  <2> DEFINE v == Planning!Closed([ui EXCEPT !.editing = Planning!None])
  <2>1. v \in PlanViews /\ PlanFits(v) /\ Planning!Changes(v)
    BY <1>4, PlanClosedFits DEF Planning!Close
  <2> HIDE DEF v
  <2> QED
    BY <2>1, PlanChangesKeeps
<1>5. ASSUME NEW r \in Planning!Ids \cup {Planning!None},
             Planning!CloseDelete \/ (r \in Planning!Ids /\ Planning!AskDelete(r))
      PROVE  PlanInv'
  <2>1. PICK r_1 \in Planning!Ids \cup {Planning!None} : Planning!Changes([ui EXCEPT !.deleting = r_1])
    BY <1>5 DEF Planning!CloseDelete, Planning!AskDelete
  <2>2. [ui EXCEPT !.deleting = r_1] \in PlanViews /\ PlanFits([ui EXCEPT !.deleting = r_1])
    BY DEF PlanInv, PlanViews, PlanFits, Planning!Source
  <2> QED
    BY <2>1, <2>2, PlanChangesKeeps
<1>6. CASE \/ Planning!Delete \/ Planning!Generate
           \/ \E r \in Planning!Ids : Planning!SetStatus(r) \/ Planning!Backfill(r)
  <2>1. PICK do \in {"delete", "generate", "status", "backfill"}, id \in PlanRows :
          Planning!Write(do, id, {}, FALSE)
    BY <1>6 DEF PlanInv, PlanViews, PlanRows, Planning!Delete, Planning!Generate, Planning!SetStatus,
       Planning!Backfill
  <2>2. do \in Planning!Writes
    BY DEF Planning!Writes
  <2> QED
    BY <2>1, <2>2, PlanWriteKeeps
<1>7. ASSUME NEW r \in Planning!Ids \cup {Planning!None},
             \/ Planning!OpenBill(r) \/ Planning!OpenGoal(r)
             \/ Planning!OpenBudget(r) \/ Planning!OpenCollection(r)
      PROVE  PlanInv'
  BY <1>7, PlanOpensKeeps DEF Planning!OpenBill, Planning!OpenGoal, Planning!OpenBudget,
     Planning!OpenCollection
<1>8. ASSUME NEW c \in net, Planning!Serve(c) \/ Planning!Answer(c) \/ Planning!Fail(c) PROVE PlanInv'
  BY <1>8, PlanAnswerKeeps, PlanCallsKeep
<1> QED
  BY <1>1, <1>2, <1>3, <1>4, <1>5, <1>6, <1>7, <1>8 DEF Planning!Next, Planning!CloseDelete
-----------------------------------------------------------------------------
(* The attachments. While files are fetched the one clicked last is among   *)
(* them, or the pane shows it, or nothing: unless a fetch has failed since. *)
FileNames == Files!Files \cup {Files!None}
FileViews ==
  [preview : FileNames, last : FileNames, confirming : FileNames, deleting : FileNames, renaming : BOOLEAN]
FileCalls == [do : {"preview", "rename", "delete", "upload"}, of : FileNames, n : Nat, st : {"sent", "done"}]
FileShapes == ui \in FileViews /\ net \subseteq FileCalls /\ log \in [n : Nat, failed : BOOLEAN]
LastIsComing(calls, v) ==
  (\E c \in calls : c.do = "preview" /\ c.of = v.last) \/ v.preview \in {v.last, Files!None}
FileInv == FileShapes /\ (~log.failed => LastIsComing(net, ui))

LEMMA InitFiles == Files!Init => FileInv
<1> SUFFICES ASSUME Files!Init PROVE FileInv
  OBVIOUS
<1>1. FileShapes
  BY DEF Files!Init, FileShapes, FileViews, FileNames
<1> QED
  BY <1>1 DEF Files!Init, FileInv, LastIsComing

(* The pane, or its last click, as they were; the previews too. *)
LEMMA FileViewKeeps ==
  ASSUME FileInv, ui' \in FileViews, ui'.last = ui.last, ui'.preview \in {ui.preview, Files!None},
         net' \subseteq FileCalls, \A c \in net : c.do = "preview" => c \in net',
         log' \in [n : Nat, failed : BOOLEAN], log'.failed = log.failed
  PROVE  FileInv'
<1>1. FileShapes'
  BY DEF FileShapes
<1>2. ~log.failed => LastIsComing(net, ui)'
  BY DEF FileInv, LastIsComing
<1> QED
  BY <1>1, <1>2 DEF FileInv

LEMMA FileChangesKeeps ==
  ASSUME FileInv, NEW v \in FileViews, v.last = ui.last, v.preview \in {ui.preview, Files!None},
         Files!Changes(v)
  PROVE  FileInv'
<1>1. ui' = v /\ net' = net /\ log' = log
  BY DEF Files!Changes
<1> QED
  BY <1>1, FileViewKeeps DEF FileInv, FileShapes

LEMMA FileWriteKeeps ==
  ASSUME FileInv, NEW do \in {"rename", "delete", "upload"}, NEW of \in FileNames, Files!Write(do, of),
         ui' \in FileViews, ui'.last = ui.last, ui'.preview = ui.preview
  PROVE  FileInv'
<1> DEFINE c == Files!Call(do, of, log.n + 1)
<1>1. log.n + 1 \in Nat
  BY DEF FileInv, FileShapes
<1>2. c \in FileCalls
  BY <1>1 DEF Files!Call, FileCalls
<1>3. net' = net \cup {c} /\ log' = [log EXCEPT !.n = @ + 1]
  BY DEF Files!Write
<1> HIDE DEF c
<1>4. log' \in [n : Nat, failed : BOOLEAN] /\ log'.failed = log.failed
  BY <1>1, <1>3 DEF FileInv, FileShapes
<1>5. net' \subseteq FileCalls /\ \A d \in net : d.do = "preview" => d \in net'
  BY <1>2, <1>3 DEF FileInv, FileShapes
<1> QED
  BY <1>4, <1>5, FileViewKeeps

(* A click: its own fetch is under way, whatever the ones before it bring. *)
LEMMA PreviewKeeps ==
  ASSUME FileInv, NEW f \in Files!Files, Files!Preview(f)
  PROVE  FileInv'
<1>1. PICK n \in Files!Tries : net' = net \cup {Files!Call("preview", f, n)}
  BY DEF Files!Preview
<1> DEFINE c == Files!Call("preview", f, n)
<1>2. c \in FileCalls /\ c.do = "preview" /\ c.of = f
  BY DEF Files!Call, FileCalls, FileNames, Files!Tries, Files!MaxPreviews
<1>3. ui' = [ui EXCEPT !.last = f] /\ log' = [log EXCEPT !.failed = FALSE] /\ c \in net'
  BY <1>1 DEF Files!Preview
<1> HIDE DEF c
<1>4. ui' \in FileViews /\ ui'.last = f /\ log' \in [n : Nat, failed : BOOLEAN]
  BY <1>3 DEF FileInv, FileShapes, FileViews, FileNames
<1>5. net' \subseteq FileCalls
  BY <1>1, <1>2 DEF FileInv, FileShapes, c
<1> QED
  BY <1>2, <1>3, <1>4, <1>5 DEF FileInv, FileShapes, LastIsComing

(* What was fetched is shown if it is of the last click, and is not waited for any more. *)
LEMMA PreviewedKeeps ==
  ASSUME FileInv, NEW c \in net, Files!Previewed(c) \/ Files!PreviewFails(c)
  PROVE  FileInv'
<1>1. c \in FileCalls /\ net' = net \ {c} /\ net' \subseteq FileCalls
  BY DEF FileInv, FileShapes, Files!Previewed, Files!PreviewFails
<1>2. CASE Files!PreviewFails(c)
  <2>1. ui' = ui /\ log' = [log EXCEPT !.failed = TRUE]
    BY <1>2 DEF Files!PreviewFails
  <2>2. log' \in [n : Nat, failed : BOOLEAN] /\ log'.failed
    BY <2>1 DEF FileInv, FileShapes
  <2> QED
    BY <1>1, <2>1, <2>2 DEF FileInv, FileShapes
<1>3. CASE Files!Previewed(c) /\ c.of = ui.last
  <2>1. ui' = [ui EXCEPT !.preview = c.of] /\ log' = log
    BY <1>3 DEF Files!Previewed, Files!StillAsked
  <2>2. ui' \in FileViews /\ ui'.preview = ui'.last
    BY <1>1, <1>3, <2>1 DEF FileInv, FileShapes, FileViews, FileCalls
  <2> QED
    BY <1>1, <2>1, <2>2 DEF FileInv, FileShapes, LastIsComing
<1>4. CASE Files!Previewed(c) /\ c.of # ui.last
  <2>1. ui' = ui /\ log' = log
    BY <1>4 DEF Files!Previewed, Files!StillAsked
  <2>2. ~log.failed => LastIsComing(net', ui)
    BY <1>1, <1>4 DEF FileInv, LastIsComing
  <2> QED
    BY <1>1, <2>1, <2>2 DEF FileInv, FileShapes, LastIsComing
<1> QED
  BY <1>2, <1>3, <1>4

LEMMA FileCallsKeep ==
  ASSUME FileInv, NEW c \in net, Files!Serve(c) \/ Files!Answer(c) \/ Files!Fail(c)
  PROVE  FileInv'
<1> DEFINE d == [c EXCEPT !.st = "done"]
<1>1. c \in FileCalls /\ c.do # "preview"
  BY DEF FileInv, FileShapes, Files!Serve, Files!Answer, Files!Fail, Files!Previews
<1>2. d \in FileCalls
  BY <1>1 DEF FileCalls
<1>3. net' \in {net \ {c}, (net \ {c}) \cup {d}} /\ log' = log
  BY DEF Files!Serve, Files!Answer, Files!Fail, Files!Served
<1> HIDE DEF d
<1>4. ui' \in FileViews /\ ui'.last = ui.last /\ ui'.preview \in {ui.preview, Files!None}
  <2>1. CASE Files!Serve(c) \/ Files!Fail(c)
    BY <2>1 DEF Files!Serve, Files!Fail, FileInv, FileShapes, FileViews, FileNames
  <2>2. CASE Files!Answer(c)
    BY <2>2 DEF Files!Answer, FileInv, FileShapes, FileViews, FileNames
  <2> QED
    BY <2>1, <2>2
<1>5. net' \subseteq FileCalls /\ \A e \in net : e.do = "preview" => e \in net'
  BY <1>1, <1>2, <1>3 DEF FileInv, FileShapes
<1> QED
  BY <1>3, <1>4, <1>5, FileViewKeeps DEF FileInv, FileShapes

LEMMA NextFiles == FileInv /\ [Files!Next]_Files!vars => FileInv'
<1> SUFFICES ASSUME FileInv, [Files!Next]_Files!vars PROVE FileInv'
  OBVIOUS
<1>0. /\ ui \in FileViews /\ net \subseteq FileCalls /\ log \in [n : Nat, failed : BOOLEAN]
      /\ Files!None \in FileNames /\ Files!Files \subseteq FileNames
  BY DEF FileInv, FileShapes, FileNames
<1>1. CASE UNCHANGED Files!vars \/ Files!Fetched_
  BY <1>0, <1>1, FileViewKeeps DEF Files!vars, Files!Fetched_
<1>2. CASE Files!ClosePreview \/ Files!CancelRename \/ Files!CancelDelete
  BY <1>0, <1>2, FileChangesKeeps DEF Files!ClosePreview, Files!CancelRename, Files!CancelDelete, FileViews
<1>3. ASSUME NEW f \in Files!Files, Files!StartRename(f) \/ Files!AskDelete(f) PROVE FileInv'
  BY <1>0, <1>3, FileChangesKeeps DEF Files!StartRename, Files!AskDelete, FileViews
<1>4. CASE Files!Upload \/ Files!Rename \/ Files!Delete
  <2>1. PICK do \in {"rename", "delete", "upload"}, of \in FileNames : Files!Write(do, of)
    BY <1>0, <1>4 DEF Files!Upload, Files!Rename, Files!Delete, FileViews
  <2>2. ui' \in FileViews /\ ui'.last = ui.last /\ ui'.preview = ui.preview
    BY <1>0, <1>4 DEF Files!Upload, Files!Rename, Files!Delete, FileViews
  <2> QED
    BY <2>1, <2>2, FileWriteKeeps
<1>5. ASSUME NEW f \in Files!Files, Files!Preview(f) PROVE FileInv'
  BY <1>5, PreviewKeeps
<1>6. ASSUME NEW c \in net,
             \/ Files!Previewed(c) \/ Files!PreviewFails(c)
             \/ Files!Serve(c) \/ Files!Answer(c) \/ Files!Fail(c)
      PROVE  FileInv'
  BY <1>6, PreviewedKeeps, FileCallsKeep
<1> QED
  BY <1>1, <1>2, <1>3, <1>4, <1>5, <1>6 DEF Files!Next
-----------------------------------------------------------------------------
(* The settings of the workspace. The fields are of the active workspace, if *)
(* there is one; an open dialog is of the one that the page is on, though it *)
(* may be missing from the list: until a list has moved the page under it.   *)
SettingsNames == Settings!Workspaces \cup {Settings!None}
SettingsViews ==
  [id : SettingsNames, list : SUBSET Settings!Workspaces, form : Settings!Workspaces,
   dialog : Settings!Dialogs \cup {Settings!None}, of : SettingsNames]
SettingsCalls ==
  [do : Settings!Writes \cup {"list", "after", "me"},
   of : [ws : SettingsNames, of : SettingsNames, got : SUBSET Settings!Workspaces], st : {"sent", "done"}]
SettingsLogs == [n : Nat, live : SUBSET Settings!Workspaces, moved : BOOLEAN]
SettingsShapes == ui \in SettingsViews /\ net \subseteq SettingsCalls /\ log \in SettingsLogs
FieldsFit(v) == v.id \in v.list => v.form = v.id
DialogFits(v) == v.dialog # Settings!None => v.of = v.id
DialogIsOfOne(v) == v.dialog # Settings!None => v.of # Settings!None
SettingsInv ==
  /\ SettingsShapes /\ FieldsFit(ui) /\ DialogIsOfOne(ui)
  /\ ~log.moved => DialogFits(ui)
  /\ Settings!WritesReachTheirWorkspace

LEMMA SettingsNamesDiffer ==
  /\ Settings!None \notin Settings!Workspaces /\ Settings!Home \in Settings!Workspaces
  /\ Settings!Shared \in Settings!Workspaces /\ Settings!None \notin Settings!Dialogs
BY DEF Settings!None, Settings!Workspaces, Settings!Home, Settings!Shared, Settings!Dialogs

LEMMA CurrentIs ==
  ASSUME NEW v \in SettingsViews
  PROVE  /\ Settings!Current(v) # Settings!None => Settings!Current(v) = v.id /\ v.id \in v.list
         /\ v.id \in v.list => Settings!Current(v) = v.id
         /\ Settings!Current(v) \in SettingsNames
BY DEF Settings!Current, SettingsViews, SettingsNames

LEMMA FilledFitsFields ==
  ASSUME NEW v \in SettingsViews
  PROVE  /\ Settings!Filled(v) \in SettingsViews /\ FieldsFit(Settings!Filled(v))
         /\ Settings!Filled(v).id = v.id /\ Settings!Filled(v).dialog = v.dialog
            /\ Settings!Filled(v).of = v.of
<1>1. CASE v.id \in v.list
  <2>1. v.id \in Settings!Workspaces /\ Settings!Current(v) = v.id /\ Settings!Current(v) # Settings!None
    BY <1>1, CurrentIs, SettingsNamesDiffer DEF SettingsViews
  <2>2. Settings!Filled(v) = [v EXCEPT !.form = v.id]
    BY <2>1 DEF Settings!Filled
  <2> QED
    BY <2>1, <2>2 DEF SettingsViews, FieldsFit
<1>2. CASE v.id \notin v.list
  BY <1>2, CurrentIs DEF Settings!Filled, FieldsFit
<1> QED
  BY <1>1, <1>2

LEMMA InitSettings == Settings!Init => SettingsInv
<1> SUFFICES ASSUME Settings!Init PROVE SettingsInv
  OBVIOUS
<1>1. PICK w \in Settings!Workspaces :
        ui = [id |-> w, list |-> Settings!Workspaces, form |-> w, dialog |-> Settings!None,
              of |-> Settings!None]
  BY DEF Settings!Init
<1>2. SettingsShapes
  BY <1>1 DEF Settings!Init, SettingsShapes, SettingsViews, SettingsNames, SettingsLogs
<1> QED
  BY <1>1, <1>2 DEF Settings!Init, SettingsInv, FieldsFit, DialogFits, DialogIsOfOne,
     Settings!WritesReachTheirWorkspace

LEMMA SettingsChangesKeeps ==
  ASSUME SettingsInv, NEW v \in SettingsViews, FieldsFit(v), DialogIsOfOne(v), ~log.moved => DialogFits(v),
         Settings!Changes(v)
  PROVE  SettingsInv'
<1>1. ui' = v /\ net' = net /\ log' = log
  BY DEF Settings!Changes
<1>2. SettingsShapes' /\ Settings!WritesReachTheirWorkspace'
  BY <1>1 DEF SettingsInv, SettingsShapes, Settings!WritesReachTheirWorkspace
<1> QED
  BY <1>1, <1>2 DEF SettingsInv, FieldsFit, DialogFits, DialogIsOfOne

(* A write names the active workspace, and that is the one it was meant for. *)
LEMMA SettingsWriteKeeps ==
  ASSUME SettingsInv, NEW do \in Settings!Writes, NEW of \in SettingsNames, Settings!Write(do, of),
         ~log.moved => of = Settings!Current(ui)
  PROVE  SettingsInv'
<1> DEFINE c == Settings!Request(do, Settings!Current(ui), of)
<1>1. net' = net \cup {c} /\ ui' = ui /\ log' = [log EXCEPT !.n = @ + 1]
  BY DEF Settings!Write
<1>2. c \in SettingsCalls /\ c.of.ws = Settings!Current(ui) /\ c.of.of = of
  BY CurrentIs DEF SettingsInv, SettingsShapes, SettingsCalls, Settings!Request, Settings!Sent
<1> HIDE DEF c
<1>3. log.n + 1 \in Nat
  BY DEF SettingsInv, SettingsShapes, SettingsLogs
<1>4. log' \in SettingsLogs /\ log'.moved = log.moved
  BY <1>1, <1>3 DEF SettingsInv, SettingsShapes, SettingsLogs
<1>5. Settings!WritesReachTheirWorkspace'
  BY <1>1, <1>2, <1>4 DEF SettingsInv, Settings!WritesReachTheirWorkspace
<1> QED
  BY <1>1, <1>2, <1>4, <1>5 DEF SettingsInv, SettingsShapes, FieldsFit, DialogFits, DialogIsOfOne

(* A list that comes in moves the page, or leaves the open dialog's workspace. *)
LEMMA FollowKeeps ==
  ASSUME SettingsInv, NEW c \in net, NEW v \in SettingsViews, Settings!Follow(c, v),
         v.dialog = ui.dialog, v.of = ui.of, net' \subseteq net
  PROVE  SettingsInv'
<1> DEFINE u == [v EXCEPT !.id = IF c.of.ws = Settings!None THEN @ ELSE c.of.ws]
           w == IF c.do = "list" THEN Settings!Filled(v) ELSE Settings!Filled(Settings!Shut(u))
<1>1. ui' = w /\ log' = [log EXCEPT !.moved = @ \/ (w.of # Settings!None /\ w.id # ui.id)]
  BY DEF Settings!Follow
<1>2. u \in SettingsViews
  BY DEF SettingsInv, SettingsShapes, SettingsCalls, SettingsViews
<1>3. /\ Settings!Shut(u) \in SettingsViews
      /\ Settings!Shut(u).dialog = Settings!None /\ Settings!Shut(u).of = Settings!None
  BY <1>2 DEF Settings!Shut, SettingsViews, SettingsNames
<1> HIDE DEF u
<1>4. /\ w \in SettingsViews /\ FieldsFit(w)
      /\ w.dialog = Settings!None \/ (w.dialog = ui.dialog /\ w.of = ui.of)
  BY <1>3, FilledFitsFields
<1> HIDE DEF w
<1>5. (log.moved \/ (w.of # Settings!None /\ w.id # ui.id)) \in BOOLEAN
  BY DEF SettingsInv, SettingsShapes, SettingsLogs
<1>6. log' \in SettingsLogs /\ log'.moved = (log.moved \/ (w.of # Settings!None /\ w.id # ui.id))
  BY <1>1, <1>5 DEF SettingsInv, SettingsShapes, SettingsLogs
<1>7. DialogIsOfOne(w) /\ (~log'.moved => DialogFits(w))
  BY <1>4, <1>6 DEF SettingsInv, DialogIsOfOne, DialogFits
<1>8. Settings!WritesReachTheirWorkspace'
  BY <1>6 DEF SettingsInv, Settings!WritesReachTheirWorkspace
<1> QED
  BY <1>1, <1>4, <1>6, <1>7, <1>8 DEF SettingsInv, SettingsShapes, FieldsFit, DialogFits, DialogIsOfOne

LEMMA ListsKeep ==
  ASSUME SettingsInv, NEW c \in net, Settings!List(c) \/ Settings!ListFails(c)
  PROVE  SettingsInv'
<1>1. ui \in SettingsViews /\ c \in SettingsCalls
  BY DEF SettingsInv, SettingsShapes
<1>2. CASE Settings!List(c)
  <2> DEFINE v == Settings!Reconciled(c.of.got)
  <2>1. Settings!First(c.of.got) \in SettingsNames /\ c.of.got \in SUBSET Settings!Workspaces
    BY <1>1, SettingsNamesDiffer DEF Settings!First, SettingsNames, SettingsCalls
  <2>2. v \in SettingsViews /\ v.dialog = ui.dialog /\ v.of = ui.of
    BY <1>1, <2>1 DEF Settings!Reconciled, SettingsViews
  <2>3. Settings!Follow(c, v) /\ net' \subseteq net
    BY <1>2 DEF Settings!List
  <2> HIDE DEF v
  <2> QED
    BY <2>2, <2>3, FollowKeeps
<1>3. CASE Settings!ListFails(c)
  <2> DEFINE v == [ui EXCEPT !.list = {}]
  <2>1. v \in SettingsViews /\ v.dialog = ui.dialog /\ v.of = ui.of
    BY <1>1 DEF SettingsViews
  <2>2. Settings!Follow(c, v) /\ net' \subseteq net
    BY <1>3 DEF Settings!ListFails
  <2> HIDE DEF v
  <2> QED
    BY <2>1, <2>2, FollowKeeps
<1> QED
  BY <1>2, <1>3

(* What the page asks for after an answer is no write. *)
LEMMA AsksAreReads ==
  ASSUME SettingsInv, NEW c \in net, NEW d \in Settings!Asks(c)
  PROVE  d \in SettingsCalls /\ d.do \notin Settings!Writes
<1>1. ui.list \ {Settings!Current(ui)} \in SUBSET Settings!Workspaces
  BY DEF SettingsInv, SettingsShapes, SettingsViews
<1>2. Settings!First(ui.list \ {Settings!Current(ui)}) \in SettingsNames /\ Settings!None \in SettingsNames
  BY <1>1, SettingsNamesDiffer DEF Settings!First, SettingsNames
<1>3. PICK do \in {"list", "after", "me"}, ws \in SettingsNames : d = Settings!Request(do, ws, Settings!None)
  BY <1>2 DEF Settings!Asks
<1> QED
  BY <1>2, <1>3 DEF Settings!Request, Settings!Sent, SettingsCalls, Settings!Writes, Settings!Dialogs

LEMMA SettingsCallsKeep ==
  ASSUME SettingsInv, NEW c \in net, Settings!Serve(c) \/ Settings!Answer(c) \/ Settings!Fail(c)
  PROVE  SettingsInv'
<1>0. ui \in SettingsViews /\ c \in SettingsCalls /\ net \subseteq SettingsCalls /\ log \in SettingsLogs
  BY DEF SettingsInv, SettingsShapes
<1>1. CASE Settings!Serve(c)
  <2> DEFINE got == IF c.do \in Settings!Lists THEN log.live ELSE {}
             d == [c EXCEPT !.st = "done", !.of.got = got]
             live == IF c.do = "archive" THEN log.live \ {c.of.ws} ELSE log.live
  <2>1. net' = (net \ {c}) \cup {d} /\ log' = [log EXCEPT !.live = live] /\ ui' = ui
    BY <1>1 DEF Settings!Serve
  <2>2. got \in SUBSET Settings!Workspaces /\ live \in SUBSET Settings!Workspaces
    BY <1>0 DEF SettingsLogs
  <2> HIDE DEF got, live
  <2>3. d \in SettingsCalls /\ d.do = c.do /\ d.of.ws = c.of.ws /\ d.of.of = c.of.of
    BY <1>0, <2>2 DEF SettingsCalls
  <2>4. log' \in SettingsLogs /\ log'.moved = log.moved
    BY <1>0, <2>1, <2>2 DEF SettingsLogs
  <2> HIDE DEF d
  <2>5. Settings!WritesReachTheirWorkspace'
    BY <2>1, <2>3, <2>4 DEF SettingsInv, Settings!WritesReachTheirWorkspace
  <2> QED
    BY <1>0, <2>1, <2>3, <2>4, <2>5 DEF SettingsInv, SettingsShapes, FieldsFit, DialogFits, DialogIsOfOne
<1>2. CASE Settings!Answer(c) \/ Settings!Fail(c)
  <2>1. net' \subseteq net \cup Settings!Asks(c) /\ log' = log /\ ui' \in {ui, Settings!Shut(ui)}
    BY <1>2 DEF Settings!Answer, Settings!Fail
  <2>2. /\ Settings!Shut(ui) \in SettingsViews /\ Settings!Shut(ui).dialog = Settings!None
        /\ FieldsFit(Settings!Shut(ui))
    BY <1>0 DEF Settings!Shut, SettingsViews, SettingsNames, SettingsInv, FieldsFit
  <2>3. net' \subseteq SettingsCalls /\ Settings!WritesReachTheirWorkspace'
    BY <1>0, <2>1, AsksAreReads DEF SettingsInv, Settings!WritesReachTheirWorkspace
  <2> QED
    BY <1>0, <2>1, <2>2, <2>3 DEF SettingsInv, SettingsShapes, FieldsFit, DialogFits, DialogIsOfOne
<1> QED
  BY <1>1, <1>2

LEMMA NextSettings == SettingsInv /\ [Settings!Next]_Settings!vars => SettingsInv'
<1> SUFFICES ASSUME SettingsInv, [Settings!Next]_Settings!vars PROVE SettingsInv'
  OBVIOUS
<1>0. ui \in SettingsViews /\ net \subseteq SettingsCalls /\ log \in SettingsLogs
  BY DEF SettingsInv, SettingsShapes
<1>1. CASE UNCHANGED Settings!vars
  BY <1>1 DEF Settings!vars, SettingsInv, SettingsShapes, FieldsFit, DialogFits, DialogIsOfOne,
              Settings!WritesReachTheirWorkspace
<1>2. ASSUME NEW w \in Settings!Workspaces, Settings!Switch(w) PROVE SettingsInv'
  <2> DEFINE u == [ui EXCEPT !.id = w]
  <2>1. u \in SettingsViews /\ u.dialog = Settings!None /\ Settings!Changes(Settings!Filled(u))
    BY <1>0, <1>2 DEF Settings!Switch, Settings!Page, SettingsViews, SettingsNames
  <2> HIDE DEF u
  <2> QED
    BY <2>1, FilledFitsFields, SettingsChangesKeeps DEF DialogIsOfOne, DialogFits
<1>3. ASSUME NEW d \in Settings!Dialogs, Settings!Open(d) PROVE SettingsInv'
  <2> DEFINE v == [ui EXCEPT !.dialog = d, !.of = Settings!Current(ui)]
  <2>1. Settings!Current(ui) # Settings!None /\ Settings!Current(ui) = ui.id /\ Settings!Changes(v)
    BY <1>0, <1>3, CurrentIs DEF Settings!Open, Settings!Page
  <2>2. v \in SettingsViews /\ v.of = v.id /\ v.of # Settings!None /\ FieldsFit(v)
    BY <1>0, <2>1 DEF SettingsViews, SettingsInv, FieldsFit
  <2> HIDE DEF v
  <2> QED
    BY <2>1, <2>2, SettingsChangesKeeps DEF DialogIsOfOne, DialogFits
<1>4. CASE Settings!Close
  <2>1. /\ Settings!Shut(ui) \in SettingsViews /\ Settings!Shut(ui).dialog = Settings!None
        /\ FieldsFit(Settings!Shut(ui))
    BY <1>0 DEF Settings!Shut, SettingsViews, SettingsNames, SettingsInv, FieldsFit
  <2> QED
    BY <1>4, <2>1, SettingsChangesKeeps DEF Settings!Close, DialogIsOfOne, DialogFits
<1>5. CASE Settings!Save
  <2>1. ui.form = Settings!Current(ui) /\ Settings!Write("update", ui.form)
    BY <1>0, <1>5, CurrentIs DEF Settings!Save, Settings!Page, SettingsInv, FieldsFit
  <2>2. ui.form \in SettingsNames /\ "update" \in Settings!Writes
    BY <1>0 DEF SettingsViews, SettingsNames, Settings!Writes
  <2> QED
    BY <2>1, <2>2, SettingsWriteKeeps
<1>6. CASE Settings!ChangeRole
  <2>1. Settings!Current(ui) \in SettingsNames /\ "role" \in Settings!Writes
    BY <1>0, CurrentIs DEF Settings!Writes
  <2> QED
    BY <1>6, <2>1, SettingsWriteKeeps DEF Settings!ChangeRole
<1>7. CASE Settings!Invite \/ Settings!Remove \/ Settings!Archive
  <2>1. PICK d \in Settings!Dialogs : Settings!Confirm(d)
    BY <1>7 DEF Settings!Invite, Settings!Remove, Settings!Archive, Settings!Dialogs
  <2>2. Settings!Write(d, ui.of) /\ Settings!Current(ui) # Settings!None /\ ui.dialog = d
    BY <2>1 DEF Settings!Confirm, Settings!In
  <2>3. ~log.moved => ui.of = Settings!Current(ui)
    BY <1>0, <2>2, CurrentIs, SettingsNamesDiffer DEF SettingsInv, DialogFits
  <2>4. d \in Settings!Writes /\ ui.of \in SettingsNames
    BY <1>0 DEF Settings!Writes, SettingsViews
  <2> QED
    BY <2>2, <2>3, <2>4, SettingsWriteKeeps
<1>8. CASE Settings!OtherArchives
  <2>1. ui' = ui /\ net' = net /\ log' = [log EXCEPT !.live = @ \ {Settings!Shared}]
    BY <1>8 DEF Settings!OtherArchives
  <2>2. log' \in SettingsLogs /\ log'.moved = log.moved
    BY <1>0, <2>1 DEF SettingsLogs
  <2>3. Settings!WritesReachTheirWorkspace'
    BY <2>1, <2>2 DEF SettingsInv, Settings!WritesReachTheirWorkspace
  <2> QED
    BY <2>1, <2>2, <2>3 DEF SettingsInv, SettingsShapes, FieldsFit, DialogFits, DialogIsOfOne
<1>9. ASSUME NEW c \in net,
             \/ Settings!Serve(c) \/ Settings!List(c) \/ Settings!ListFails(c)
             \/ Settings!Answer(c) \/ Settings!Fail(c)
      PROVE  SettingsInv'
  BY <1>9, ListsKeep, SettingsCallsKeep
<1> QED
  BY <1>1, <1>2, <1>3, <1>4, <1>5, <1>6, <1>7, <1>8, <1>9 DEF Settings!Next
-----------------------------------------------------------------------------
(* The account's page. A window that was chosen is the one on screen, and    *)
(* the page picks none until it is cleared. What days it is made of does not *)
(* matter here, so only the fields of the records are fixed.                 *)
WindowViews(S) == [account : BOOLEAN, set : S, dueOn : S, touched : BOOLEAN, from : S, to : S]
WindowLogs(S) == [n : S, chosen : S, landed : BOOLEAN]
IsWindowView(v) == \E S : v \in WindowViews(S)
IsWindowLog(l) == \E S : l \in WindowLogs(S)
Stays(v, chosen) == chosen = {} \/ (v.touched /\ chosen = {[from |-> v.from, to |-> v.to]})
CardInv == IsWindowView(ui) /\ IsWindowLog(log) /\ Stays(ui, log.chosen)

LEMMA ViewIs == ASSUME NEW S, NEW v \in WindowViews(S) PROVE IsWindowView(v)
BY DEF IsWindowView

LEMMA LogIs == ASSUME NEW S, NEW l \in WindowLogs(S) PROVE IsWindowLog(l)
BY DEF IsWindowLog

LEMMA ShowsIs ==
  ASSUME NEW v, IsWindowView(v), NEW w
  PROVE  /\ IsWindowView(Card!Shows(v, w)) /\ Card!Shows(v, w).touched = v.touched
         /\ Card!Shows(v, w).from = w.from /\ Card!Shows(v, w).to = w.to
<1>1. PICK S : v \in WindowViews(S)
  BY DEF IsWindowView
<1> DEFINE R == S \cup {w.from, w.to}
<1>2. /\ Card!Shows(v, w) \in WindowViews(R) /\ Card!Shows(v, w).touched = v.touched
      /\ Card!Shows(v, w).from = w.from /\ Card!Shows(v, w).to = w.to
  BY <1>1 DEF WindowViews, Card!Shows
<1> HIDE DEF R
<1> QED
  BY <1>2, ViewIs

(* The window stays when other fields are set. *)
LEMMA ViewWith ==
  ASSUME NEW v, IsWindowView(v), NEW x,
         NEW u \in {[v EXCEPT !.account = TRUE, !.set = x], [v EXCEPT !.dueOn = x],
                    [v EXCEPT !.touched = TRUE], [v EXCEPT !.touched = FALSE]}
  PROVE  /\ IsWindowView(u) /\ u.from = v.from /\ u.to = v.to
         /\ u \in {[v EXCEPT !.account = TRUE, !.set = x], [v EXCEPT !.dueOn = x]} => u.touched = v.touched
         /\ u = [v EXCEPT !.touched = TRUE] => u.touched
<1>1. PICK S : v \in WindowViews(S)
  BY DEF IsWindowView
<1> DEFINE R == S \cup {x}
<1>2. /\ u \in WindowViews(R) /\ u.from = v.from /\ u.to = v.to
      /\ u \in {[v EXCEPT !.account = TRUE, !.set = x], [v EXCEPT !.dueOn = x]} => u.touched = v.touched
      /\ u = [v EXCEPT !.touched = TRUE] => u.touched
  BY <1>1 DEF WindowViews
<1> HIDE DEF R
<1> QED
  BY <1>2, ViewIs

LEMMA LogWith ==
  ASSUME IsWindowLog(log), NEW n, NEW chosen, NEW landed \in BOOLEAN,
         NEW l \in {[log EXCEPT !.n = n], [log EXCEPT !.landed = landed],
                    [log EXCEPT !.chosen = chosen, !.landed = landed]}
  PROVE  /\ IsWindowLog(l)
         /\ l \in {[log EXCEPT !.n = n], [log EXCEPT !.landed = landed]} => l.chosen = log.chosen
         /\ l = [log EXCEPT !.chosen = chosen, !.landed = landed] => l.chosen = chosen
<1>1. PICK S : log \in WindowLogs(S)
  BY DEF IsWindowLog
<1> DEFINE R == S \cup {n, chosen}
<1>2. /\ l \in WindowLogs(R)
      /\ l \in {[log EXCEPT !.n = n], [log EXCEPT !.landed = landed]} => l.chosen = log.chosen
      /\ l = [log EXCEPT !.chosen = chosen, !.landed = landed] => l.chosen = chosen
  BY <1>1 DEF WindowLogs
<1> HIDE DEF R
<1> QED
  BY <1>2, LogIs

LEMMA InitCard == Card!Init => CardInv
<1> SUFFICES ASSUME Card!Init PROVE CardInv
  OBVIOUS
<1> DEFINE w == Card!Month(q.today)
           none == [closes |-> Card!None, due |-> Card!None]
           v == [account |-> FALSE, set |-> none, dueOn |-> {}, touched |-> FALSE, from |-> Card!None,
                 to |-> Card!None]
           l == [n |-> 0, chosen |-> {}, landed |-> FALSE]
<1>1. ui = Card!Shows(v, w) /\ log = l
  BY DEF Card!Init
<1> HIDE DEF w, none
<1>2. v \in WindowViews({none, {}, Card!None}) /\ l \in WindowLogs({0, {}})
  BY DEF WindowViews, WindowLogs
<1>3. l.chosen = {}
  OBVIOUS
<1> HIDE DEF v, l
<1> QED
  BY <1>1, <1>2, <1>3, ViewIs, LogIs, ShowsIs DEF CardInv, Stays

(* Only a window that was not touched is replaced by what lands. *)
LEMMA LandedKeeps ==
  ASSUME CardInv, NEW v, IsWindowView(v), v.touched = ui.touched, v.from = ui.from, v.to = ui.to,
         Card!Landed(v)
  PROVE  CardInv'
<1>1. log' = [log EXCEPT !.landed = ~v.touched /\ q.card /\ v.dueOn = {}]
  BY DEF Card!Landed
<1>2. IsWindowLog(log') /\ log'.chosen = log.chosen
  BY <1>1, LogWith DEF CardInv
<1>3. CASE v.touched
  <2>1. ui' = v
    BY <1>3 DEF Card!Landed
  <2> QED
    BY <1>2, <2>1 DEF CardInv, Stays, IsWindowView, IsWindowLog
<1>4. CASE ~v.touched
  <2>1. ui' = Card!Shows(v, Card!Landing(v)) /\ log.chosen = {}
    BY <1>4 DEF Card!Landed, CardInv, Stays
  <2>2. IsWindowView(ui')
    BY <2>1, ShowsIs
  <2> QED
    BY <1>2, <2>1, <2>2 DEF CardInv, Stays, IsWindowView, IsWindowLog
<1> QED
  BY <1>3, <1>4

LEMMA PickKeeps ==
  ASSUME CardInv, NEW w, w = [from |-> w.from, to |-> w.to], Card!Pick(w)
  PROVE  CardInv'
<1> DEFINE v == [ui EXCEPT !.touched = TRUE]
<1>1. IsWindowView(v) /\ v.touched
  BY ViewWith DEF CardInv
<1>2. ui' = Card!Shows(v, w) /\ log' = [log EXCEPT !.chosen = {w}, !.landed = FALSE]
  BY DEF Card!Pick, Card!Chosen
<1> HIDE DEF v
<1>3. IsWindowView(ui') /\ ui'.touched /\ ui'.from = w.from /\ ui'.to = w.to
  BY <1>1, <1>2, ShowsIs
<1>4. IsWindowLog(log') /\ log'.chosen = {w}
  BY <1>2, LogWith DEF CardInv
<1> QED
  BY <1>3, <1>4 DEF CardInv, Stays, IsWindowView, IsWindowLog

LEMMA ClearKeeps == CardInv /\ Card!Clear => CardInv'
<1> SUFFICES ASSUME CardInv, Card!Clear PROVE CardInv'
  OBVIOUS
<1> DEFINE v == [ui EXCEPT !.touched = FALSE]
           w == IF q.card THEN Card!Default(ui.set, q.today) ELSE Card!Month(q.today)
<1>1. IsWindowView(v)
  BY ViewWith DEF CardInv
<1>2. ui' = Card!Shows(v, w) /\ log' = [log EXCEPT !.chosen = {}, !.landed = FALSE]
  BY DEF Card!Clear, Card!Chosen
<1> HIDE DEF v, w
<1>3. IsWindowView(ui')
  BY <1>1, <1>2, ShowsIs
<1>4. IsWindowLog(log') /\ log'.chosen = {}
  BY <1>2, LogWith DEF CardInv
<1> QED
  BY <1>3, <1>4 DEF CardInv, Stays, IsWindowView, IsWindowLog

(* The windows that can be picked are made of two days. *)
LEMMA CyclesAreWindows ==
  ASSUME NEW closes, NEW d
  PROVE  Card!Cycle(closes, d) = [from |-> Card!Cycle(closes, d).from, to |-> Card!Cycle(closes, d).to]
BY DEF Card!Cycle

LEMMA BillsAreWindows ==
  ASSUME NEW dueOn, NEW b
  PROVE  Card!Bill(dueOn, b) = [from |-> Card!Bill(dueOn, b).from, to |-> Card!Bill(dueOn, b).to]
BY DEF Card!Bill

LEMMA ByCycleKeeps ==
  ASSUME CardInv, NEW d, Card!ByCycle(d)
  PROVE  CardInv'
BY CyclesAreWindows, PickKeeps DEF Card!ByCycle

LEMMA ByMonthsKeeps ==
  ASSUME CardInv, NEW by, Card!ByMonths(by)
  PROVE  CardInv'
BY PickKeeps DEF Card!ByMonths

LEMMA BillKeeps ==
  ASSUME CardInv, NEW b, Card!Pick(Card!Bill(ui.dueOn, b))
  PROVE  CardInv'
BY BillsAreWindows, PickKeeps

LEMMA StripIsOfWindows ==
  ASSUME NEW w \in Card!Strip
  PROVE  w = [from |-> w.from, to |-> w.to]
BY CyclesAreWindows, BillsAreWindows DEF Card!Strip, Card!Back

LEMMA NextCard == CardInv /\ [Card!Next]_Card!vars => CardInv'
<1> SUFFICES ASSUME CardInv, [Card!Next]_Card!vars PROVE CardInv'
  OBVIOUS
<1>1. CASE UNCHANGED Card!vars
  BY <1>1 DEF Card!vars, CardInv, IsWindowView, IsWindowLog, Stays
<1>2. CASE Card!Account
  <2> DEFINE v == [ui EXCEPT !.account = TRUE, !.set = q.set]
  <2>1. IsWindowView(v) /\ v.touched = ui.touched /\ v.from = ui.from /\ v.to = ui.to
    BY ViewWith DEF CardInv
  <2>2. Card!Landed(v)
    BY <1>2 DEF Card!Account
  <2> HIDE DEF v
  <2> QED
    BY <2>1, <2>2, LandedKeeps
<1>3. CASE Card!Bills
  <2> DEFINE v == [ui EXCEPT !.dueOn = q.dueOn]
  <2>1. IsWindowView(v) /\ v.touched = ui.touched /\ v.from = ui.from /\ v.to = ui.to
    BY ViewWith DEF CardInv
  <2>2. Card!Landed(v)
    BY <1>3 DEF Card!Bills
  <2> HIDE DEF v
  <2> QED
    BY <2>1, <2>2, LandedKeeps
<1>4. CASE \/ Card!NewBill \/ Card!Midnight
           \/ \E set \in {[closes |-> 10, due |-> 16]} : Card!SettingsSaved(set)
  <2>1. ui' = ui /\ log' \in {log, [log EXCEPT !.landed = FALSE], [log EXCEPT !.n = @ + 1]}
    BY <1>4 DEF Card!NewBill, Card!Midnight, Card!SettingsSaved
  <2> DEFINE n == log.n + 1
  <2>2. log' \in {log, [log EXCEPT !.landed = FALSE], [log EXCEPT !.n = n]}
    BY <2>1
  <2> HIDE DEF n
  <2>3. IsWindowLog([log EXCEPT !.n = n]) /\ [log EXCEPT !.n = n].chosen = log.chosen
    BY LogWith, FALSE \in BOOLEAN DEF CardInv
  <2>4. IsWindowLog([log EXCEPT !.landed = FALSE]) /\ [log EXCEPT !.landed = FALSE].chosen = log.chosen
    BY LogWith, FALSE \in BOOLEAN DEF CardInv
  <2>5. IsWindowLog(log') /\ log'.chosen = log.chosen
    BY <2>2, <2>3, <2>4 DEF CardInv
  <2> QED
    BY <2>1, <2>5 DEF CardInv, Stays, IsWindowView, IsWindowLog
<1>5. CASE Card!PickBar
  BY <1>5, StripIsOfWindows, PickKeeps DEF Card!PickBar
<1>6. CASE Card!StepBack
  BY <1>6, BillKeeps, ByCycleKeeps, ByMonthsKeeps DEF Card!StepBack
<1>7. CASE Card!StepOn
  BY <1>7, BillKeeps, ByCycleKeeps, ByMonthsKeeps DEF Card!StepOn
<1>8. CASE Card!Clear
  BY <1>8, ClearKeeps
<1>9. ASSUME NEW d, Card!PickFrom(d) \/ Card!PickTo(d) PROVE CardInv'
  BY <1>9, PickKeeps DEF Card!PickFrom, Card!PickTo
<1> QED
  BY <1>1, <1>2, <1>3, <1>4, <1>5, <1>6, <1>7, <1>8, <1>9 DEF Card!Next

(* The bill it opens on, and the arrows. Here the days matter: a day of a month  *)
(* falls in that month, a cycle holds the day that it is the cycle of, and the   *)
(* window on screen never leaves the calendar.                                   *)
LEMMA Calendar == 
  /\ Card!Months = 1..7
  /\ Card!First(1) = 1 /\ Card!First(2) = 32 /\ Card!First(3) = 63 /\ Card!First(4) = 91
  /\ Card!First(5) = 122 /\ Card!First(6) = 152 /\ Card!First(7) = 183
  /\ Card!Lengths[1] = 31 /\ Card!Lengths[2] = 31 /\ Card!Lengths[3] = 28 /\ Card!Lengths[4] = 31
  /\ Card!Lengths[5] = 30 /\ Card!Lengths[6] = 31 /\ Card!Lengths[7] = 30
BY DEF Card!Months, Card!First, Card!Firsts, Card!Lengths

LEMMA MonthIs ==
  ASSUME NEW m \in 1..6, NEW d \in Int, Card!First(m) <= d, d < Card!First(m + 1)
  PROVE  Card!MonthOf(d) = m
<1>1. {k \in Card!Months : Card!First(k) <= d} = 1..m
  BY Calendar
<1>2. \A x \in 1..m : (\A y \in 1..m : x >= y) <=> x = m
  OBVIOUS
<1> QED
  BY <1>1, <1>2 DEF Card!MonthOf, Card!Max

(* The due date of a day in March, and the closing before it. *)
LEMMA NextDueIs ==
  ASSUME NEW due \in {9, 16, 30}, NEW d \in 91..121
  PROVE  Card!NextDue(due, d, FALSE) \in {Card!On(due, 4), Card!On(due, 5)}
<1>1. Card!MonthOf(d) = 4
  BY MonthIs, Calendar
<1> QED
  BY <1>1 DEF Card!NextDue

LEMMA DaysOn ==
  ASSUME NEW day \in {9, 10, 16, 30, 31}, NEW m \in 3..6
  PROVE  Card!On(day, m) = IF m = 3 THEN (IF day <= 28 THEN 62 + day ELSE 90)
                           ELSE IF m = 4 THEN 90 + day
                           ELSE IF m = 5 THEN (IF day <= 30 THEN 121 + day ELSE 151)
                           ELSE 151 + day
BY Calendar DEF Card!On

LEMMA DayInItsMonth ==
  ASSUME NEW day \in {9, 10, 16, 30, 31}, NEW m \in 3..6
  PROVE  Card!MonthOf(Card!On(day, m)) = m
BY DaysOn, Calendar, MonthIs

LEMMA DueOfTheCycle ==
  ASSUME NEW closes \in {10, 16, 31}, NEW due \in {9, 16, 30}, NEW k \in 4..5,
         \A m \in Card!Months : Card!On(closes, m) # Card!On(due, m)
  PROVE  LET w == Card!Cycle(closes, Card!ClosedAt(closes, Card!On(due, k)) - 1)
         IN  Card!NextDue(due, w.to, TRUE) = Card!On(due, k)
<1> DEFINE D == Card!On(due, k)
           j == IF Card!On(closes, k) <= D THEN k ELSE k - 1
           C == Card!On(closes, j)
           w == Card!Cycle(closes, C - 1)
<1>1. Card!ClosedAt(closes, D) = C
  BY DayInItsMonth DEF Card!ClosedAt
<1>2. j \in 3..5 /\ C \in Int /\ C - 1 \in Int /\ Card!First(j) <= C - 1 /\ C - 1 < Card!First(j + 1)
  BY DaysOn, Calendar
<1>3. Card!MonthOf(C - 1) = j
  BY <1>2, MonthIs
<1>4. w.to = C - 1
  BY <1>2, <1>3 DEF Card!Cycle, Card!None
<1>5. \A m \in 3..5 : Card!On(closes, m) # Card!On(due, m)
  BY Calendar
<1>6. Card!NextDue(due, C - 1, TRUE) = IF Card!On(due, j) > C - 1 THEN Card!On(due, j) ELSE Card!On(due, j + 1)
  BY <1>3 DEF Card!NextDue
<1>7. Card!NextDue(due, C - 1, TRUE) = D
  <2>1. \A m \in 3..6 : Card!On(due, m) \in Int /\ Card!On(closes, m) \in Int
    BY DaysOn
  <2>2. CASE Card!On(closes, k) <= D
    <3>1. j = k /\ C = Card!On(closes, k) /\ D > C - 1
      BY <2>1, <2>2
    <3> HIDE DEF j, C, D
    <3> QED
      BY <1>6, <3>1 DEF D
  <2>3. CASE ~(Card!On(closes, k) <= D)
    <3>1. j = k - 1 /\ j + 1 = k /\ C = Card!On(closes, k - 1)
      BY <2>3
    <3>2. Card!On(due, k - 1) < Card!On(closes, k - 1)
      BY <1>5, <2>3, DaysOn
    <3> HIDE DEF j, C, D
    <3>3. ~(Card!On(due, k - 1) > C - 1)
      BY <2>1, <3>1, <3>2
    <3> QED
      BY <1>6, <3>1, <3>3 DEF D
  <2> QED
    BY <2>2, <2>3
<1> QED
  BY <1>1, <1>4, <1>7

(* The card opens on the cycle of the bill due next, as long as no more than data has come. *)
CardRows == [card : BOOLEAN, set : Card!Settings, dueOn : Card!Feeds, today : 91..121,
             long : {Card!March(9), Card!None}]
OpensInv ==
  /\ q \in CardRows /\ ui.set \in Card!Settings
  /\ log.landed => ui.to = Card!Default(ui.set, q.today).to

LEMMA OpensIsDue ==
  ASSUME OpensInv
  PROVE  Card!OpensOnTheBillDue
<1> SUFFICES ASSUME log.landed, ui.set.closes # Card!None,
                    \A m \in Card!Months : Card!On(ui.set.closes, m) # Card!On(ui.set.due, m)
             PROVE  Card!DueOf(ui.set, ui.to) = Card!NextDue(ui.set.due, q.today, FALSE)
  BY DEF Card!OpensOnTheBillDue
<1> DEFINE closes == ui.set.closes
           due == ui.set.due
           D == Card!NextDue(due, q.today, FALSE)
           w == Card!Cycle(closes, Card!ClosedAt(closes, D) - 1)
<1>1. closes \in {10, 16, 31} /\ due \in {9, 16, 30} /\ due # Card!None /\ q.today \in 91..121
  BY DEF OpensInv, CardRows, Card!Settings, Card!None
<1>2. ui.to = Card!Default(ui.set, q.today).to
  BY DEF OpensInv
<1>3. Card!Default(ui.set, q.today) = w
  BY <1>1 DEF Card!Default, Card!None
<1>4. D = Card!On(due, 4) \/ D = Card!On(due, 5)
  BY <1>1, NextDueIs
<1> HIDE DEF closes, due, D
<1>5. \E k \in 4..5 : D = Card!On(due, k)
  BY <1>4
<1>6. \A m \in Card!Months : Card!On(closes, m) # Card!On(due, m)
  BY DEF closes, due
<1>7. Card!NextDue(due, w.to, TRUE) = D
  <2>1. PICK k \in 4..5 : D = Card!On(due, k)
    BY <1>5
  <2>2. Card!NextDue(due, Card!Cycle(closes, Card!ClosedAt(closes, Card!On(due, k)) - 1).to, TRUE)
          = Card!On(due, k)
    BY <1>1, <1>6, DueOfTheCycle
  <2> QED
    BY <2>1, <2>2
<1> QED
  BY <1>2, <1>3, <1>7 DEF Card!DueOf, D, due

LEMMA InitOpens == Card!Init => OpensInv
<1> SUFFICES ASSUME Card!Init PROVE OpensInv
  OBVIOUS
<1> DEFINE w == Card!Month(q.today)
           none == [closes |-> Card!None, due |-> Card!None]
<1>1. ui = [[account |-> FALSE, set |-> none, dueOn |-> {}, touched |-> FALSE, from |-> Card!None,
             to |-> Card!None] EXCEPT !.from = w.from, !.to = w.to]
  BY DEF Card!Init, Card!Shows
<1>2. none \in Card!Settings
  BY DEF Card!Settings
<1> HIDE DEF w, none
<1>3. ui.set \in Card!Settings
  BY <1>1, <1>2
<1>4. ~log.landed
  BY DEF Card!Init
<1>5. Card!Todays \subseteq 91..121
  BY Calendar DEF Card!Todays, Card!March
<1>6. q \in CardRows
  BY <1>5 DEF Card!Init, CardRows
<1> QED
  BY <1>3, <1>4, <1>6 DEF OpensInv

(* What is picked is no longer what the data opened. *)
LEMMA ChosenOpens ==
  ASSUME CardInv, OpensInv, NEW w, NEW touched, NEW chosen,
         ui' = Card!Shows([ui EXCEPT !.touched = touched], w), Card!Chosen(chosen)
  PROVE  OpensInv'
<1>1. ui'.set = ui.set
  BY DEF CardInv, IsWindowView, WindowViews, Card!Shows
<1>2. ~log'.landed
  BY DEF CardInv, IsWindowLog, WindowLogs, Card!Chosen
<1> QED
  BY <1>1, <1>2 DEF OpensInv, Card!Chosen

LEMMA PickOpens ==
  ASSUME CardInv, OpensInv, NEW w, Card!Pick(w)
  PROVE  OpensInv'
BY ChosenOpens DEF Card!Pick

LEMMA LandedOpens ==
  ASSUME CardInv, OpensInv, NEW v, IsWindowView(v), v.set \in Card!Settings, v.touched \in BOOLEAN,
         Card!Landed(v), q' = q
  PROVE  OpensInv'
<1>1. log'.landed => ~v.touched /\ q.card /\ v.dueOn = {}
  BY DEF Card!Landed, CardInv, IsWindowLog, WindowLogs
<1>2. ui'.set = v.set
  BY DEF Card!Landed, Card!Shows, IsWindowView, WindowViews
<1>3. ASSUME ~v.touched, q.card, v.dueOn = {} PROVE ui'.to = Card!Default(v.set, q.today).to
  <2>1. Card!Landing(v) = Card!Default(v.set, q.today)
    BY <1>3 DEF Card!Landing
  <2>2. ui' = Card!Shows(v, Card!Default(v.set, q.today))
    BY <1>3, <2>1 DEF Card!Landed
  <2> QED
    BY <2>2, ShowsIs
<1> QED
  BY <1>1, <1>2, <1>3 DEF OpensInv

LEMMA NextOpens == CardInv /\ OpensInv /\ [Card!Next]_Card!vars => OpensInv'
<1> SUFFICES ASSUME CardInv, OpensInv, [Card!Next]_Card!vars PROVE OpensInv'
  OBVIOUS
<1>1. CASE UNCHANGED Card!vars
  BY <1>1 DEF Card!vars, OpensInv
<1>2. CASE Card!Account
  <2> DEFINE v == [ui EXCEPT !.account = TRUE, !.set = q.set]
  <2>1. IsWindowView(v)
    BY ViewWith DEF CardInv
  <2>2. v.set = q.set /\ v.touched \in BOOLEAN
    BY DEF CardInv, IsWindowView, WindowViews
  <2>3. Card!Landed(v) /\ q' = q
    BY <1>2 DEF Card!Account
  <2> HIDE DEF v
  <2> QED
    BY <2>1, <2>2, <2>3, LandedOpens DEF OpensInv, CardRows
<1>3. CASE Card!Bills
  <2> DEFINE v == [ui EXCEPT !.dueOn = q.dueOn]
  <2>1. IsWindowView(v)
    BY ViewWith DEF CardInv
  <2>2. v.set = ui.set /\ v.touched \in BOOLEAN
    BY DEF CardInv, IsWindowView, WindowViews
  <2>3. Card!Landed(v) /\ q' = q
    BY <1>3 DEF Card!Bills
  <2> HIDE DEF v
  <2> QED
    BY <2>1, <2>2, <2>3, LandedOpens DEF OpensInv
<1>4. CASE Card!NewBill
  <2>1. q' \in CardRows /\ q'.today = q.today
    BY <1>4 DEF Card!NewBill, OpensInv, CardRows, Card!Feeds
  <2> QED
    BY <1>4, <2>1 DEF Card!NewBill, OpensInv
<1>5. CASE Card!Midnight
  <2>1. q.today + 1 \in 91..121
    BY <1>5, Calendar DEF Card!Midnight, Card!Todays, Card!March
  <2>2. q' \in CardRows
    BY <1>5, <2>1 DEF Card!Midnight, OpensInv, CardRows
  <2>3. ~log'.landed
    BY <1>5 DEF Card!Midnight, CardInv, IsWindowLog, WindowLogs
  <2> QED
    BY <1>5, <2>2, <2>3 DEF Card!Midnight, OpensInv
<1>6. ASSUME NEW set \in {[closes |-> 10, due |-> 16]}, Card!SettingsSaved(set) PROVE OpensInv'
  <2>1. set \in Card!Settings
    BY DEF Card!Settings
  <2>2. q' \in CardRows /\ q'.today = q.today
    BY <1>6, <2>1 DEF Card!SettingsSaved, OpensInv, CardRows
  <2>3. log'.landed = log.landed
    BY <1>6 DEF Card!SettingsSaved, CardInv, IsWindowLog, WindowLogs
  <2> QED
    BY <1>6, <2>2, <2>3 DEF Card!SettingsSaved, OpensInv
<1>7. CASE Card!PickBar
  BY <1>7, PickOpens DEF Card!PickBar
<1>8. CASE Card!StepBack
  BY <1>8, PickOpens DEF Card!StepBack, Card!ByCycle, Card!ByMonths
<1>9. CASE Card!StepOn
  BY <1>9, PickOpens DEF Card!StepOn, Card!ByCycle, Card!ByMonths
<1>10. CASE Card!Clear
  BY <1>10, ChosenOpens DEF Card!Clear
<1>11. ASSUME NEW d, Card!PickFrom(d) \/ Card!PickTo(d) PROVE OpensInv'
  BY <1>11, PickOpens DEF Card!PickFrom, Card!PickTo
<1> QED
  BY <1>1, <1>2, <1>3, <1>4, <1>5, <1>6, <1>7, <1>8, <1>9, <1>10, <1>11 DEF Card!Next

(* Where the days of the calendar fall. *)
LEMMA MonthIn ==
  ASSUME NEW d \in 1..182
  PROVE  /\ Card!MonthOf(d) \in 1..6
         /\ Card!First(Card!MonthOf(d)) <= d /\ d < Card!First(Card!MonthOf(d) + 1)
<1>1. \E m \in 1..6 : Card!First(m) <= d /\ d < Card!First(m + 1)
  BY Calendar
<1> QED
  BY <1>1, MonthIs

LEMMA OnIn ==
  ASSUME NEW day \in Int, day >= 1, NEW m \in 1..7
  PROVE  /\ Card!On(day, m) \in Int /\ Card!First(m) <= Card!On(day, m)
         /\ m < 7 => Card!On(day, m) < Card!First(m + 1)
BY Calendar DEF Card!On

LEMMA FirstsRise ==
  /\ \A m \in 1..7 : Card!First(m) \in Int
  /\ \A m, n \in 1..7 : m < n => Card!First(m) < Card!First(n)
BY Calendar

(* A cycle holds its day. *)
LEMMA CycleHolds ==
  ASSUME NEW closes \in {10, 16, 31}, NEW d \in 32..182
  PROVE  /\ Card!Cycle(closes, d).from \in Int /\ Card!Cycle(closes, d).from <= d
         /\ Card!Cycle(closes, d).to \in Int /\ d <= Card!Cycle(closes, d).to
<1> DEFINE m == Card!MonthOf(d)
           next == IF Card!On(closes, m) > d THEN m ELSE m + 1
           w == Card!Cycle(closes, d)
<1>1. m \in 2..6 /\ Card!First(m) <= d /\ d < Card!First(m + 1)
  BY MonthIn, Calendar
<1>2. w.from = Card!On(closes, next - 1) /\ w.to = Card!On(closes, next) - 1
  BY DEF Card!Cycle, Card!None
<1> HIDE DEF m, w
<1> SUFFICES w.from \in Int /\ w.to \in Int /\ w.from <= d /\ d <= w.to
  BY DEF w
<1> HIDE DEF next
<1>3. \A n \in 1..7 : Card!On(closes, n) \in Int
  BY OnIn
<1>4. CASE Card!On(closes, m) > d
  <2>1. next = m /\ w.from = Card!On(closes, m - 1) /\ w.to = Card!On(closes, m) - 1
    BY <1>2, <1>4 DEF next
  <2>2. m - 1 \in 1..7 /\ m - 1 < 7 /\ (m - 1) + 1 = m
    BY <1>1
  <2>3. Card!On(closes, m - 1) < Card!First(m)
    BY <2>2, OnIn
  <2> QED
    BY <1>1, <1>3, <1>4, <2>1, <2>2, <2>3, FirstsRise
<1>5. CASE ~(Card!On(closes, m) > d)
  <2>1. w.from = Card!On(closes, m) /\ w.to = Card!On(closes, m + 1) - 1
    BY <1>1, <1>2, <1>5 DEF next
  <2>2. m + 1 \in 1..7
    BY <1>1
  <2>3. Card!First(m + 1) <= Card!On(closes, m + 1)
    BY <2>2, OnIn
  <2> QED
    BY <1>1, <1>3, <1>5, <2>1, <2>2, <2>3, FirstsRise
<1> QED
  BY <1>4, <1>5

(* The same day of a month later or before. *)
LEMMA MonthsMove ==
  ASSUME NEW d \in 32..182
  PROVE  /\ Card!ByMonth(d, -1) \in Int /\ Card!ByMonth(d, -1) < d
         /\ Card!ByMonth(d, 1) \in Int /\ Card!ByMonth(d, 1) > d
<1> DEFINE m == Card!MonthOf(d)
           day == d - Card!First(m) + 1
<1>1. m \in 2..6 /\ Card!First(m) <= d /\ d < Card!First(m + 1) /\ Card!First(m) \in Int
      /\ Card!First(m + 1) \in Int
  BY MonthIn, Calendar
<1>2. day \in Int /\ day >= 1
  BY <1>1
<1>3. Card!ByMonth(d, -1) = Card!On(day, m - 1) /\ Card!ByMonth(d, 1) = Card!On(day, m + 1)
  BY <1>1 DEF Card!ByMonth
<1> HIDE DEF m, day
<1>4. m - 1 \in 1..7 /\ m - 1 < 7 /\ (m - 1) + 1 = m /\ m + 1 \in 1..7
  BY <1>1
<1>5. Card!On(day, m - 1) \in Int /\ Card!On(day, m - 1) < Card!First(m)
  BY <1>2, <1>4, OnIn
<1>6. Card!On(day, m + 1) \in Int /\ Card!First(m + 1) <= Card!On(day, m + 1)
  BY <1>2, <1>4, OnIn
<1> QED
  BY <1>1, <1>3, <1>5, <1>6

(* The bank's bills are two at most, on these days. *)
LEMMA BillDays ==
  ASSUME NEW S \in SUBSET {78, 106}, S # {}
  PROVE  /\ Card!Max(S) \in S /\ \A b \in S : b <= Card!Max(S)
         /\ Card!Min(S) \in S /\ \A b \in S : b >= Card!Min(S)
<1>0. (\E x : x \in S) /\ \A x \in S : x = 78 \/ x = 106
  OBVIOUS
<1>1. (\E b \in S : \A a \in S : b >= a) /\ (\E b \in S : \A a \in S : b <= a)
  <2>1. CASE 78 \in S /\ 106 \in S
    BY <2>1
  <2>2. CASE 78 \notin S
    <3>1. 106 \in S /\ \A a \in S : a = 106
      BY <1>0, <2>2
    <3> QED
      BY <3>1
  <2>3. CASE 106 \notin S
    <3>1. 78 \in S /\ \A a \in S : a = 78
      BY <1>0, <2>3
    <3> QED
      BY <3>1
  <2> QED
    BY <2>1, <2>2, <2>3
<1> QED
  BY <1>1 DEF Card!Max, Card!Min

LEMMA FeedsAre == /\ \A dueOn \in Card!Feeds : dueOn \subseteq {78, 106}
                  /\ Card!Calendar = 32..182
BY Calendar DEF Card!Feeds, Card!March, Card!Calendar

(* The window stays in the calendar. *)
InCalendar(w) == w.from \in Card!Calendar /\ w.to \in Card!Calendar
DaysInv == OpensInv /\ ui.dueOn \in Card!Feeds /\ InCalendar(ui)

LEMMA BillIn ==
  ASSUME NEW dueOn \in Card!Feeds, NEW b \in dueOn
  PROVE  InCalendar(Card!Bill(dueOn, b)) /\ Card!Bill(dueOn, b).to = b
<1>1. dueOn \subseteq {78, 106}
  BY FeedsAre
<1> DEFINE S == {a \in dueOn : a < b}
<1>2. Card!Bill(dueOn, b).to = b
      /\ Card!Bill(dueOn, b).from = IF \E a \in dueOn : a < b THEN Card!Max(S) + 1 ELSE b - 45
  BY DEF Card!Bill
<1>3. (\E a \in dueOn : a < b) => Card!Max(S) \in {78, 106}
  <2>1. S \in SUBSET {78, 106} /\ ((\E a \in dueOn : a < b) => S # {})
    BY <1>1
  <2> HIDE DEF S
  <2> QED
    BY <2>1, BillDays
<1> HIDE DEF S
<1> QED
  BY <1>1, <1>2, <1>3, FeedsAre DEF InCalendar

LEMMA DefaultIn ==
  ASSUME NEW set \in Card!Settings, NEW today \in 91..121
  PROVE  /\ InCalendar(Card!Cycle(set.closes, today))
         /\ InCalendar(Card!Default(set, today))
<1>1. Card!MonthOf(today) = 4
  BY MonthIs, Calendar
<1>2. InCalendar(Card!Cycle(set.closes, today))
  <2>1. CASE set.closes = Card!None
    BY <1>1, <2>1, Calendar, FeedsAre DEF Card!Cycle, InCalendar
  <2>2. CASE set.closes # Card!None
    <3>1. set.closes \in {10, 16, 31}
      BY <2>2 DEF Card!Settings
    <3>2. \A m \in 3..5 : Card!On(set.closes, m) \in 63..152
      BY <3>1, DaysOn
    <3> DEFINE next == IF Card!On(set.closes, 4) > today THEN 4 ELSE 5
    <3>3. Card!Cycle(set.closes, today) = [from |-> Card!On(set.closes, next - 1), to |-> Card!On(set.closes, next) - 1]
      BY <1>1, <2>2 DEF Card!Cycle
    <3>4. next - 1 \in 3..5 /\ next \in 3..5
      OBVIOUS
    <3> HIDE DEF next
    <3> QED
      BY <3>2, <3>3, <3>4, FeedsAre DEF InCalendar
  <2> QED
    BY <2>1, <2>2
<1>3. InCalendar(Card!Default(set, today))
  <2>1. CASE set.closes = Card!None \/ set.due = Card!None
    BY <1>2, <2>1 DEF Card!Default
  <2>2. CASE set.closes # Card!None /\ set.due # Card!None
    <3>1. set.closes \in {10, 16, 31} /\ set.due \in {9, 16, 30}
      BY <2>2 DEF Card!Settings
    <3> DEFINE D == Card!NextDue(set.due, today, FALSE)
    <3>2. PICK k \in 4..5 : D = Card!On(set.due, k)
      <4>1. D = Card!On(set.due, 4) \/ D = Card!On(set.due, 5)
        BY <3>1, NextDueIs
      <4> HIDE DEF D
      <4> QED
        BY <4>1
    <3>3. PICK j \in 3..5 : Card!Default(set, today) = Card!Cycle(set.closes, Card!On(set.closes, j) - 1)
      <4>1. Card!Default(set, today) = Card!Cycle(set.closes, Card!ClosedAt(set.closes, D) - 1)
        BY <2>2 DEF Card!Default
      <4> HIDE DEF D
      <4>2. Card!MonthOf(D) = k
        <5>1. Card!MonthOf(Card!On(set.due, k)) = k
          BY <3>1, DayInItsMonth
        <5> QED
          BY <3>2, <5>1
      <4>3. Card!ClosedAt(set.closes, D) \in {Card!On(set.closes, k), Card!On(set.closes, k - 1)}
        BY <4>2 DEF Card!ClosedAt
      <4> QED
        BY <4>1, <4>3
    <3> DEFINE C == Card!On(set.closes, j)
    <3>4. C \in Int /\ C - 1 \in 1..182 /\ Card!First(j) <= C - 1 /\ C - 1 < Card!First(j + 1)
      BY <3>1, DaysOn, Calendar
    <3>5. Card!MonthOf(C - 1) = j
      BY <3>4, MonthIs
    <3>6. Card!Cycle(set.closes, C - 1) = [from |-> Card!On(set.closes, j - 1), to |-> C - 1]
      BY <2>2, <3>4, <3>5 DEF Card!Cycle
    <3>7. Card!On(set.closes, j - 1) \in 41..151
      <4>1. CASE j = 3
        BY <3>1, <4>1, Calendar DEF Card!On
      <4>2. CASE j # 3
        BY <3>1, <4>2, DaysOn
      <4> QED
        BY <4>1, <4>2
    <3>8. C - 1 \in Card!Calendar
      BY <3>1, DaysOn, FeedsAre
    <3> QED
      BY <3>3, <3>6, <3>7, <3>8, FeedsAre DEF InCalendar
  <2> QED
    BY <2>1, <2>2
<1> QED
  BY <1>2, <1>3

LEMMA MonthIn4 ==
  ASSUME NEW today \in 91..121
  PROVE  InCalendar(Card!Month(today))
BY MonthIs, Calendar, FeedsAre DEF Card!Month, InCalendar

LEMMA LandingIn ==
  ASSUME OpensInv, NEW v, v.set \in Card!Settings, v.dueOn \in Card!Feeds, InCalendar(v)
  PROVE  InCalendar(Card!Landing(v))
<1>1. q.today \in 91..121
  BY DEF OpensInv, CardRows
<1>2. CASE ~q.card
  BY <1>2 DEF Card!Landing, InCalendar
<1> DEFINE S == {b \in v.dueOn : b >= q.today}
<1>3. CASE q.card /\ \E b \in v.dueOn : b >= q.today
  <2>1. S \subseteq {78, 106} /\ S # {} /\ Card!Landing(v) = Card!Bill(v.dueOn, Card!Min(S))
    BY <1>3, FeedsAre DEF Card!Landing
  <2>2. Card!Min(S) \in v.dueOn
    BY <2>1, BillDays
  <2> QED
    BY <2>1, <2>2, BillIn
<1>4. CASE q.card /\ ~\E b \in v.dueOn : b >= q.today
  BY <1>1, <1>4, DefaultIn DEF Card!Landing
<1> QED
  BY <1>2, <1>3, <1>4

LEMMA DaysShow ==
  ASSUME CardInv, NEW w, NEW touched, ui' = Card!Shows([ui EXCEPT !.touched = touched], w)
  PROVE  ui'.from = w.from /\ ui'.to = w.to /\ ui'.dueOn = ui.dueOn
BY DEF CardInv, IsWindowView, WindowViews, Card!Shows

LEMMA PickDays ==
  ASSUME CardInv, DaysInv, NEW w, Card!Pick(w)
  PROVE  DaysInv' /\ ui'.from = w.from /\ ui'.to = w.to
<1>1. ui' = Card!Shows([ui EXCEPT !.touched = TRUE], w) /\ w.from \in Card!Calendar /\ w.to \in Card!Calendar
  BY DEF Card!Pick
<1>2. ui'.from = w.from /\ ui'.to = w.to /\ ui'.dueOn = ui.dueOn
  BY <1>1, DaysShow
<1>3. OpensInv'
  BY PickOpens DEF DaysInv
<1> QED
  BY <1>1, <1>2, <1>3, FeedsAre DEF DaysInv, InCalendar, Card!Feeds, Card!March, Card!First, Card!Firsts

LEMMA LandedDays ==
  ASSUME CardInv, DaysInv, NEW v, IsWindowView(v), v.dueOn \in Card!Feeds, v.set \in Card!Settings,
         v.from = ui.from, v.to = ui.to, Card!Landed(v)
  PROVE  ui'.dueOn \in Card!Feeds /\ InCalendar(ui')
<1>1. InCalendar(v)
  BY DEF DaysInv, InCalendar
<1>2. CASE v.touched
  BY <1>1, <1>2 DEF Card!Landed
<1>3. CASE ~v.touched
  <2>1. InCalendar(Card!Landing(v))
    BY <1>1, LandingIn DEF DaysInv
  <2>2. ui' = Card!Shows(v, Card!Landing(v))
    BY <1>3 DEF Card!Landed
  <2>3. ui'.dueOn = v.dueOn /\ ui'.from = Card!Landing(v).from /\ ui'.to = Card!Landing(v).to
    BY <2>2 DEF IsWindowView, WindowViews, Card!Shows
  <2> QED
    BY <2>1, <2>3 DEF InCalendar
<1> QED
  BY <1>2, <1>3

LEMMA InitDays == Card!Init => DaysInv
<1> SUFFICES ASSUME Card!Init PROVE DaysInv
  OBVIOUS
<1>1. OpensInv
  BY InitOpens
<1>2. InCalendar(Card!Month(q.today))
  BY <1>1, MonthIn4 DEF OpensInv, CardRows
<1>3. ui.dueOn = {} /\ ui.from = Card!Month(q.today).from /\ ui.to = Card!Month(q.today).to
  BY DEF Card!Init, Card!Shows
<1> QED
  BY <1>1, <1>2, <1>3 DEF DaysInv, InCalendar, Card!Feeds

LEMMA NextDays == CardInv /\ DaysInv /\ [Card!Next]_Card!vars => DaysInv'
<1> SUFFICES ASSUME CardInv, DaysInv, [Card!Next]_Card!vars PROVE DaysInv'
  OBVIOUS
<1>1. OpensInv'
  BY NextOpens DEF DaysInv
<1> SUFFICES ui'.dueOn \in Card!Feeds /\ InCalendar(ui')
  BY <1>1 DEF DaysInv, InCalendar, Card!Feeds, Card!Calendar, Card!March, Card!First, Card!Firsts
<1>2. CASE \/ UNCHANGED Card!vars \/ Card!NewBill \/ Card!Midnight
           \/ \E set \in {[closes |-> 10, due |-> 16]} : Card!SettingsSaved(set)
  BY <1>2 DEF Card!vars, Card!NewBill, Card!Midnight, Card!SettingsSaved, DaysInv, InCalendar
<1>3. CASE Card!Account
  <2> DEFINE v == [ui EXCEPT !.account = TRUE, !.set = q.set]
  <2>1. IsWindowView(v) /\ v.from = ui.from /\ v.to = ui.to
    BY ViewWith DEF CardInv
  <2>2. v.set = q.set /\ v.dueOn = ui.dueOn
    BY DEF CardInv, IsWindowView, WindowViews
  <2>3. Card!Landed(v)
    BY <1>3 DEF Card!Account
  <2> HIDE DEF v
  <2> QED
    BY <2>1, <2>2, <2>3, LandedDays DEF DaysInv, OpensInv, CardRows
<1>4. CASE Card!Bills
  <2> DEFINE v == [ui EXCEPT !.dueOn = q.dueOn]
  <2>1. IsWindowView(v) /\ v.from = ui.from /\ v.to = ui.to
    BY ViewWith DEF CardInv
  <2>2. v.set = ui.set /\ v.dueOn = q.dueOn
    BY DEF CardInv, IsWindowView, WindowViews
  <2>3. Card!Landed(v)
    BY <1>4 DEF Card!Bills
  <2> HIDE DEF v
  <2> QED
    BY <2>1, <2>2, <2>3, LandedDays DEF DaysInv, OpensInv, CardRows
<1>5. ASSUME NEW w, Card!Pick(w) PROVE ui'.dueOn \in Card!Feeds /\ InCalendar(ui')
  BY <1>5, PickDays, DaysShow DEF Card!Pick, DaysInv, InCalendar
<1>6. CASE Card!PickBar \/ Card!StepBack \/ Card!StepOn
  BY <1>5, <1>6 DEF Card!PickBar, Card!StepBack, Card!StepOn, Card!ByCycle, Card!ByMonths
<1>7. CASE Card!Clear
  <2> DEFINE w == IF q.card THEN Card!Default(ui.set, q.today) ELSE Card!Month(q.today)
  <2>1. InCalendar(w)
    BY DefaultIn, MonthIn4 DEF DaysInv, OpensInv, CardRows
  <2>2. ui'.from = w.from /\ ui'.to = w.to /\ ui'.dueOn = ui.dueOn
    BY <1>7, DaysShow DEF Card!Clear
  <2> HIDE DEF w
  <2> QED
    BY <2>1, <2>2 DEF DaysInv, InCalendar
<1>8. ASSUME NEW d, Card!PickFrom(d) \/ Card!PickTo(d) PROVE ui'.dueOn \in Card!Feeds /\ InCalendar(ui')
  BY <1>5, <1>8 DEF Card!PickFrom, Card!PickTo
<1> QED
  BY <1>2, <1>3, <1>4, <1>6, <1>7, <1>8 DEF Card!Next

(* An arrow moves the window its way. *)
LEMMA CycleBefore ==
  ASSUME CardInv, DaysInv, Card!ByCycle(ui.from - 1), ui.set.closes # Card!None
  PROVE  ui'.from < ui.from
<1> DEFINE w == Card!Cycle(ui.set.closes, ui.from - 1)
<1>1. ui.set.closes \in {10, 16, 31} /\ ui.from \in 32..182
  BY FeedsAre DEF DaysInv, OpensInv, InCalendar, Card!Settings
<1>2. ui'.from = w.from /\ w.from \in 32..182
  BY PickDays, FeedsAre DEF Card!ByCycle, Card!Pick
<1>3. CASE ui.from - 1 \in 32..182
  <2>1. w.from <= ui.from - 1
    BY <1>1, <1>3, CycleHolds
  <2>2. \A a, b \in 32..182 : b <= a - 1 => b < a
    OBVIOUS
  <2> HIDE DEF w
  <2> QED
    BY <1>1, <1>2, <2>1, <2>2
<1>4. CASE ui.from = 32
  <2>1. Card!MonthOf(31) = 1
    BY MonthIs, Calendar
  <2>2. ui.from - 1 = 31
    BY <1>4
  <2>3. w.from = Card!On(ui.set.closes, 1)
    BY <1>1, <2>1, <2>2, Calendar DEF Card!Cycle, Card!None, Card!On
  <2> QED
    BY <1>1, <1>2, <2>3, Calendar DEF Card!On
<1> QED
  BY <1>1, <1>3, <1>4

LEMMA BackGoesBack ==
  ASSUME CardInv, DaysInv, Card!StepBack, Card!Regular
  PROVE  ui'.from < ui.from \/ ui'.to < ui.to
<1>1. ui.dueOn \in SUBSET {78, 106} /\ ui.from \in 32..182 /\ ui.to \in 32..182
  BY FeedsAre DEF DaysInv, InCalendar
<1>2. CASE Card!Older # {}
  <2>1. Card!Older \in SUBSET {78, 106}
    BY <1>1 DEF Card!Older
  <2>2. Card!Max(Card!Older) \in Card!Older
    BY <1>2, <2>1, BillDays
  <2> DEFINE b == Card!Max(Card!Older)
  <2>3. b \in ui.dueOn /\ (ui.to \in ui.dueOn => b < ui.to) /\ ui.dueOn # {}
    BY <2>2 DEF Card!Older
  <2>4. Card!Pick(Card!Bill(ui.dueOn, b))
    BY <1>2 DEF Card!StepBack
  <2>5. ui'.to = Card!Bill(ui.dueOn, b).to
    BY <2>4, PickDays
  <2>6. Card!Bill(ui.dueOn, b).to = b
    BY DEF Card!Bill
  <2>7. b <= Card!Max(ui.dueOn) /\ Card!Max(ui.dueOn) \in {78, 106}
    BY <1>1, <2>3, BillDays
  <2>8. ui.to \in ui.dueOn \/ ui.to > Card!Max(ui.dueOn)
    BY <2>3 DEF Card!Regular
  <2> HIDE DEF b
  <2> QED
    BY <1>1, <2>3, <2>5, <2>6, <2>7, <2>8
<1>3. CASE Card!Older = {} /\ ui.set.closes # Card!None
  BY <1>3, CycleBefore DEF Card!StepBack
<1>4. CASE Card!Older = {} /\ ui.set.closes = Card!None
  <2>1. Card!Pick([from |-> Card!ByMonth(ui.from, -1), to |-> Card!ByMonth(ui.to, -1)])
    BY <1>4 DEF Card!StepBack, Card!ByMonths
  <2>2. ui'.from = Card!ByMonth(ui.from, -1)
    BY <2>1, PickDays
  <2> QED
    BY <1>1, <2>2, MonthsMove
<1> QED
  BY <1>2, <1>3, <1>4

LEMMA OnGoesOn ==
  ASSUME CardInv, DaysInv, Card!StepOn, Card!Regular
  PROVE  ui'.from > ui.from \/ ui'.to > ui.to
<1>1. /\ ui.dueOn \in SUBSET {78, 106} /\ ui.from \in 32..182 /\ ui.to \in 32..182
      /\ ui.set.closes # Card!None => ui.set.closes \in {10, 16, 31}
      /\ q.today \in 91..121
  BY FeedsAre DEF DaysInv, OpensInv, CardRows, InCalendar, Card!Settings
<1>2. CASE Card!Newer # {}
  <2>1. Card!Newer \in SUBSET {78, 106}
    BY <1>1 DEF Card!Newer
  <2>2. Card!Min(Card!Newer) \in Card!Newer
    BY <1>2, <2>1, BillDays
  <2> DEFINE b == Card!Min(Card!Newer)
  <2>3. b > ui.to
    BY <2>2 DEF Card!Newer
  <2>4. Card!Pick(Card!Bill(ui.dueOn, b))
    BY <1>2 DEF Card!StepOn
  <2>5. ui'.to = Card!Bill(ui.dueOn, b).to
    BY <2>4, PickDays
  <2> QED
    BY <2>3, <2>5 DEF Card!Bill
<1>3. CASE Card!Newer = {} /\ ui.to \in ui.dueOn /\ ui.set.closes # Card!None
  <2> DEFINE w == Card!Cycle(ui.set.closes, q.today)
  <2>1. Card!Pick(w)
    BY <1>3 DEF Card!StepOn, Card!ByCycle
  <2>2. ui'.to = w.to
    BY <2>1, PickDays
  <2>3. w.to \in Int
    <3>1. \A d \in 91..121 : d \in 32..182
      OBVIOUS
    <3> QED
      BY <1>1, <1>3, <3>1, CycleHolds
  <2>4. Card!Max(ui.dueOn) < w.to
    BY <1>3 DEF Card!Regular
  <2>5. ui.to <= Card!Max(ui.dueOn) /\ Card!Max(ui.dueOn) \in {78, 106}
    BY <1>1, <1>3, BillDays
  <2> HIDE DEF w
  <2> QED
    BY <1>1, <2>2, <2>3, <2>4, <2>5
<1>4. CASE Card!Newer = {} /\ ui.to \notin ui.dueOn /\ ui.set.closes # Card!None
  <2> DEFINE w == Card!Cycle(ui.set.closes, ui.to + 1)
  <2>1. Card!Pick(w)
    BY <1>4 DEF Card!StepOn, Card!ByCycle, Card!Regular
  <2>2. ui'.to = w.to /\ w.to \in 32..182
    BY <2>1, PickDays, FeedsAre DEF Card!Pick
  <2>3. CASE ui.to + 1 \in 32..182
    <3>1. ui.to + 1 <= w.to
      BY <1>1, <1>4, <2>3, CycleHolds
    <3>2. \A a, b \in 32..182 : a + 1 <= b => b > a
      OBVIOUS
    <3> HIDE DEF w
    <3> QED
      BY <1>1, <2>2, <3>1, <3>2
  <2>4. CASE ui.to = 182
    <3>1. Card!MonthOf(183) = 7
      <4>1. {k \in Card!Months : Card!First(k) <= 183} = 1..7
        BY Calendar
      <4>2. \A x \in 1..7 : (\A y \in 1..7 : x >= y) <=> x = 7
        OBVIOUS
      <4> QED
        BY <4>1, <4>2 DEF Card!MonthOf, Card!Max
    <3>2. ui.to + 1 = 183 /\ ui.set.closes \in {10, 16, 31}
      BY <1>1, <1>4, <2>4
    <3>3. Card!On(ui.set.closes, 7) > 183 /\ Card!On(ui.set.closes, 7) \in Int
      BY <3>2, Calendar DEF Card!On
    <3>4. w.to = Card!On(ui.set.closes, 7) - 1
      BY <1>4, <3>1, <3>2, <3>3 DEF Card!Cycle
    <3> HIDE DEF w
    <3> QED
      BY <1>1, <2>2, <2>4, <3>3, <3>4
  <2> QED
    BY <1>1, <2>3, <2>4
<1>5. CASE Card!Newer = {} /\ ui.set.closes = Card!None
  <2>1. Card!Pick([from |-> Card!ByMonth(ui.from, 1), to |-> Card!ByMonth(ui.to, 1)])
    BY <1>5 DEF Card!StepOn, Card!ByMonths
  <2>2. ui'.from = Card!ByMonth(ui.from, 1)
    BY <2>1, PickDays
  <2> QED
    BY <1>1, <2>2, MonthsMove
<1> QED
  BY <1>2, <1>3, <1>4, <1>5
-----------------------------------------------------------------------------
(* The agent's panel. While a message is being answered that was not sent *)
(* while another was read back, no stream that the panel hears has ended. *)
ChatNames == Chat!Conversations \cup {Chat!None}
ChatViews ==
  [open : BOOLEAN, conv : ChatNames, streaming : BOOLEAN, draft : Nat, offers : BOOLEAN,
   applied : SUBSET Chat!Cards, busy : SUBSET Chat!Cards]
ChatStores == [home : ChatNames, read : BOOLEAN, marks : SUBSET Chat!Cards, made : Nat]
ChatTurns == [turn : Nat, conv : ChatNames, fresh : BOOLEAN, live : BOOLEAN,
              st : {"sent", "streaming", "ended"}]
ChatApplies == [card : Chat!Cards, live : BOOLEAN, st : {"sent", "done"}]
ChatLogs == [n : Nat, early : BOOLEAN, tried : SUBSET Chat!Cards, why : SUBSET {"reopened", "lost"}]
ChatShapes ==
  ui \in ChatViews /\ q \in ChatStores /\ net \subseteq ChatTurns \cup ChatApplies /\ log \in ChatLogs
Unended(calls) == \A c \in calls : c \in ChatTurns /\ c.live => c.st # "ended"
Bubble(v, calls, n) == v.streaming => v.draft = n /\ Unended(calls)
ChatInv == ChatShapes /\ (~log.early => Bubble(ui, net, log.n))

LEMMA TurnsAre ==
  /\ \A c \in ChatTurns : Chat!IsTurn(c)
  /\ \A c \in ChatApplies : ~Chat!IsTurn(c) /\ c \notin ChatTurns
BY DEF Chat!IsTurn, ChatTurns, ChatApplies

LEMMA InitChat == Chat!Init => ChatInv
<1> SUFFICES ASSUME Chat!Init PROVE ChatInv
  OBVIOUS
<1>1. ui \in ChatViews /\ ~ui.streaming
  BY DEF Chat!Init, ChatViews, ChatNames, Chat!Conversations
<1>2. q \in ChatStores /\ log \in ChatLogs
  BY DEF Chat!Init, ChatStores, ChatNames, ChatLogs
<1> QED
  BY <1>1, <1>2 DEF Chat!Init, ChatInv, ChatShapes, Bubble

(* The bubble stays with its message while no live stream ends. *)
LEMMA BubbleKeeps ==
  ASSUME ChatInv, ChatShapes', log'.early = log.early, log'.n = log.n,
         ui'.streaming => ui.streaming /\ (ui'.draft = ui.draft \/ ~Unended(net)),
         \A c \in net' : c \in ChatTurns /\ c.live /\ c.st = "ended" => c \in net
  PROVE  ChatInv'
BY DEF ChatInv, Bubble, Unended

LEMMA UnheardAre ==
  ASSUME ChatInv, NEW cards
  PROVE  /\ Chat!Unheard(cards) \subseteq ChatTurns \cup ChatApplies
         /\ \A c \in Chat!Unheard(cards) : c \in ChatTurns => c \in net
<1> SUFFICES ASSUME NEW d \in Chat!Unheard(cards)
             PROVE  d \in ChatTurns \cup ChatApplies /\ (d \in ChatTurns => d \in net)
  OBVIOUS
<1>1. PICK c \in net : d = IF ~Chat!IsTurn(c) /\ c.card \in cards THEN [c EXCEPT !.live = FALSE] ELSE c
  BY DEF Chat!Unheard
<1>2. c \in ChatTurns \cup ChatApplies
  BY DEF ChatInv, ChatShapes
<1>3. CASE d = c
  BY <1>2, <1>3
<1>4. CASE d # c
  <2>1. c \in ChatApplies /\ d = [c EXCEPT !.live = FALSE]
    BY <1>1, <1>2, <1>4, TurnsAre
  <2>2. d \in ChatApplies
    BY <2>1 DEF ChatApplies
  <2> QED
    BY <2>2, TurnsAre
<1> QED
  BY <1>3, <1>4

LEMMA GoneIs ==
  ASSUME ChatInv, NEW v \in ChatViews, NEW cards \in SUBSET Chat!Cards
  PROVE  /\ Chat!Gone(v, cards) \in ChatViews
         /\ Chat!Gone(v, cards).streaming = v.streaming /\ Chat!Gone(v, cards).draft = v.draft
<1>1. q.marks \subseteq Chat!Cards
  BY DEF ChatInv, ChatShapes, ChatStores
<1>2. (v.applied \ cards) \cup (q.marks \cap cards) \in SUBSET Chat!Cards
  BY <1>1 DEF ChatViews
<1>3. v.busy \ cards \in SUBSET Chat!Cards
  BY DEF ChatViews
<1> QED
  BY <1>2, <1>3 DEF Chat!Gone, ChatViews

LEMMA ReopenedIs ==
  ASSUME ChatInv, NEW cards
  PROVE  /\ Chat!Reopened(cards) \in ChatLogs
         /\ Chat!Reopened(cards).n = log.n /\ Chat!Reopened(cards).early = log.early
BY DEF ChatInv, ChatShapes, Chat!Reopened, ChatLogs

LEMMA LeavesAreCards == Chat!Leaves \in SUBSET Chat!Cards /\ {"bubble"} \in SUBSET Chat!Cards
BY DEF Chat!Leaves, Chat!Cards

(* The effect on the conversation leaves the bubble of a message being answered. *)
LEMMA MovesIs ==
  ASSUME ChatInv, NEW conv \in ChatNames
  PROVE  /\ Chat!Moves(conv) \in ChatViews /\ Chat!Moves(conv).streaming = ui.streaming
         /\ ui.streaming => Chat!Moves(conv).draft = ui.draft
<1> DEFINE u == [ui EXCEPT !.conv = conv]
           v == Chat!Moved(u)
<1>1. u \in ChatViews /\ u.streaming = ui.streaming /\ u.draft = ui.draft
  BY DEF ChatInv, ChatShapes, ChatViews
<1> HIDE DEF u
<1>2. v \in ChatViews /\ v.streaming = u.streaming /\ (u.streaming => v.draft = u.draft)
  BY <1>1 DEF Chat!Moved, ChatViews
<1>3. Chat!Moves(conv) = Chat!Gone(v, Chat!Leaves)
  BY DEF Chat!Moves, u
<1> HIDE DEF v
<1> QED
  BY <1>1, <1>2, <1>3, GoneIs, LeavesAreCards

(* What changes the conversation, and nothing that is on its way but cards. *)
LEMMA MoveKeeps ==
  ASSUME ChatInv, NEW conv \in ChatNames, NEW cards, ui' = Chat!Moves(conv), log' = Chat!Reopened(cards),
         q' = q, net' \subseteq ChatTurns \cup ChatApplies,
         \A c \in net' : c \in ChatTurns /\ c.live /\ c.st = "ended" => c \in net
  PROVE  ChatInv'
<1>1. ChatShapes'
  BY MovesIs, ReopenedIs DEF ChatInv, ChatShapes
<1> QED
  BY <1>1, MovesIs, ReopenedIs, BubbleKeeps

LEMMA LeaveKeeps == ChatInv /\ Chat!Leave => ChatInv'
<1> SUFFICES ASSUME ChatInv, Chat!Leave PROVE ChatInv'
  OBVIOUS
<1> DEFINE v == [ui EXCEPT !.open = FALSE, !.streaming = FALSE, !.draft = 0, !.offers = FALSE]
<1>1. v \in ChatViews /\ ~v.streaming
  BY DEF ChatInv, ChatShapes, ChatViews
<1>2. ui' = Chat!Gone(v, Chat!Cards)
  BY DEF Chat!Leave
<1> HIDE DEF v
<1>3. ui' \in ChatViews /\ ~ui'.streaming
  BY <1>1, <1>2, GoneIs
<1>4. net' \subseteq ChatTurns \cup ChatApplies
  <2> SUFFICES ASSUME NEW c \in net PROVE [c EXCEPT !.live = FALSE] \in ChatTurns \cup ChatApplies
    BY DEF Chat!Leave
  <2> QED
    BY DEF ChatInv, ChatShapes, ChatTurns, ChatApplies
<1> QED
  BY <1>3, <1>4, ReopenedIs DEF Chat!Leave, ChatInv, ChatShapes, Bubble

(* A message sent while no other is heard has the only stream. *)
LEMMA SendKeeps == ChatInv /\ Chat!Send => ChatInv'
<1> SUFFICES ASSUME ChatInv, Chat!Send PROVE ChatInv'
  OBVIOUS
<1> DEFINE turn == log.n + 1
           d == [turn |-> turn, conv |-> ui.conv, fresh |-> ui.conv = Chat!None, live |-> TRUE, st |-> "sent"]
           v == [ui EXCEPT !.streaming = TRUE, !.draft = turn, !.offers = FALSE]
           l == Chat!Reopened({"bubble"})
           heard == \E c \in net : Chat!IsTurn(c) /\ c.live
<1>1. /\ net' = Chat!Unheard({"bubble"}) \cup {d} /\ ui' = Chat!Gone(v, {"bubble"}) /\ q' = q
      /\ log' = [l EXCEPT !.n = turn, !.early = @ \/ heard]
  BY DEF Chat!Send
<1>2. turn \in Nat
  BY DEF ChatInv, ChatShapes, ChatLogs
<1>3. d \in ChatTurns /\ d.st # "ended" /\ v \in ChatViews /\ v.draft = turn
  BY <1>2 DEF ChatInv, ChatShapes, ChatViews, ChatTurns
<1>4. l \in ChatLogs /\ l.early = log.early
  BY ReopenedIs
<1> HIDE DEF turn, d, v, l
<1>5. ui' \in ChatViews /\ ui'.draft = turn
  BY <1>1, <1>3, GoneIs, LeavesAreCards
<1>6. (l.early \/ heard) \in BOOLEAN
  BY <1>4 DEF ChatLogs
<1>7. log' \in ChatLogs /\ log'.n = turn /\ log'.early = (l.early \/ heard)
  BY <1>1, <1>2, <1>4, <1>6 DEF ChatLogs
<1>8. net' \subseteq ChatTurns \cup ChatApplies
  BY <1>1, <1>3, UnheardAre
<1>9. ASSUME ~log'.early PROVE Unended(net')
  <2>1. \A c \in Chat!Unheard({"bubble"}) : c \in ChatTurns => ~c.live
    BY <1>7, <1>9, UnheardAre, TurnsAre
  <2> QED
    BY <1>1, <1>3, <2>1 DEF Unended
<1> QED
  BY <1>1, <1>5, <1>7, <1>8, <1>9 DEF ChatInv, ChatShapes, Bubble

LEMMA NamedKeeps ==
  ASSUME ChatInv, NEW c \in net, Chat!Named(c)
  PROVE  ChatInv'
<1> DEFINE conv == IF c.fresh THEN Chat!Created(c.turn) ELSE c.conv
           d == [c EXCEPT !.st = "streaming", !.conv = conv]
           moves == c.fresh /\ ui.open
<1>1. c \in ChatTurns
  BY TurnsAre DEF Chat!Named, ChatInv, ChatShapes
<1>2. conv \in ChatNames
  BY <1>1 DEF Chat!Created, ChatTurns, ChatNames, Chat!Conversations
<1>3. /\ net' = ((IF moves THEN Chat!Unheard(Chat!Leaves) ELSE net) \ {c}) \cup {d} /\ q' = q
      /\ ui' = IF moves THEN Chat!Moves(conv) ELSE IF c.fresh THEN [ui EXCEPT !.conv = conv] ELSE ui
      /\ log' = IF moves THEN Chat!Reopened(Chat!Leaves) ELSE log
  BY DEF Chat!Named
<1> HIDE DEF conv
<1>4. d \in ChatTurns /\ d.st # "ended"
  BY <1>1, <1>2 DEF ChatTurns
<1> HIDE DEF d
<1>5. /\ net' \subseteq ChatTurns \cup ChatApplies
      /\ \A e \in net' : e \in ChatTurns /\ e.live /\ e.st = "ended" => e \in net
  BY <1>3, <1>4, UnheardAre DEF ChatInv, ChatShapes
<1>6. CASE moves
  BY <1>2, <1>3, <1>5, <1>6, MoveKeeps
<1>7. CASE ~moves
  <2>1. ui' \in ChatViews /\ ui'.streaming = ui.streaming /\ ui'.draft = ui.draft /\ log' = log
    BY <1>2, <1>3, <1>7 DEF ChatInv, ChatShapes, ChatViews
  <2>2. ChatShapes'
    BY <1>3, <1>5, <2>1 DEF ChatInv, ChatShapes
  <2> QED
    BY <1>5, <2>1, <2>2, BubbleKeeps
<1> QED
  BY <1>6, <1>7

LEMMA EndsKeeps ==
  ASSUME ChatInv, NEW c \in net, Chat!Ends(c)
  PROVE  ChatInv'
<1> DEFINE d == [c EXCEPT !.st = "ended"]
<1>1. c \in ChatTurns
  BY TurnsAre DEF Chat!Ends, ChatInv, ChatShapes
<1>2. d \in ChatTurns /\ d.live = c.live
  BY <1>1 DEF ChatTurns
<1>3. net' \subseteq (net \ {c}) \cup {d} /\ q' = q /\ log' = log
  BY DEF Chat!Ends
<1> HIDE DEF d
<1>4. /\ ui' \in ChatViews /\ (c.live => ~ui'.streaming) /\ (~c.live => ui' = ui)
  BY DEF Chat!Ends, ChatInv, ChatShapes, ChatViews
<1>5. ChatShapes'
  BY <1>2, <1>3, <1>4 DEF ChatInv, ChatShapes
<1> QED
  BY <1>2, <1>3, <1>4, <1>5 DEF ChatInv, Bubble, Unended

LEMMA ReadBackKeeps ==
  ASSUME ChatInv, NEW c \in net, Chat!ReadBack(c)
  PROVE  ChatInv'
<1> DEFINE v == [ui EXCEPT !.draft = 0, !.offers = FALSE]
<1>1. c \in ChatTurns /\ c.st = "ended"
  BY TurnsAre DEF Chat!ReadBack, ChatInv, ChatShapes
<1>2. q' \in ChatStores
  BY DEF Chat!ReadBack, Chat!Reads, ChatInv, ChatShapes, ChatStores
<1>3. v \in ChatViews /\ v.streaming = ui.streaming
  BY DEF ChatInv, ChatShapes, ChatViews
<1>4. ui' = IF c.live THEN Chat!Gone(v, {"bubble"}) ELSE ui
  BY DEF Chat!ReadBack
<1> HIDE DEF v
<1>5. ui' \in ChatViews /\ ui'.streaming = ui.streaming /\ (c.live \/ ui' = ui)
  BY <1>3, <1>4, GoneIs, LeavesAreCards DEF ChatInv, ChatShapes
<1>6. log' \in ChatLogs /\ log'.n = log.n /\ log'.early = log.early
  BY ReopenedIs DEF Chat!ReadBack, ChatInv, ChatShapes
<1>7. net' \subseteq ChatTurns \cup ChatApplies /\ \A e \in net' : e \in ChatTurns => e \in net
  BY UnheardAre DEF Chat!ReadBack, ChatInv, ChatShapes
<1>8. c.live => ~Unended(net)
  BY <1>1 DEF Unended
<1>9. ChatShapes'
  BY <1>2, <1>5, <1>6, <1>7 DEF ChatShapes
<1> QED
  BY <1>5, <1>6, <1>7, <1>8, <1>9, BubbleKeeps

(* The cards: nothing of it is about streams. *)
LEMMA CardsKeep ==
  ASSUME ChatInv,
         \/ \E card \in Chat!Cards : Chat!Apply(card)
         \/ \E c \in net : Chat!Serve(c) \/ Chat!Done(c) \/ Chat!ApplyFails(c)
  PROVE  ChatInv'
<1>0. ui \in ChatViews /\ q \in ChatStores /\ net \subseteq ChatTurns \cup ChatApplies /\ log \in ChatLogs
  BY DEF ChatInv, ChatShapes
<1>1. ASSUME NEW card \in Chat!Cards, Chat!Apply(card) PROVE ChatInv'
  <2> DEFINE d == [card |-> card, live |-> TRUE, st |-> "sent"]
  <2>1. d \in ChatApplies /\ net' = net \cup {d}
    BY <1>1 DEF Chat!Apply, ChatApplies
  <2> HIDE DEF d
  <2>2. ui' \in ChatViews /\ ui'.streaming = ui.streaming /\ ui'.draft = ui.draft
    BY <1>0, <1>1 DEF Chat!Apply, ChatViews
  <2>3. log' \in ChatLogs /\ log'.n = log.n /\ log'.early = log.early
    BY <1>0, <1>1 DEF Chat!Apply, ChatLogs
  <2>4. ChatShapes'
    BY <1>0, <1>1, <2>1, <2>2, <2>3 DEF Chat!Apply, ChatShapes
  <2> QED
    BY <2>1, <2>2, <2>3, <2>4, TurnsAre, BubbleKeeps
<1>2. ASSUME NEW c \in net, Chat!Serve(c) PROVE ChatInv'
  <2> DEFINE d == [c EXCEPT !.st = "done"]
  <2>1. c \in ChatApplies /\ net' = (net \ {c}) \cup {d}
    BY <1>0, <1>2, TurnsAre DEF Chat!Serve, Chat!Applies, Chat!Served
  <2>2. d \in ChatApplies
    BY <2>1 DEF ChatApplies
  <2> HIDE DEF d
  <2>3. q.made + 1 \in Nat
    BY <1>0 DEF ChatStores
  <2>4. q' \in ChatStores
    BY <1>0, <1>2, <2>3 DEF Chat!Serve, ChatStores
  <2>5. ChatShapes' /\ ui' = ui /\ log' = log
    BY <1>0, <1>2, <2>1, <2>2, <2>4 DEF Chat!Serve, ChatShapes
  <2> QED
    BY <2>1, <2>2, <2>5, TurnsAre, BubbleKeeps
<1>3. ASSUME NEW c \in net, Chat!Done(c) \/ Chat!ApplyFails(c) PROVE ChatInv'
  <2>1. c \in ChatApplies /\ net' = net \ {c}
    BY <1>0, <1>3, TurnsAre DEF Chat!Done, Chat!ApplyFails, Chat!Applies
  <2>6. c.card \in Chat!Cards
    BY <2>1 DEF ChatApplies
  <2>7. /\ ui.busy \ {c.card} \in SUBSET Chat!Cards /\ ui.applied \cup {c.card} \in SUBSET Chat!Cards
        /\ q.marks \cup {c.card} \in SUBSET Chat!Cards
    BY <1>0, <2>6 DEF ChatViews, ChatStores
  <2>2. ui' \in ChatViews /\ ui'.streaming = ui.streaming /\ ui'.draft = ui.draft
    <3>1. CASE Chat!Done(c)
      BY <1>0, <2>7, <3>1 DEF Chat!Done, ChatViews
    <3>2. CASE Chat!ApplyFails(c)
      BY <1>0, <2>7, <3>2 DEF Chat!ApplyFails, ChatViews
    <3> QED
      BY <1>3, <3>1, <3>2
  <2>3. log' \in ChatLogs /\ log'.n = log.n /\ log'.early = log.early
    BY <1>0, <1>3 DEF Chat!Done, Chat!ApplyFails, ChatLogs
  <2>4. q' \in ChatStores
    <3>1. CASE Chat!Done(c)
      BY <1>0, <2>7, <3>1 DEF Chat!Done, Chat!Remembered, ChatStores
    <3>2. CASE Chat!ApplyFails(c)
      BY <1>0, <3>2 DEF Chat!ApplyFails
    <3> QED
      BY <1>3, <3>1, <3>2
  <2>5. ChatShapes'
    BY <1>0, <2>1, <2>2, <2>3, <2>4 DEF ChatShapes
  <2> QED
    BY <2>1, <2>2, <2>3, <2>5, BubbleKeeps
<1> QED
  BY <1>1, <1>2, <1>3

LEMMA NextChat == ChatInv /\ [Chat!Next]_Chat!vars => ChatInv'
<1> SUFFICES ASSUME ChatInv, [Chat!Next]_Chat!vars PROVE ChatInv'
  OBVIOUS
<1>0. ui \in ChatViews /\ q \in ChatStores /\ net \subseteq ChatTurns \cup ChatApplies /\ log \in ChatLogs
  BY DEF ChatInv, ChatShapes
<1>1. CASE UNCHANGED Chat!vars
  BY <1>0, <1>1, BubbleKeeps DEF Chat!vars, ChatShapes
<1>2. CASE Chat!Return \/ Chat!ReadHistory \/ (\E conv \in Chat!Conversations : Chat!PickConversation(conv))
  <2>1. ui' \in ChatViews /\ ui'.streaming = ui.streaming /\ ui'.draft = ui.draft
    <3>1. CASE Chat!Return
      <4> DEFINE v == [ui EXCEPT !.open = TRUE]
      <4>1. v \in ChatViews /\ v.streaming = ui.streaming /\ v.draft = ui.draft
            /\ ui' = Chat!Gone(v, Chat!Cards)
        BY <1>0, <3>1 DEF Chat!Return, ChatViews
      <4> HIDE DEF v
      <4> QED
        BY <4>1, GoneIs
    <3>2. CASE ~Chat!Return
      BY <1>0, <1>2, <3>2 DEF Chat!ReadHistory, Chat!PickConversation, ChatViews, ChatNames
    <3> QED
      BY <3>1, <3>2
  <2>2. q' \in ChatStores /\ net' = net /\ log' = log
    BY <1>0, <1>2 DEF Chat!Return, Chat!ReadHistory, Chat!PickConversation, Chat!Reads, ChatStores
  <2>3. ChatShapes'
    BY <1>0, <2>1, <2>2 DEF ChatShapes
  <2> QED
    BY <2>1, <2>2, <2>3, BubbleKeeps
<1>3. CASE Chat!NewConversation
  <2>1. ui' = Chat!Moves(Chat!None) /\ log' = Chat!Reopened(Chat!Leaves)
        /\ net' = Chat!Unheard(Chat!Leaves) /\ q' = q
    BY <1>3 DEF Chat!NewConversation
  <2>2. Chat!None \in ChatNames
    BY DEF ChatNames
  <2> QED
    BY <2>1, <2>2, UnheardAre, MoveKeeps
<1>4. ASSUME NEW c \in net, Chat!Proposal(c) PROVE ChatInv'
  <2>1. c \in ChatTurns /\ net' = net /\ log' = log
    BY <1>0, <1>4, TurnsAre DEF Chat!Proposal
  <2>2. q' \in ChatStores /\ ui' \in ChatViews /\ ui'.streaming = ui.streaming /\ ui'.draft = ui.draft
    BY <1>0, <1>4, <2>1 DEF Chat!Proposal, ChatStores, ChatViews, ChatTurns
  <2>3. ChatShapes'
    BY <1>0, <2>1, <2>2 DEF ChatShapes
  <2> QED
    BY <2>1, <2>2, <2>3, BubbleKeeps
<1>5. CASE Chat!Leave \/ Chat!Send
  BY <1>5, LeaveKeeps, SendKeeps
<1>6. ASSUME NEW c \in net, Chat!Named(c) \/ Chat!Ends(c) \/ Chat!ReadBack(c) PROVE ChatInv'
  BY <1>6, NamedKeeps, EndsKeeps, ReadBackKeeps
<1>7. CASE \/ \E card \in Chat!Cards : Chat!Apply(card)
           \/ \E c \in net : Chat!Serve(c) \/ Chat!Done(c) \/ Chat!ApplyFails(c)
  BY <1>7, CardsKeep
<1> QED
  BY <1>1, <1>2, <1>3, <1>4, <1>5, <1>6, <1>7 DEF Chat!Next

(* The cards. While one only was ever applied, and was not left meanwhile, its request is *)
(* the only one, it is heard, and it is remembered on screen and off it once it is done.  *)
Calls == {c \in net : c \in ChatApplies}
AppliedInv ==
  log.why = {} /\ log.tried # Chat!Cards =>
    /\ \A c \in Calls : c.live /\ c.card \in log.tried /\ c.card \in ui.busy
    /\ \A c, d \in Calls : c = d
    /\ \A c \in Calls : q.made = IF c.st = "done" THEN 1 ELSE 0
    /\ Calls = {} => q.made = 0 \/ (q.made = 1 /\ \E x \in log.tried : x \in ui.applied /\ x \in q.marks)
    /\ ~ui.open => Calls = {}
ChatCardsInv == ChatInv /\ AppliedInv

LEMMA InitChatCards == Chat!Init => ChatCardsInv
<1> SUFFICES ASSUME Chat!Init PROVE ChatCardsInv
  OBVIOUS
<1>1. Calls = {} /\ q.made = 0
  BY DEF Chat!Init, Calls
<1> QED
  BY <1>1, InitChat DEF ChatCardsInv, AppliedInv

(* What leaves the cards on screen as they are, or is known to have left one. *)
LEMMA CardsStay ==
  ASSUME AppliedInv, log'.tried = log.tried,
         log'.why = {} => /\ log.why = {} /\ Calls' = Calls /\ q'.made = q.made /\ q'.marks = q.marks
                          /\ ui.open /\ ~ui'.open => Calls = {}
                          /\ \A c \in Calls : c.card \in ui.busy => c.card \in ui'.busy
                          /\ \A x \in ui.applied : x \in q.marks => x \in ui'.applied
  PROVE  AppliedInv'
BY DEF AppliedInv

(* With no card left, those that go are not busy, and those that are remembered come back. *)
LEMMA NoneLeft ==
  ASSUME ChatInv, NEW cards \in SUBSET Chat!Cards, NEW v \in ChatViews, v.applied = ui.applied,
         v.busy = ui.busy,
         Chat!Reopened(cards).why = {}
  PROVE  /\ log.why = {} /\ {c \in Chat!Unheard(cards) : c \in ChatApplies} = Calls
         /\ \A c \in Calls : c.card \in ui.busy => c.card \in Chat!Gone(v, cards).busy
         /\ \A x \in ui.applied : x \in q.marks => x \in Chat!Gone(v, cards).applied
<1>1. \A c \in Chat!Applies : c.card \notin cards
  <2> SUFFICES ASSUME NEW c \in Chat!Applies, c.card \in cards PROVE FALSE
    OBVIOUS
  <2>1. Chat!Reopened(cards) = [log EXCEPT !.why = @ \cup {"reopened"}]
    BY DEF Chat!Reopened
  <2>2. "reopened" \in Chat!Reopened(cards).why
    BY <2>1 DEF ChatInv, ChatShapes, ChatLogs
  <2> QED
    BY <2>2
<1>2. Chat!Reopened(cards) = log
  BY <1>1 DEF Chat!Reopened
<1>3. \A c \in net : c \in ChatApplies => c.card \notin cards
  BY <1>1, TurnsAre DEF Chat!Applies
<1>4. \A c \in net : (IF ~Chat!IsTurn(c) /\ c.card \in cards THEN [c EXCEPT !.live = FALSE] ELSE c) = c
  BY <1>1 DEF Chat!Applies
<1>5. Chat!Unheard(cards) = net
  BY <1>4 DEF Chat!Unheard
<1>6. /\ Chat!Gone(v, cards).busy = ui.busy \ cards
      /\ Chat!Gone(v, cards).applied = (ui.applied \ cards) \cup (q.marks \cap cards)
  BY DEF Chat!Gone, ChatViews
<1> QED
  BY <1>2, <1>3, <1>5, <1>6 DEF Calls

LEMMA ReopenedTries ==
  ASSUME ChatInv, NEW cards
  PROVE  Chat!Reopened(cards).tried = log.tried
BY DEF ChatInv, ChatShapes, Chat!Reopened, ChatLogs

(* The steps that take cards away: a conversation that moves, a message, a bubble that goes. *)
LEMMA GoneKeeps ==
  ASSUME ChatCardsInv, NEW cards \in SUBSET Chat!Cards, NEW v \in ChatViews,
         v.applied = ui.applied, v.busy = ui.busy, v.open = ui.open, ui' = Chat!Gone(v, cards),
         log'.why = Chat!Reopened(cards).why, log'.tried = Chat!Reopened(cards).tried,
         q'.made = q.made, q'.marks = q.marks,
         Calls' = {c \in Chat!Unheard(cards) : c \in ChatApplies}
  PROVE  AppliedInv'
<1>1. ui'.open = ui.open
  BY DEF Chat!Gone, ChatViews
<1>2. log'.tried = log.tried
  BY ReopenedTries DEF ChatCardsInv
<1> QED
  BY <1>1, <1>2, NoneLeft, CardsStay DEF ChatCardsInv

LEMMA MovesGone ==
  ASSUME ChatInv, NEW conv \in ChatNames
  PROVE  \E v \in ChatViews :
           /\ v.applied = ui.applied /\ v.busy = ui.busy /\ v.open = ui.open
           /\ Chat!Moves(conv) = Chat!Gone(v, Chat!Leaves)
<1> DEFINE u == [ui EXCEPT !.conv = conv]
           v == Chat!Moved(u)
<1>1. u \in ChatViews /\ u.applied = ui.applied /\ u.busy = ui.busy /\ u.open = ui.open
  BY DEF ChatInv, ChatShapes, ChatViews
<1> HIDE DEF u
<1>2. v \in ChatViews /\ v.applied = u.applied /\ v.busy = u.busy /\ v.open = u.open
  BY <1>1 DEF Chat!Moved, ChatViews
<1>3. Chat!Moves(conv) = Chat!Gone(v, Chat!Leaves)
  BY DEF Chat!Moves, u
<1> QED
  BY <1>1, <1>2, <1>3

LEMMA LeaveCards == ChatCardsInv /\ Chat!Leave => AppliedInv'
<1> SUFFICES ASSUME ChatCardsInv, Chat!Leave PROVE AppliedInv'
  OBVIOUS
<1> DEFINE v == [ui EXCEPT !.open = FALSE, !.streaming = FALSE, !.draft = 0, !.offers = FALSE]
<1>0. ChatInv /\ ui \in ChatViews
  BY DEF ChatCardsInv, ChatInv, ChatShapes
<1>1. v \in ChatViews /\ v.applied = ui.applied /\ v.busy = ui.busy
  BY <1>0 DEF ChatViews
<1>2. ui' = Chat!Gone(v, Chat!Cards) /\ log' = Chat!Reopened(Chat!Cards) /\ q' = q
      /\ net' = {[c EXCEPT !.live = FALSE] : c \in net}
  BY DEF Chat!Leave
<1> HIDE DEF v
<1>3. ASSUME log'.why = {} PROVE Calls = {} /\ Calls' = {}
  <2>1. \A c \in net : c \notin ChatApplies
    <3> SUFFICES ASSUME NEW c \in net, c \in ChatApplies PROVE FALSE
      OBVIOUS
    <3>1. c \in Chat!Applies /\ c.card \in Chat!Cards
      BY TurnsAre DEF Chat!Applies, ChatApplies
    <3>2. log' = [log EXCEPT !.why = @ \cup {"reopened"}]
      BY <1>2, <3>1 DEF Chat!Reopened
    <3>3. "reopened" \in log'.why
      BY <1>0, <3>2 DEF ChatInv, ChatShapes, ChatLogs
    <3> QED
      BY <1>3, <3>3
  <2>2. \A c \in net : [c EXCEPT !.live = FALSE] \in ChatTurns
    BY <1>0, <2>1 DEF ChatInv, ChatShapes, ChatTurns
  <2>3. \A c \in net' : c \in ChatTurns
    BY <1>2, <2>2
  <2> QED
    BY <2>1, <2>3, TurnsAre DEF Calls
<1>4. log'.tried = log.tried
  BY <1>0, <1>2, ReopenedTries
<1>5. log'.why = {} =>
        log.why = {} /\ \A x \in ui.applied : x \in q.marks => x \in ui'.applied
  BY <1>0, <1>1, <1>2, NoneLeft
<1> QED
  BY <1>2, <1>3, <1>4, <1>5, CardsStay DEF ChatCardsInv

LEMMA ReturnCards == ChatCardsInv /\ Chat!Return => AppliedInv'
<1> SUFFICES ASSUME ChatCardsInv, Chat!Return PROVE AppliedInv'
  OBVIOUS
<1> DEFINE v == [ui EXCEPT !.open = TRUE]
<1>1. v \in ChatViews /\ v.applied = ui.applied
  BY DEF ChatCardsInv, ChatInv, ChatShapes, ChatViews
<1>2. ui' = Chat!Gone(v, Chat!Cards) /\ q' = q /\ net' = net /\ log' = log /\ ~ui.open
  BY DEF Chat!Return
<1>3. ui'.applied = (v.applied \ Chat!Cards) \cup (q.marks \cap Chat!Cards)
  BY <1>1, <1>2 DEF Chat!Gone, ChatViews
<1> HIDE DEF v
<1>4. \A x \in ui.applied : x \in q.marks => x \in ui'.applied
  BY <1>1, <1>3
<1>5. Calls' = Calls
  BY <1>2 DEF Calls
<1>6. log.why = {} /\ log.tried # Chat!Cards => Calls = {}
  BY <1>2 DEF ChatCardsInv, AppliedInv
<1> QED
  BY <1>2, <1>4, <1>5, <1>6 DEF ChatCardsInv, AppliedInv

LEMMA NamedCards ==
  ASSUME ChatCardsInv, NEW c \in net, Chat!Named(c)
  PROVE  AppliedInv'
<1> DEFINE conv == IF c.fresh THEN Chat!Created(c.turn) ELSE c.conv
           d == [c EXCEPT !.st = "streaming", !.conv = conv]
           moves == c.fresh /\ ui.open
<1>0. ChatInv /\ ui \in ChatViews
  BY DEF ChatCardsInv, ChatInv, ChatShapes
<1>1. c \in ChatTurns
  BY <1>0, TurnsAre DEF Chat!Named, ChatInv, ChatShapes
<1>2. conv \in ChatNames
  BY <1>1 DEF Chat!Created, ChatTurns, ChatNames, Chat!Conversations
<1>3. /\ net' = ((IF moves THEN Chat!Unheard(Chat!Leaves) ELSE net) \ {c}) \cup {d} /\ q' = q
      /\ ui' = IF moves THEN Chat!Moves(conv) ELSE IF c.fresh THEN [ui EXCEPT !.conv = conv] ELSE ui
      /\ log' = IF moves THEN Chat!Reopened(Chat!Leaves) ELSE log
  BY DEF Chat!Named
<1> HIDE DEF conv
<1>4. d \in ChatTurns
  BY <1>1, <1>2 DEF ChatTurns
<1> HIDE DEF d
<1>5. CASE moves
  <2>1. Calls' = {e \in Chat!Unheard(Chat!Leaves) : e \in ChatApplies}
    BY <1>1, <1>3, <1>4, <1>5, TurnsAre DEF Calls
  <2>2. PICK v \in ChatViews :
          /\ v.applied = ui.applied /\ v.busy = ui.busy /\ v.open = ui.open
          /\ Chat!Moves(conv) = Chat!Gone(v, Chat!Leaves)
    BY <1>0, <1>2, MovesGone
  <2> QED
    BY <1>3, <1>5, <2>1, <2>2, LeavesAreCards, GoneKeeps
<1>6. CASE ~moves
  <2>1. Calls' = Calls
    BY <1>1, <1>3, <1>4, <1>6, TurnsAre DEF Calls
  <2>2. ui'.open = ui.open /\ ui'.busy = ui.busy /\ ui'.applied = ui.applied
    BY <1>0, <1>3, <1>6 DEF ChatViews
  <2> QED
    BY <1>3, <1>6, <2>1, <2>2, CardsStay DEF ChatCardsInv
<1> QED
  BY <1>5, <1>6

LEMMA SendCards == ChatCardsInv /\ Chat!Send => AppliedInv'
<1> SUFFICES ASSUME ChatCardsInv, Chat!Send PROVE AppliedInv'
  OBVIOUS
<1> DEFINE turn == log.n + 1
           d == [turn |-> turn, conv |-> ui.conv, fresh |-> ui.conv = Chat!None, live |-> TRUE, st |-> "sent"]
           v == [ui EXCEPT !.streaming = TRUE, !.draft = turn, !.offers = FALSE]
           l == Chat!Reopened({"bubble"})
           heard == \E c \in net : Chat!IsTurn(c) /\ c.live
<1>0. ChatInv /\ ui \in ChatViews /\ log \in ChatLogs
  BY DEF ChatCardsInv, ChatInv, ChatShapes
<1>1. /\ net' = Chat!Unheard({"bubble"}) \cup {d} /\ ui' = Chat!Gone(v, {"bubble"}) /\ q' = q
      /\ log' = [l EXCEPT !.n = turn, !.early = @ \/ heard]
  BY DEF Chat!Send
<1>2. turn \in Nat
  BY <1>0 DEF ChatLogs
<1>3. d \in ChatTurns
  BY <1>0, <1>2 DEF ChatViews, ChatTurns
<1>4. v \in ChatViews /\ v.applied = ui.applied /\ v.busy = ui.busy /\ v.open = ui.open
  BY <1>0, <1>2 DEF ChatViews
<1> HIDE DEF d, v
<1>5. l \in ChatLogs
  BY <1>0, ReopenedIs
<1> HIDE DEF turn, heard, l
<1>6. log'.why = l.why /\ log'.tried = l.tried
  BY <1>1, <1>5 DEF ChatLogs
<1>7. Calls' = {c \in Chat!Unheard({"bubble"}) : c \in ChatApplies}
  BY <1>1, <1>3, TurnsAre DEF Calls
<1> QED
  BY <1>1, <1>4, <1>6, <1>7, LeavesAreCards, GoneKeeps DEF l

LEMMA ReadBackCards ==
  ASSUME ChatCardsInv, NEW c \in net, Chat!ReadBack(c)
  PROVE  AppliedInv'
<1> DEFINE v == [ui EXCEPT !.draft = 0, !.offers = FALSE]
<1>0. ChatInv /\ ui \in ChatViews /\ q \in ChatStores
  BY DEF ChatCardsInv, ChatInv, ChatShapes
<1>1. c \in ChatTurns
  BY <1>0, TurnsAre DEF Chat!ReadBack, ChatInv, ChatShapes
<1>2. q'.made = q.made /\ q'.marks = q.marks
  BY <1>0 DEF Chat!ReadBack, Chat!Reads, ChatStores
<1>3. v \in ChatViews /\ v.applied = ui.applied /\ v.busy = ui.busy /\ v.open = ui.open
  BY <1>0 DEF ChatViews
<1>4. /\ ui' = IF c.live THEN Chat!Gone(v, {"bubble"}) ELSE ui
      /\ net' = (IF c.live THEN Chat!Unheard({"bubble"}) ELSE net) \ {c}
      /\ log' = IF c.live THEN Chat!Reopened({"bubble"}) ELSE log
  BY DEF Chat!ReadBack
<1> HIDE DEF v
<1>5. CASE c.live
  <2>1. Calls' = {e \in Chat!Unheard({"bubble"}) : e \in ChatApplies}
    BY <1>1, <1>4, <1>5, TurnsAre DEF Calls
  <2> QED
    BY <1>2, <1>3, <1>4, <1>5, <2>1, LeavesAreCards, GoneKeeps
<1>6. CASE ~c.live
  <2>1. Calls' = Calls
    BY <1>1, <1>4, <1>6, TurnsAre DEF Calls
  <2> QED
    BY <1>2, <1>4, <1>6, <2>1, CardsStay DEF ChatCardsInv
<1> QED
  BY <1>5, <1>6

(* What moves no card: a proposal, the end of a stream, a conversation read or picked. *)
LEMMA StreamsKeepCards ==
  ASSUME ChatCardsInv,
         \/ Chat!ReadHistory \/ \E conv \in Chat!Conversations : Chat!PickConversation(conv)
         \/ \E c \in net : Chat!Proposal(c) \/ Chat!Ends(c)
  PROVE  AppliedInv'
<1>0. ChatInv /\ ui \in ChatViews /\ q \in ChatStores /\ net \subseteq ChatTurns \cup ChatApplies
  BY DEF ChatCardsInv, ChatInv, ChatShapes
<1>1. /\ log' = log /\ q'.made = q.made /\ q'.marks = q.marks
      /\ ui'.open = ui.open /\ ui'.busy = ui.busy /\ ui'.applied = ui.applied
  <2>1. CASE Chat!ReadHistory \/ \E conv \in Chat!Conversations : Chat!PickConversation(conv)
    BY <1>0, <2>1 DEF Chat!ReadHistory, Chat!Reads, Chat!PickConversation, ChatViews, ChatStores
  <2>2. CASE \E c \in net : Chat!Proposal(c) \/ Chat!Ends(c)
    BY <1>0, <2>2 DEF Chat!Proposal, Chat!Ends, ChatViews, ChatStores
  <2> QED
    BY <2>1, <2>2
<1>2. Calls' = Calls
  <2>1. CASE ~\E c \in net : Chat!Ends(c)
    BY <2>1 DEF Chat!ReadHistory, Chat!PickConversation, Chat!Proposal, Calls
  <2>2. ASSUME NEW c \in net, Chat!Ends(c) PROVE Calls' = Calls
    <3>1. c \in ChatTurns /\ [c EXCEPT !.st = "ended"] \in ChatTurns
      BY <1>0, <2>2, TurnsAre DEF Chat!Ends, ChatTurns
    <3>2. net' \in {net \ {c}, (net \ {c}) \cup {[c EXCEPT !.st = "ended"]}}
      BY <2>2 DEF Chat!Ends
    <3> QED
      BY <3>1, <3>2, TurnsAre DEF Calls
  <2> QED
    BY <2>1, <2>2
<1> QED
  BY <1>1, <1>2, CardsStay DEF ChatCardsInv

(* A card is applied when it is neither busy nor applied: with one card only, for the *)
(* first time.                                                                        *)
LEMMA ApplyCards ==
  ASSUME ChatCardsInv, NEW card \in Chat!Cards, Chat!Apply(card)
  PROVE  AppliedInv'
<1> DEFINE d == [card |-> card, live |-> TRUE, st |-> "sent"]
<1>0. ui \in ChatViews /\ log \in ChatLogs
  BY DEF ChatCardsInv, ChatInv, ChatShapes
<1>1. /\ net' = net \cup {d} /\ q' = q /\ ui.open /\ card \notin ui.applied \cup ui.busy
      /\ ui' = [ui EXCEPT !.busy = @ \cup {card}] /\ log' = [log EXCEPT !.tried = @ \cup {card}]
  BY DEF Chat!Apply, Chat!Panel
<1>2. d \in ChatApplies /\ d.st = "sent" /\ d.live /\ d.card = card
  BY DEF ChatApplies
<1> HIDE DEF d
<1>3. /\ ui'.open /\ ui'.busy = ui.busy \cup {card}
      /\ log'.why = log.why /\ log'.tried = log.tried \cup {card}
  BY <1>0, <1>1 DEF ChatViews, ChatLogs
<1> SUFFICES ASSUME log.why = {}, log.tried \cup {card} # Chat!Cards PROVE AppliedInv'
  BY <1>3 DEF AppliedInv
<1>4. \A x \in log.tried : x = card
  BY <1>0 DEF ChatLogs, Chat!Cards
<1>5. log.tried # Chat!Cards
  BY <1>4 DEF Chat!Cards
<1>6. Calls = {} /\ q.made = 0
  BY <1>1, <1>4, <1>5 DEF ChatCardsInv, AppliedInv
<1>7. Calls' = {d}
  BY <1>1, <1>2, <1>6 DEF Calls
<1> QED
  BY <1>1, <1>2, <1>3, <1>6, <1>7 DEF AppliedInv

LEMMA CallsKeepCards ==
  ASSUME ChatCardsInv, NEW c \in net, Chat!Serve(c) \/ Chat!Done(c) \/ Chat!ApplyFails(c)
  PROVE  AppliedInv'
<1>0. ui \in ChatViews /\ log \in ChatLogs /\ q \in ChatStores /\ net \subseteq ChatTurns \cup ChatApplies
  BY DEF ChatCardsInv, ChatInv, ChatShapes
<1>1. c \in ChatApplies /\ c \in Calls
  BY <1>0, TurnsAre DEF Chat!Serve, Chat!Done, Chat!ApplyFails, Chat!Applies, Calls
<1>2. log'.why = {} => log.why = {} /\ log' = log
  BY <1>0 DEF Chat!Serve, Chat!Done, Chat!ApplyFails, ChatLogs
<1>3. log'.tried = log.tried
  BY <1>0 DEF Chat!Serve, Chat!Done, Chat!ApplyFails, ChatLogs
<1> SUFFICES ASSUME log'.why = {}, log.why = {}, log' = log, log.tried # Chat!Cards PROVE AppliedInv'
  BY <1>2, <1>3 DEF AppliedInv
<1>4. /\ Calls = {c} /\ c.live /\ c.card \in log.tried /\ c.card \in ui.busy /\ ui.open
      /\ q.made = IF c.st = "done" THEN 1 ELSE 0
  BY <1>1 DEF ChatCardsInv, AppliedInv
<1>5. CASE Chat!Serve(c)
  <2> DEFINE d == [c EXCEPT !.st = "done"]
  <2>1. d \in ChatApplies /\ d.st = "done" /\ d.live = c.live /\ d.card = c.card
    BY <1>1 DEF ChatApplies
  <2>2. net' = (net \ {c}) \cup {d} /\ ui' = ui /\ c.st = "sent" /\ q' = [q EXCEPT !.made = @ + 1]
    BY <1>5 DEF Chat!Serve, Chat!Served
  <2> HIDE DEF d
  <2>3. Calls' = {d} /\ q'.made = 1
    BY <1>0, <1>4, <2>1, <2>2 DEF Calls, ChatStores
  <2> QED
    BY <1>4, <2>1, <2>2, <2>3 DEF AppliedInv
<1>6. CASE Chat!Done(c)
  <2>1. /\ net' = net \ {c} /\ c.st = "done"
        /\ q' = [q EXCEPT !.marks = @ \cup {c.card}]
        /\ ui' = [ui EXCEPT !.busy = @ \ {c.card}, !.applied = @ \cup {c.card}]
    BY <1>4, <1>6 DEF Chat!Done, Chat!Remembered
  <2>2. Calls' = {} /\ q'.made = 1 /\ c.card \in q'.marks /\ c.card \in ui'.applied
    BY <1>0, <1>4, <2>1 DEF Calls, ChatStores, ChatViews
  <2> QED
    BY <1>4, <2>2 DEF AppliedInv
<1>7. CASE Chat!ApplyFails(c)
  <2>1. c.st # "done"
    <3> SUFFICES ASSUME c.st = "done" PROVE FALSE
      OBVIOUS
    <3>1. log' = [log EXCEPT !.why = @ \cup {"lost"}]
      BY <1>7 DEF Chat!ApplyFails
    <3>2. "lost" \in log'.why
      BY <1>0, <3>1 DEF ChatLogs
    <3> QED
      BY <3>2
  <2>2. Calls' = {} /\ q'.made = 0
    BY <1>4, <1>7, <2>1 DEF Chat!ApplyFails, Calls
  <2> QED
    BY <2>2 DEF AppliedInv
<1> QED
  BY <1>5, <1>6, <1>7

LEMMA NextChatCards == ChatCardsInv /\ [Chat!Next]_Chat!vars => ChatCardsInv'
<1> SUFFICES ASSUME ChatCardsInv, [Chat!Next]_Chat!vars PROVE ChatCardsInv'
  OBVIOUS
<1>0. ChatInv'
  BY NextChat DEF ChatCardsInv
<1> SUFFICES AppliedInv'
  BY <1>0 DEF ChatCardsInv
<1>1. CASE UNCHANGED Chat!vars
  BY <1>1 DEF Chat!vars, ChatCardsInv, AppliedInv, Calls
<1>2. CASE Chat!Leave \/ Chat!Return \/ Chat!Send
  BY <1>2, LeaveCards, ReturnCards, SendCards
<1>3. CASE Chat!NewConversation
  <2>1. ui' = Chat!Moves(Chat!None) /\ log' = Chat!Reopened(Chat!Leaves)
        /\ net' = Chat!Unheard(Chat!Leaves) /\ q' = q
    BY <1>3 DEF Chat!NewConversation
  <2>2. Chat!None \in ChatNames
    BY DEF ChatNames
  <2>3. PICK v \in ChatViews :
          /\ v.applied = ui.applied /\ v.busy = ui.busy /\ v.open = ui.open
          /\ Chat!Moves(Chat!None) = Chat!Gone(v, Chat!Leaves)
    BY <2>2, MovesGone DEF ChatCardsInv
  <2>4. Calls' = {e \in Chat!Unheard(Chat!Leaves) : e \in ChatApplies}
    BY <2>1 DEF Calls
  <2> QED
    BY <2>1, <2>3, <2>4, LeavesAreCards, GoneKeeps
<1>4. CASE \/ Chat!ReadHistory \/ \E conv \in Chat!Conversations : Chat!PickConversation(conv)
           \/ \E c \in net : Chat!Proposal(c) \/ Chat!Ends(c)
  BY <1>4, StreamsKeepCards
<1>5. ASSUME NEW c \in net, Chat!Named(c) \/ Chat!ReadBack(c) PROVE AppliedInv'
  BY <1>5, NamedCards, ReadBackCards
<1>6. ASSUME NEW card \in Chat!Cards, Chat!Apply(card) PROVE AppliedInv'
  BY <1>6, ApplyCards
<1>7. ASSUME NEW c \in net, Chat!Serve(c) \/ Chat!Done(c) \/ Chat!ApplyFails(c) PROVE AppliedInv'
  BY <1>7, CallsKeepCards
<1> QED
  BY <1>1, <1>2, <1>3, <1>4, <1>5, <1>6, <1>7 DEF Chat!Next
-----------------------------------------------------------------------------
(* The lists of three pages. What is old has a clean fetch on its way, or an *)
(* answer that is to ask for one, unless a write is known to leave it old.   *)
CacheRows(keys) == [key : keys, old : BOOLEAN, fetch : {"none", "clean", "dirty"}]
ListLogs == [n : Nat, left : BOOLEAN]

AssetCalls == [do : Assets!Writes, of : {Assets!None}, st : {"sent", "done"}]
AssetsComing(calls, key) == \E c \in calls : c.st = "done" /\ key \in Assets!Affects(c.do)
AssetsInv ==
  /\ q \in CacheRows(Assets!Keys) /\ net \subseteq AssetCalls /\ log \in ListLogs
  /\ q.fetch = "dirty" => q.old
  /\ q.old /\ ~log.left => q.fetch = "clean" \/ AssetsComing(net, q.key)

LEMMA InitAssets == Assets!Init => AssetsInv
<1> SUFFICES ASSUME Assets!Init PROVE AssetsInv
  OBVIOUS
<1>1. q \in CacheRows(Assets!Keys) /\ ~q.old /\ q.fetch = "none"
  BY DEF Assets!Init, Assets!Settled, CacheRows
<1>2. log \in ListLogs
  BY DEF Assets!Init, ListLogs
<1> QED
  BY <1>1, <1>2 DEF Assets!Init, AssetsInv

(* Nothing is written and nothing answered. *)
LEMMA AssetsViewKeeps ==
  ASSUME AssetsInv, q' = q, net \subseteq net', net' \subseteq AssetCalls,
         log' \in ListLogs, log'.left = log.left
  PROVE  AssetsInv'
BY DEF AssetsInv, AssetsComing

LEMMA AssetsChangesKeeps ==
  ASSUME AssetsInv, NEW v, Assets!Changes(v)
  PROVE  AssetsInv'
BY AssetsViewKeeps DEF Assets!Changes, AssetsInv

LEMMA AssetsWriteKeeps ==
  ASSUME AssetsInv, NEW do \in Assets!Writes, Assets!Write(do)
  PROVE  AssetsInv'
<1> DEFINE c == Assets!Sent(do, Assets!None)
<1>1. net' = net \cup {c} /\ log' = [log EXCEPT !.n = @ + 1] /\ q' = q
  BY DEF Assets!Write
<1>2. c \in AssetCalls
  BY DEF Assets!Sent, AssetCalls
<1> HIDE DEF c
<1>3. log' \in ListLogs /\ log'.left = log.left
  BY <1>1 DEF AssetsInv, ListLogs
<1>4. net \subseteq net' /\ net' \subseteq AssetCalls
  BY <1>1, <1>2 DEF AssetsInv
<1> QED
  BY <1>1, <1>3, <1>4, AssetsViewKeeps

(* A write makes lists old, and is itself the answer that they wait for. *)
LEMMA AssetsServeKeeps ==
  ASSUME AssetsInv, NEW c \in net, Assets!Serve(c)
  PROVE  AssetsInv'
<1> DEFINE d == [c EXCEPT !.st = "done"]
<1>1. c \in AssetCalls /\ c.st = "sent" /\ log' = log /\ net' = (net \ {c}) \cup {d}
  BY DEF AssetsInv, Assets!Serve, Assets!Served
<1>2. d \in AssetCalls /\ d.st = "done" /\ d.do = c.do
  BY <1>1 DEF AssetCalls
<1> HIDE DEF d
<1>3. net' \subseteq AssetCalls /\ (AssetsComing(net, q.key) => AssetsComing(net', q.key))
  BY <1>1, <1>2 DEF AssetsInv, AssetsComing
<1>4. CASE q.key \in Assets!Affects(c.do)
  <2>1. q' = [q EXCEPT !.old = TRUE, !.fetch = IF @ = "none" THEN @ ELSE "dirty"]
    BY <1>4 DEF Assets!Serve, Assets!Wrote
  <2>2. q' \in CacheRows(Assets!Keys) /\ q'.old /\ q'.key = q.key
    BY <2>1 DEF AssetsInv, CacheRows
  <2>3. AssetsComing(net', q.key)
    BY <1>1, <1>2, <1>4 DEF AssetsComing
  <2> QED
    BY <1>1, <1>3, <2>2, <2>3 DEF AssetsInv
<1>5. CASE q.key \notin Assets!Affects(c.do)
  <2>1. q' = q
    BY <1>5 DEF Assets!Serve, Assets!Wrote
  <2> QED
    BY <1>1, <1>3, <2>1 DEF AssetsInv
<1> QED
  BY <1>4, <1>5

(* Each write asks for what it made old, or is known to leave it. *)
LEMMA AssetsAskOrLeave ==
  ASSUME NEW do \in Assets!Writes, NEW key \in Assets!Keys, key \in Assets!Affects(do)
  PROVE  key \in Assets!Refetches(do) \/ do \in Assets!LeftBy[key]
BY DEF Assets!Writes, Assets!Keys, Assets!Affects, Assets!Refetches, Assets!LeftBy

LEMMA AssetsAnswerKeeps ==
  ASSUME AssetsInv, NEW c \in net, Assets!Answer(c)
  PROVE  AssetsInv'
<1> DEFINE left == (log.left \/ c.do \in Assets!LeftBy[q.key]) /\ q.key \notin Assets!Refetches(c.do)
<1>1. /\ c \in AssetCalls /\ net' = net \ {c} /\ log' = [log EXCEPT !.left = left]
      /\ q' = Assets!Refetch(q, Assets!Refetches(c.do))
  BY DEF AssetsInv, Assets!Answer
<1>2. left \in BOOLEAN
  BY DEF AssetsInv, ListLogs
<1>3. log' \in ListLogs /\ log'.left = left /\ net' \subseteq AssetCalls
  BY <1>1, <1>2 DEF AssetsInv, ListLogs
<1>4. CASE q.key \in Assets!Refetches(c.do)
  <2>1. q' = [q EXCEPT !.fetch = "clean"]
    BY <1>1, <1>4 DEF Assets!Refetch
  <2>2. q' \in CacheRows(Assets!Keys) /\ q'.fetch = "clean"
    BY <2>1 DEF AssetsInv, CacheRows
  <2> QED
    BY <1>3, <2>2 DEF AssetsInv
<1>5. CASE q.key \notin Assets!Refetches(c.do)
  <2>1. q' = q
    BY <1>1, <1>5 DEF Assets!Refetch
  <2>2. ~log'.left => q.key \notin Assets!Affects(c.do)
    BY <1>1, <1>3, <1>5, AssetsAskOrLeave DEF AssetsInv, AssetCalls, CacheRows
  <2>3. ~log'.left /\ AssetsComing(net, q.key) => AssetsComing(net', q.key)
    BY <1>1, <2>2 DEF AssetsComing
  <2>4. ~log'.left => ~log.left
    BY <1>3, <1>5
  <2> QED
    BY <1>3, <2>1, <2>3, <2>4 DEF AssetsInv
<1> QED
  BY <1>4, <1>5

(* What is done and whose answer is lost, leaves its lists. *)
LEMMA AssetsFailKeeps ==
  ASSUME AssetsInv, NEW c \in net, Assets!Fail(c)
  PROVE  AssetsInv'
<1> DEFINE left == log.left \/ (c.st = "done" /\ q.key \in Assets!Affects(c.do))
<1>1. net' = net \ {c} /\ q' = q /\ log' = [log EXCEPT !.left = left] /\ left \in BOOLEAN
  BY DEF Assets!Fail, AssetsInv, ListLogs
<1>2. ~left => ~log.left /\ ~(c.st = "done" /\ q.key \in Assets!Affects(c.do))
  OBVIOUS
<1> HIDE DEF left
<1>3. log' \in ListLogs /\ log'.left = left
  BY <1>1 DEF AssetsInv, ListLogs
<1>4. ~left /\ AssetsComing(net, q.key) => AssetsComing(net', q.key)
  BY <1>1, <1>2 DEF AssetsComing
<1> QED
  BY <1>1, <1>2, <1>3, <1>4 DEF AssetsInv

(* A fetch ends, well or not, or the page is looked at again. *)
LEMMA AssetsFetchKeeps ==
  ASSUME AssetsInv, Assets!Fetch \/ Assets!FetchFails \/ Assets!Revisit
  PROVE  AssetsInv'
<1>1. CASE Assets!Fetch
  <2>1. net' = net /\ log' = [log EXCEPT !.left = @ /\ q'.old] /\ q' \in Assets!Fetched(q)
    BY <1>1 DEF Assets!Fetch
  <2>2. /\ q' \in CacheRows(Assets!Keys) /\ q'.key = q.key /\ q'.fetch = "none"
        /\ q'.old => q.fetch = "dirty"
    BY <2>1 DEF Assets!Fetched, AssetsInv, CacheRows
  <2>3. log' \in ListLogs /\ log'.left = (log.left /\ q'.old)
    BY <2>1, <2>2 DEF AssetsInv, ListLogs, CacheRows
  <2> QED
    BY <2>1, <2>2, <2>3 DEF AssetsInv
<1>2. CASE Assets!FetchFails
  <2>1. net' = net /\ log' = [log EXCEPT !.left = @ \/ q.old] /\ q' = [q EXCEPT !.fetch = "none"]
    BY <1>2 DEF Assets!FetchFails, Assets!Dropped
  <2>2. q' \in CacheRows(Assets!Keys) /\ q'.old = q.old /\ q'.fetch = "none"
    BY <2>1 DEF AssetsInv, CacheRows
  <2>3. log' \in ListLogs /\ log'.left = (log.left \/ q.old)
    BY <2>1 DEF AssetsInv, ListLogs, CacheRows
  <2> QED
    BY <2>1, <2>2, <2>3 DEF AssetsInv
<1>3. CASE Assets!Revisit
  <2>1. net' = net /\ log' = log /\ q' = [q EXCEPT !.fetch = "clean"]
    BY <1>3 DEF Assets!Revisit, Assets!Revisited
  <2>2. q' \in CacheRows(Assets!Keys) /\ q'.fetch = "clean"
    BY <2>1 DEF AssetsInv, CacheRows
  <2> QED
    BY <2>1, <2>2 DEF AssetsInv
<1> QED
  BY <1>1, <1>2, <1>3

LEMMA NextAssets == AssetsInv /\ [Assets!Next]_Assets!vars => AssetsInv'
<1> SUFFICES ASSUME AssetsInv, [Assets!Next]_Assets!vars PROVE AssetsInv'
  OBVIOUS
<1>1. CASE UNCHANGED Assets!vars
  BY <1>1 DEF Assets!vars, AssetsInv
<1>2. CASE \/ Assets!Close
           \/ \E tab \in {"holdings", "ledger"} : Assets!Tab(tab)
           \/ \E d \in Assets!Dialogs : \/ Assets!OpenFromHeader(d) \/ Assets!OpenFromHolding(d)
                                        \/ Assets!OpenFromWallet(d) \/ Assets!OpenFromLedger(d)
  BY <1>2, AssetsChangesKeeps DEF Assets!Close, Assets!Tab, Assets!Open, Assets!OpenFromHeader,
     Assets!OpenFromHolding, Assets!OpenFromWallet, Assets!OpenFromLedger
<1>3. CASE \/ \E do \in {"create", "update"} : Assets!SaveAsset(do)
           \/ Assets!SaveWallet \/ Assets!Delete \/ Assets!DeleteWallet \/ Assets!Move \/ Assets!AddTrade
           \/ Assets!SaveTrade \/ Assets!DeleteTrade \/ Assets!AddValue \/ Assets!DeleteInRow
           \/ Assets!SyncWallet
  <2>1. PICK do \in {"create", "update", "wallet", "delete", "deleteWallet", "move", "trade", "value",
                     "sync"} :
          Assets!Write(do)
    BY <1>3 DEF Assets!SaveAsset, Assets!SaveWallet, Assets!Delete, Assets!DeleteWallet, Assets!Move,
       Assets!AddTrade, Assets!SaveTrade, Assets!DeleteTrade, Assets!AddValue, Assets!DeleteInRow,
       Assets!SyncWallet, Assets!Press, Assets!Confirm
  <2>2. do \in Assets!Writes
    BY DEF Assets!Writes
  <2> QED
    BY <2>1, <2>2, AssetsWriteKeeps
<1>4. ASSUME NEW c \in net, Assets!Serve(c) \/ Assets!Answer(c) \/ Assets!Fail(c) PROVE AssetsInv'
  BY <1>4, AssetsServeKeeps, AssetsAnswerKeeps, AssetsFailKeeps
<1>5. CASE Assets!Fetch \/ Assets!FetchFails \/ Assets!Revisit
  BY <1>5, AssetsFetchKeeps
<1> QED
  BY <1>1, <1>2, <1>3, <1>4, <1>5 DEF Assets!Next

(* Of the planning pages: whatever is old is of a list that every write of the page reaches. *)
PlanListsInv ==
  /\ PlanInv
  /\ q \in CacheRows(Planning!Keys) /\ log \in ListLogs
  /\ q.fetch = "dirty" => q.old
  /\ q.old => q.key \in Planning!Affects
  /\ q.old /\ ~log.left => q.fetch = "clean" \/ \E c \in net : c.st = "done"

LEMMA InitPlanLists == Planning!Init => PlanListsInv
<1> SUFFICES ASSUME Planning!Init PROVE PlanListsInv
  OBVIOUS
<1>1. q \in CacheRows(Planning!Keys) /\ ~q.old /\ q.fetch = "none"
  BY DEF Planning!Init, Planning!Settled, CacheRows
<1>2. log \in ListLogs
  BY DEF Planning!Init, ListLogs
<1> QED
  BY <1>1, <1>2, InitPlan DEF PlanListsInv

(* Nothing is written and nothing answered. *)
LEMMA PlanListsViewKeeps ==
  ASSUME PlanListsInv, PlanInv', ui'.list = ui.list, q' = q, net \subseteq net',
         log' \in ListLogs, log'.left = log.left
  PROVE  PlanListsInv'
<1>1. Planning!Affects' = Planning!Affects
  BY DEF Planning!Affects, Planning!On
<1> QED
  BY <1>1 DEF PlanListsInv

LEMMA PlanListsChangesKeeps ==
  ASSUME PlanListsInv, PlanInv', NEW v, Planning!Changes(v), v.list = ui.list
  PROVE  PlanListsInv'
BY PlanListsViewKeeps DEF Planning!Changes, PlanListsInv

LEMMA PlanListsWriteKeeps ==
  ASSUME PlanListsInv, PlanInv', NEW do, NEW id, NEW from, NEW then, Planning!Write(do, id, from, then)
  PROVE  PlanListsInv'
<1>1. /\ net \subseteq net' /\ log' = [log EXCEPT !.n = @ + 1]
      /\ ui' = ui /\ q' = q
  BY DEF Planning!Write
<1>2. log' \in ListLogs /\ log'.left = log.left
  BY <1>1 DEF PlanListsInv, ListLogs
<1> QED
  BY <1>1, <1>2, PlanListsViewKeeps

LEMMA PlanListsServeKeeps ==
  ASSUME PlanListsInv, PlanInv', NEW c \in net, Planning!Serve(c)
  PROVE  PlanListsInv'
<1> DEFINE d == [c EXCEPT !.st = "done"]
<1>1. c \in PlanCalls /\ ui' = ui /\ log' = log /\ net' = (net \ {c}) \cup {d} /\ c.st = "sent"
  BY DEF PlanListsInv, PlanInv, Planning!Serve, Planning!Served
<1>2. d.st = "done"
  BY <1>1 DEF PlanCalls
<1> HIDE DEF d
<1>3. (\E e \in net' : e.st = "done") /\ Planning!Affects' = Planning!Affects
  BY <1>1, <1>2 DEF Planning!Affects, Planning!On
<1>4. CASE q.key \in Planning!Affects
  <2>1. q' = [q EXCEPT !.old = TRUE, !.fetch = IF @ = "none" THEN @ ELSE "dirty"]
    BY <1>4 DEF Planning!Serve, Planning!Wrote
  <2>2. q' \in CacheRows(Planning!Keys) /\ q'.old /\ q'.key = q.key
    BY <2>1 DEF PlanListsInv, CacheRows
  <2> QED
    BY <1>1, <1>3, <1>4, <2>2 DEF PlanListsInv
<1>5. CASE q.key \notin Planning!Affects
  <2>1. q' = q
    BY <1>5 DEF Planning!Serve, Planning!Wrote
  <2> QED
    BY <1>1, <1>3, <2>1 DEF PlanListsInv
<1> QED
  BY <1>4, <1>5

(* A dialog that a handler closes is of the same list. *)
LEMMA PlanHandledIsOfList ==
  ASSUME PlanInv, NEW c \in net
  PROVE  Planning!Handled(c).list = ui.list
<1> DEFINE u == [ui EXCEPT !.editing = Planning!None]
<1>1. ui \in PlanViews /\ u \in PlanViews /\ u.list = ui.list
  BY DEF PlanInv, PlanViews
<1> HIDE DEF u
<1>2. Planning!Closed(ui).list = ui.list /\ Planning!Closed(u).list = ui.list
  BY <1>1 DEF Planning!Closed, PlanViews
<1>3. [ui EXCEPT !.deleting = Planning!None].list = ui.list
  BY <1>1 DEF PlanViews
<1> QED
  BY <1>2, <1>3 DEF Planning!Handled, u

(* Each page asks for what its writes make old, but for the advice beside the budgets. *)
LEMMA PlanAsksOrLeaves ==
  ASSUME PlanInv, q.key \in Planning!Affects
  PROVE  q.key \in Planning!Refetches \/ (Planning!On({"budgets"}) /\ q.key = "insights")
<1>1. ui.list \in Planning!Lists
  BY DEF PlanInv, PlanViews
<1> QED
  BY <1>1 DEF Planning!Affects, Planning!Refetches, Planning!On, Planning!Lists

LEMMA PlanListsAnswerKeeps ==
  ASSUME PlanListsInv, PlanInv', NEW c \in net, Planning!Answer(c)
  PROVE  PlanListsInv'
<1> DEFINE left == /\ log.left \/ (Planning!On({"budgets"}) /\ q.key = "insights")
                   /\ q.key \notin Planning!Refetches
<1>1. /\ ui' = Planning!Handled(c) /\ q' = Planning!Refetch(q, Planning!Refetches)
      /\ log' = [log EXCEPT !.left = left]
  BY DEF Planning!Answer
<1>2. left \in BOOLEAN
  BY DEF PlanListsInv, ListLogs
<1>3. log' \in ListLogs /\ log'.left = left
  BY <1>1, <1>2 DEF PlanListsInv, ListLogs
<1>4. Planning!Affects' = Planning!Affects
  BY <1>1, PlanHandledIsOfList DEF PlanListsInv, Planning!Affects, Planning!On
<1>5. CASE q.key \in Planning!Refetches
  <2>1. q' = [q EXCEPT !.fetch = "clean"]
    BY <1>1, <1>5 DEF Planning!Refetch
  <2>2. q' \in CacheRows(Planning!Keys) /\ q'.fetch = "clean" /\ q'.old = q.old /\ q'.key = q.key
    BY <2>1 DEF PlanListsInv, CacheRows
  <2> QED
    BY <1>3, <1>4, <2>2 DEF PlanListsInv
<1>6. CASE q.key \notin Planning!Refetches
  <2>1. q' = q
    BY <1>1, <1>6 DEF Planning!Refetch
  <2>2. q.old => log'.left
    BY <1>3, <1>6, PlanAsksOrLeaves DEF PlanListsInv
  <2> QED
    BY <1>3, <1>4, <2>1, <2>2 DEF PlanListsInv
<1> QED
  BY <1>5, <1>6

LEMMA PlanListsFailKeeps ==
  ASSUME PlanListsInv, PlanInv', NEW c \in net, Planning!Fail(c)
  PROVE  PlanListsInv'
<1> DEFINE left == log.left \/ (c.st = "done" /\ q.key \in Planning!Affects)
<1>1. net' = net \ {c} /\ ui' = ui /\ q' = q /\ log' = [log EXCEPT !.left = left]
  BY DEF Planning!Fail
<1>2. left \in BOOLEAN
  BY DEF PlanListsInv, ListLogs
<1>3. log' \in ListLogs /\ log'.left = left
  BY <1>1, <1>2 DEF PlanListsInv, ListLogs
<1>4. Planning!Affects' = Planning!Affects
  BY <1>1 DEF Planning!Affects, Planning!On
<1>5. q.old /\ ~log'.left => ~log.left /\ \A e \in net : e.st = "done" => e \in net'
  BY <1>1, <1>3 DEF PlanListsInv
<1> QED
  BY <1>1, <1>3, <1>4, <1>5 DEF PlanListsInv

LEMMA PlanListsFetchKeeps ==
  ASSUME PlanListsInv, PlanInv', Planning!Fetch \/ Planning!FetchFails \/ Planning!Revisit
  PROVE  PlanListsInv'
<1>1. net' = net /\ Planning!Affects' = Planning!Affects
  BY DEF Planning!Fetch, Planning!FetchFails, Planning!Revisit, Planning!Affects, Planning!On
<1>2. CASE Planning!Fetch
  <2>1. log' = [log EXCEPT !.left = @ /\ q'.old] /\ q' \in Planning!Fetched(q)
    BY <1>2 DEF Planning!Fetch
  <2>2. /\ q' \in CacheRows(Planning!Keys) /\ q'.key = q.key /\ q'.fetch = "none"
        /\ q'.old => q.fetch = "dirty"
    BY <2>1 DEF Planning!Fetched, PlanListsInv, CacheRows
  <2>3. log' \in ListLogs /\ log'.left = (log.left /\ q'.old)
    BY <2>1, <2>2 DEF PlanListsInv, ListLogs, CacheRows
  <2>4. q'.old => /\ q.old /\ q'.key \in Planning!Affects'
                  /\ ~log'.left => \E c \in net' : c.st = "done"
    BY <1>1, <2>2, <2>3 DEF PlanListsInv
  <2> QED
    BY <2>2, <2>3, <2>4 DEF PlanListsInv
<1>3. CASE Planning!FetchFails
  <2>1. log' = [log EXCEPT !.left = @ \/ q.old] /\ q' = [q EXCEPT !.fetch = "none"]
    BY <1>3 DEF Planning!FetchFails, Planning!Dropped
  <2>2. q' \in CacheRows(Planning!Keys) /\ q'.key = q.key /\ q'.old = q.old /\ q'.fetch = "none"
    BY <2>1 DEF PlanListsInv, CacheRows
  <2>3. log' \in ListLogs /\ log'.left = (log.left \/ q.old)
    BY <2>1 DEF PlanListsInv, ListLogs, CacheRows
  <2>4. (q'.old => q'.key \in Planning!Affects' /\ log'.left) /\ q'.fetch # "dirty"
    BY <1>1, <2>2, <2>3 DEF PlanListsInv
  <2> QED
    BY <2>2, <2>3, <2>4 DEF PlanListsInv
<1>4. CASE Planning!Revisit
  <2>1. log' = log /\ q' = [q EXCEPT !.fetch = "clean"]
    BY <1>4 DEF Planning!Revisit, Planning!Revisited
  <2>2. q' \in CacheRows(Planning!Keys) /\ q'.key = q.key /\ q'.old = q.old /\ q'.fetch = "clean"
    BY <2>1 DEF PlanListsInv, CacheRows
  <2> QED
    BY <1>1, <2>1, <2>2 DEF PlanListsInv
<1> QED
  BY <1>2, <1>3, <1>4

LEMMA NextPlanLists == PlanListsInv /\ [Planning!Next]_Planning!vars => PlanListsInv'
<1> SUFFICES ASSUME PlanListsInv, [Planning!Next]_Planning!vars PROVE PlanListsInv'
  OBVIOUS
<1>0. PlanInv' /\ PlanInv /\ ui \in PlanViews
  BY NextPlan DEF PlanListsInv, PlanInv
<1>1. CASE UNCHANGED Planning!vars
  BY <1>0, <1>1, PlanListsViewKeeps DEF Planning!vars, PlanListsInv
<1>2. CASE Planning!Close \/ Planning!CloseDelete \/ \E r \in Planning!Ids : Planning!AskDelete(r)
  <2> DEFINE u == [ui EXCEPT !.editing = Planning!None]
  <2>1. CASE Planning!Close
    <3>1. u \in PlanViews /\ u.list = ui.list
      BY <1>0 DEF PlanViews
    <3> HIDE DEF u
    <3>2. Planning!Closed(u).list = ui.list
      BY <3>1 DEF Planning!Closed, PlanViews
    <3> QED
      BY <1>0, <2>1, <3>2, PlanListsChangesKeeps DEF Planning!Close, u
  <2>2. CASE Planning!CloseDelete \/ \E r \in Planning!Ids : Planning!AskDelete(r)
    <3>1. PICK r : Planning!Changes([ui EXCEPT !.deleting = r])
      BY <2>2 DEF Planning!CloseDelete, Planning!AskDelete
    <3>2. [ui EXCEPT !.deleting = r].list = ui.list
      BY <1>0 DEF PlanViews
    <3> QED
      BY <1>0, <3>1, <3>2, PlanListsChangesKeeps
  <2> QED
    BY <1>2, <2>1, <2>2
<1>3. ASSUME NEW r \in Planning!Ids \cup {Planning!None},
             \/ Planning!OpenBill(r) \/ Planning!OpenGoal(r)
             \/ Planning!OpenBudget(r) \/ Planning!OpenCollection(r)
      PROVE  PlanListsInv'
  <2> DEFINE v == Planning!Filled([ui EXCEPT !.editing = r])
  <2>1. Planning!Changes(v)
    BY <1>3 DEF Planning!OpenBill, Planning!OpenGoal, Planning!OpenBudget, Planning!OpenCollection,
       Planning!Opens
  <2>2. v.list = ui.list
    BY <1>0 DEF Planning!Filled, PlanViews
  <2> HIDE DEF v
  <2> QED
    BY <1>0, <2>1, <2>2, PlanListsChangesKeeps
<1>4. CASE \/ Planning!SaveGoal \/ Planning!SaveBudget \/ Planning!SaveCollection
           \/ \E then \in BOOLEAN : Planning!SaveBill(then)
           \/ Planning!Delete \/ Planning!Generate
           \/ \E r \in Planning!Ids : Planning!SetStatus(r) \/ Planning!Backfill(r)
  <2>1. PICK do, id, from, then : Planning!Write(do, id, from, then)
    BY <1>4 DEF Planning!SaveGoal, Planning!SaveBudget, Planning!SaveCollection, Planning!SaveBill,
       Planning!Save,
       Planning!Delete, Planning!Generate, Planning!SetStatus, Planning!Backfill
  <2> QED
    BY <1>0, <2>1, PlanListsWriteKeeps
<1>5. ASSUME NEW c \in net, Planning!Serve(c) \/ Planning!Answer(c) \/ Planning!Fail(c) PROVE PlanListsInv'
  BY <1>0, <1>5, PlanListsServeKeeps, PlanListsAnswerKeeps, PlanListsFailKeeps
<1>6. CASE Planning!Fetch \/ Planning!FetchFails \/ Planning!Revisit
  BY <1>0, <1>6, PlanListsFetchKeeps
<1> QED
  BY <1>1, <1>2, <1>3, <1>4, <1>5, <1>6 DEF Planning!Next
-----------------------------------------------------------------------------
(* The import page, whose lists are as those of the assets, with previews *)
(* among the calls.                                                       *)
ImportFiles == Import!Files \cup {0}
ImportViews ==
  [tab : {"statement", "orders"}, writer : BOOLEAN, file : ImportFiles, options : Import!Options,
   preview : [file : ImportFiles, options : Import!Options], out : BOOLEAN, account : BOOLEAN, undo : BOOLEAN]
ImportCalls ==
  [do : {"preview", "import", "undo"}, of : [file : ImportFiles, options : Import!Options, n : Nat],
   st : {"sent", "done"}]
ImportLogs == [n : Nat, asked : Nat, left : BOOLEAN]
ImportShapes == ui \in ImportViews /\ net \subseteq ImportCalls /\ log \in ImportLogs

ImportComing(calls, key) == \E c \in calls : c.st = "done" /\ key \in Import!Affects(c)
ImportFresh ==
  /\ q \in CacheRows(Import!Keys)
  /\ \A c \in net : c.do = "preview" => c.st = "sent"
  /\ q.fetch = "dirty" => q.old
  /\ q.old /\ ~log.left => q.fetch = "clean" \/ ImportComing(net, q.key)

ImportInv == ImportShapes /\ ImportFresh

LEMMA InitImport == Import!Init => ImportInv
<1> SUFFICES ASSUME Import!Init PROVE ImportInv
  OBVIOUS
<1>1. PICK tab \in {"statement", "orders"}, writer \in BOOLEAN : ui = Import!Blank(tab, writer)
  BY DEF Import!Init
<1>2. ui \in ImportViews
  BY <1>1 DEF Import!Blank, ImportViews, ImportFiles, Import!Options, Import!NoPreview
<1>3. log \in ImportLogs
  BY DEF Import!Init, ImportLogs
<1>4. q \in CacheRows(Import!Keys) /\ ~q.old /\ q.fetch = "none"
  BY DEF Import!Init, Import!Settled, CacheRows
<1> QED
  BY <1>2, <1>3, <1>4 DEF Import!Init, ImportInv, ImportShapes, ImportFresh

LEMMA ImportConstants ==
  /\ 0 \in Import!Options /\ 0 \in ImportFiles /\ Import!Files \subseteq ImportFiles
  /\ Import!NoPreview \in [file : ImportFiles, options : Import!Options]
BY DEF ImportFiles, Import!Options, Import!NoPreview

LEMMA BlankIsEmpty ==
  ASSUME NEW tab \in {"statement", "orders"}, NEW writer \in BOOLEAN, NEW o \in Import!Options
  PROVE  /\ Import!Blank(tab, writer) \in ImportViews
         /\ [Import!Blank(tab, writer) EXCEPT !.options = o] \in ImportViews
<1> DEFINE b == Import!Blank(tab, writer)
<1>1. b \in ImportViews
  BY ImportConstants DEF Import!Blank, ImportViews
<1> HIDE DEF b
<1>2. [b EXCEPT !.options = o] \in ImportViews
  BY <1>1 DEF ImportViews
<1> QED
  BY <1>1, <1>2 DEF b

(* Nothing is written and nothing answered: the lists stay as they are. *)
LEMMA FreshStays ==
  ASSUME ImportFresh, q' = q, \A c \in net : c.st = "done" => c \in net', log'.left = log.left,
         \A c \in net' : c \in net \/ c.st = "sent"
  PROVE  ImportFresh'
BY DEF ImportFresh, ImportComing

LEMMA ImportChangesKeeps ==
  ASSUME ImportInv, NEW v \in ImportViews, Import!Changes(v)
  PROVE  ImportInv'
<1>1. ui' = v /\ net' = net /\ q' = q /\ log' = log
  BY DEF Import!Changes
<1> QED
  BY <1>1, FreshStays DEF ImportInv, ImportShapes

LEMMA ImportWriteKeeps ==
  ASSUME ImportInv, NEW do \in {"import", "undo"}, Import!Write(do)
  PROVE  ImportInv'
<1> DEFINE c == Import!Sent(do, [file |-> 1, options |-> IF ui.tab = "orders" THEN 1 ELSE 0, n |-> 0])
<1>1. net' = net \cup {c} /\ log' = [log EXCEPT !.n = @ + 1] /\ ui' = ui /\ q' = q
  BY DEF Import!Write
<1>2. c \in ImportCalls /\ c.do # "preview" /\ c.st = "sent"
  BY DEF Import!Sent, ImportCalls, ImportFiles, Import!Files, Import!Options
<1> HIDE DEF c
<1>3. log' \in ImportLogs /\ log'.left = log.left
  BY <1>1 DEF ImportInv, ImportShapes, ImportLogs
<1>4. ImportFresh'
  BY <1>1, <1>2, <1>3, FreshStays DEF ImportInv
<1> QED
  BY <1>1, <1>2, <1>3, <1>4 DEF ImportInv, ImportShapes

LEMMA ImportPreviewKeeps ==
  ASSUME ImportInv, NEW f \in ImportFiles, NEW o \in Import!Options, NEW v \in ImportViews,
         Import!Preview(f, o, v)
  PROVE  ImportInv'
<1> DEFINE c == Import!Sent("preview", [file |-> f, options |-> o, n |-> log.asked + 1])
<1>1. net' = net \cup {c} /\ log' = [log EXCEPT !.asked = @ + 1] /\ ui' = v /\ q' = q
  BY DEF Import!Preview
<1>2. log.asked \in Nat
  BY DEF ImportInv, ImportShapes, ImportLogs
<1>3. c \in ImportCalls /\ c.st = "sent"
  BY <1>2 DEF Import!Sent, ImportCalls
<1> HIDE DEF c
<1>4. log' \in ImportLogs /\ log'.left = log.left
  BY <1>1, <1>2 DEF ImportInv, ImportShapes, ImportLogs
<1>5. ImportFresh'
  BY <1>1, <1>3, <1>4, FreshStays DEF ImportInv
<1> QED
  BY <1>1, <1>3, <1>4, <1>5 DEF ImportInv, ImportShapes

LEMMA ResetKeeps ==
  ASSUME ImportInv, Import!Reset
  PROVE  ImportInv'
<1> DEFINE o == IF ui.tab = "orders" THEN ui.options ELSE 0
           v == [Import!Blank(ui.tab, ui.writer) EXCEPT !.options = o]
<1>1. Import!Changes(v)
  BY DEF Import!Reset
<1>2. o \in Import!Options /\ ui.tab \in {"statement", "orders"} /\ ui.writer \in BOOLEAN
  BY DEF ImportInv, ImportShapes, ImportViews, Import!Options
<1> HIDE DEF o
<1>3. v \in ImportViews
  BY <1>2, BlankIsEmpty
<1> HIDE DEF v
<1> QED
  BY <1>1, <1>3, ImportChangesKeeps

(* Previews go, and none of them is a write that is done. *)
LEMMA SelectTabKeeps ==
  ASSUME ImportInv, NEW tab \in {"statement", "orders"}, Import!SelectTab(tab)
  PROVE  ImportInv'
<1> DEFINE v == Import!Blank(tab, ui.writer)
<1>1. ui' = v /\ net' = net \ Import!Previews /\ q' = q /\ log' = log
  BY DEF Import!SelectTab
<1>2. ui.writer \in BOOLEAN /\ 0 \in Import!Options
  BY DEF ImportInv, ImportShapes, ImportViews, Import!Options
<1>3. v \in ImportViews
  BY <1>2, BlankIsEmpty
<1> HIDE DEF v
<1>4. \A c \in net : c.st = "done" => c \in net'
  BY <1>1 DEF ImportInv, ImportFresh, Import!Previews
<1>5. ImportFresh'
  BY <1>1, <1>4, FreshStays DEF ImportInv
<1> QED
  BY <1>1, <1>3, <1>5 DEF ImportInv, ImportShapes

LEMMA ImportPreviewedKeeps ==
  ASSUME ImportInv, NEW c \in net, Import!Previewed(c) \/ Import!PreviewFails(c)
  PROVE  ImportInv'
<1>1. c \in ImportCalls /\ net' = net \ {c} /\ q' = q /\ log' = log /\ c.st = "sent"
  BY DEF ImportInv, ImportShapes, ImportFresh, Import!Previewed, Import!PreviewFails, Import!Previews
<1>2. ui' \in ImportViews
  <2>1. ui \in ImportViews /\ Import!NoPreview \in [file : ImportFiles, options : Import!Options]
    BY ImportConstants DEF ImportInv, ImportShapes
  <2>2. [file |-> c.of.file, options |-> c.of.options] \in [file : ImportFiles, options : Import!Options]
    BY <1>1 DEF ImportCalls
  <2>3. CASE Import!Previewed(c)
    BY <2>1, <2>2, <2>3 DEF Import!Previewed, ImportViews
  <2>4. CASE Import!PreviewFails(c)
    BY <2>1, <2>4 DEF Import!PreviewFails, ImportViews
  <2> QED
    BY <2>3, <2>4
<1>3. ImportFresh'
  BY <1>1, FreshStays DEF ImportInv
<1> QED
  BY <1>1, <1>2, <1>3 DEF ImportInv, ImportShapes
-----------------------------------------------------------------------------
LEMMA ImportServeKeeps ==
  ASSUME ImportInv, NEW c \in net, Import!Serve(c)
  PROVE  ImportInv'
<1> DEFINE d == [c EXCEPT !.st = "done"]
<1>1. /\ c \in ImportCalls /\ c.do # "preview" /\ c.st = "sent"
      /\ log' = log /\ ui' = ui /\ net' = (net \ {c}) \cup {d}
  BY DEF ImportInv, ImportShapes, Import!Serve, Import!Served, Import!Previews
<1>2. d \in ImportCalls /\ d.st = "done" /\ d.do = c.do /\ d.of = c.of
  BY <1>1 DEF ImportCalls
<1>3. Import!Affects(d) = Import!Affects(c)
  BY <1>2 DEF Import!Affects, Import!OfOrders
<1> HIDE DEF d
<1>4. ImportComing(net, q.key) => ImportComing(net', q.key)
  BY <1>1 DEF ImportComing
<1>5. \A e \in net' : e.do = "preview" => e.st = "sent"
  BY <1>1, <1>2 DEF ImportInv, ImportFresh
<1>6. CASE q.key \in Import!Affects(c)
  <2>1. q' = [q EXCEPT !.old = TRUE, !.fetch = IF @ = "none" THEN @ ELSE "dirty"]
    BY <1>6 DEF Import!Serve, Import!Wrote
  <2>2. q' \in CacheRows(Import!Keys) /\ q'.old /\ q'.key = q.key
    BY <2>1 DEF ImportInv, ImportFresh, CacheRows
  <2>3. ImportComing(net', q.key)
    BY <1>1, <1>2, <1>3, <1>6 DEF ImportComing
  <2>4. ImportFresh'
    BY <1>5, <2>2, <2>3 DEF ImportFresh
  <2> QED
    BY <1>1, <1>2, <2>4 DEF ImportInv, ImportShapes
<1>7. CASE q.key \notin Import!Affects(c)
  <2>1. q' = q
    BY <1>7 DEF Import!Serve, Import!Wrote
  <2>2. ImportFresh'
    BY <1>1, <1>4, <1>5, <2>1 DEF ImportInv, ImportFresh
  <2> QED
    BY <1>1, <1>2, <2>2 DEF ImportInv, ImportShapes
<1> QED
  BY <1>6, <1>7

(* The chart of the portfolio and, after an undo, the wallets are known to be left. *)
ImportLeaves(c) == Import!OfOrders(c) /\ (q.key = "portfolio" \/ (c.do = "undo" /\ q.key = "wallets"))
LEMMA ImportAsksOrLeaves ==
  ASSUME NEW c, q.key \in Import!Affects(c)
  PROVE  q.key \in Import!Refetches(c) \/ ImportLeaves(c)
BY DEF Import!Affects, Import!Refetches, ImportLeaves

LEMMA ImportAnswerKeeps ==
  ASSUME ImportInv, NEW c \in net, Import!Answer(c)
  PROVE  ImportInv'
<1> DEFINE left == (log.left \/ ImportLeaves(c)) /\ q.key \notin Import!Refetches(c)
<1>1. /\ c \in ImportCalls /\ net' \subseteq net /\ net \subseteq net' \cup {c} \cup Import!Previews
      /\ q' = Import!Refetch(q, Import!Refetches(c)) /\ log' = [log EXCEPT !.left = left]
  BY DEF ImportInv, ImportShapes, Import!Answer, ImportLeaves
<1>2. left \in BOOLEAN
  BY DEF ImportInv, ImportShapes, ImportLogs, ImportLeaves
<1>3. log' \in ImportLogs /\ log'.left = left
  BY <1>1, <1>2 DEF ImportInv, ImportShapes, ImportLogs
<1>4. ui' \in ImportViews
  <2>1. ui \in ImportViews /\ ui.tab \in {"statement", "orders"} /\ ui.writer \in BOOLEAN /\ 0 \in Import!Options
    BY DEF ImportInv, ImportShapes, ImportViews, Import!Options
  <2>2. ui' \in {ui, [ui EXCEPT !.undo = FALSE], Import!Blank(ui.tab, ui.writer)}
    BY DEF Import!Answer
  <2>3. Import!Blank(ui.tab, ui.writer) \in ImportViews
    BY <2>1, BlankIsEmpty
  <2>4. [ui EXCEPT !.undo = FALSE] \in ImportViews
    BY <2>1 DEF ImportViews
  <2> QED
    BY <2>1, <2>2, <2>3, <2>4
<1>5. ImportFresh'
  <2>1. CASE q.key \in Import!Refetches(c)
    <3>1. q' = [q EXCEPT !.fetch = "clean"]
      BY <1>1, <2>1 DEF Import!Refetch
    <3>2. q' \in CacheRows(Import!Keys) /\ q'.fetch = "clean"
      BY <3>1 DEF ImportInv, ImportFresh, CacheRows
    <3> QED
      BY <1>1, <3>2 DEF ImportInv, ImportFresh
  <2>2. CASE q.key \notin Import!Refetches(c)
    <3>1. q' = q
      BY <1>1, <2>2 DEF Import!Refetch
    <3>2. ~log'.left => q.key \notin Import!Affects(c) /\ ~log.left
      BY <1>3, <2>2, ImportAsksOrLeaves
    <3>3. \A d \in net : d.st = "done" => d \in net' \/ d = c
      BY <1>1 DEF ImportInv, ImportFresh, Import!Previews
    <3>4. ~log'.left /\ ImportComing(net, q.key) => ImportComing(net', q.key)
      BY <3>2, <3>3 DEF ImportComing
    <3> QED
      BY <1>1, <3>1, <3>2, <3>4 DEF ImportInv, ImportFresh
  <2> QED
    BY <2>1, <2>2
<1> QED
  BY <1>1, <1>3, <1>4, <1>5 DEF ImportInv, ImportShapes

(* What is done and whose answer is lost, leaves its lists. *)
LEMMA ImportFailKeeps ==
  ASSUME ImportInv, NEW c \in net, Import!Fail(c)
  PROVE  ImportInv'
<1> DEFINE left == log.left \/ (c.st = "done" /\ q.key \in Import!Affects(c))
<1>1. net' = net \ {c} /\ ui' = ui /\ q' = q /\ log' = [log EXCEPT !.left = left] /\ left \in BOOLEAN
  BY DEF ImportInv, ImportShapes, ImportLogs, Import!Fail
<1>2. ~left => ~log.left /\ ~(c.st = "done" /\ q.key \in Import!Affects(c))
  OBVIOUS
<1> HIDE DEF left
<1>3. log' \in ImportLogs /\ log'.left = left
  BY <1>1 DEF ImportInv, ImportShapes, ImportLogs
<1>4. ~left /\ ImportComing(net, q.key) => ImportComing(net', q.key)
  BY <1>1, <1>2 DEF ImportComing
<1>5. ImportFresh'
  BY <1>1, <1>2, <1>3, <1>4 DEF ImportInv, ImportFresh
<1> QED
  BY <1>1, <1>3, <1>5 DEF ImportInv, ImportShapes

LEMMA ImportFetchKeeps ==
  ASSUME ImportInv, Import!Fetch \/ Import!FetchFails \/ Import!Revisit
  PROVE  ImportInv'
<1>1. net' = net /\ ui' = ui
  BY DEF Import!Fetch, Import!FetchFails, Import!Revisit
<1>2. CASE Import!Fetch
  <2>1. log' = [log EXCEPT !.left = @ /\ q'.old] /\ q' \in Import!Fetched(q)
    BY <1>2 DEF Import!Fetch
  <2>2. /\ q' \in CacheRows(Import!Keys) /\ q'.key = q.key /\ q'.fetch = "none"
        /\ q'.old => q.fetch = "dirty"
    BY <2>1 DEF Import!Fetched, ImportInv, ImportFresh, CacheRows
  <2>3. log' \in ImportLogs /\ log'.left = (log.left /\ q'.old)
    BY <2>1, <2>2 DEF ImportInv, ImportShapes, ImportLogs, CacheRows
  <2>4. ImportFresh'
    BY <1>1, <2>2, <2>3 DEF ImportInv, ImportFresh
  <2> QED
    BY <1>1, <2>3, <2>4 DEF ImportInv, ImportShapes
<1>3. CASE Import!FetchFails
  <2>1. log' = [log EXCEPT !.left = @ \/ q.old] /\ q' = [q EXCEPT !.fetch = "none"]
    BY <1>3 DEF Import!FetchFails, Import!Dropped
  <2>2. q' \in CacheRows(Import!Keys) /\ q'.old = q.old /\ q'.fetch = "none"
    BY <2>1 DEF ImportInv, ImportFresh, CacheRows
  <2>3. log' \in ImportLogs /\ log'.left = (log.left \/ q.old)
    BY <2>1 DEF ImportInv, ImportShapes, ImportFresh, ImportLogs, CacheRows
  <2>4. ImportFresh'
    BY <1>1, <2>2, <2>3 DEF ImportInv, ImportFresh
  <2> QED
    BY <1>1, <2>3, <2>4 DEF ImportInv, ImportShapes
<1>4. CASE Import!Revisit
  <2>1. log' = log /\ q' = [q EXCEPT !.fetch = "clean"]
    BY <1>4 DEF Import!Revisit, Import!Revisited
  <2>2. q' \in CacheRows(Import!Keys) /\ q'.fetch = "clean"
    BY <2>1 DEF ImportInv, ImportFresh, CacheRows
  <2>3. ImportFresh'
    BY <1>1, <2>2 DEF ImportInv, ImportFresh
  <2> QED
    BY <1>1, <2>1, <2>3 DEF ImportInv, ImportShapes
<1> QED
  BY <1>2, <1>3, <1>4

LEMMA NextImport == ImportInv /\ [Import!Next]_Import!vars => ImportInv'
<1> SUFFICES ASSUME ImportInv, [Import!Next]_Import!vars PROVE ImportInv'
  OBVIOUS
<1>0. ui \in ImportViews
  BY DEF ImportInv, ImportShapes
<1>1. CASE UNCHANGED Import!vars
  BY <1>1, FreshStays DEF Import!vars, ImportInv, ImportShapes
<1>2. ASSUME NEW tab \in {"statement", "orders"}, Import!SelectTab(tab) PROVE ImportInv'
  BY <1>2, SelectTabKeeps
<1>3. ASSUME NEW f \in Import!Files, Import!ChooseFile(f) PROVE ImportInv'
  <2> DEFINE s == [ui EXCEPT !.file = f]
             u == [s EXCEPT !.options = 0]
             w == [s EXCEPT !.preview = Import!NoPreview]
  <2>1. /\ f \in ImportFiles /\ 0 \in Import!Options /\ ui.options \in Import!Options
        /\ u \in ImportViews /\ w \in ImportViews
    <3>1. s \in ImportViews /\ ui.options \in Import!Options
      BY <1>0, ImportConstants DEF ImportViews
    <3> HIDE DEF s
    <3>2. u \in ImportViews
      BY <3>1, ImportConstants DEF ImportViews
    <3>3. w \in ImportViews
      BY <3>1, ImportConstants DEF ImportViews
    <3> QED
      BY <3>1, <3>2, <3>3, ImportConstants
  <2>2. Import!Preview(f, 0, u) \/ Import!Preview(f, ui.options, w)
    BY <1>3 DEF Import!ChooseFile
  <2> HIDE DEF u, w
  <2> QED
    BY <2>1, <2>2, ImportPreviewKeeps
<1>4. ASSUME NEW o \in Import!Options, Import!ChangeOptions(o) PROVE ImportInv'
  <2> DEFINE v == [ui EXCEPT !.options = o]
  <2>1. v \in ImportViews /\ ui.file \in ImportFiles
    BY <1>0 DEF ImportViews
  <2>2. Import!Preview(ui.file, o, v)
    BY <1>4 DEF Import!ChangeOptions
  <2> HIDE DEF v
  <2> QED
    BY <2>1, <2>2, ImportPreviewKeeps
<1>5. CASE Import!ToggleExcluded
  BY <1>0, <1>5, ImportChangesKeeps DEF Import!ToggleExcluded, ImportViews
<1>6. CASE Import!SelectAccount
  BY <1>0, <1>6, ImportChangesKeeps DEF Import!SelectAccount, ImportViews
<1>7. CASE Import!AskUndo \/ Import!CloseUndo
  BY <1>0, <1>7, ImportChangesKeeps DEF Import!AskUndo, Import!CloseUndo, ImportViews
<1>8. CASE Import!Import \/ Import!Undo
  BY <1>8, ImportWriteKeeps DEF Import!Import, Import!Undo
<1>9. CASE Import!Reset
  BY <1>9, ResetKeeps
<1>10. CASE Import!Fetch \/ Import!FetchFails \/ Import!Revisit
  BY <1>10, ImportFetchKeeps
<1>11. ASSUME NEW c \in net,
              \/ Import!Previewed(c) \/ Import!PreviewFails(c)
              \/ Import!Serve(c) \/ Import!Answer(c) \/ Import!Fail(c)
       PROVE  ImportInv'
  BY <1>11, ImportPreviewedKeeps, ImportServeKeeps, ImportAnswerKeeps, ImportFailKeeps
<1> QED
  BY <1>1, <1>2, <1>3, <1>4, <1>5, <1>6, <1>7, <1>8, <1>9, <1>10, <1>11 DEF Import!Next
-----------------------------------------------------------------------------
(* The list of transactions: the shape of its page. *)
RowViews ==
  [view : {"list", "calendar"}, writer : BOOLEAN, page : 1..2, watched : 0..1, other : 0..1,
   sel : SUBSET Transactions!Own, over : Transactions!Overs \cup {Transactions!None}]
RowLogs == [n : Nat]
RowsInv == ui \in RowViews /\ log \in RowLogs

LEMMA InitRows == Transactions!Init => RowsInv
<1> SUFFICES ASSUME Transactions!Init PROVE RowsInv
  OBVIOUS
<1>1. ui \in RowViews
  BY DEF Transactions!Init, RowViews
<1>2. log \in RowLogs
  BY DEF Transactions!Init, RowLogs
<1> QED
  BY <1>1, <1>2 DEF RowsInv

LEMMA RowChangesKeeps ==
  ASSUME RowsInv, NEW v, v \in RowViews, Transactions!Changes(v)
  PROVE  RowsInv'
<1>1. Transactions!Cleared(v) \in RowViews
  BY DEF RowViews, Transactions!Cleared
<1> QED
  BY <1>1 DEF RowsInv, Transactions!Changes

LEMMA FiltersKeep ==
  ASSUME RowsInv, NEW f \in 0..1, NEW g \in 0..1, NEW view \in {"list", "calendar"},
         \/ Transactions!Changes(Transactions!FromPage([ui EXCEPT !.watched = f]))
         \/ Transactions!Changes(Transactions!FromPage([ui EXCEPT !.other = g]))
         \/ Transactions!Changes(Transactions!FromPage([ui EXCEPT !.watched = f, !.other = g]))
         \/ Transactions!Changes(Transactions!FromPage([ui EXCEPT !.watched = f, !.other = g, !.view = view]))
  PROVE  RowsInv'
<1>1. PICK u \in {[ui EXCEPT !.watched = f], [ui EXCEPT !.other = g], [ui EXCEPT !.watched = f, !.other = g],
                  [ui EXCEPT !.watched = f, !.other = g, !.view = view]} :
        Transactions!Changes(Transactions!FromPage(u))
  OBVIOUS
<1>2. u \in RowViews
  BY DEF RowsInv, RowViews
<1>3. Transactions!FromPage(u) \in RowViews
  BY <1>2 DEF RowViews, Transactions!FromPage
<1> QED
  BY <1>1, <1>3, RowChangesKeeps

LEMMA SelectKeeps ==
  ASSUME RowsInv, NEW s \in SUBSET Transactions!Own, Transactions!Select(s)
  PROVE  RowsInv'
<1> DEFINE v == [ui EXCEPT !.sel = s]
<1>1. v \in RowViews /\ Transactions!Changes(v)
  BY DEF RowsInv, RowViews, Transactions!Select
<1> HIDE DEF v
<1> QED
  BY <1>1, RowChangesKeeps

LEMMA RowWriteKeeps ==
  ASSUME RowsInv, ui' = ui, log' = [log EXCEPT !.n = @ + 1]
  PROVE  RowsInv'
BY DEF RowsInv, RowLogs

LEMMA RowCallsKeep ==
  ASSUME RowsInv, NEW c \in net, Transactions!Answer(c) \/ Transactions!Fail(c)
  PROVE  RowsInv'
BY DEF Transactions!Answer, Transactions!Fail, RowsInv, RowViews

LEMMA NextRows == RowsInv /\ [Transactions!Next]_Transactions!vars => RowsInv'
<1> SUFFICES ASSUME RowsInv, [Transactions!Next]_Transactions!vars PROVE RowsInv'
  OBVIOUS
<1>0. ui \in RowViews /\ 0 \in 0..1 /\ 1 \in 0..1 /\ ui.sel \in SUBSET Transactions!Own
      /\ Transactions!Selectable \subseteq Transactions!Own
  BY DEF RowsInv, RowViews, Transactions!Selectable
<1>1. CASE UNCHANGED Transactions!vars
  BY <1>1 DEF Transactions!vars, RowsInv
<1>2. ASSUME NEW f \in 0..1, NEW g \in 0..1, NEW view \in {"list", "calendar"},
             \/ Transactions!PickAccounts(f) \/ Transactions!PickCategories(f) \/ Transactions!PickPayee(f)
             \/ Transactions!PickType(f) \/ Transactions!PickStatus(f) \/ Transactions!PickDates(f)
             \/ Transactions!PickAmounts(f) \/ Transactions!StepMonth(f) \/ Transactions!Debounced(f)
             \/ Transactions!SubmitSearch(f, g) \/ Transactions!FollowLink(f, g, view)
             \/ Transactions!PickGroup(g) \/ Transactions!Tag(g) \/ Transactions!HideIgnored(g)
             \/ Transactions!PageSize(g) \/ Transactions!ClearAll
      PROVE  RowsInv'
  <2>1. CASE Transactions!ClearAll
    BY <1>0, <2>1, FiltersKeep DEF Transactions!ClearAll
  <2>2. CASE ~Transactions!ClearAll
    BY <1>2, <2>2, FiltersKeep DEF Transactions!PickAccounts, Transactions!PickCategories,
       Transactions!PickPayee,
       Transactions!PickType, Transactions!PickStatus, Transactions!PickDates, Transactions!PickAmounts,
       Transactions!StepMonth, Transactions!Debounced, Transactions!SubmitSearch, Transactions!FollowLink,
       Transactions!PickGroup, Transactions!Tag, Transactions!HideIgnored, Transactions!PageSize,
       Transactions!Filters, Transactions!FiltersAside
  <2> QED
    BY <2>1, <2>2
<1>3. ASSUME NEW view \in {"list", "calendar"}, NEW p \in 1..2,
             \/ Transactions!SwitchView(view) \/ Transactions!Turn(p) \/ Transactions!Sort
             \/ Transactions!SelectDay \/ Transactions!SelectOnTrend \/ Transactions!SelectOnBars
             \/ Transactions!OpenDelete \/ Transactions!OpenGroup \/ Transactions!OpenLink
             \/ Transactions!Close \/ Transactions!SwitchCollection
      PROVE  RowsInv'
  <2>1. PICK v \in {[ui EXCEPT !.view = view], [ui EXCEPT !.page = p], [ui EXCEPT !.other = 1 - @], ui,
                    [ui EXCEPT !.over = "delete"], [ui EXCEPT !.over = "group"], [ui EXCEPT !.over = "link"],
                    [ui EXCEPT !.over = Transactions!None]} : Transactions!Changes(v)
    BY <1>3 DEF Transactions!SwitchView, Transactions!Turn, Transactions!Sort, Transactions!SelectDay,
       Transactions!SelectOnTrend, Transactions!SelectOnBars, Transactions!Calendar, Transactions!OpenDelete,
       Transactions!OpenGroup, Transactions!OpenLink, Transactions!Close, Transactions!Open,
       Transactions!SwitchCollection
  <2>2. v \in RowViews
    BY <1>0 DEF RowViews, Transactions!Overs
  <2> QED
    BY <2>1, <2>2, RowChangesKeeps
<1>4. ASSUME NEW r \in Transactions!Own, NEW last \in Transactions!Own,
             \/ Transactions!Toggle(r) \/ Transactions!ToggleRange(r, last) \/ Transactions!ToggleAll
      PROVE  RowsInv'
  <2>1. PICK s \in {ui.sel \ {r}, ui.sel \cup {r}, ui.sel \ Transactions!Between(r, last),
                    ui.sel \cup Transactions!Between(r, last), {}, Transactions!Selectable} :
          Transactions!Select(s)
    BY <1>4 DEF Transactions!Toggle, Transactions!ToggleRange, Transactions!ToggleAll
  <2>2. s \in SUBSET Transactions!Own
    BY <1>0, <2>1 DEF Transactions!Between
  <2> QED
    BY <2>1, <2>2, SelectKeeps
<1>5. CASE Transactions!ClearSelection
  <2> DEFINE v == [ui EXCEPT !.sel = {}]
  <2>1. v \in RowViews /\ Transactions!Changes(v)
    BY <1>0, <1>5 DEF RowViews, Transactions!ClearSelection
  <2> HIDE DEF v
  <2> QED
    BY <2>1, RowChangesKeeps
<1>6. CASE \/ Transactions!Categorize \/ Transactions!Retag \/ Transactions!BulkDelete
           \/ Transactions!BulkAddToGroup \/ Transactions!LinkTransfer \/ Transactions!CreateCounterpart
  BY <1>6, RowWriteKeeps DEF Transactions!Categorize, Transactions!Retag, Transactions!BulkDelete,
     Transactions!BulkAddToGroup, Transactions!LinkTransfer, Transactions!CreateCounterpart,
     Transactions!Confirm, Transactions!Write
<1>7. ASSUME NEW r, \/ Transactions!CreateOne(r) \/ Transactions!UpdateOne(r) \/ Transactions!DeleteOne(r)
      PROVE  RowsInv'
  BY <1>7, RowWriteKeeps DEF Transactions!CreateOne, Transactions!UpdateOne, Transactions!DeleteOne,
     Transactions!InDialog
<1>8. ASSUME NEW c \in net, Transactions!Answer(c) \/ Transactions!Fail(c) PROVE RowsInv'
  BY <1>8, RowCallsKeep
<1> QED
  <2>1. ASSUME NEW f \in 0..1,
               \/ Transactions!PickAccounts(f) \/ Transactions!PickCategories(f) \/ Transactions!PickPayee(f)
               \/ Transactions!PickType(f) \/ Transactions!PickStatus(f) \/ Transactions!PickDates(f)
               \/ Transactions!PickAmounts(f) \/ Transactions!StepMonth(f) \/ Transactions!Debounced(f)
               \/ \E g \in 0..1 : \/ Transactions!SubmitSearch(f, g)
                                  \/ \E view \in {"list", "calendar"} : Transactions!FollowLink(f, g, view)
        PROVE  RowsInv'
    BY <1>2, <2>1
  <2>2. ASSUME NEW g \in 0..1,
               \/ Transactions!PickGroup(g) \/ Transactions!Tag(g) \/ Transactions!HideIgnored(g)
               \/ Transactions!PageSize(g)
        PROVE  RowsInv'
    BY <1>2, <2>2
  <2>3. CASE \/ Transactions!ClearAll \/ Transactions!Sort \/ Transactions!SelectDay
             \/ Transactions!SelectOnTrend
             \/ Transactions!SelectOnBars \/ Transactions!OpenDelete \/ Transactions!OpenGroup
             \/ Transactions!OpenLink \/ Transactions!Close \/ Transactions!ToggleAll
             \/ Transactions!SwitchCollection
    <3>1. 1 \in Transactions!Own /\ 1 \in 1..2
      BY DEF Transactions!Own
    <3> QED
      BY <1>0, <1>2, <1>3, <1>4, <2>3, <3>1
  <2>4. ASSUME NEW view \in {"list", "calendar"}, Transactions!SwitchView(view) PROVE RowsInv'
    BY <1>3, <2>4
  <2>5. ASSUME NEW p \in 1..2, Transactions!Turn(p) PROVE RowsInv'
    BY <1>3, <2>5
  <2>6. ASSUME NEW r \in Transactions!Own,
               \/ Transactions!Toggle(r)
               \/ \E last \in Transactions!Own : Transactions!ToggleRange(r, last)
        PROVE  RowsInv'
    BY <1>4, <2>6
  <2> QED
    BY <1>1, <1>5, <1>6, <1>7, <1>8, <2>1, <2>2, <2>3, <2>4, <2>5, <2>6 DEF Transactions!Next
-----------------------------------------------------------------------------
(* The form of a transaction. No more than one create is under way, and what *)
(* it is of was not stored before; the form that is open was not stored, or  *)
(* the rest of its chain is under way.                                       *)
FormViews ==
  [entry : Form!Entries \cup {0}, options : SUBSET {"recurring", "installments", "files"}, open : BOOLEAN,
   over : {"rule", Form!None}, hidden : BOOLEAN, seen : BOOLEAN,
   split : {"none", "seeded", "loaded", "other", "wrong", "off"}]
FormRows == [stored : [Form!Entries -> Nat], hidden : BOOLEAN, split : BOOLEAN]
FormCalls ==
  [do : {"create", "save", "toggle", "orphan", "unlink", "rule", "group"},
   of : [entry : Form!Entries \cup {0}, left : SUBSET Form!Steps, hidden : BOOLEAN,
         split : {Form!None, "shares", "clear"}],
   st : {"sent", "done"}]
FormLogs == [n : Nat, partial : BOOLEAN, want : BOOLEAN, old : BOOLEAN, cleared : BOOLEAN]
FormShapes == ui \in FormViews /\ q \in FormRows /\ net \subseteq FormCalls /\ log \in FormLogs

Creates == {c \in net : c.do = "create"}
StoredInv ==
  /\ \A c, d \in Creates : c = d
  /\ \A c \in Creates : c.of.entry \in Form!Entries /\ c.of.entry <= ui.entry
  /\ \A e \in Form!Entries : e > ui.entry => q.stored[e] = 0
  /\ ~log.partial =>
       /\ \A e \in Form!Entries : q.stored[e] <= 1
       /\ \A c \in Creates : "row" \in c.of.left => q.stored[c.of.entry] = 0
       /\ ui.open /\ ui.entry # 0 /\ q.stored[ui.entry] = 1 =>
            \E c \in Creates : c.of.entry = ui.entry /\ "row" \notin c.of.left

(* A save on its way sends the flag that is stored, with no toggle beside it; the form *)
(* that is open shows the flag, or the toggle that changed it is to be answered.       *)
Toggles == {"toggle", "orphan"}
ToggleInv ==
  ui.entry = 0 /\ ~log.old =>
    /\ q.hidden = log.want
    /\ \A c \in net : c.do = "save" /\ c.st = "sent" => c.of.hidden = q.hidden
       /\ \A d \in net : d.do \notin Toggles
    /\ ui.open => /\ \A c \in net : c.do # "orphan"
                  /\ (\A c \in net : c.do = "toggle" => c.st # "done") => ui.hidden = q.hidden
SplitInv ==
  /\ ~q.split => log.cleared
  /\ \A c \in net : c.do = "save" /\ c.st = "sent" /\ c.of.split = "clear" => log.cleared

FormInv == FormShapes /\ StoredInv /\ ToggleInv /\ SplitInv

LEMMA InitForm == Form!Init => FormInv
<1> SUFFICES ASSUME Form!Init PROVE FormInv
  OBVIOUS
<1>1. PICK entry \in {0, 1}, split \in BOOLEAN :
        /\ ui = [entry |-> entry, options |-> {}, open |-> entry = 1, over |-> Form!None,
                 hidden |-> FALSE, seen |-> FALSE, split |-> "none"]
        /\ q = [stored |-> [e \in Form!Entries |-> 0], hidden |-> FALSE, split |-> split]
  BY DEF Form!Init
<1>2. (entry = 1) \in BOOLEAN /\ (~split) \in BOOLEAN
  OBVIOUS
<1>3. /\ net = {}
      /\ log = [n |-> 0, partial |-> FALSE, want |-> FALSE, old |-> FALSE, cleared |-> ~split]
  BY <1>1 DEF Form!Init
<1>4. ui \in FormViews
  BY <1>1, <1>2 DEF FormViews, Form!Entries
<1>5. q \in FormRows /\ \A e \in Form!Entries : q.stored[e] = 0
  BY <1>1 DEF FormRows
<1>6. log \in FormLogs
  BY <1>2, <1>3 DEF FormLogs
<1>7. StoredInv
  <2>1. ui.entry \in {0, 1} /\ (ui.entry # 0 => ui.entry \in Form!Entries)
    BY <1>1 DEF Form!Entries
  <2> QED
    BY <1>3, <1>5, <2>1 DEF StoredInv, Creates
<1>8. ToggleInv
  BY <1>1, <1>3 DEF ToggleInv
<1>9. SplitInv
  BY <1>1, <1>3 DEF SplitInv
<1> QED
  BY <1>3, <1>4, <1>5, <1>6, <1>7, <1>8, <1>9 DEF FormInv, FormShapes
-----------------------------------------------------------------------------
LEMMA StoredStays ==
  ASSUME StoredInv, Creates' = Creates, q'.stored = q.stored, ui'.entry = ui.entry,
         ui'.open => ui.open \/ ui.entry = 0, log'.partial = log.partial
  PROVE  StoredInv'
BY DEF StoredInv

(* What decides about the flag and the split is as it was, or the form has closed. *)
LEMMA ToggleStays ==
  ASSUME ToggleInv, ui'.entry = ui.entry, ui'.open => ui.open /\ ui'.hidden = ui.hidden,
         q'.hidden = q.hidden, log'.want = log.want, log'.old = log.old,
         \A c \in net' : c.do \in {"save", "toggle", "orphan"} => c \in net,
         ui'.open => \A c \in net : c.do = "toggle" /\ c.st = "done" => c \in net'
  PROVE  ToggleInv'
BY DEF ToggleInv, Toggles

LEMMA SplitStays ==
  ASSUME SplitInv, q'.split = q.split, log'.cleared = log.cleared,
         \A c \in net' : c.do = "save" => c \in net
  PROVE  SplitInv'
BY DEF SplitInv

LEMMA FormViewKeeps ==
  ASSUME FormInv, ui' \in FormViews, q' = q, net' = net, log' = log,
         ui'.entry = ui.entry, ui'.open => ui.open /\ ui'.hidden = ui.hidden
  PROVE  FormInv'
<1>1. FormShapes' /\ Creates' = Creates
  BY DEF FormInv, FormShapes, Creates
<1> QED
  BY <1>1, StoredStays, ToggleStays, SplitStays DEF FormInv

LEMMA FormChangesKeeps ==
  ASSUME FormInv, NEW v \in FormViews, Form!Changes(v),
         v.entry = ui.entry, v.open = ui.open, v.hidden = ui.hidden
  PROVE  FormInv'
BY FormViewKeeps DEF Form!Changes

(* The toggles of a form that is gone. *)
LEMMA OrphanedIs ==
  ASSUME NEW S \in SUBSET FormCalls
  PROVE  /\ Form!Orphaned(S) \subseteq FormCalls
         /\ \A c \in Form!Orphaned(S) :
              c \in S \/ (c.do = "orphan" /\ \E d \in S : d.do \in Toggles)
         /\ \A c \in S : c.do # "toggle" => c \in Form!Orphaned(S)
<1>1. ASSUME NEW c \in Form!Orphaned(S)
      PROVE  c \in FormCalls /\ (c \in S \/ (c.do = "orphan" /\ \E d \in S : d.do \in Toggles))
  <2>1. PICK d \in S : c = IF d.do = "toggle" THEN [d EXCEPT !.do = "orphan"] ELSE d
    BY DEF Form!Orphaned
  <2>2. CASE d.do = "toggle"
    <3>1. c = [d EXCEPT !.do = "orphan"] /\ d \in FormCalls
      BY <2>1, <2>2
    <3>2. c \in FormCalls /\ c.do = "orphan"
      BY <3>1 DEF FormCalls
    <3> QED
      BY <2>2, <3>2 DEF Toggles
  <2>3. CASE d.do # "toggle"
    BY <2>1, <2>3
  <2> QED
    BY <2>2, <2>3
<1>2. ASSUME NEW c \in S, c.do # "toggle" PROVE c \in Form!Orphaned(S)
  BY <1>2 DEF Form!Orphaned
<1> QED
  BY <1>1, <1>2

(* The form closes, over some of the calls that there were. *)
LEMMA FormShutKeeps ==
  ASSUME FormInv, NEW S \in SUBSET net, net' = Form!Orphaned(S), ui' = Form!Shut(ui), q' = q, log' = log,
         \A c \in net : c.do = "create" /\ c \notin S => c.of.left = {}
  PROVE  FormInv'
<1>0. S \in SUBSET FormCalls /\ ui \in FormViews
  BY DEF FormInv, FormShapes
<1>1. ui' \in FormViews /\ ui'.entry = ui.entry /\ ~ui'.open
  BY <1>0 DEF Form!Shut, FormViews
<1>2. net' \subseteq FormCalls
  BY <1>0, OrphanedIs
<1>3. \A c \in net' : c \in net \/ (c.do = "orphan" /\ \E d \in net : d.do \in Toggles)
  BY <1>0, OrphanedIs
<1>4. Creates' \subseteq Creates
  BY <1>3 DEF Creates
<1>5. StoredInv'
  BY <1>1, <1>4 DEF FormInv, StoredInv
<1>6. ToggleInv'
  <2>1. \A c \in net' : c.do = "save" => c \in net
    BY <1>3
  <2>2. (\A d \in net : d.do \notin Toggles) => \A d \in net' : d.do \notin Toggles
    BY <1>3
  <2> QED
    BY <1>1, <2>1, <2>2 DEF FormInv, ToggleInv
<1>7. SplitInv'
  BY <1>3, SplitStays DEF FormInv
<1> QED
  BY <1>1, <1>2, <1>5, <1>6, <1>7 DEF FormInv, FormShapes
-----------------------------------------------------------------------------
LEMMA OpenFormKeeps ==
  ASSUME FormInv, Form!Open
  PROVE  FormInv'
<1> DEFINE split == IF q.split THEN "seeded" ELSE "none"
           old == log.old \/ ui.seen # q.hidden \/ Form!Pending(net, {"orphan"})
<1>1. /\ ui' = [ui EXCEPT !.open = TRUE, !.hidden = ui.seen, !.split = split]
      /\ log' = [log EXCEPT !.old = old] /\ q' = q /\ net' = net /\ ui.entry = 0
  BY DEF Form!Open, FormInv, FormShapes, FormLogs
<1>2. ui' \in FormViews /\ ui'.entry = 0 /\ ui'.hidden = ui.seen
  BY <1>1 DEF FormInv, FormShapes, FormViews
<1>3. old \in BOOLEAN
  BY DEF FormInv, FormShapes, FormLogs, Form!Pending
<1>4. old = (log.old \/ ui.seen # q.hidden \/ Form!Pending(net, {"orphan"}))
  OBVIOUS
<1> HIDE DEF old, split
<1>5. /\ log' \in FormLogs /\ log'.old = old /\ log'.want = log.want
      /\ log'.partial = log.partial /\ log'.cleared = log.cleared
  BY <1>1, <1>3 DEF FormInv, FormShapes, FormLogs
<1>6. ToggleInv'
  <2>1. ~old => ~log.old /\ ui.seen = q.hidden /\ \A c \in net : c.do # "orphan"
    BY <1>4 DEF Form!Pending
  <2> QED
    BY <1>1, <1>2, <1>5, <2>1 DEF FormInv, ToggleInv
<1>7. Creates' = Creates
  BY <1>1 DEF Creates
<1> QED
  BY <1>1, <1>2, <1>5, <1>6, <1>7, StoredStays, SplitStays DEF FormInv, FormShapes

LEMMA NextEntryKeeps ==
  ASSUME FormInv, Form!NextEntry
  PROVE  FormInv'
<1>1. ui' = [ui EXCEPT !.entry = 2, !.open = TRUE] /\ ui.entry = 1 /\ q' = q /\ net' = net /\ log' = log
  BY DEF Form!NextEntry, Form!Changes
<1>2. ui' \in FormViews /\ ui'.entry = 2
  <2>1. 2 \in Form!Entries
    BY DEF Form!Entries
  <2> QED
    BY <1>1, <2>1 DEF FormInv, FormShapes, FormViews
<1>3. q.stored[2] = 0
  BY <1>1 DEF FormInv, StoredInv, Form!Entries
<1>4. StoredInv'
  BY <1>1, <1>2, <1>3 DEF FormInv, StoredInv, Creates, Form!Entries
<1>5. ToggleInv' /\ SplitInv'
  BY <1>1, <1>2 DEF FormInv, ToggleInv, SplitInv
<1> QED
  BY <1>1, <1>2, <1>4, <1>5 DEF FormInv, FormShapes

(* A call that is no save, and no create. *)
LEMMA FormSendKeeps ==
  ASSUME FormInv, NEW do \in {"toggle", "unlink", "rule", "group"}, Form!Send(do, Form!Nothing),
         do = "toggle" => ~Form!Loading
  PROVE  FormInv'
<1> DEFINE c == Form!Sent(do, Form!Nothing)
<1>1. net' = net \cup {c} /\ log' = [log EXCEPT !.n = @ + 1] /\ ui' = ui /\ q' = q
  BY DEF Form!Send
<1>2. c \in FormCalls /\ c.do = do /\ c.st = "sent"
  BY DEF Form!Sent, Form!Nothing, FormCalls
<1> HIDE DEF c
<1>3. /\ log' \in FormLogs /\ log'.old = log.old /\ log'.want = log.want
      /\ log'.partial = log.partial /\ log'.cleared = log.cleared
  BY <1>1 DEF FormInv, FormShapes, FormLogs
<1>4. Creates' = Creates
  BY <1>1, <1>2 DEF Creates
<1>5. ToggleInv'
  <2>1. do = "toggle" => \A d \in net : d.do # "save"
    BY DEF Form!Loading, Form!Pending
  <2> QED
    BY <1>1, <1>2, <1>3, <2>1 DEF FormInv, ToggleInv, Toggles
<1>6. SplitInv'
  BY <1>1, <1>2, <1>3, SplitStays DEF FormInv
<1> QED
  BY <1>1, <1>2, <1>3, <1>4, <1>5, <1>6, StoredStays DEF FormInv, FormShapes

(* The fields that are sent, and their shares. *)
LEMMA OfIs ==
  ASSUME FormInv, NEW left \in SUBSET Form!Steps
  PROVE  /\ Form!Of(left) \in [entry : Form!Entries \cup {0}, left : SUBSET Form!Steps, hidden : BOOLEAN,
                                 split : {Form!None, "shares", "clear"}]
         /\ Form!Of(left).entry = ui.entry /\ Form!Of(left).left = left /\ Form!Of(left).hidden = ui.hidden
         /\ Form!Of(left).split = "clear" => ui.split \notin {"none", "loaded"}
<1> DEFINE split == IF ui.split = "none" THEN Form!None ELSE IF ui.split = "loaded" THEN "shares" ELSE "clear"
<1>1. split \in {Form!None, "shares", "clear"} /\ (split = "clear" => ui.split \notin {"none", "loaded"})
  BY DEF Form!None
<1>2. ui.entry \in Form!Entries \cup {0} /\ ui.hidden \in BOOLEAN
  BY DEF FormInv, FormShapes, FormViews
<1>3. Form!Of(left) = [entry |-> ui.entry, left |-> left, hidden |-> ui.hidden, split |-> split]
  BY DEF Form!Of
<1> HIDE DEF split
<1> QED
  BY <1>1, <1>2, <1>3

(* A create is sent while none is under way, of a form that was not stored. *)
LEMMA CreateKeeps ==
  ASSUME FormInv, Form!Create
  PROVE  FormInv'
<1> DEFINE left == {"row"} \cup (ui.options \cap Form!Steps)
           of == Form!Of(left)
           c == Form!Sent("create", of)
<1>1. net' = net \cup {c} /\ log' = [log EXCEPT !.n = @ + 1] /\ ui' = ui /\ q' = q
  BY DEF Form!Create, Form!Send
<1>2. left \in SUBSET Form!Steps /\ "row" \in left
  BY DEF Form!Steps
<1> HIDE DEF left
<1>3. /\ of \in [entry : Form!Entries \cup {0}, left : SUBSET Form!Steps, hidden : BOOLEAN,
                 split : {Form!None, "shares", "clear"}]
      /\ of.entry = ui.entry /\ of.left = left
  BY <1>2, OfIs
<1> HIDE DEF of
<1>4. c \in FormCalls /\ c.do = "create" /\ c.of.entry = ui.entry /\ "row" \in c.of.left
  BY <1>2, <1>3 DEF Form!Sent, FormCalls
<1> HIDE DEF c
<1>5. /\ log' \in FormLogs /\ log'.old = log.old /\ log'.want = log.want
      /\ log'.partial = log.partial /\ log'.cleared = log.cleared
  BY <1>1 DEF FormInv, FormShapes, FormLogs
<1>6. Creates = {} /\ Creates' = {c}
  BY <1>1, <1>4 DEF Creates, Form!Create, Form!Loading, Form!Pending
<1>7. ui.open /\ ui.entry \in Form!Entries /\ q.stored \in [Form!Entries -> Nat]
  BY DEF Form!Create, Form!Entering, Form!Form, FormInv, FormShapes, FormViews, FormRows
<1>8. ~log.partial => q.stored[ui.entry] = 0
  <2>1. ui.entry # 0
    BY <1>7 DEF Form!Entries
  <2>2. ~log.partial => q.stored[ui.entry] <= 1 /\ q.stored[ui.entry] # 1
    BY <1>6, <1>7, <2>1 DEF FormInv, StoredInv
  <2>3. q.stored[ui.entry] \in Nat
    BY <1>7
  <2> QED
    BY <2>2, <2>3
<1>9. ui.entry <= ui.entry
  BY <1>7 DEF Form!Entries
<1>10. StoredInv'
  BY <1>1, <1>4, <1>5, <1>6, <1>7, <1>8, <1>9 DEF FormInv, StoredInv
<1>11. ToggleInv'
  BY <1>1, <1>4, <1>5, ToggleStays DEF FormInv
<1>12. SplitInv'
  BY <1>1, <1>4, <1>5, SplitStays DEF FormInv
<1> QED
  BY <1>1, <1>4, <1>5, <1>10, <1>11, <1>12 DEF FormInv, FormShapes

(* A save sends the flag of the form, which is the one that is stored, and no split that *)
(* the user did not turn off is sent as cleared.                                         *)
LEMMA SaveFormKeeps ==
  ASSUME FormInv, Form!Save
  PROVE  FormInv'
<1> DEFINE of == Form!Of({})
           c == Form!Sent("save", of)
           old == log.old \/ Form!Pending(net, {"toggle"})
           cleared == log.cleared \/ ui.split = "off"
<1>1. /\ net' = net \cup {c} /\ log' = [log EXCEPT !.n = @ + 1, !.old = old, !.cleared = cleared]
      /\ ui' = ui /\ q' = q
  BY DEF Form!Save, FormInv, FormShapes, FormLogs
<1>2. old \in BOOLEAN /\ cleared \in BOOLEAN
  BY DEF FormInv, FormShapes, FormLogs, Form!Pending
<1>3. {} \in SUBSET Form!Steps
  OBVIOUS
<1>4. /\ of \in [entry : Form!Entries \cup {0}, left : SUBSET Form!Steps, hidden : BOOLEAN,
                 split : {Form!None, "shares", "clear"}]
      /\ of.hidden = ui.hidden /\ (of.split = "clear" => ui.split \notin {"none", "loaded"})
  BY <1>3, OfIs
<1> HIDE DEF of
<1>5. c \in FormCalls /\ c.do = "save" /\ c.of = of
  BY <1>4 DEF Form!Sent, FormCalls
<1> HIDE DEF c
<1>6. /\ ~old => ~log.old /\ \A d \in net : d.do # "toggle"
      /\ log.cleared \/ ui.split = "off" => cleared
  BY DEF Form!Pending
<1> HIDE DEF old, cleared
<1>7. /\ log' \in FormLogs /\ log'.old = old /\ log'.want = log.want
      /\ log'.partial = log.partial /\ log'.cleared = cleared
  <2>1. log \in FormLogs /\ log.n + 1 \in Nat
    BY DEF FormInv, FormShapes, FormLogs
  <2>2. log' = [log EXCEPT !.n = log.n + 1, !.old = old, !.cleared = cleared]
    BY <1>1
  <2>3. /\ log'.old = old /\ log'.want = log.want
        /\ log'.partial = log.partial /\ log'.cleared = cleared
    BY <2>1, <2>2 DEF FormLogs
  <2>4. log' \in FormLogs
    BY <1>2, <2>1, <2>2 DEF FormLogs
  <2> QED
    BY <2>3, <2>4
<1>8. Creates' = Creates
  BY <1>1, <1>5 DEF Creates
<1>9. ToggleInv'
  <2>1. SUFFICES ASSUME ui.entry = 0, ~old PROVE ToggleInv'
    BY <1>1, <1>7 DEF ToggleInv
  <2>2. ui.open
    BY DEF Form!Save, Form!Editing, Form!Form
  <2>3. (\A d \in net : d.do \notin Toggles) /\ ui.hidden = q.hidden
    BY <1>6, <2>1, <2>2 DEF FormInv, ToggleInv, Toggles
  <2> QED
    BY <1>1, <1>4, <1>5, <1>6, <1>7, <2>1, <2>3 DEF FormInv, ToggleInv, Toggles
<1>10. SplitInv'
  <2>1. of.split = "clear" => cleared
    BY <1>4, <1>6 DEF Form!Save, Form!Valid, FormInv, FormShapes, FormViews
  <2> QED
    BY <1>1, <1>5, <1>6, <1>7, <2>1 DEF FormInv, SplitInv
<1> QED
  BY <1>1, <1>5, <1>7, <1>8, <1>9, <1>10, StoredStays DEF FormInv, FormShapes
-----------------------------------------------------------------------------
(* The first step stores the row, which then is not among the steps left. *)
LEMMA StepKeeps ==
  ASSUME FormInv, NEW c \in net, Form!Step(c)
  PROVE  FormInv'
<1> DEFINE next == Form!NextOf(c.of.left)
           d == [c EXCEPT !.of.left = @ \ {next}]
           stored == IF next = "row" THEN [q.stored EXCEPT ![c.of.entry] = @ + 1] ELSE q.stored
<1>0. c \in FormCalls /\ c.do = "create" /\ c \in Creates /\ c.of.entry \in Form!Entries /\ q \in FormRows
  BY DEF FormInv, FormShapes, StoredInv, Creates, Form!Step
<1>1. /\ net' = (net \ {c}) \cup {d} /\ ui' = ui /\ log' = log
      /\ q' = [q EXCEPT !.stored = stored]
  <2>1. q' = IF next = "row" THEN [q EXCEPT !.stored[c.of.entry] = @ + 1] ELSE q
    BY DEF Form!Step
  <2>2. q' = [q EXCEPT !.stored = stored]
    BY <1>0, <2>1 DEF FormRows
  <2> QED
    BY <2>2 DEF Form!Step
<1>2. (next = "row") = ("row" \in c.of.left)
  BY DEF Form!NextOf
<1> HIDE DEF next
<1>3. stored \in [Form!Entries -> Nat]
  BY <1>0 DEF FormRows
<1>4. /\ q' \in FormRows /\ q'.stored = stored /\ q'.hidden = q.hidden /\ q'.split = q.split
  BY <1>0, <1>1, <1>3 DEF FormRows
<1>5. /\ d \in FormCalls /\ d.do = "create" /\ d.of.entry = c.of.entry /\ "row" \notin d.of.left
  BY <1>0, <1>2 DEF FormCalls
<1> HIDE DEF d
<1>6. Creates = {c} /\ Creates' = {d}
  BY <1>0, <1>1, <1>5 DEF FormInv, StoredInv, Creates
<1>7. \A e \in Form!Entries :
        stored[e] = IF e = c.of.entry /\ "row" \in c.of.left THEN q.stored[e] + 1 ELSE q.stored[e]
  BY <1>0, <1>2 DEF FormRows
<1> HIDE DEF stored
<1>8. StoredInv'
  <2>1. \A e \in Form!Entries : e > ui.entry => stored[e] = 0
    <3>1. c.of.entry <= ui.entry /\ ui.entry \in Nat
      BY <1>0 DEF FormInv, StoredInv, FormShapes, FormViews, Form!Entries
    <3>2. \A e \in Form!Entries : e > ui.entry => e # c.of.entry
      BY <1>0, <3>1 DEF Form!Entries
    <3> QED
      BY <1>7, <3>2 DEF FormInv, StoredInv
  <2>2. ~log.partial => \A e \in Form!Entries : stored[e] <= 1
    BY <1>0, <1>3, <1>7 DEF FormInv, StoredInv
  <2>3. ~log.partial /\ ui.open /\ ui.entry # 0 /\ stored[ui.entry] = 1 => d.of.entry = ui.entry
    <3>1. ui.entry # 0 => ui.entry \in Form!Entries
      BY DEF FormInv, FormShapes, FormViews
    <3>2. ~log.partial /\ ui.open /\ ui.entry # 0 /\ q.stored[ui.entry] = 1 => c.of.entry = ui.entry
      BY <1>6 DEF FormInv, StoredInv
    <3> QED
      BY <1>5, <1>7, <3>1, <3>2
  <2>4. c.of.entry <= ui.entry
    BY <1>0 DEF FormInv, StoredInv
  <2> QED
    BY <1>0, <1>1, <1>4, <1>5, <1>6, <2>1, <2>2, <2>3, <2>4 DEF FormInv, StoredInv
<1>9. ToggleInv'
  BY <1>0, <1>1, <1>4, <1>5, ToggleStays DEF FormInv
<1>10. SplitInv'
  BY <1>0, <1>1, <1>4, <1>5, SplitStays DEF FormInv
<1> QED
  BY <1>1, <1>4, <1>5, <1>8, <1>9, <1>10 DEF FormInv, FormShapes

LEMMA CreateFailsKeeps ==
  ASSUME FormInv, NEW c \in net, Form!CreateFails(c)
  PROVE  FormInv'
<1> DEFINE partial == log.partial \/ "row" \notin c.of.left
<1>1. c \in Creates /\ net' = net \ {c} /\ log' = [log EXCEPT !.partial = partial] /\ ui' = ui /\ q' = q
  BY DEF Form!CreateFails, Creates, FormInv, FormShapes, FormLogs
<1>2. partial \in BOOLEAN /\ (~partial => ~log.partial /\ "row" \in c.of.left)
  BY DEF FormInv, FormShapes, FormLogs
<1> HIDE DEF partial
<1>3. /\ log' \in FormLogs /\ log'.partial = partial /\ log'.old = log.old /\ log'.want = log.want
      /\ log'.cleared = log.cleared
  BY <1>1, <1>2 DEF FormInv, FormShapes, FormLogs
<1>4. Creates = {c} /\ Creates' = {}
  BY <1>1 DEF FormInv, StoredInv, Creates
<1>5. StoredInv'
  BY <1>1, <1>2, <1>3, <1>4 DEF FormInv, StoredInv
<1>6. ToggleInv'
  BY <1>1, <1>3, ToggleStays DEF FormInv, Creates
<1>7. SplitInv'
  BY <1>1, <1>3, SplitStays DEF FormInv
<1> QED
  BY <1>1, <1>3, <1>5, <1>6, <1>7 DEF FormInv, FormShapes

LEMMA CreatedKeeps ==
  ASSUME FormInv, NEW c \in net, Form!Created(c)
  PROVE  FormInv'
<1>1. net' = Form!Orphaned(net \ {c}) /\ ui' = Form!Shut(ui) /\ q' = q /\ log' = log /\ c.of.left = {}
  BY DEF Form!Created
<1>2. net \ {c} \in SUBSET net /\ \A d \in net : d \notin net \ {c} => d = c
  OBVIOUS
<1> QED
  BY <1>1, <1>2, FormShutKeeps

LEMMA FormServeKeeps ==
  ASSUME FormInv, NEW c \in net, Form!Serve(c)
  PROVE  FormInv'
<1> DEFINE d == [c EXCEPT !.st = "done"]
<1>0. c \in FormCalls /\ q \in FormRows /\ c.do \in {"save", "toggle", "orphan"} /\ c.st = "sent"
  BY DEF FormInv, FormShapes, Form!Serve
<1>1. net' = (net \ {c}) \cup {d} /\ ui' = ui
  BY DEF Form!Serve, Form!Served
<1>2. d \in FormCalls /\ d.do = c.do /\ d.of = c.of /\ d.st = "done"
  BY <1>0 DEF FormCalls
<1> HIDE DEF d
<1>3. Creates' = Creates
  BY <1>0, <1>1, <1>2 DEF Creates
<1>4. CASE c.do = "save"
  <2> DEFINE split == (q.split /\ c.of.split = Form!None) \/ c.of.split = "shares"
  <2>1. q' = [q EXCEPT !.hidden = c.of.hidden, !.split = split] /\ log' = log
    BY <1>4, <1>0 DEF Form!Serve, FormRows
  <2>2. c.of.hidden \in BOOLEAN /\ split \in BOOLEAN
    BY <1>0 DEF FormCalls, FormRows
  <2>3. ~split => ~q.split \/ c.of.split = "clear"
    BY <1>0 DEF FormCalls
  <2> HIDE DEF split
  <2>4. q' \in FormRows /\ q'.stored = q.stored /\ q'.hidden = c.of.hidden /\ q'.split = split
    BY <1>0, <2>1, <2>2 DEF FormRows
  <2>5. ToggleInv'
    <3>1. ui.entry = 0 /\ ~log.old => c.of.hidden = q.hidden
      BY <1>0, <1>4 DEF FormInv, ToggleInv
    <3>2. \A e \in net' : e.do \in Toggles => e \in net
      BY <1>1, <1>2, <1>4 DEF Toggles
    <3>3. \A e \in net : e.do \in Toggles => e \in net'
      BY <1>1, <1>4 DEF Toggles
    <3>4. \A e \in net' : e.do = "save" /\ e.st = "sent" => e \in net
      BY <1>1, <1>2
    <3> QED
      BY <1>1, <2>1, <2>4, <3>1, <3>2, <3>3, <3>4 DEF FormInv, ToggleInv, Toggles
  <2>6. SplitInv'
    BY <1>0, <1>1, <1>2, <1>4, <2>1, <2>3, <2>4 DEF FormInv, SplitInv
  <2> QED
    BY <1>1, <1>2, <1>3, <2>1, <2>4, <2>5, <2>6, StoredStays DEF FormInv, FormShapes
<1>5. CASE c.do \in {"toggle", "orphan"}
  <2>1. q' = [q EXCEPT !.hidden = ~@] /\ log' = [log EXCEPT !.want = ~@]
    BY <1>5 DEF Form!Serve
  <2>2. q' \in FormRows /\ q'.stored = q.stored /\ q'.hidden = ~q.hidden /\ q'.split = q.split
    BY <1>0, <2>1 DEF FormRows
  <2>3. /\ log' \in FormLogs /\ log'.old = log.old /\ log'.want = ~log.want
        /\ log'.partial = log.partial /\ log'.cleared = log.cleared
    BY <2>1 DEF FormInv, FormShapes, FormLogs
  <2>4. ToggleInv'
    <3>1. SUFFICES ASSUME ui.entry = 0, ~log.old PROVE ToggleInv'
      BY <1>1, <2>3 DEF ToggleInv
    <3>2. q'.hidden = log'.want
      BY <2>2, <2>3, <3>1 DEF FormInv, ToggleInv
    <3>3. \A e \in net' : ~(e.do = "save" /\ e.st = "sent")
      BY <1>1, <1>2, <1>5, <3>1 DEF FormInv, ToggleInv, Toggles
    <3>4. ui.open => c.do = "toggle" /\ \A e \in net' : e.do # "orphan"
      BY <1>1, <1>2, <1>5, <3>1 DEF FormInv, ToggleInv
    <3>5. ui.open => ~(\A e \in net' : e.do = "toggle" => e.st # "done")
      BY <1>1, <1>2, <3>4
    <3> QED
      BY <1>1, <3>2, <3>3, <3>4, <3>5 DEF ToggleInv
  <2>5. SplitInv'
    BY <1>1, <1>2, <1>5, <2>2, <2>3, SplitStays DEF FormInv
  <2> QED
    BY <1>1, <1>2, <1>3, <2>2, <2>3, <2>4, <2>5, StoredStays DEF FormInv, FormShapes
<1> QED
  BY <1>0, <1>4, <1>5

LEMMA FormAnswerKeeps ==
  ASSUME FormInv, NEW c \in net, Form!Answer(c)
  PROVE  FormInv'
<1>0. c \in FormCalls /\ c.do # "create" /\ q' = q /\ log' = log /\ ui \in FormViews
  BY DEF FormInv, FormShapes, Form!Answer
<1>1. CASE c.do = "save"
  <2>1. net' = Form!Orphaned(net \ {c}) /\ ui' = Form!Shut(ui)
    BY <1>1 DEF Form!Answer
  <2>2. net \ {c} \in SUBSET net /\ \A d \in net : d \notin net \ {c} => d = c
    OBVIOUS
  <2> QED
    BY <1>0, <2>1, <2>2, FormShutKeeps
<1>2. CASE c.do # "save"
  <2>1. net' = net \ {c} /\ net' \subseteq FormCalls
    BY <1>2 DEF Form!Answer, FormInv, FormShapes
  <2>2. Creates' = Creates
    BY <1>0, <2>1 DEF Creates
  <2>3. CASE c.do = "toggle"
    <3>1. ui' = [ui EXCEPT !.hidden = q.hidden]
      BY <2>3 DEF Form!Answer, Form!Toggled
    <3>2. ui' \in FormViews /\ ui'.entry = ui.entry /\ ui'.open = ui.open /\ ui'.hidden = q.hidden
      BY <1>0, <3>1 DEF FormViews, FormInv, FormShapes, FormRows
    <3>3. ToggleInv'
      BY <1>0, <2>1, <3>2 DEF FormInv, ToggleInv
    <3> QED
      BY <1>0, <2>1, <2>2, <3>2, <3>3, StoredStays, SplitStays DEF FormInv, FormShapes
  <2>4. CASE c.do # "toggle"
    <3> DEFINE split == IF ui.split \in {"other", "wrong"} THEN "loaded" ELSE ui.split
    <3>1. ui' \in {ui, [ui EXCEPT !.over = Form!None], [ui EXCEPT !.split = split]}
      BY <1>0, <1>2, <2>4 DEF Form!Answer, FormViews
    <3>2. ui' \in FormViews /\ ui'.entry = ui.entry /\ ui'.open = ui.open /\ ui'.hidden = ui.hidden
      BY <1>0, <3>1 DEF FormViews
    <3>3. ToggleInv'
      BY <1>0, <2>1, <2>4, <3>2, ToggleStays DEF FormInv
    <3> QED
      BY <1>0, <2>1, <2>2, <3>2, <3>3, StoredStays, SplitStays DEF FormInv, FormShapes
  <2> QED
    BY <2>3, <2>4
<1> QED
  BY <1>1, <1>2

(* A toggle that was done and is not heard of makes the flag of the form old. *)
LEMMA FormFailKeeps ==
  ASSUME FormInv, NEW c \in net, Form!Fail(c)
  PROVE  FormInv'
<1> DEFINE lost == c.do = "toggle" /\ c.st = "done"
<1>1. c.do # "create" /\ net' = net \ {c} /\ ui' = ui /\ q' = q /\ log' = [log EXCEPT !.old = @ \/ lost]
  BY DEF Form!Fail
<1>2. /\ log' \in FormLogs /\ log'.old = (log.old \/ lost)
      /\ log'.partial = log.partial /\ log'.want = log.want /\ log'.cleared = log.cleared
  BY <1>1 DEF FormInv, FormShapes, FormLogs
<1>3. Creates' = Creates
  BY <1>1 DEF Creates
<1>4. ToggleInv'
  <2>1. CASE lost
    BY <1>2, <2>1 DEF ToggleInv
  <2>2. CASE ~lost
    <3>1. log'.old = log.old
      BY <1>2, <2>2 DEF FormInv, FormShapes, FormLogs
    <3> QED
      BY <1>1, <1>2, <2>2, <3>1, ToggleStays DEF FormInv
  <2> QED
    BY <2>1, <2>2
<1> QED
  BY <1>1, <1>2, <1>3, <1>4, StoredStays, SplitStays DEF FormInv, FormShapes

LEMMA NextForm == FormInv /\ [Form!Next]_Form!vars => FormInv'
<1> SUFFICES ASSUME FormInv, [Form!Next]_Form!vars PROVE FormInv'
  OBVIOUS
<1>0. ui \in FormViews /\ q \in FormRows
  BY DEF FormInv, FormShapes
<1>1. CASE UNCHANGED Form!vars
  BY <1>0, <1>1, FormViewKeeps DEF Form!vars
<1>2. CASE Form!Open \/ Form!NextEntry \/ Form!Create \/ Form!Save
  BY <1>2, OpenFormKeeps, NextEntryKeeps, CreateKeeps, SaveFormKeeps
<1>3. CASE Form!Close
  <2>1. net \in SUBSET net /\ \A c \in net : c \notin net => c.of.left = {}
    OBVIOUS
  <2> QED
    BY <1>3, <2>1, FormShutKeeps DEF Form!Close
<1>4. CASE Form!MakeRecurring \/ Form!MakeInstallments \/ Form!AttachFiles
  <2>1. PICK o \in SUBSET {"recurring", "installments", "files"} : Form!Changes([ui EXCEPT !.options = o])
    BY <1>0, <1>4 DEF Form!MakeRecurring, Form!MakeInstallments, Form!AttachFiles, FormViews
  <2>2. [ui EXCEPT !.options = o] \in FormViews
    BY <1>0 DEF FormViews
  <2> QED
    BY <1>0, <2>1, <2>2, FormChangesKeeps DEF FormViews
<1>5. CASE Form!GroupLoads \/ Form!GroupMissing \/ Form!EditShares \/ Form!SplitOff \/ Form!SplitOn
  <2>1. PICK s \in {"seeded", "loaded", "other", "wrong", "off"} : Form!Changes([ui EXCEPT !.split = s])
    BY <1>0, <1>5 DEF Form!GroupLoads, Form!GroupMissing, Form!EditShares, Form!SplitOff, Form!SplitOn,
       FormViews
  <2>2. [ui EXCEPT !.split = s] \in FormViews
    BY <1>0 DEF FormViews
  <2> QED
    BY <1>0, <2>1, <2>2, FormChangesKeeps DEF FormViews
<1>6. CASE Form!OpenRule \/ Form!CloseRule \/ Form!Refetched
  <2>1. PICK v \in {[ui EXCEPT !.over = "rule"], [ui EXCEPT !.over = Form!None],
                    [ui EXCEPT !.seen = q.hidden]} :
          Form!Changes(v)
    BY <1>6 DEF Form!OpenRule, Form!CloseRule, Form!Refetched
  <2>2. v \in FormViews /\ v.entry = ui.entry /\ v.open = ui.open /\ v.hidden = ui.hidden
    BY <1>0 DEF FormViews, FormRows
  <2> QED
    BY <2>1, <2>2, FormChangesKeeps
<1>7. CASE Form!NewGroup \/ Form!ToggleIgnore \/ Form!UnlinkRecurring \/ Form!ExtendRule
  BY <1>7, FormSendKeeps DEF Form!NewGroup, Form!ToggleIgnore, Form!UnlinkRecurring, Form!ExtendRule
<1>8. ASSUME NEW c \in net,
             \/ Form!Step(c) \/ Form!Created(c) \/ Form!CreateFails(c)
             \/ Form!Serve(c) \/ Form!Answer(c) \/ Form!Fail(c)
      PROVE  FormInv'
  BY <1>8, StepKeeps, CreatedKeeps, CreateFailsKeeps, FormServeKeeps, FormAnswerKeeps, FormFailKeeps
<1> QED
  BY <1>1, <1>2, <1>3, <1>4, <1>5, <1>6, <1>7, <1>8 DEF Form!Next
-----------------------------------------------------------------------------
(* SavedAsPreviewed of RulesPage, for any number of writes in a behaviour: *)
(* whatever answers come late, the rows on screen are those of the draft   *)
(* that a save sends.                                                      *)

(* What the form and its requests are made of, however many calls there are. *)
RuleViews ==
  [over : {"form", "edit"} \cup Rules!Rows, draft : Rules!Drafts, panel : BOOLEAN,
   shown : Rules!Drafts, rows : 0..Rules!Windows]
RuleCalls ==
  [do : Rules!Writes \cup {"preview", "more"}, of : Rules!Drafts, saw : Rules!Drafts, st : {"sent"}]
RuleShapes == ui \in RuleViews /\ net \subseteq RuleCalls

(* SavedAsPreviewed speaks of calls only. What makes a save send what it had *)
(* on screen is that rows, while there are any, are rows of the draft.       *)
RuleFits(v) == v.rows # 0 => v.shown = v.draft

RuleInv == RuleShapes /\ RuleFits(ui) /\ Rules!SavedAsPreviewed

LEMMA RuleBlankFits ==
  Rules!Nothing \in Rules!Drafts /\ Rules!Blank \in RuleViews /\ RuleFits(Rules!Blank)
BY DEF Rules!Nothing, Rules!Drafts, Rules!Texts, Rules!Flags, Rules!Blank, Rules!Rows, Rules!None,
   Rules!Windows, RuleViews, RuleFits

LEMMA InitRule == Rules!Init => RuleInv
BY RuleBlankFits DEF Rules!Init, RuleInv, RuleShapes, Rules!SavedAsPreviewed

(* A view that fits and a call that is no save keep everything. *)
LEMMA RuleNoSave ==
  ASSUME RuleInv, ui' \in RuleViews, RuleFits(ui)',
         NEW c \in RuleCalls, c.do \notin {"create", "update"}, net' \subseteq net \cup {c}
  PROVE  RuleInv'
<1>1. RuleShapes'
  BY DEF RuleInv, RuleShapes
<1>2. Rules!SavedAsPreviewed'
  BY DEF RuleInv, Rules!SavedAsPreviewed, Rules!Payload
<1> QED
  BY <1>1, <1>2 DEF RuleInv

LEMMA RuleNoCall ==
  ASSUME RuleInv, ui' \in RuleViews, RuleFits(ui)', net' \subseteq net
  PROVE  RuleInv'
BY DEF RuleInv, RuleShapes, Rules!SavedAsPreviewed, Rules!Payload

(* What a write sends is a call, and no write but the form's own is a save. *)
LEMMA RuleWriteKeeps ==
  ASSUME RuleInv, NEW do \in Rules!Writes \ {"create", "update"}, Rules!Write(do)
  PROVE  RuleInv'
<1> DEFINE c == Rules!Call(do, Rules!Nothing, Rules!Nothing)
<1>1. c \in RuleCalls /\ c.do \notin {"create", "update"}
  BY RuleBlankFits DEF Rules!Call, RuleCalls
<1>2. net' = net \cup {c} /\ ui' = ui
  BY DEF Rules!Write, Rules!Writing
<1> HIDE DEF c
<1>3. ui' \in RuleViews /\ RuleFits(ui)'
  BY <1>2 DEF RuleInv, RuleShapes, RuleFits
<1> QED
  BY <1>1, <1>2, <1>3, RuleNoSave

(* Another draft takes the rows away, the same one leaves them. *)
LEMMA RuleShownFits ==
  ASSUME NEW v \in RuleViews, RuleFits(v), NEW d \in Rules!Drafts
  PROVE  Rules!Shown(v, d) \in RuleViews /\ RuleFits(Rules!Shown(v, d))
<1>1. CASE d = v.draft
  <2>1. Rules!Shown(v, d) = [v EXCEPT !.draft = d]
    BY <1>1 DEF Rules!Shown, Rules!Key
  <2> QED
    BY <2>1, <1>1 DEF RuleViews, RuleFits
<1>2. CASE d # v.draft
  <2>1. Rules!Shown(v, d) = [v EXCEPT !.draft = d, !.shown = Rules!Nothing, !.rows = 0]
    BY <1>2 DEF Rules!Shown, Rules!Key
  <2>2. Rules!Shown(v, d) = [over |-> v.over, draft |-> d, panel |-> v.panel, shown |-> Rules!Nothing,
  rows |-> 0]
    BY <2>1 DEF RuleViews
  <2> QED
    BY <2>2, RuleBlankFits DEF RuleViews, RuleFits, Rules!Windows
<1> QED
  BY <1>1, <1>2

LEMMA RuleAsksKeeps ==
  ASSUME RuleInv, NEW v \in RuleViews, RuleFits(v), Rules!Asks(v)
  PROVE  RuleInv'
<1> DEFINE c == Rules!Call("preview", v.draft, Rules!Nothing)
<1>1. c \in RuleCalls /\ c.do \notin {"create", "update"}
  BY RuleBlankFits DEF Rules!Call, RuleCalls, RuleViews
<1>2. ui' = v /\ net' \subseteq net \cup {c}
  BY DEF Rules!Asks
<1> HIDE DEF c
<1>3. ui' \in RuleViews /\ RuleFits(ui)'
  BY <1>2 DEF RuleFits
<1> QED
  BY <1>1, <1>2, <1>3, RuleNoSave

(* A save sends the draft, and has seen rows of the draft or none. *)
LEMMA RuleSaveKeeps == RuleInv /\ Rules!Save => RuleInv'
<1> SUFFICES ASSUME RuleInv, Rules!Save PROVE RuleInv'
  OBVIOUS
<1> DEFINE c == Rules!Call(IF ui.over = "edit" THEN "update" ELSE "create", Rules!Payload(ui.draft),
Rules!Seen)
<1>1. net' = net \cup {c} /\ ui' = ui
  BY DEF Rules!Save, Rules!Writing
<1>2. Rules!Payload(ui.draft) \in Rules!Drafts
  BY DEF RuleInv, RuleShapes, RuleViews, Rules!Drafts, Rules!Flags, Rules!Payload
<1>3. Rules!Seen \in Rules!Drafts /\ (Rules!Seen # Rules!Nothing => Rules!Seen = ui.draft)
  BY RuleBlankFits DEF RuleInv, RuleShapes, RuleViews, RuleFits, Rules!Seen, Rules!Windows
<1>4. c \in RuleCalls
  BY <1>2, <1>3 DEF Rules!Call, RuleCalls, Rules!Writes
<1>5. c.of = Rules!Payload(ui.draft) /\ c.saw = Rules!Seen
  BY DEF Rules!Call
<1> HIDE DEF c
<1>6. RuleShapes' /\ RuleFits(ui)'
  BY <1>1, <1>4 DEF RuleInv, RuleShapes, RuleFits
<1>7. Rules!SavedAsPreviewed'
  BY <1>1, <1>3, <1>5 DEF RuleInv, Rules!SavedAsPreviewed, Rules!Payload
<1> QED
  BY <1>6, <1>7 DEF RuleInv

(* An answer is put on screen only if it is of the draft on screen. *)
LEMMA RulePreviewedKeeps ==
  ASSUME RuleInv, NEW c \in net, Rules!Previewed(c)
  PROVE  RuleInv'
<1>1. c \in RuleCalls /\ ui \in RuleViews /\ RuleFits(ui)
  BY DEF RuleInv, RuleShapes
<1>2. net' \subseteq net
  BY DEF Rules!Previewed
<1>3. CASE ui' = ui
  BY <1>1, <1>2, <1>3, RuleNoCall DEF RuleFits
<1>4. CASE c.of = ui.draft /\ ui' = [ui EXCEPT !.shown = c.of, !.rows = 1]
  <2>1. ui' = [over |-> ui.over, draft |-> ui.draft, panel |-> ui.panel, shown |-> ui.draft, rows |-> 1]
    BY <1>1, <1>4 DEF RuleViews
  <2>2. ui' \in RuleViews /\ RuleFits(ui)'
    BY <2>1, <1>1 DEF RuleViews, RuleFits, Rules!Windows
  <2> QED
    BY <2>2, <1>2, RuleNoCall
<1>5. CASE ui.rows # 0 /\ ui' = [ui EXCEPT !.rows = Rules!Windows]
  <2>1. ui' \in RuleViews /\ RuleFits(ui)'
    BY <1>1, <1>5 DEF RuleViews, RuleFits, Rules!Windows
  <2> QED
    BY <2>1, <1>2, RuleNoCall
<1> QED
  BY <1>3, <1>4, <1>5 DEF Rules!Previewed, Rules!Key

(* The steps that only open something, close it, or look at an answer. *)
LEMMA RuleOverKeeps ==
  ASSUME RuleInv, net' \subseteq net,
         \/ ui' \in {ui, Rules!Blank}
         \/ \E over \in Rules!Rows : ui' = [Rules!Blank EXCEPT !.over = over]
         \/ ui' = [Rules!Blank EXCEPT !.over = "form", !.draft.flags = {"apply"}]
         \/ ui' = [Rules!Blank EXCEPT !.over = "edit", !.draft.text = "rule"]
  PROVE  RuleInv'
<1>1. ui \in RuleViews /\ RuleFits(ui)
  BY DEF RuleInv, RuleShapes
<1>2. CASE ui' \in {ui, Rules!Blank}
  BY <1>1, <1>2, RuleBlankFits, RuleNoCall DEF RuleFits
<1>3. CASE \E over \in Rules!Rows : ui' = [Rules!Blank EXCEPT !.over = over]
  <2>1. ui' \in RuleViews /\ ui'.rows = 0
    BY <1>3, RuleBlankFits DEF RuleViews, Rules!Blank
  <2> QED
    BY <2>1, RuleNoCall DEF RuleFits
<1>4. CASE ui' = [Rules!Blank EXCEPT !.over = "form", !.draft.flags = {"apply"}]
  <2>1. ui' \in RuleViews /\ ui'.rows = 0
    BY <1>4, RuleBlankFits DEF RuleViews, Rules!Blank, Rules!Drafts, Rules!Nothing, Rules!Flags,
       Rules!Texts
  <2> QED
    BY <2>1, RuleNoCall DEF RuleFits
<1>5. CASE ui' = [Rules!Blank EXCEPT !.over = "edit", !.draft.text = "rule"]
  <2>1. ui' \in RuleViews /\ ui'.rows = 0
    BY <1>5, RuleBlankFits DEF RuleViews, Rules!Blank, Rules!Drafts, Rules!Nothing, Rules!Flags,
       Rules!Texts
  <2> QED
    BY <2>1, RuleNoCall DEF RuleFits
<1> QED
  BY <1>2, <1>3, <1>4, <1>5

LEMMA NextRule == RuleInv /\ [Rules!Next]_Rules!vars => RuleInv'
<1> SUFFICES ASSUME RuleInv, [Rules!Next]_Rules!vars PROVE RuleInv'
  OBVIOUS
<1>0. ui \in RuleViews /\ RuleFits(ui)
  BY DEF RuleInv, RuleShapes
<1>1. CASE UNCHANGED Rules!vars
  BY <1>1, RuleOverKeeps DEF Rules!vars
<1>2. CASE \/ Rules!Close \/ Rules!AskDelete \/ Rules!OpenPacks \/ Rules!ChooseFile
           \/ Rules!FileRead \/ Rules!OpenCreate \/ Rules!OpenEdit
  BY <1>2, RuleOverKeeps DEF Rules!Close, Rules!AskDelete, Rules!OpenPacks, Rules!ChooseFile,
     Rules!FileRead, Rules!OpenCreate, Rules!OpenEdit,
     Rules!Changes, Rules!Rows
<1>3. CASE Rules!Delete \/ Rules!ApplyAll \/ Rules!Export \/ Rules!Install \/ Rules!Import
  BY <1>3, RuleWriteKeeps DEF Rules!Delete, Rules!ApplyAll, Rules!Export, Rules!Install, Rules!Import,
     Rules!Writes
<1>4. CASE Rules!TogglePanel
  <2>1. [ui EXCEPT !.panel = ~@] \in RuleViews /\ RuleFits([ui EXCEPT !.panel = ~@])
    BY <1>0 DEF RuleViews, RuleFits
  <2> QED
    BY <1>4, <2>1, RuleAsksKeeps DEF Rules!TogglePanel
<1>5. CASE Rules!More
  <2> DEFINE c == Rules!Call("more", ui.draft, Rules!Nothing)
  <2>1. c \in RuleCalls /\ c.do \notin {"create", "update"}
    BY <1>0, RuleBlankFits DEF Rules!Call, RuleCalls, RuleViews
  <2>2. net' = net \cup {c} /\ ui' = ui
    BY <1>5 DEF Rules!More
  <2> HIDE DEF c
  <2> QED
    BY <1>0, <2>1, <2>2, RuleNoSave DEF RuleFits
<1>6. CASE Rules!Save
  BY <1>6, RuleSaveKeeps
<1>7. ASSUME NEW text \in Rules!Texts, Rules!EditRule(text) PROVE RuleInv'
  <2> DEFINE d == [ui.draft EXCEPT !.text = text]
             v == Rules!Shown(ui, d)
  <2>1. d \in Rules!Drafts
    BY <1>0 DEF RuleViews, Rules!Drafts
  <2>2. Rules!Asks([v EXCEPT !.panel = FALSE])
    BY <1>7 DEF Rules!EditRule
  <2> HIDE DEF d
  <2>3. v \in RuleViews /\ RuleFits(v)
    BY <1>0, <2>1, RuleShownFits
  <2> HIDE DEF v
  <2>4. [v EXCEPT !.panel = FALSE] \in RuleViews /\ RuleFits([v EXCEPT !.panel = FALSE])
    BY <2>3 DEF RuleViews, RuleFits
  <2> QED
    BY <2>2, <2>4, RuleAsksKeeps
<1>8. ASSUME NEW f \in Rules!Flags, Rules!SetFlag(f) PROVE RuleInv'
  <2> DEFINE d == [ui.draft EXCEPT !.flags = IF f \in ui.draft.flags THEN ui.draft.flags \ {f}
                                             ELSE ui.draft.flags \cup {f}]
  <2>1. d \in Rules!Drafts
    BY <1>0 DEF RuleViews, Rules!Drafts
  <2>2. Rules!Asks(Rules!Shown(ui, d))
    BY <1>8 DEF Rules!SetFlag
  <2> HIDE DEF d
  <2>3. Rules!Shown(ui, d) \in RuleViews /\ RuleFits(Rules!Shown(ui, d))
    BY <1>0, <2>1, RuleShownFits
  <2> QED
    BY <2>2, <2>3, RuleAsksKeeps
<1>9. ASSUME NEW c \in net,
Rules!Previewed(c) \/ Rules!PreviewFails(c) \/ Rules!Answer(c) \/ Rules!Fail(c) PROVE RuleInv'
  <2>1. CASE Rules!Previewed(c)
    BY <2>1, RulePreviewedKeeps
  <2>2. CASE Rules!PreviewFails(c) \/ Rules!Answer(c) \/ Rules!Fail(c)
    BY <2>2, RuleOverKeeps DEF Rules!PreviewFails, Rules!Answer, Rules!Fail
  <2> QED
    BY <1>9, <2>1, <2>2
<1> QED
  BY <1>1, <1>2, <1>3, <1>4, <1>5, <1>6, <1>7, <1>8, <1>9 DEF Rules!Next

-----------------------------------------------------------------------------
(* BanksAreOfTheCountry of AccountsPage, for any number of writes and of *)
(* fetches that the consent dialog leaves behind.                        *)

AccountDialogs ==
  {"account", "edit", "connector", "reconnect", "retoken", "settings", "callback", "refused",
   Accounts!None} \cup Accounts!Connects \cup Accounts!Confirms
AccountViews ==
  [over : AccountDialogs, step : {"options", "country", "bank", "direct", Accounts!None},
   country : Accounts!Countries \cup {Accounts!None}, banks : Accounts!Countries \cup {Accounts!None},
   loading : BOOLEAN, failed : BOOLEAN, leaving : BOOLEAN]
AccountKinds == Accounts!Fetches \cup Accounts!Connects \cup Accounts!Confirms \cup Accounts!Others
  \cup {"ticket", "url", "consent", "resync", "retoken"}
AccountCalls == [do : AccountKinds, of : Accounts!Countries \cup {Accounts!None}, st : {"sent"}]
AccountStorage == [last : Accounts!Countries \cup {Accounts!None}, consent : BOOLEAN, left : BOOLEAN]
AccountShapes ==
  /\ ui \in AccountViews /\ q \in AccountStorage
  /\ net \subseteq AccountCalls /\ log \in [n : Nat, late : BOOLEAN]

(* The property of one view: there is no list, or it is the country's. *)
AccountAgrees(v) == v.over = "oauth" /\ v.step = "bank" => v.loading \/ v.failed \/ v.banks = v.country

AccountInv == AccountShapes /\ (log.late \/ AccountAgrees(ui))

LEMMA AccountBlankAgrees == Accounts!Blank \in AccountViews /\ AccountAgrees(Accounts!Blank)
BY DEF Accounts!Blank, AccountViews, AccountAgrees, AccountDialogs, Accounts!None

LEMMA InitAccount == Accounts!Init => AccountInv
<1> SUFFICES ASSUME Accounts!Init PROVE AccountInv
  OBVIOUS
<1>1. q \in AccountStorage
  BY DEF Accounts!Init, AccountStorage
<1>2. log \in [n : Nat, late : BOOLEAN]
  BY DEF Accounts!Init
<1> QED
  BY <1>1, <1>2, AccountBlankAgrees DEF Accounts!Init, AccountInv, AccountShapes

(* A step to a view that agrees if the one before it did. *)
LEMMA AccountViewKeeps ==
  ASSUME AccountInv, ui' \in AccountViews, AccountAgrees(ui) => AccountAgrees(ui)',
  q' \in AccountStorage, net' \subseteq AccountCalls,
         log' \in [n : Nat, late : BOOLEAN], log.late => log'.late
  PROVE  AccountInv'
BY DEF AccountInv, AccountShapes

LEMMA AccountChangesKeeps ==
  ASSUME AccountInv, NEW v \in AccountViews, AccountAgrees(ui) => AccountAgrees(v), Accounts!Changes(v)
  PROVE  AccountInv'
<1>1. ui' = v /\ q' = q /\ net' = net /\ log' = log
  BY DEF Accounts!Changes
<1> QED
  BY <1>1, AccountViewKeeps DEF AccountInv, AccountShapes, AccountAgrees

LEMMA AccountSentIsCall ==
  ASSUME NEW do \in AccountKinds, NEW of \in Accounts!Countries \cup {Accounts!None}
  PROVE  Accounts!Sent(do, of) \in AccountCalls
BY DEF Accounts!Sent, AccountCalls

LEMMA AccountWriteKeeps ==
  ASSUME AccountInv, NEW do \in AccountKinds, NEW v \in AccountViews,
  AccountAgrees(ui) => AccountAgrees(v), Accounts!Write(do, v)
  PROVE  AccountInv'
<1>1. ui' = v /\ q' = q /\ net' = net \cup {Accounts!Sent(do, Accounts!None)}
  BY DEF Accounts!Write
<1>2. net' \subseteq AccountCalls
  BY <1>1, AccountSentIsCall DEF AccountInv, AccountShapes
<1>3. log.n + 1 \in Nat
  BY DEF AccountInv, AccountShapes
<1>4. log' \in [n : Nat, late : BOOLEAN] /\ log'.late = log.late
  BY <1>3 DEF Accounts!Write, AccountInv, AccountShapes
<1> QED
  BY <1>1, <1>2, <1>4, AccountViewKeeps DEF AccountInv, AccountShapes, AccountAgrees

(* A dialog opens: none but the consent dialog shows banks. *)
LEMMA AccountOpenKeeps ==
  ASSUME AccountInv, NEW over \in AccountDialogs, Accounts!Open(over)
  PROVE  AccountInv'
<1>1. [Accounts!Blank EXCEPT !.over = over] \in AccountViews
  BY AccountBlankAgrees DEF AccountViews
<1>2. [Accounts!Blank EXCEPT !.over = over].step = Accounts!None
  BY DEF Accounts!Blank
<1> QED
  BY <1>1, <1>2, AccountChangesKeeps DEF Accounts!Open, AccountAgrees, Accounts!None

(* While the list of a country is awaited, what is underneath does not count. *)
LEMMA AccountLoadBanksAgrees ==
  ASSUME NEW v \in AccountViews
  PROVE  Accounts!LoadBanks(v) \in AccountViews /\ AccountAgrees(Accounts!LoadBanks(v))
<1>1. Accounts!LoadBanks(v) \in AccountViews
  BY DEF Accounts!LoadBanks, AccountViews
<1>2. Accounts!LoadBanks(v).loading
  BY DEF Accounts!LoadBanks, AccountViews
<1> QED
  BY <1>1, <1>2 DEF AccountAgrees

(* The answers of the fetches. One that was still waited for keeps the *)
(* dialog's word; any other sets late.                                 *)
LEMMA AccountLateIs ==
  ASSUME AccountInv, NEW c, Accounts!Late(c)
  PROVE  /\ log' \in [n : Nat, late : BOOLEAN]
         /\ log.late => log'.late
         /\ ui.over = "oauth" /\ ~Accounts!Latest(c) => log'.late
<1>1. log' = [log EXCEPT !.late = @ \/ (ui.over = "oauth" /\ ~Accounts!Latest(c))]
  BY DEF Accounts!Late
<1>2. (ui.over = "oauth" /\ ~Accounts!Latest(c)) \in BOOLEAN
  OBVIOUS
<1>3. log \in [n : Nat, late : BOOLEAN]
  BY DEF AccountInv, AccountShapes
<1> HIDE DEF Accounts!Latest
<1> QED
  BY <1>1, <1>2, <1>3

(* The same as ViewKeeps, for an answer that may have come late. *)
LEMMA AccountFetchKeeps ==
  ASSUME AccountInv, NEW c \in net, Accounts!Late(c), ui' \in AccountViews, q' \in AccountStorage,
  net' \subseteq AccountCalls,
         ui.over = "oauth" /\ Accounts!Latest(c) /\ AccountAgrees(ui) => AccountAgrees(ui)',
         ui.over # "oauth" => ui' = ui
  PROVE  AccountInv'
<1>1. CASE ui.over = "oauth" /\ ~Accounts!Latest(c)
  BY <1>1, AccountLateIs DEF AccountInv, AccountShapes
<1>2. CASE ui.over # "oauth"
  BY <1>2, AccountLateIs, AccountViewKeeps DEF AccountInv, AccountShapes, AccountAgrees
<1>3. CASE ui.over = "oauth" /\ Accounts!Latest(c)
  BY <1>3, AccountLateIs, AccountViewKeeps DEF AccountInv, AccountShapes
<1> QED
  BY <1>1, <1>2, <1>3

LEMMA AccountGotBanksKeeps ==
  ASSUME AccountInv, NEW c \in net, Accounts!GotBanks(c)
  PROVE  AccountInv'
<1>1. c \in AccountCalls /\ ui \in AccountViews /\ c.do = "banks" /\ Accounts!Late(c) /\ q' \in AccountStorage /\ net' \subseteq AccountCalls
  BY DEF AccountInv, AccountShapes, Accounts!GotBanks
<1>2. CASE ui.over # "oauth"
  BY <1>1, <1>2, AccountFetchKeeps DEF Accounts!GotBanks
<1>3. CASE ui.over = "oauth"
  <2> DEFINE v == [ui EXCEPT !.banks = c.of, !.loading = FALSE]
  <2>1. ui' = v
    BY <1>3 DEF Accounts!GotBanks
  <2>2. v \in AccountViews
    BY <1>1 DEF AccountViews, AccountCalls
  <2>3. v.banks = c.of /\ v.country = ui.country
    BY <1>1 DEF AccountViews
  <2>4. Accounts!Latest(c) => ui.country = c.of
    BY <1>1 DEF Accounts!Latest
  <2> HIDE DEF v
  <2> QED
    BY <1>1, <1>3, <2>1, <2>2, <2>3, <2>4, AccountFetchKeeps DEF AccountAgrees
<1> QED
  BY <1>2, <1>3

LEMMA AccountFetchFailsKeeps ==
  ASSUME AccountInv, NEW c \in net, Accounts!FetchFails(c)
  PROVE  AccountInv'
<1>1. ui \in AccountViews /\ Accounts!Late(c) /\ q' \in AccountStorage /\ net' \subseteq AccountCalls
  BY DEF AccountInv, AccountShapes, Accounts!FetchFails
<1>2. CASE ui.over # "oauth"
  BY <1>1, <1>2, AccountFetchKeeps DEF Accounts!FetchFails
<1>3. CASE ui.over = "oauth"
  <2> DEFINE v == [ui EXCEPT !.failed = TRUE, !.loading = FALSE]
  <2>1. ui' = v
    BY <1>3 DEF Accounts!FetchFails
  <2>2. v \in AccountViews /\ v.failed
    BY <1>1 DEF AccountViews
  <2> HIDE DEF v
  <2> QED
    BY <1>1, <1>3, <2>1, <2>2, AccountFetchKeeps DEF AccountAgrees
<1> QED
  BY <1>2, <1>3

LEMMA AccountGotCountriesKeeps ==
  ASSUME AccountInv, NEW c \in net, Accounts!GotCountries(c)
  PROVE  AccountInv'
<1> DEFINE again == ui.over = "oauth" /\ ui.step # "direct" /\ q.last # Accounts!None
<1>0. q' = [q EXCEPT !.left = @ \/ (ui.over # "oauth" /\ q.last # Accounts!None)] /\ q \in AccountStorage
  BY DEF AccountInv, AccountShapes, Accounts!GotCountries
<1>1. /\ ui \in AccountViews /\ q.last \in Accounts!Countries \cup {Accounts!None}
      /\ Accounts!Late(c) /\ q' \in AccountStorage /\ c.do = "countries"
  BY <1>0 DEF AccountInv, AccountShapes, AccountStorage, Accounts!GotCountries
<1>2. net' \subseteq AccountCalls
  <2>1. Accounts!Sent("banks", q.last) \in AccountCalls
    BY <1>1, AccountSentIsCall DEF AccountKinds, Accounts!Fetches
  <2> QED
    BY <2>1 DEF Accounts!GotCountries, AccountInv, AccountShapes
<1>3. CASE again
  <2> DEFINE v == Accounts!LoadBanks([ui EXCEPT !.country = q.last])
  <2>1. ui' = v
    BY <1>3 DEF Accounts!GotCountries
  <2>2. [ui EXCEPT !.country = q.last] \in AccountViews
    BY <1>1 DEF AccountViews
  <2>3. v \in AccountViews /\ AccountAgrees(v)
    BY <2>2, AccountLoadBanksAgrees
  <2> HIDE DEF v
  <2> QED
    BY <1>1, <1>2, <1>3, <2>1, <2>3, AccountFetchKeeps DEF AccountAgrees
<1>4. CASE ~again /\ ui.over = "oauth"
  <2> DEFINE v == [ui EXCEPT !.loading = FALSE]
  <2>1. ui' = v
    BY <1>4 DEF Accounts!GotCountries
  <2>2. v \in AccountViews /\ v.step = ui.step
    BY <1>1 DEF AccountViews
  <2>3. Accounts!Latest(c) => ui.step # "bank"
    BY <1>1 DEF Accounts!Latest
  <2> HIDE DEF v
  <2> QED
    BY <1>1, <1>2, <1>4, <2>1, <2>2, <2>3, AccountFetchKeeps DEF AccountAgrees
<1>5. CASE ui.over # "oauth"
  BY <1>1, <1>2, <1>5, AccountFetchKeeps DEF Accounts!GotCountries
<1> QED
  BY <1>3, <1>4, <1>5

LEMMA AccountShutIsStored == AccountInv => Accounts!Shut \in AccountStorage
BY DEF Accounts!Shut, Accounts!In, AccountInv, AccountShapes, AccountStorage

(* The other answers close what is open, or leave it. *)
LEMMA AccountClosingKeeps ==
  ASSUME AccountInv, ui' \in {ui, Accounts!Blank, [Accounts!Blank EXCEPT !.over = "callback"],
  [Accounts!Blank EXCEPT !.over = "refused"],
                        [ui EXCEPT !.leaving = FALSE], [ui EXCEPT !.leaving = TRUE]},
         q' \in AccountStorage, net' \subseteq AccountCalls, log' = log
  PROVE  AccountInv'
<1>1. ui \in AccountViews
  BY DEF AccountInv, AccountShapes
<1>2. ui' \in AccountViews /\ (AccountAgrees(ui) => AccountAgrees(ui)')
  <2>1. CASE ui' = ui
    BY <1>1, <2>1 DEF AccountAgrees
  <2>2. CASE ui' = Accounts!Blank
    BY <2>2, AccountBlankAgrees DEF AccountAgrees
  <2>3. CASE ui' = [Accounts!Blank EXCEPT !.over = "callback"] \/ ui' = [Accounts!Blank EXCEPT !.over = "refused"]
    <3>1. ui' \in AccountViews
      BY <2>3, AccountBlankAgrees DEF AccountViews, AccountDialogs
    <3>2. ui'.over # "oauth"
      BY <2>3 DEF Accounts!Blank
    <3> QED
      BY <3>1, <3>2 DEF AccountAgrees
  <2>4. CASE ui' = [ui EXCEPT !.leaving = FALSE] \/ ui' = [ui EXCEPT !.leaving = TRUE]
    BY <1>1, <2>4 DEF AccountViews, AccountAgrees
  <2> QED
    BY <2>1, <2>2, <2>3, <2>4
<1> QED
  BY <1>2, AccountViewKeeps DEF AccountInv, AccountShapes

LEMMA AccountAnswersKeep ==
  ASSUME AccountInv, NEW c \in net,
         \/ Accounts!GotUrl(c) \/ Accounts!NoAccounts(c) \/ Accounts!Ticket(c)
         \/ Accounts!Answer(c) \/ Accounts!Fail(c)
  PROVE  AccountInv'
<1>1. net' \subseteq AccountCalls /\ log' = log
  BY DEF Accounts!GotUrl, Accounts!NoAccounts, Accounts!Ticket, Accounts!Answer, Accounts!Fail,
     AccountInv, AccountShapes
<1>2. q' \in AccountStorage
  BY AccountShutIsStored DEF Accounts!GotUrl, Accounts!NoAccounts, Accounts!Ticket, Accounts!Answer,
     Accounts!Fail, AccountInv, AccountShapes, AccountStorage
<1>3. ui' \in {ui, Accounts!Blank, [Accounts!Blank EXCEPT !.over = "callback"],
[Accounts!Blank EXCEPT !.over = "refused"],
               [ui EXCEPT !.leaving = FALSE], [ui EXCEPT !.leaving = TRUE]}
  BY DEF Accounts!GotUrl, Accounts!NoAccounts, Accounts!Ticket, Accounts!Answer, Accounts!Fail
<1> QED
  BY <1>1, <1>2, <1>3, AccountClosingKeeps

LEMMA NextAccount == AccountInv /\ [Accounts!Next]_Accounts!vars => AccountInv'
<1> SUFFICES ASSUME AccountInv, [Accounts!Next]_Accounts!vars PROVE AccountInv'
  OBVIOUS
<1>0. ui \in AccountViews /\ q \in AccountStorage /\ net \subseteq AccountCalls
  BY DEF AccountInv, AccountShapes
<1>1. CASE UNCHANGED Accounts!vars
  BY <1>0, <1>1, AccountClosingKeeps DEF Accounts!vars
<1>2. CASE \/ Accounts!AddAccount \/ Accounts!EditAccount \/ Accounts!OpenSettings
           \/ Accounts!ReconnectToken \/ Accounts!OpenConnectors
           \/ \E confirm \in Accounts!Confirms : Accounts!Ask(confirm)
  BY <1>2, AccountOpenKeeps DEF Accounts!AddAccount, Accounts!EditAccount, Accounts!OpenSettings,
     Accounts!ReconnectToken, Accounts!OpenConnectors, Accounts!Ask, AccountDialogs
<1>3. CASE \/ Accounts!SaveAccount \/ Accounts!Confirm \/ Accounts!Reopen \/ Accounts!Sync
           \/ Accounts!SaveSettings \/ Accounts!ReconnectOAuth \/ Accounts!WidgetDone
           \/ Accounts!SubmitToken
  <2>1. PICK do \in AccountKinds : Accounts!Write(do, ui)
    BY <1>3 DEF Accounts!SaveAccount, Accounts!Confirm, Accounts!Reopen, Accounts!Sync,
       Accounts!SaveSettings, Accounts!ReconnectOAuth, Accounts!WidgetDone, Accounts!SubmitToken,
                AccountKinds, Accounts!Confirms, Accounts!Others, Accounts!Connects, Accounts!Tokens
  <2> QED
    BY <1>0, <2>1, AccountWriteKeeps
<1>4. CASE Accounts!Close
  <2>1. ui' = Accounts!Blank /\ q' = Accounts!Shut /\ log' = log /\ net' \subseteq net
    BY <1>4 DEF Accounts!Close
  <2> QED
    BY <1>0, <2>1, AccountShutIsStored, AccountClosingKeeps
<1>5. CASE Accounts!ReconnectWidget \/ \E options \in BOOLEAN : Accounts!PickWidget(options)
  <2>1. Accounts!Sent("ticket", Accounts!None) \in AccountCalls
    BY AccountSentIsCall DEF AccountKinds
  <2>2. net' \subseteq AccountCalls /\ q' = q /\ log' = log
    BY <1>0, <1>5, <2>1 DEF Accounts!ReconnectWidget, Accounts!PickWidget
  <2>3. PICK over \in {"reconnect", "widget"}, step \in {"options", Accounts!None} :
          ui' = [Accounts!Blank EXCEPT !.over = over] \/ ui' = [Accounts!Blank EXCEPT !.over = over,
          !.step = step]
    BY <1>5 DEF Accounts!ReconnectWidget, Accounts!PickWidget
  <2>4. ui' \in AccountViews
    BY <2>3, AccountBlankAgrees DEF AccountViews, AccountDialogs, Accounts!Connects
  <2>5. ui'.over # "oauth"
    BY <2>3 DEF Accounts!Blank
  <2> QED
    BY <2>2, <2>4, <2>5, AccountViewKeeps DEF AccountInv, AccountShapes, AccountAgrees
<1>6. CASE Accounts!ConfirmOptions
  <2>1. Accounts!Sent("ticket", Accounts!None) \in AccountCalls
    BY AccountSentIsCall DEF AccountKinds
  <2>2. net' \subseteq AccountCalls /\ q' = q /\ log' = log
    BY <1>0, <1>6, <2>1 DEF Accounts!ConfirmOptions
  <2>3. ui' \in AccountViews /\ ui'.over = ui.over /\ ui.over # "oauth"
    BY <1>0, <1>6 DEF Accounts!ConfirmOptions, Accounts!In, AccountViews
  <2> QED
    BY <2>2, <2>3, AccountViewKeeps DEF AccountInv, AccountShapes, AccountAgrees
<1>7. CASE Accounts!PickToken \/ Accounts!PickDirect
  <2>1. PICK over \in {"token", "oauth"}, step \in {"direct", Accounts!None} :
          \/ Accounts!Changes([Accounts!Blank EXCEPT !.over = over]) /\ step = Accounts!None
          \/ Accounts!Changes([Accounts!Blank EXCEPT !.over = over, !.step = step])
    BY <1>7 DEF Accounts!PickToken, Accounts!PickDirect
  <2>2. [Accounts!Blank EXCEPT !.over = over] \in AccountViews /\ [Accounts!Blank EXCEPT !.over = over,
  !.step = step] \in AccountViews
    BY AccountBlankAgrees DEF AccountViews, AccountDialogs, Accounts!Connects
  <2>3. [Accounts!Blank EXCEPT !.over = over].step # "bank"
        /\ [Accounts!Blank EXCEPT !.over = over, !.step = step].step # "bank"
    BY DEF Accounts!Blank, Accounts!None
  <2> QED
    BY <2>1, <2>2, <2>3, AccountChangesKeeps DEF AccountAgrees
<1>8. CASE Accounts!PickOAuth
  <2> DEFINE v == [Accounts!Blank EXCEPT !.over = "oauth", !.step = "country", !.loading = TRUE]
  <2>1. /\ Accounts!Sent("countries", Accounts!None) \in AccountCalls
        /\ Accounts!Sent("banks", q.last) \in AccountCalls
    BY <1>0, AccountSentIsCall DEF AccountKinds, Accounts!Fetches, AccountStorage
  <2>2. net' \subseteq AccountCalls /\ q' = q /\ log' = log /\ ui' = v
    BY <1>0, <1>8, <2>1 DEF Accounts!PickOAuth
  <2>3. v \in AccountViews
    BY AccountBlankAgrees DEF AccountViews, AccountDialogs, Accounts!Connects
  <2>4. v.loading
    BY DEF Accounts!Blank
  <2> HIDE DEF v
  <2> QED
    BY <2>2, <2>3, <2>4, AccountViewKeeps DEF AccountInv, AccountShapes, AccountAgrees
<1>9. ASSUME NEW c \in Accounts!Countries, Accounts!PickCountry(c) PROVE AccountInv'
  <2> DEFINE v == Accounts!LoadBanks([ui EXCEPT !.country = c])
  <2>1. ui' = v /\ q' = [q EXCEPT !.last = c] /\ net' = net \cup {Accounts!Sent("banks",
  c)} /\ log' = log
    BY <1>9 DEF Accounts!PickCountry
  <2>2. [ui EXCEPT !.country = c] \in AccountViews
    BY <1>0 DEF AccountViews
  <2>3. v \in AccountViews /\ AccountAgrees(v)
    BY <2>2, AccountLoadBanksAgrees
  <2>4. net' \subseteq AccountCalls
    BY <1>0, <2>1, AccountSentIsCall DEF AccountKinds, Accounts!Fetches
  <2>5. q' \in AccountStorage
    BY <1>0, <2>1 DEF AccountStorage
  <2> HIDE DEF v
  <2> QED
    BY <2>1, <2>3, <2>4, <2>5, AccountViewKeeps DEF AccountInv, AccountShapes, AccountAgrees
<1>10. CASE Accounts!Back
  <2>1. [ui EXCEPT !.step = "country"] \in AccountViews
    BY <1>0 DEF AccountViews
  <2>2. [ui EXCEPT !.step = "country"].step # "bank"
    BY <1>0 DEF AccountViews
  <2> QED
    BY <1>10, <2>1, <2>2, AccountChangesKeeps DEF Accounts!Back, AccountAgrees
<1>11. CASE Accounts!Leave
  <2> DEFINE v == [ui EXCEPT !.leaving = TRUE]
  <2>1. v \in AccountViews /\ (AccountAgrees(ui) => AccountAgrees(v))
    BY <1>0 DEF AccountViews, AccountAgrees
  <2>2. Accounts!Write("url", v)
    BY <1>11 DEF Accounts!Leave
  <2> HIDE DEF v
  <2> QED
    BY <2>1, <2>2, AccountWriteKeeps DEF AccountKinds
<1>12. CASE Accounts!Refused \/ Accounts!GiveUp
  BY <1>12, AccountBlankAgrees, AccountChangesKeeps DEF Accounts!Refused, Accounts!GiveUp
<1>13. CASE Accounts!Submit
  <2>1. Accounts!Sent("consent", Accounts!None) \in AccountCalls
    BY AccountSentIsCall DEF AccountKinds
  <2>2. net' \subseteq AccountCalls /\ q' \in AccountStorage /\ log' = log /\ ui' = ui
    BY <1>0, <1>13, <2>1 DEF Accounts!Submit, AccountStorage
  <2> QED
    BY <2>2, AccountClosingKeeps
<1>14. CASE Accounts!Retry
  BY <1>0, <1>14, AccountClosingKeeps DEF Accounts!Retry, Accounts!Changes
<1>15. ASSUME NEW c \in net,
              \/ Accounts!GotCountries(c) \/ Accounts!GotBanks(c) \/ Accounts!FetchFails(c)
              \/ Accounts!GotUrl(c) \/ Accounts!NoAccounts(c)
              \/ Accounts!Ticket(c) \/ Accounts!Answer(c) \/ Accounts!Fail(c)
       PROVE  AccountInv'
  BY <1>15, AccountGotCountriesKeeps, AccountGotBanksKeeps, AccountFetchFailsKeeps, AccountAnswersKeep
<1> QED
  BY <1>1, <1>2, <1>3, <1>4, <1>5, <1>6, <1>7, <1>8, <1>9, <1>10, <1>11, <1>12, <1>13, <1>14,
     <1>15 DEF Accounts!Next

-----------------------------------------------------------------------------
(* SelectedAreListed of PayeesPage, for any number of writes.                *)

PayeeViews ==
  [over : {"form", "merge", "delete", Payees!None}, of : Payees!Payees \cup {Payees!None},
   target : Payees!Payees \cup {Payees!None}, doomed : SUBSET Payees!Payees,
   sel : SUBSET Payees!Payees, only : BOOLEAN]
PayeeServers ==
  [there : BOOLEAN, star : BOOLEAN, listed : BOOLEAN, got : BOOLEAN, fetch : {"none", "sent", "read"}]
PayeeCalls == [do : Payees!Writes, of : SUBSET Payees!Payees, st : {"sent", "done"}]
PayeeLogs == [n : Nat, excused : BOOLEAN]
PayeeShapes == ui \in PayeeViews /\ q \in PayeeServers /\ net \subseteq PayeeCalls /\ log \in PayeeLogs

(* The payee is still selected after it was removed only as long as the   *)
(* answer of what removed it is on its way, and that answer deselects it. *)
PayeeRemoving(c) == "it" \in c.of /\ c.do \in Payees!Removes /\ c.st = "done"
PayeeAwaited(calls) == \E c \in calls : PayeeRemoving(c)

(* A list on its way lacks the payee only if it was removed before the list *)
(* was read: it stays a favourite, and so in every filter.                  *)
PayeeHolds ==
  /\ q.star
  /\ "it" \in ui.sel => /\ q.listed
                        /\ q.fetch = "read" => q.got
                        /\ q.there \/ PayeeAwaited(net)
  /\ q.fetch = "read" /\ q.there => q.got

PayeeInv == PayeeShapes /\ (log.excused \/ PayeeHolds)

LEMMA InitPayee == Payees!Init => PayeeInv
BY DEF Payees!Init, PayeeInv, PayeeShapes, PayeeViews, PayeeServers, PayeeLogs, PayeeHolds,
   Payees!None, Payees!Payees

(* A step that changes no more than the view, and selects no more. *)
LEMMA PayeeViewKeeps ==
  ASSUME PayeeInv, NEW v \in PayeeViews, Payees!Changes(v), v.sel = ui.sel
  PROVE  PayeeInv'
BY DEF Payees!Changes, PayeeInv, PayeeShapes, PayeeHolds

LEMMA PayeeShutFits ==
  ASSUME NEW v \in PayeeViews
  PROVE  Payees!Shut(v) \in PayeeViews /\ Payees!Shut(v).sel = v.sel
BY DEF Payees!Shut, PayeeViews

(* The dialogs, which choose among what is selected or listed. *)
LEMMA PayeeDialogsKeep ==
  ASSUME PayeeInv, \/ Payees!Close \/ Payees!OpenCreate \/ Payees!AskDeleteAll \/ Payees!AskMerge
               \/ \E p \in Payees!Payees : Payees!OpenEdit(p) \/ Payees!AskDelete(p) \/ Payees!PickTarget(p)
  PROVE  PayeeInv'
<1>0. ui \in PayeeViews
  BY DEF PayeeInv, PayeeShapes
<1>1. CASE Payees!Close
  BY <1>0, <1>1, PayeeShutFits, PayeeViewKeeps DEF Payees!Close
<1>2. CASE Payees!OpenCreate
  <2>1. [ui EXCEPT !.over = "form"] \in PayeeViews /\ [ui EXCEPT !.over = "form"].sel = ui.sel
    BY <1>0 DEF PayeeViews
  <2> QED
    BY <1>2, <2>1, PayeeViewKeeps DEF Payees!OpenCreate
<1>3. CASE Payees!AskDeleteAll
  <2> DEFINE v == [ui EXCEPT !.over = "delete", !.doomed = ui.sel]
  <2>1. v \in PayeeViews /\ v.sel = ui.sel
    BY <1>0 DEF PayeeViews
  <2>2. Payees!Changes(v)
    BY <1>3 DEF Payees!AskDeleteAll
  <2> HIDE DEF v
  <2> QED
    BY <2>1, <2>2, PayeeViewKeeps
<1>4. CASE Payees!AskMerge
  <2>1. [ui EXCEPT !.over = "merge"] \in PayeeViews /\ [ui EXCEPT !.over = "merge"].sel = ui.sel
    BY <1>0 DEF PayeeViews
  <2> QED
    BY <1>4, <2>1, PayeeViewKeeps DEF Payees!AskMerge
<1>5. ASSUME NEW p \in Payees!Payees, Payees!OpenEdit(p) PROVE PayeeInv'
  <2> DEFINE v == [ui EXCEPT !.over = "form", !.of = p]
  <2>1. v \in PayeeViews /\ v.sel = ui.sel
    BY <1>0 DEF PayeeViews
  <2>2. Payees!Changes(v)
    BY <1>5 DEF Payees!OpenEdit
  <2> HIDE DEF v
  <2> QED
    BY <2>1, <2>2, PayeeViewKeeps
<1>6. ASSUME NEW p \in Payees!Payees, Payees!AskDelete(p) PROVE PayeeInv'
  <2> DEFINE v == [ui EXCEPT !.over = "delete", !.doomed = {p}]
  <2>1. v \in PayeeViews /\ v.sel = ui.sel
    BY <1>0 DEF PayeeViews
  <2>2. Payees!Changes(v)
    BY <1>6 DEF Payees!AskDelete
  <2> HIDE DEF v
  <2> QED
    BY <2>1, <2>2, PayeeViewKeeps
<1>7. ASSUME NEW p \in Payees!Payees, Payees!PickTarget(p) PROVE PayeeInv'
  <2>1. [ui EXCEPT !.target = p] \in PayeeViews /\ [ui EXCEPT !.target = p].sel = ui.sel
    BY <1>0 DEF PayeeViews
  <2> QED
    BY <1>7, <2>1, PayeeViewKeeps DEF Payees!PickTarget
<1> QED
  BY <1>1, <1>2, <1>3, <1>4, <1>5, <1>6, <1>7

(* A write that is only sent changes nothing yet. *)
LEMMA PayeeWriteKeeps ==
  ASSUME PayeeInv, NEW do \in Payees!Writes, NEW of \in SUBSET Payees!Payees, Payees!Write(do, of)
  PROVE  PayeeInv'
<1>1. PICK c : c = Payees!Sent(do, of)
  OBVIOUS
<1>2. c \in PayeeCalls
  BY <1>1 DEF Payees!Sent, PayeeCalls
<1>3. ui' = ui /\ q' = q /\ net' = net \cup {c} /\ log' = [log EXCEPT !.n = @ + 1]
  BY <1>1 DEF Payees!Write
<1>4. log.n + 1 \in Nat
  BY DEF PayeeInv, PayeeShapes, PayeeLogs
<1>5. log' \in PayeeLogs /\ log'.excused = log.excused
  BY <1>3, <1>4 DEF PayeeInv, PayeeShapes, PayeeLogs
<1>6. PayeeAwaited(net) => PayeeAwaited(net')
  BY <1>3 DEF PayeeAwaited
<1> QED
  BY <1>2, <1>3, <1>5, <1>6 DEF PayeeInv, PayeeShapes, PayeeHolds

LEMMA PayeeWritesKeep ==
  ASSUME PayeeInv,
  \/ Payees!Save \/ Payees!DeleteFromForm \/ Payees!ConfirmDelete \/ Payees!ConfirmMerge
               \/ \E p \in Payees!Payees : Payees!Star(p)
  PROVE  PayeeInv'
<1>0. ui \in PayeeViews
  BY DEF PayeeInv, PayeeShapes
<1>1. CASE Payees!Save
  <2>1. ui.of = Payees!None \/ {ui.of} \in SUBSET Payees!Payees
    BY <1>0 DEF PayeeViews
  <2> QED
    BY <1>1, <2>1, PayeeWriteKeeps DEF Payees!Save, Payees!Writes
<1>2. CASE Payees!DeleteFromForm
  <2>1. {ui.of} \in SUBSET Payees!Payees
    BY <1>0, <1>2 DEF PayeeViews, Payees!DeleteFromForm
  <2> QED
    BY <1>2, <2>1, PayeeWriteKeeps DEF Payees!DeleteFromForm, Payees!Writes, Payees!Removes
<1>3. CASE Payees!ConfirmDelete
  <2>1. ui.doomed \in SUBSET Payees!Payees
    BY <1>0 DEF PayeeViews
  <2>2. PICK do \in {"delete", "deleteAll"} : Payees!Write(do, ui.doomed)
    BY <1>3 DEF Payees!ConfirmDelete
  <2> QED
    BY <2>1, <2>2, PayeeWriteKeeps DEF Payees!Writes, Payees!Removes
<1>4. CASE Payees!ConfirmMerge
  <2>1. ui.sel \ {ui.target} \in SUBSET Payees!Payees
    BY <1>0 DEF PayeeViews
  <2> QED
    BY <1>4, <2>1, PayeeWriteKeeps DEF Payees!ConfirmMerge, Payees!Writes, Payees!Removes
<1>5. ASSUME NEW p \in Payees!Payees, Payees!Star(p) PROVE PayeeInv'
  BY <1>5, PayeeWriteKeeps DEF Payees!Star, Payees!Writes
<1> QED
  BY <1>1, <1>2, <1>3, <1>4, <1>5

(* What is selected is listed; a payee that is there no more excuses it. *)
LEMMA PayeeSelectsKeep ==
  ASSUME PayeeInv, NEW sel \in SUBSET Payees!Payees, Payees!Selects(sel),
  sel \subseteq ui.sel \cup Payees!Listed
  PROVE  PayeeInv'
<1>0. ui \in PayeeViews /\ q \in PayeeServers /\ log \in PayeeLogs
  BY DEF PayeeInv, PayeeShapes
<1>1. ui' = [ui EXCEPT !.sel = sel] /\ q' = q /\ net' = net
  BY DEF Payees!Selects
<1>2. ui' \in PayeeViews /\ ui'.sel = sel
  BY <1>0, <1>1 DEF PayeeViews
<1>3. CASE q.there \/ "it" \notin sel \ ui.sel
  <2>1. log' = log
    BY <1>3 DEF Payees!Selects
  <2>2. ASSUME PayeeHolds PROVE PayeeHolds'
    <3>1. "it" \in sel => "it" \in ui.sel \/ q.listed
      BY DEF Payees!Listed
    <3> QED
      BY <1>1, <1>2, <1>3, <2>2, <3>1 DEF PayeeHolds
  <2> QED
    BY <1>0, <1>1, <1>2, <2>1, <2>2 DEF PayeeInv, PayeeShapes
<1>4. CASE ~(q.there \/ "it" \notin sel \ ui.sel)
  <2>1. log' = Payees!Excused
    BY <1>4 DEF Payees!Selects
  <2>2. log' \in PayeeLogs /\ log'.excused
    BY <1>0, <2>1 DEF Payees!Excused, PayeeLogs
  <2> QED
    BY <1>0, <1>1, <1>2, <2>2 DEF PayeeInv, PayeeShapes
<1> QED
  BY <1>3, <1>4

LEMMA PayeeTogglesKeep ==
  ASSUME PayeeInv, Payees!ToggleAll \/ \E p \in Payees!Payees : Payees!Toggle(p)
  PROVE  PayeeInv'
<1>0. ui.sel \in SUBSET Payees!Payees /\ Payees!Listed \in SUBSET Payees!Payees
  BY DEF PayeeInv, PayeeShapes, PayeeViews, Payees!Listed
<1>1. CASE Payees!ToggleAll
  <2>1. PICK sel \in {{}, Payees!Listed} : Payees!Selects(sel)
    BY <1>1 DEF Payees!ToggleAll
  <2> QED
    BY <1>0, <2>1, PayeeSelectsKeep
<1>2. ASSUME NEW p \in Payees!Payees, Payees!Toggle(p) PROVE PayeeInv'
  <2>1. PICK sel \in {ui.sel \ {p}, ui.sel \cup {p}} : Payees!Selects(sel)
    BY <1>2 DEF Payees!Toggle
  <2>2. p \in Payees!Listed
    BY <1>2 DEF Payees!Toggle
  <2>3. sel \in SUBSET Payees!Payees /\ sel \subseteq ui.sel \cup Payees!Listed
    BY <1>0, <2>1, <2>2
  <2> QED
    BY <2>1, <2>3, PayeeSelectsKeep
<1> QED
  BY <1>1, <1>2

(* Another filter selects nothing and asks for its list. *)
LEMMA PayeeFilterKeeps ==
  ASSUME PayeeInv, Payees!Filter
  PROVE  PayeeInv'
<1>0. ui \in PayeeViews /\ q \in PayeeServers
  BY DEF PayeeInv, PayeeShapes
<1>1. ui' = [[ui EXCEPT !.only = ~@] EXCEPT !.sel = {}]
  BY DEF Payees!Filter, Payees!Filtered
<1>2. ui' \in PayeeViews /\ ui'.sel = {}
  BY <1>0, <1>1 DEF PayeeViews
<1>3. q' = [q EXCEPT !.listed = FALSE, !.fetch = "sent", !.got = FALSE] /\ net' = net /\ log' = log
  BY DEF Payees!Filter
<1>4. q' \in PayeeServers /\ q'.fetch = "sent" /\ q'.star = q.star
  BY <1>0, <1>3 DEF PayeeServers
<1> QED
  BY <1>2, <1>3, <1>4 DEF PayeeInv, PayeeShapes, PayeeHolds

LEMMA PayeeFetchKeeps ==
  ASSUME PayeeInv, Payees!Fetch
  PROVE  PayeeInv'
<1>1. q' = [q EXCEPT !.fetch = "sent"] /\ ui' = ui /\ net' = net /\ log' = log
  BY DEF Payees!Fetch
<1>2. /\ q' \in PayeeServers /\ q'.fetch = "sent" /\ q'.star = q.star /\ q'.listed = q.listed
      /\ q'.there = q.there
  BY <1>1 DEF PayeeInv, PayeeShapes, PayeeServers
<1> QED
  BY <1>1, <1>2 DEF PayeeInv, PayeeShapes, PayeeHolds

(* The list is read: without the payee only if it is gone, which excuses the *)
(* page if the answer that would deselect it is still on its way.            *)
LEMMA PayeeReadKeeps ==
  ASSUME PayeeInv, Payees!Read
  PROVE  PayeeInv'
<1>0. ui \in PayeeViews /\ q \in PayeeServers /\ log \in PayeeLogs
  BY DEF PayeeInv, PayeeShapes
<1> DEFINE got == q.there /\ (ui.only => q.star)
<1>1. q' = [q EXCEPT !.fetch = "read", !.got = got] /\ ui' = ui /\ net' = net
  BY DEF Payees!Read
<1>2. got \in BOOLEAN
  BY <1>0 DEF PayeeServers, PayeeViews
<1> HIDE DEF got
<1>3. /\ q' \in PayeeServers /\ q'.fetch = "read" /\ q'.got = got /\ q'.star = q.star
      /\ q'.listed = q.listed /\ q'.there = q.there
  BY <1>0, <1>1, <1>2 DEF PayeeServers
<1>4. CASE PayeeAwaited(net)
  <2>1. log' = Payees!Excused
    BY <1>4 DEF Payees!Read, PayeeAwaited, PayeeRemoving
  <2>2. log' \in PayeeLogs /\ log'.excused
    BY <1>0, <2>1 DEF Payees!Excused, PayeeLogs
  <2> QED
    BY <1>0, <1>1, <1>3, <2>2 DEF PayeeInv, PayeeShapes
<1>5. CASE ~PayeeAwaited(net)
  <2>1. log' = log
    BY <1>5 DEF Payees!Read, PayeeAwaited, PayeeRemoving
  <2>2. PayeeHolds => PayeeHolds'
    BY <1>1, <1>3, <1>5 DEF PayeeHolds, got
  <2> QED
    BY <1>0, <1>1, <1>3, <2>1, <2>2 DEF PayeeInv, PayeeShapes
<1> QED
  BY <1>4, <1>5

LEMMA PayeeGotKeeps ==
  ASSUME PayeeInv, Payees!Got
  PROVE  PayeeInv'
<1>0. q \in PayeeServers
  BY DEF PayeeInv, PayeeShapes
<1>1. q.fetch = "read" /\ q' = [q EXCEPT !.fetch = "none", !.listed = q.got, !.got = FALSE]
  BY DEF Payees!Got
<1>2. ui' = ui /\ net' = net /\ log' = log
  BY DEF Payees!Got
<1>3. /\ q' \in PayeeServers /\ q'.fetch = "none" /\ q'.star = q.star /\ q'.listed = q.got
      /\ q'.there = q.there
  BY <1>0, <1>1 DEF PayeeServers
<1> QED
  BY <1>1, <1>2, <1>3 DEF PayeeInv, PayeeShapes, PayeeHolds

(* A removal that is served leaves its answer behind. *)
LEMMA PayeeServeKeeps ==
  ASSUME PayeeInv, NEW c \in net, Payees!Serve(c)
  PROVE  PayeeInv'
<1>0. ui \in PayeeViews /\ q \in PayeeServers /\ log \in PayeeLogs /\ c \in PayeeCalls /\ net \subseteq PayeeCalls
  BY DEF PayeeInv, PayeeShapes
<1> DEFINE turned == "it" \in c.of /\ c.do \in {"star", "update"}
           there == q.there /\ ~("it" \in c.of /\ c.do \in Payees!Removes)
           done == [c EXCEPT !.st = "done"]
<1>1. /\ c.st = "sent" /\ net' = (net \ {c}) \cup {done} /\ ui' = ui
      /\ q' = [q EXCEPT !.there = there, !.star = turned # @]
      /\ log' = IF turned THEN Payees!Excused ELSE log
  BY DEF Payees!Serve, Payees!Served
<1>2. there \in BOOLEAN /\ turned \in BOOLEAN /\ (turned # q.star) \in BOOLEAN
  BY <1>0 DEF PayeeServers
<1>3. done \in PayeeCalls /\ done.do = c.do /\ done.of = c.of /\ done.st = "done"
  BY <1>0 DEF PayeeCalls
<1>4. PayeeAwaited(net) => PayeeAwaited(net')
  BY <1>1 DEF PayeeAwaited, PayeeRemoving
<1>5. "it" \in c.of /\ c.do \in Payees!Removes => PayeeAwaited(net')
  BY <1>1, <1>3 DEF PayeeAwaited, PayeeRemoving
<1> HIDE DEF turned, there, done
<1>6. /\ q' \in PayeeServers /\ q'.fetch = q.fetch /\ q'.got = q.got /\ q'.listed = q.listed
      /\ q'.there = there /\ q'.star = (turned # q.star)
  BY <1>0, <1>1, <1>2 DEF PayeeServers
<1>7. net' \subseteq PayeeCalls
  BY <1>0, <1>1, <1>3
<1>8. CASE turned
  <2>1. log' \in PayeeLogs /\ log'.excused
    BY <1>0, <1>1, <1>8 DEF Payees!Excused, PayeeLogs
  <2> QED
    BY <1>0, <1>1, <1>6, <1>7, <2>1 DEF PayeeInv, PayeeShapes
<1>9. CASE ~turned
  <2>1. q.star => q'.star
    BY <1>0, <1>2, <1>6, <1>9 DEF PayeeServers
  <2>2. there => q.there
    BY DEF there
  <2>3. q.there => there \/ ("it" \in c.of /\ c.do \in Payees!Removes)
    BY DEF there
  <2>4. PayeeHolds => PayeeHolds'
    BY <1>1, <1>4, <1>5, <1>6, <2>1, <2>2, <2>3 DEF PayeeHolds
  <2> QED
    BY <1>0, <1>1, <1>6, <1>7, <1>9, <2>4 DEF PayeeInv, PayeeShapes
<1> QED
  BY <1>8, <1>9

LEMMA PayeeOtherDeletesKeeps ==
  ASSUME PayeeInv, Payees!OtherDeletes
  PROVE  PayeeInv'
<1>0. q \in PayeeServers /\ log \in PayeeLogs /\ log.n + 1 \in Nat
  BY DEF PayeeInv, PayeeShapes, PayeeLogs
<1>1. q' = [q EXCEPT !.there = FALSE] /\ log' = [Payees!Excused EXCEPT !.n = @ + 1] /\ ui' = ui /\ net' = net
  BY DEF Payees!OtherDeletes
<1>2. Payees!Excused \in PayeeLogs /\ Payees!Excused.n = log.n /\ Payees!Excused.excused
  BY <1>0 DEF Payees!Excused, PayeeLogs
<1>3. log' \in PayeeLogs /\ log'.excused
  BY <1>0, <1>1, <1>2 DEF PayeeLogs
<1>4. q' \in PayeeServers
  BY <1>0, <1>1 DEF PayeeServers
<1> QED
  BY <1>1, <1>3, <1>4 DEF PayeeInv, PayeeShapes

(* What an answer removed leaves the selection. *)
LEMMA PayeeDeselectedFits ==
  ASSUME NEW c \in PayeeCalls, NEW v \in PayeeViews
  PROVE  /\ Payees!Deselected(c, v) \in PayeeViews /\ Payees!Deselected(c, v).sel \subseteq v.sel
         /\ c.do \in Payees!Removes => Payees!Deselected(c, v).sel \cap c.of = {}
         /\ c.do \in {"deleteAll", "merge"} => Payees!Deselected(c, v).sel = {}
<1>1. CASE c.do \in {"deleteAll", "merge"}
  <2>1. Payees!Deselected(c, v) = [v EXCEPT !.sel = {}]
    BY <1>1 DEF Payees!Deselected
  <2> QED
    BY <2>1 DEF PayeeViews
<1>2. CASE c.do = "delete"
  <2>1. Payees!Deselected(c, v) = [v EXCEPT !.sel = v.sel \ c.of]
    BY <1>2 DEF Payees!Deselected
  <2>2. v.sel \ c.of \in SUBSET Payees!Payees
    BY DEF PayeeViews
  <2>3. [v EXCEPT !.sel = v.sel \ c.of] \in PayeeViews /\ [v EXCEPT !.sel = v.sel \ c.of].sel = v.sel \ c.of
    BY <2>2 DEF PayeeViews
  <2> QED
    BY <1>2, <2>1, <2>3
<1>3. CASE c.do \notin {"deleteAll", "merge", "delete"}
  <2>1. Payees!Deselected(c, v) = v
    BY <1>3 DEF Payees!Deselected
  <2> QED
    BY <1>3, <2>1 DEF Payees!Removes
<1> QED
  BY <1>1, <1>2, <1>3

LEMMA PayeeAnswerKeeps ==
  ASSUME PayeeInv, NEW c \in net, Payees!Answer(c)
  PROVE  PayeeInv'
<1>0. ui \in PayeeViews /\ q \in PayeeServers /\ c \in PayeeCalls
  BY DEF PayeeInv, PayeeShapes
<1> DEFINE v == IF ui.over \in Payees!Closes(c) THEN Payees!Shut(ui) ELSE ui
<1>1. ui' = Payees!Deselected(c, v) /\ net' = net \ {c} /\ log' = log
      /\ q' = [q EXCEPT !.fetch = "sent", !.got = FALSE]
  BY DEF Payees!Answer
<1>2. v \in PayeeViews /\ v.sel = ui.sel
  BY <1>0, PayeeShutFits
<1> HIDE DEF v
<1>3. /\ ui' \in PayeeViews /\ ui'.sel \subseteq ui.sel
      /\ c.do \in Payees!Removes => ui'.sel \cap c.of = {}
  BY <1>0, <1>1, <1>2, PayeeDeselectedFits
<1>4. /\ q' \in PayeeServers /\ q'.fetch = "sent" /\ q'.star = q.star /\ q'.listed = q.listed
      /\ q'.there = q.there
  BY <1>0, <1>1 DEF PayeeServers
<1>5. "it" \in ui'.sel /\ PayeeAwaited(net) => PayeeAwaited(net')
  BY <1>1, <1>3 DEF PayeeAwaited, PayeeRemoving
<1>6. PayeeHolds => PayeeHolds'
  BY <1>3, <1>4, <1>5 DEF PayeeHolds
<1> QED
  BY <1>1, <1>3, <1>4, <1>6 DEF PayeeInv, PayeeShapes

LEMMA PayeeFailKeeps ==
  ASSUME PayeeInv, NEW c \in net, Payees!Fail(c)
  PROVE  PayeeInv'
<1>0. log \in PayeeLogs
  BY DEF PayeeInv, PayeeShapes
<1>1. net' = net \ {c} /\ ui' = ui /\ q' = q /\ log' = IF c.st = "done" THEN Payees!Excused ELSE log
  BY DEF Payees!Fail
<1>2. log' \in PayeeLogs /\ (log.excused \/ c.st = "done" => log'.excused)
  BY <1>0, <1>1 DEF Payees!Excused, PayeeLogs
<1>3. c.st # "done" /\ PayeeAwaited(net) => PayeeAwaited(net')
  BY <1>1 DEF PayeeAwaited, PayeeRemoving
<1> QED
  BY <1>1, <1>2, <1>3 DEF PayeeInv, PayeeShapes, PayeeHolds

LEMMA NextPayee == PayeeInv /\ [Payees!Next]_Payees!vars => PayeeInv'
<1> SUFFICES ASSUME PayeeInv, [Payees!Next]_Payees!vars PROVE PayeeInv'
  OBVIOUS
<1>1. CASE UNCHANGED Payees!vars
  BY <1>1 DEF Payees!vars, PayeeInv, PayeeShapes, PayeeHolds
<1> QED
  BY <1>1, PayeeDialogsKeep, PayeeWritesKeep, PayeeTogglesKeep, PayeeFilterKeeps, PayeeFetchKeeps,
     PayeeReadKeeps, PayeeGotKeeps, PayeeServeKeeps,
     PayeeOtherDeletesKeeps, PayeeAnswerKeeps, PayeeFailKeeps DEF Payees!Next
-----------------------------------------------------------------------------
(* The form of an asset: whatever form the answers of older ones find. *)
AssetViews == [open : BOOLEAN, editing : Asset!Ids \cup {Asset!None}, owner : Asset!Ids \cup {Asset!New},
               query : Asset!Tickers \cup {Asset!None}, quote : Asset!Tickers \cup {Asset!None},
               over : {Asset!None, "wallet", "regenerate"}]
AssetFormCalls ==
  [do : Asset!Writes \cup {"quote"}, of : Asset!Ids \cup Asset!Tickers \cup {Asset!None},
   st : {"sent", "done"}]
AssetLogs == [n : Nat, late : SUBSET {"refresh", "quote"}]
OfAssets(calls) == \A c \in calls : c.do = "refresh" => c.of \in Asset!Ids
AssetShapes == ui \in AssetViews /\ net \subseteq AssetFormCalls /\ OfAssets(net) /\ log \in AssetLogs

(* The first part of the property, of one view. *)
OfItsAsset(v) == v.open => v.editing = (IF v.owner = Asset!New THEN Asset!None ELSE v.owner)

(* The form of an asset keeps its ticker, and a bond's has none to preview.  *)
KeepsTicker(v) ==
  v.open => /\ v.owner = "stock" => v.query = "stock"
            /\ v.owner = "bond" => v.query = Asset!None /\ v.quote = Asset!None

(* The second part, of one view and the calls in flight.                     *)
AssetPreviews(v, calls) == v.open /\ ~Asset!Pending(calls, {"quote"}) => v.quote \in {Asset!None, v.query}

(* Only the stock has a price to refresh.                                    *)
AssetRefreshes(calls) == \A c \in calls : c.do = "refresh" => c.of = "stock"

AssetInv ==
  /\ AssetShapes
  /\ "refresh" \notin log.late => OfItsAsset(ui)
  /\ log.late = {} => KeepsTicker(ui) /\ AssetPreviews(ui, net) /\ AssetRefreshes(net)
-----------------------------------------------------------------------------
LEMMA AssetBlankFits == Asset!Blank \in AssetViews /\ ~Asset!Blank.open
BY DEF Asset!Blank, AssetViews, Asset!None, Asset!New

LEMMA InitAsset == Asset!Init => AssetInv
BY AssetBlankFits DEF Asset!Init, AssetInv, AssetShapes, OfAssets, AssetLogs, OfItsAsset, KeepsTicker,
   AssetPreviews, AssetRefreshes

(* A closed form promises nothing. *)
LEMMA AssetClosedKeeps ==
  ASSUME AssetInv, ui' \in AssetViews, ~ui'.open, net' \subseteq net, log' = log
  PROVE  AssetInv'
BY DEF AssetInv, AssetShapes, OfAssets, OfItsAsset, KeepsTicker, AssetPreviews, AssetRefreshes

(* A form that changes neither its asset nor its preview keeps its promises. *)
LEMMA AssetSameKeeps ==
  ASSUME AssetInv, ui' \in AssetViews, ui'.open = ui.open, ui'.editing = ui.editing, ui'.owner = ui.owner,
         ui'.query = ui.query, ui'.quote = ui.quote, net' \in SUBSET AssetFormCalls, OfAssets(net'),
         Asset!Pending(net', {"quote"}) = Asset!Pending(net, {"quote"}),
         log.late = {} => AssetRefreshes(net'),
         log' \in AssetLogs, log'.late = log.late
  PROVE  AssetInv'
BY DEF AssetInv, AssetShapes, OfItsAsset, KeepsTicker, AssetPreviews, AssetRefreshes

LEMMA AssetWriteKeeps ==
  ASSUME AssetInv, NEW do \in Asset!Writes, NEW of \in Asset!Ids \cup {Asset!None}, Asset!Write(do, of),
         do = "refresh" => of \in Asset!Ids /\ (log.late = {} => of = "stock")
  PROVE  AssetInv'
<1> DEFINE c == Asset!Sent(do, of)
<1>1. c \in AssetFormCalls /\ c.do = do /\ c.of = of /\ do # "quote"
  BY DEF Asset!Sent, AssetFormCalls, Asset!Writes
<1>2. net' = net \cup {c} /\ ui' = ui
  BY DEF Asset!Write
<1>3. log.n + 1 \in Nat
  BY DEF AssetInv, AssetShapes, AssetLogs
<1>4. log' \in AssetLogs /\ log'.late = log.late
  BY <1>3 DEF Asset!Write, AssetInv, AssetShapes, AssetLogs
<1> HIDE DEF c
<1>5. Asset!Pending(net', {"quote"}) = Asset!Pending(net, {"quote"})
  BY <1>1, <1>2 DEF Asset!Pending
<1>6. log.late = {} => AssetRefreshes(net')
  BY <1>1, <1>2 DEF AssetInv, AssetRefreshes
<1>7. net' \in SUBSET AssetFormCalls /\ OfAssets(net')
  BY <1>1, <1>2 DEF AssetInv, AssetShapes, OfAssets
<1> QED
  BY <1>2, <1>4, <1>5, <1>6, <1>7, AssetSameKeeps DEF AssetInv, AssetShapes

LEMMA AssetOpenEditKeeps ==
  ASSUME AssetInv, NEW a \in Asset!Ids, Asset!OpenEdit(a)
  PROVE  AssetInv'
<1> DEFINE ticker == IF a = "stock" THEN "stock" ELSE Asset!None
<1>1. ui' = [open |-> TRUE, editing |-> a, owner |-> a, query |-> ticker, quote |-> ticker,
            over |-> Asset!None]
  BY DEF Asset!OpenEdit, Asset!Changes
<1>2. net' = net /\ log' = log
  BY DEF Asset!OpenEdit, Asset!Changes
<1>3. ui' \in AssetViews
  BY <1>1 DEF AssetViews, Asset!Ids, Asset!Tickers
<1>5. OfItsAsset(ui)'
  BY <1>1 DEF OfItsAsset, Asset!Ids, Asset!New
<1>6. KeepsTicker(ui)'
  BY <1>1 DEF KeepsTicker, Asset!Ids
<1>7. AssetPreviews(ui, net)'
  BY <1>1 DEF AssetPreviews
<1> QED
  BY <1>2, <1>3, <1>5, <1>6, <1>7 DEF AssetInv, AssetShapes, OfAssets, AssetRefreshes

(* A ticker can only be chosen for a new asset. *)
LEMMA TickerIsNew ==
  ASSUME AssetInv, ui.open, ui.editing = Asset!None, log.late = {}
  PROVE  ui.owner = Asset!New
BY DEF AssetInv, AssetShapes, AssetViews, OfItsAsset, Asset!Ids, Asset!None, Asset!New

LEMMA AssetTypeTickerKeeps ==
  ASSUME AssetInv, NEW s \in Asset!Tickers, Asset!TypeTicker(s)
  PROVE  AssetInv'
<1> DEFINE v == [ui EXCEPT !.query = s, !.quote = Asset!None]
<1>1. ui' = v /\ net' = net /\ log' = log /\ ui.open /\ ui.editing = Asset!None
  BY DEF Asset!TypeTicker, Asset!Changes, Asset!Form
<1>2. v \in AssetViews /\ v.open = ui.open /\ v.editing = ui.editing /\ v.owner = ui.owner
        /\ v.quote = Asset!None
  BY DEF AssetInv, AssetShapes, AssetViews
<1> HIDE DEF v
<1>3. log.late = {} => ui.owner = Asset!New
  BY <1>1, TickerIsNew
<1> QED
  BY <1>1, <1>2, <1>3 DEF AssetInv, AssetShapes, OfAssets, OfItsAsset, KeepsTicker, AssetPreviews,
     AssetRefreshes, Asset!New

LEMMA AssetPickTickerKeeps ==
  ASSUME AssetInv, NEW s \in Asset!Tickers, Asset!PickTicker(s)
  PROVE  AssetInv'
<1> DEFINE v == [ui EXCEPT !.query = s]
           c == Asset!Sent("quote", s)
<1>1. ui' = v /\ net' = net \cup {c} /\ log' = log /\ ui.open /\ ui.editing = Asset!None
  BY DEF Asset!PickTicker, Asset!Form
<1>2. v \in AssetViews /\ v.open = ui.open /\ v.editing = ui.editing /\ v.owner = ui.owner
  BY DEF AssetInv, AssetShapes, AssetViews
<1>3. c \in AssetFormCalls /\ c.do = "quote"
  BY DEF Asset!Sent, AssetFormCalls
<1> HIDE DEF v, c
<1>4. log.late = {} => ui.owner = Asset!New
  BY <1>1, TickerIsNew
<1>5. Asset!Pending(net', {"quote"})
  BY <1>1, <1>3 DEF Asset!Pending
<1> QED
  BY <1>1, <1>2, <1>3, <1>4, <1>5 DEF AssetInv, AssetShapes, OfAssets, OfItsAsset, KeepsTicker,
     AssetPreviews,
     AssetRefreshes, Asset!New

(* A quote that is not late is of the ticker on screen, or there is none. *)
LEMMA AssetQuotedKeeps ==
  ASSUME AssetInv, NEW c \in net, NEW quote \in Asset!Tickers \cup {Asset!None}, Asset!Quoted(c, quote)
  PROVE  AssetInv'
<1>1. net' \subseteq net
  BY DEF Asset!Quoted
<1>2. CASE ~ui.open
  BY <1>1, <1>2, AssetClosedKeeps DEF Asset!Quoted, AssetInv, AssetShapes
<1>3. CASE ui.open
  <2> DEFINE v == [ui EXCEPT !.quote = quote]
  <2>1. ui' = v
    BY <1>3 DEF Asset!Quoted
  <2>2. v \in AssetViews /\ v.open = ui.open /\ v.editing = ui.editing /\ v.owner = ui.owner
          /\ v.query = ui.query /\ v.quote = quote
    BY DEF AssetInv, AssetShapes, AssetViews
  <2> HIDE DEF v
  <2>3. CASE quote \in {Asset!None, ui.query}
    <3>1. log' = log
      BY <2>3 DEF Asset!Quoted
    <3> QED
      BY <1>1, <1>3, <2>1, <2>2, <2>3, <3>1 DEF AssetInv, AssetShapes, OfAssets, OfItsAsset, KeepsTicker,
         AssetPreviews, AssetRefreshes
  <2>4. CASE quote \notin {Asset!None, ui.query}
    <3>1. log' = [log EXCEPT !.late = @ \cup {"quote"}]
      BY <1>3, <2>4 DEF Asset!Quoted
    <3>2. log' \in AssetLogs /\ log'.late = log.late \cup {"quote"}
      BY <3>1 DEF AssetInv, AssetShapes, AssetLogs
    <3> QED
      BY <1>1, <2>1, <2>2, <3>2 DEF AssetInv, AssetShapes, OfAssets, OfItsAsset
  <2> QED
    BY <2>3, <2>4
<1> QED
  BY <1>2, <1>3

(* A refresh that is not late is answered to the form it was asked from. *)
LEMMA AssetRefreshedKeeps ==
  ASSUME AssetInv, NEW c \in net, Asset!Answer(c), c.do = "refresh"
  PROVE  AssetInv'
<1> DEFINE v == [ui EXCEPT !.editing = c.of, !.quote = IF ui.open THEN "stock" ELSE @]
<1>1. ui' = v /\ net' \subseteq net /\ log' = [log EXCEPT !.late = @ \cup Asset!Late(c)]
  BY DEF Asset!Answer, Asset!Handled
<1>2. c.of \in Asset!Ids /\ "stock" \in Asset!Tickers
  BY DEF AssetInv, AssetShapes, OfAssets, Asset!Tickers
<1>3. v \in AssetViews /\ v.open = ui.open /\ v.editing = c.of /\ v.owner = ui.owner /\ v.query = ui.query
        /\ v.quote = IF ui.open THEN "stock" ELSE ui.quote
  BY <1>2 DEF AssetInv, AssetShapes, AssetViews
<1>4. log' \in AssetLogs /\ log'.late = log.late \cup Asset!Late(c)
  BY <1>1 DEF AssetInv, AssetShapes, AssetLogs, Asset!Late
<1> HIDE DEF v
<1>5. CASE ~(ui.open /\ ui.owner = c.of)
  <2>1. "refresh" \in log'.late
    BY <1>4, <1>5 DEF Asset!Late
  <2> QED
    BY <1>1, <1>3, <1>4, <2>1 DEF AssetInv, AssetShapes, OfAssets
<1>6. CASE ui.open /\ ui.owner = c.of
  <2>1. log'.late = log.late
    BY <1>4, <1>6 DEF Asset!Late
  <2>2. c.of # Asset!New
    BY <1>2 DEF Asset!Ids, Asset!New
  <2> QED
    BY <1>1, <1>3, <1>4, <1>6, <2>1, <2>2
       DEF AssetInv, AssetShapes, OfAssets, OfItsAsset, KeepsTicker, AssetPreviews, AssetRefreshes
<1> QED
  BY <1>5, <1>6

(* The other handlers close the form or leave it as it is. *)
LEMMA AssetAnswerKeeps ==
  ASSUME AssetInv, NEW c \in net, Asset!Answer(c)
  PROVE  AssetInv'
<1>1. net' = net \ {c} /\ ui' = Asset!Handled(c) /\ c.do \in Asset!Writes
        /\ log' = [log EXCEPT !.late = @ \cup Asset!Late(c)]
  BY DEF Asset!Answer
<1>2. ui \in AssetViews /\ log \in AssetLogs
  BY DEF AssetInv, AssetShapes
<1>3. c.do # "refresh" => log' = log
  BY <1>1, <1>2 DEF Asset!Late, AssetLogs
<1>4. CASE c.do = "create"
  <2>1. ui' = [Asset!Blank EXCEPT !.editing = ui.editing, !.over = ui.over]
    BY <1>1, <1>4 DEF Asset!Handled, Asset!Shut
  <2>2. ui' \in AssetViews /\ ~ui'.open
    BY <1>2, <2>1, AssetBlankFits DEF AssetViews
  <2> QED
    BY <1>1, <1>3, <1>4, <2>2, AssetClosedKeeps
<1>5. CASE c.do \in {"update", "regenerate"}
  <2>1. ui' = [Asset!Blank EXCEPT !.over = IF ui.over = "regenerate" THEN Asset!None ELSE ui.over]
    BY <1>1, <1>5 DEF Asset!Handled
  <2>2. ui' \in AssetViews /\ ~ui'.open
    BY <1>2, <2>1, AssetBlankFits DEF AssetViews
  <2> QED
    BY <1>1, <1>3, <1>5, <2>2, AssetClosedKeeps
<1>6. CASE c.do = "refresh"
  BY <1>6, AssetRefreshedKeeps
<1>7. CASE c.do = "wallet"
  <2>1. ui' = [ui EXCEPT !.over = IF @ = "wallet" THEN Asset!None ELSE @]
    BY <1>1, <1>7 DEF Asset!Handled
  <2>2. ui' \in AssetViews /\ ui'.open = ui.open /\ ui'.editing = ui.editing /\ ui'.owner = ui.owner
          /\ ui'.query = ui.query /\ ui'.quote = ui.quote
    BY <1>2, <2>1 DEF AssetViews
  <2>3. Asset!Pending(net', {"quote"}) = Asset!Pending(net, {"quote"})
    BY <1>1, <1>7 DEF Asset!Pending
  <2>4. net' \in SUBSET AssetFormCalls /\ OfAssets(net') /\ (log.late = {} => AssetRefreshes(net'))
    BY <1>1 DEF AssetInv, AssetShapes, OfAssets, AssetRefreshes
  <2> QED
    BY <1>2, <1>3, <1>7, <2>2, <2>3, <2>4, AssetSameKeeps
<1> QED
  BY <1>1, <1>4, <1>5, <1>6, <1>7 DEF Asset!Writes

(* A failure takes away a write, not a quote, and leaves the form. *)
LEMMA AssetFailKeeps ==
  ASSUME AssetInv, NEW c \in net, Asset!Fail(c)
  PROVE  AssetInv'
<1>1. net' = net \ {c} /\ ui' = ui /\ log' = log /\ c.do # "quote"
  BY DEF Asset!Fail, Asset!Writes
<1>2. Asset!Pending(net', {"quote"}) = Asset!Pending(net, {"quote"})
  BY <1>1 DEF Asset!Pending
<1> QED
  BY <1>1, <1>2 DEF AssetInv, AssetShapes, OfAssets, OfItsAsset, KeepsTicker, AssetPreviews,
     AssetRefreshes

(* Only the dialog over the form changes. *)
LEMMA AssetOverKeeps ==
  ASSUME AssetInv, NEW over \in {Asset!None, "wallet", "regenerate"},
         Asset!Changes([ui EXCEPT !.over = over])
  PROVE  AssetInv'
<1>1. ui' = [ui EXCEPT !.over = over] /\ net' = net /\ log' = log
  BY DEF Asset!Changes
<1>2. ui' \in AssetViews /\ ui'.open = ui.open /\ ui'.editing = ui.editing /\ ui'.owner = ui.owner
        /\ ui'.query = ui.query /\ ui'.quote = ui.quote
  BY <1>1 DEF AssetInv, AssetShapes, AssetViews
<1> QED
  BY <1>1, <1>2, AssetSameKeeps DEF AssetInv, AssetShapes
-----------------------------------------------------------------------------
LEMMA NextAsset == AssetInv /\ [Asset!Next]_Asset!vars => AssetInv'
<1> SUFFICES ASSUME AssetInv, [Asset!Next]_Asset!vars PROVE AssetInv'
  OBVIOUS
<1>0. ui \in AssetViews
  BY DEF AssetInv, AssetShapes
<1>1. CASE UNCHANGED Asset!vars
  BY <1>1 DEF Asset!vars, AssetInv, AssetShapes, OfAssets, OfItsAsset, KeepsTicker, AssetPreviews,
     AssetRefreshes
<1>2. CASE Asset!OpenCreate
  <2> DEFINE v == [Asset!Blank EXCEPT !.open = TRUE]
  <2>1. ui' = v /\ net' = net /\ log' = log
    BY <1>2 DEF Asset!OpenCreate, Asset!Changes
  <2>2. v \in AssetViews
    BY AssetBlankFits DEF AssetViews
  <2>3. v.editing = Asset!None /\ v.owner = Asset!New /\ v.quote = Asset!None
    BY DEF Asset!Blank
  <2> HIDE DEF v
  <2> QED
    BY <2>1, <2>2, <2>3 DEF AssetInv, AssetShapes, OfItsAsset, KeepsTicker, AssetPreviews, Asset!New
<1>3. CASE Asset!Close
  <2>1. ui' = [Asset!Blank EXCEPT !.editing = ui.editing, !.over = ui.over] /\ net' = net /\ log' = log
    BY <1>3 DEF Asset!Close, Asset!Changes, Asset!Shut
  <2>2. ui' \in AssetViews /\ ~ui'.open
    BY <1>0, <2>1, AssetBlankFits DEF AssetViews
  <2> QED
    BY <2>1, <2>2, AssetClosedKeeps
<1>4. CASE Asset!CloseOver \/ Asset!OpenWallet \/ Asset!AskRegenerate
  <2>1. PICK over \in {Asset!None, "wallet", "regenerate"} : Asset!Changes([ui EXCEPT !.over = over])
    BY <1>4 DEF Asset!CloseOver, Asset!OpenWallet, Asset!AskRegenerate
  <2> QED
    BY <2>1, AssetOverKeeps
<1>5. CASE Asset!SaveWallet \/ Asset!Create \/ Asset!Update \/ Asset!Regenerate
  <2>1. PICK do \in Asset!Writes, of \in Asset!Ids \cup {Asset!None} :
          do # "refresh" /\ Asset!Write(do, of)
    BY <1>0, <1>5 DEF Asset!SaveWallet, Asset!Create, Asset!Update, Asset!Regenerate,
       Asset!Writes, AssetViews
  <2> QED
    BY <2>1, AssetWriteKeeps
<1>6. CASE Asset!RefreshPrice
  <2>1. Asset!Write("refresh", ui.editing) /\ ui.editing \in Asset!Ids /\ ui.quote # Asset!None /\ ui.open
    BY <1>0, <1>6 DEF Asset!RefreshPrice, Asset!Form, AssetViews
  <2>2. log.late = {} => ui.editing = "stock"
    BY <1>0, <2>1 DEF AssetInv, OfItsAsset, KeepsTicker, AssetViews, Asset!Ids, Asset!New, Asset!None
  <2> QED
    BY <2>1, <2>2, AssetWriteKeeps DEF Asset!Writes
<1>7. ASSUME NEW a \in Asset!Ids, Asset!OpenEdit(a) PROVE AssetInv'
  BY <1>7, AssetOpenEditKeeps
<1>8. ASSUME NEW s \in Asset!Tickers, Asset!TypeTicker(s) \/ Asset!PickTicker(s) PROVE AssetInv'
  BY <1>8, AssetTypeTickerKeeps, AssetPickTickerKeeps
<1>9. ASSUME NEW c \in net, Asset!Answer(c) \/ Asset!Fail(c)
             \/ \E s \in Asset!Tickers \cup {Asset!None} : Asset!Quoted(c, s)
      PROVE  AssetInv'
  BY <1>9, AssetAnswerKeeps, AssetFailKeeps, AssetQuotedKeeps
<1> QED
  BY <1>1, <1>2, <1>3, <1>4, <1>5, <1>6, <1>7, <1>8, <1>9 DEF Asset!Next
-----------------------------------------------------------------------------
(* Of the composition: a step of Pages on a page is a step of the page's module, or none. *)

(* A rule saved with rows on screen is saved as the draft that those rows were read for, *)
(* whatever answers of other drafts land meanwhile.                                      *)
THEOREM SavedAsPreviewedAlways == Spec => []SavedAsPreviewed
<1> DEFINE Inv == Is("rules") => RuleInv
<1>1. Init => Inv
  BY InitRule DEF Init, Is
<1>2. Inv /\ [Next]_vars => Inv'
  BY NextRule DEF Next, Is, vars, Rules!vars
<1>3. Inv => SavedAsPreviewed
  BY DEF SavedAsPreviewed, Rules!SavedAsPreviewed, RuleInv
<1> QED
  BY <1>1, <1>2, <1>3, PTL DEF Spec

(* A settlement that links a transaction is sent with that transaction's amount, through *)
(* every change of the payer and of the kind of link.                                    *)
THEOREM LinkedAmountsAgreeAlways == Spec => []LinkedAmountsAgree
<1> DEFINE Inv == Is("groups") => Groups!IInv
<1>1. Init => Inv
  BY Groups!InitIInv DEF Init, Is
<1>2. Inv /\ [Next]_vars => Inv'
  BY Groups!NextIInv DEF Next, Is, vars, Groups!vars
<1>3. Inv => LinkedAmountsAgree
  BY DEF LinkedAmountsAgree, Groups!LinkedAmountsAgree, Groups!IInv
<1> QED
  BY <1>1, <1>2, <1>3, PTL DEF Spec

(* A debt settled from its line is not paid twice; unless the next payment is begun      *)
(* before the balances are back, an answer is lost, the amount is chosen by hand, or the *)
(* other one pays meanwhile.                                                             *)
THEOREM NothingOverpaidAlways == Spec => []NothingOverpaid
<1> DEFINE Inv == Is("groups") => Groups!Ledger
<1>1. Init => Inv
  BY Groups!InitLedger DEF Init, Is
<1>2. Inv /\ [Next]_vars => Inv'
  BY Groups!NextLedger DEF Next, Is, vars, Groups!vars
<1>3. Inv => NothingOverpaid
  BY DEF NothingOverpaid, Groups!NothingOverpaid, Groups!Ledger, Groups!OneDebt, Groups!Balances
<1> QED
  BY <1>1, <1>2, <1>3, PTL DEF Spec

(* The banks that the dialog lets one choose from are of the country that the choice is *)
(* sent with; unless an answer it no longer waited for has landed in it.                *)
THEOREM BanksAreOfTheCountryAlways == Spec => []BanksAreOfTheCountry
<1> DEFINE Inv == Is("accounts") => AccountInv
<1>1. Init => Inv
  BY InitAccount DEF Init, Is
<1>2. Inv /\ [Next]_vars => Inv'
  BY NextAccount DEF Next, Is, vars, Accounts!vars
<1>3. Inv => BanksAreOfTheCountry
  BY DEF BanksAreOfTheCountry, Accounts!BanksAreOfTheCountry, AccountInv, AccountShapes,
         AccountAgrees, Accounts!Listing
<1> QED
  BY <1>1, <1>2, <1>3, PTL DEF Spec

(* The form saves into the asset whose fields it shows and under the ticker it shows, as *)
(* long as no price refresh and no quote came in after its own form was gone.            *)
THEOREM FormIsOfItsAssetAlways == Spec => []FormIsOfItsAsset
<1> DEFINE Inv == Is("asset") => AssetInv
<1>1. Init => Inv
  BY InitAsset DEF Init, Is
<1>2. Inv /\ [Next]_vars => Inv'
  BY NextAsset DEF Next, Is, vars, Asset!vars
<1>3. Inv => FormIsOfItsAsset
  BY DEF FormIsOfItsAsset, Asset!FormIsOfItsAsset, AssetInv, AssetShapes, OfItsAsset,
         AssetPreviews
<1> QED
  BY <1>1, <1>2, <1>3, PTL DEF Spec

(* The payees that would be merged or deleted together are listed on the page; unless one *)
(* was starred or edited out of the filter, another user deletes it, or the list is read  *)
(* before the answer that removes it.                                                     *)
THEOREM SelectedAreListedAlways == Spec => []SelectedAreListed
<1> DEFINE Inv == Is("payees") => PayeeInv
<1>1. Init => Inv
  BY InitPayee DEF Init, Is
<1>2. Inv /\ [Next]_vars => Inv'
  BY NextPayee DEF Next, Is, vars, Payees!vars
<1>3. Inv => SelectedAreListed
  BY DEF SelectedAreListed, Payees!SelectedAreListed, PayeeInv, PayeeShapes, PayeeViews,
         PayeeHolds, Payees!Listed
<1> QED
  BY <1>1, <1>2, <1>3, PTL DEF Spec

(* A transaction is only sent the fields of the form that was filled from it, and an edit *)
(* never becomes a new transaction; unless the calendar put another row under a prompt    *)
(* that holds an edit.                                                                    *)
THEOREM EditsReachTheirRowAlways == Spec => []EditsReachTheirRow
<1> DEFINE Inv == Is("dialog") => Dialog!IInv
<1>1. Init => Inv
  BY Dialog!InitIInv DEF Init, Is
<1>2. Inv /\ [Next]_vars => Inv'
  BY Dialog!NextIInv DEF Next, Is, vars, Dialog!vars
<1>3. Inv => EditsReachTheirRow
  BY DEF EditsReachTheirRow, Dialog!EditsReachTheirRow, Dialog!IInv, Dialog!Reach
<1> QED
  BY <1>1, <1>2, <1>3, PTL DEF Spec

(* A new transaction starts from another's fields only when one was duplicated; unless a *)
(* draft was left behind by a dialog that its own save closed.                           *)
THEOREM DraftsAreAskedForAlways == Spec => []DraftsAreAskedFor
<1> DEFINE Inv == Is("dialog") => Dialog!IInv
<1>1. Init => Inv
  BY Dialog!InitIInv DEF Init, Is
<1>2. Inv /\ [Next]_vars => Inv'
  BY Dialog!NextIInv DEF Next, Is, vars, Dialog!vars
<1>3. Inv => DraftsAreAskedFor
  BY DEF DraftsAreAskedFor, Dialog!DraftsAreAskedFor, Dialog!IInv, Dialog!Asked
<1> QED
  BY <1>1, <1>2, <1>3, PTL DEF Spec

(* A category that rules still assign is hidden only after the user was asked about them, *)
(* or the rule was written after they were looked for.                                    *)
THEOREM HidesAreAskedAlways == Spec => []HidesAreAsked
<1> DEFINE Inv == Is("categories") => CategoryInv
<1>1. Init => Inv
  BY InitCategory DEF Init, Is
<1>2. Inv /\ [Next]_vars => Inv'
  BY NextCategory DEF Next, Is, vars, Categories!vars
<1>3. Inv => HidesAreAsked
  BY DEF HidesAreAsked, Categories!HidesAreAsked, CategoryInv, CategoryShapes, CategoryCalls,
         HidesAreSafe
<1> QED
  BY <1>1, <1>2, <1>3, PTL DEF Spec

(* A bill, a goal, a budget or a collection is only sent fields that were all filled from *)
(* it, and a new one none of another's, whichever answers closed the dialog meanwhile.    *)
THEOREM PlansReachTheirRowAlways == Spec => []PlansReachTheirRow
<1> DEFINE Inv == Is("planning") => PlanInv
<1>1. Init => Inv
  BY InitPlan DEF Init, Is
<1>2. Inv /\ [Next]_vars => Inv'
  BY NextPlan DEF Next, Is, vars, Planning!vars
<1>3. Inv => PlansReachTheirRow
  BY DEF PlansReachTheirRow, Planning!PlansReachTheirRow, PlanInv
<1> QED
  BY <1>1, <1>2, <1>3, PTL DEF Spec

(* Once no file is being fetched the pane shows the one clicked last, or none; unless the *)
(* last one could not be had.                                                             *)
THEOREM PreviewIsLastAskedAlways == Spec => []PreviewIsLastAsked
<1> DEFINE Inv == Is("files") => FileInv
<1>1. Init => Inv
  BY InitFiles DEF Init, Is
<1>2. Inv /\ [Next]_vars => Inv'
  BY NextFiles DEF Next, Is, vars, Files!vars
<1>3. Inv => PreviewIsLastAsked
  BY DEF PreviewIsLastAsked, Files!PreviewIsLastAsked, FileInv, FileShapes, LastIsComing,
         Files!Previews
<1> QED
  BY <1>1, <1>2, <1>3, PTL DEF Spec

(* What is written to a workspace was entered for it; unless the list moved the page *)
(* under an open dialog, which then acts on the workspace moved to.                  *)
THEOREM WritesReachTheirWorkspaceAlways == Spec => []WritesReachTheirWorkspace
<1> DEFINE Inv == Is("settings") => SettingsInv
<1>1. Init => Inv
  BY InitSettings DEF Init, Is
<1>2. Inv /\ [Next]_vars => Inv'
  BY NextSettings DEF Next, Is, vars, Settings!vars
<1>3. Inv => WritesReachTheirWorkspace
  BY DEF WritesReachTheirWorkspace, Settings!WritesReachTheirWorkspace, SettingsInv
<1> QED
  BY <1>1, <1>2, <1>3, PTL DEF Spec

(* A window that the user picked is there until the user picks another: no account, no *)
(* bill and no settings that come later take it away.                                  *)
THEOREM ChosenWindowStaysAlways == Spec => []ChosenWindowStays
<1> DEFINE Inv == Is("card") => CardInv
<1>1. Init => Inv
  BY InitCard DEF Init, Is
<1>2. Inv /\ [Next]_vars => Inv'
  BY NextCard DEF Next, Is, vars, Card!vars
<1>3. Inv => ChosenWindowStays
  BY DEF ChosenWindowStays, Card!ChosenWindowStays, CardInv, Stays
<1> QED
  BY <1>1, <1>2, <1>3, PTL DEF Spec

(* A card without the bank's bills opens on the cycle whose bill is due next, by the *)
(* same due date that the page then shows for it, as long as nothing was picked.     *)
THEOREM OpensOnTheBillDueAlways == Spec => []OpensOnTheBillDue
<1> DEFINE Inv == Is("card") => CardInv /\ OpensInv
<1>1. Init => Inv
  BY InitCard, InitOpens DEF Init, Is
<1>2. Inv /\ [Next]_vars => Inv'
  BY NextCard, NextOpens DEF Next, Is, vars, Card!vars
<1>3. Inv => OpensOnTheBillDue
  BY OpensIsDue DEF OpensOnTheBillDue
<1> QED
  BY <1>1, <1>2, <1>3, PTL DEF Spec

(* A step back goes back and a step on goes on, by one of the window's ends, in every *)
(* window that Card!Regular does not except.                                          *)
THEOREM StepsGoTheirWayAlways == Spec => StepsGoTheirWay
<1> DEFINE Inv == Is("card") => CardInv /\ DaysInv
<1>1. Init => Inv
  BY InitCard, InitDays DEF Init, Is
<1>2. Inv /\ [Next]_vars => Inv'
  BY NextCard, NextDays DEF Next, Is, vars, Card!vars
<1>3. Inv /\ [Next]_vars => [Is("card") => Card!StepGoesItsWay]_vars
  BY BackGoesBack, OnGoesOn DEF Card!StepGoesItsWay
<1> QED
  BY <1>1, <1>2, <1>3, PTL DEF Spec, StepsGoTheirWay

(* While a message is being answered its bubble is on screen; unless it was sent while *)
(* the last one was still being read back.                                             *)
THEOREM AnswerIsShownAlways == Spec => []AnswerIsShown
<1> DEFINE Inv == Is("chat") => ChatInv
<1>1. Init => Inv
  BY InitChat DEF Init, Is
<1>2. Inv /\ [Next]_vars => Inv'
  BY NextChat DEF Next, Is, vars, Chat!vars
<1>3. Inv => AnswerIsShown
  BY DEF AnswerIsShown, Chat!AnswerIsShown, ChatInv, Bubble
<1> QED
  BY <1>1, <1>2, <1>3, PTL DEF Spec

(* What is entered once in the form of a transaction is stored once, unless a save failed *)
(* after its first step or its answer was lost.                                           *)
THEOREM StoredOnceAlways == Spec => []StoredOnce
<1> DEFINE Inv == Is("form") => FormInv
<1>1. Init => Inv
  BY InitForm DEF Init, Is
<1>2. Inv /\ [Next]_vars => Inv'
  BY NextForm DEF Next, Is, vars, Form!vars
<1>3. Inv => StoredOnce
  BY DEF StoredOnce, Form!StoredOnce, FormInv, StoredInv
<1> QED
  BY <1>1, <1>2, <1>3, PTL DEF Spec

(* A save does not undo the toggle beside it, unless the form was opened from a row older *)
(* than the server's, saved while a toggle was on its way, or not told of a toggle that   *)
(* was done; and it clears a split only if the user turned it off.                        *)
THEOREM SaveChangesNothingElseAlways == Spec => []SaveChangesNothingElse
<1> DEFINE Inv == Is("form") => FormInv
<1>1. Init => Inv
  BY InitForm DEF Init, Is
<1>2. Inv /\ [Next]_vars => Inv'
  BY NextForm DEF Next, Is, vars, Form!vars
<1>3. Inv => SaveChangesNothingElse
  BY DEF SaveChangesNothingElse, Form!SaveChangesNothingElse, FormInv, ToggleInv, SplitInv
<1> QED
  BY <1>1, <1>2, <1>3, PTL DEF Spec

(* A proposal is applied once, however often its card leaves the screen and comes back:   *)
(* unless both the bubble's card and the stored one were applied, a card is left while it *)
(* is being applied, or the answer to that is lost.                                       *)
THEOREM AppliedOnceAlways == Spec => []AppliedOnce
<1> DEFINE Inv == Is("chat") => ChatCardsInv
<1>1. Init => Inv
  BY InitChatCards DEF Init, Is
<1>2. Inv /\ [Next]_vars => Inv'
  BY NextChatCards DEF Next, Is, vars, Chat!vars
<1>3. Inv => AppliedOnce
  BY DEF AppliedOnce, Chat!AppliedOnce, ChatCardsInv, AppliedInv
<1> QED
  BY <1>1, <1>2, <1>3, PTL DEF Spec

(* Once everything is answered, the lists of the assets, of an import and of the plans *)
(* are the server's, whichever writes and fetches overlapped; but for those that a     *)
(* write is known to leave as they were, and, after a lost answer or a failed fetch,   *)
(* until the list is asked for again.                                                  *)
THEOREM ListsFreshWhenQuietAlways == Spec => []ListsFreshWhenQuiet
<1> DEFINE Inv == /\ Is("assets") => AssetsInv
                  /\ Is("import") => ImportInv
                  /\ Is("planning") => PlanListsInv
<1>1. Init => Inv
  BY InitAssets, InitImport, InitPlanLists DEF Init, Is
<1>2. Inv /\ [Next]_vars => Inv'
  <2> SUFFICES ASSUME Inv, [Next]_vars PROVE Inv'
    OBVIOUS
  <2>1. at' = at
    BY DEF Next, vars
  <2>2. CASE Is("assets")
    BY <2>1, <2>2, NextAssets DEF Next, Is, vars, Assets!vars
  <2>3. CASE Is("import")
    BY <2>1, <2>3, NextImport DEF Next, Is, vars, Import!vars
  <2>4. CASE Is("planning")
    BY <2>1, <2>4, NextPlanLists DEF Next, Is, vars, Planning!vars
  <2> QED
    BY <2>1, <2>2, <2>3, <2>4 DEF Is
<1>3. Inv => ListsFreshWhenQuiet
  <2>1. AssetsInv => Assets!ListsFreshWhenQuiet
    BY DEF AssetsInv, AssetsComing, Assets!ListsFreshWhenQuiet
  <2>2. ImportInv => Import!ListsFreshWhenQuiet
    BY DEF ImportInv, ImportFresh, ImportComing, Import!ListsFreshWhenQuiet
  <2>3. PlanListsInv => Planning!ListsFreshWhenQuiet
    BY DEF PlanListsInv, Planning!ListsFreshWhenQuiet
  <2> QED
    BY <2>1, <2>2, <2>3 DEF ListsFreshWhenQuiet
<1> QED
  BY <1>1, <1>2, <1>3, PTL DEF Spec
=============================================================================
