-------------------------- MODULE TransactionForm --------------------------
(* The form of a transaction. A new one is stored by a chain of requests, of *)
(* which the first creates the row. One that exists is sent whole on every   *)
(* save, from what the row looked like when the form was mounted; meanwhile  *)
(* two of its buttons write at once, and its split waits for its group.      *)
EXTENDS Naturals, FiniteSets, QueryCache

CONSTANT MaxWrites          \* bound: writes in a behaviour

VARIABLES ui, q, net, log

vars == <<ui, q, net, log>>

None == "none"
Entries == 1..2             \* bound: new transactions entered
Steps == {"row", "recurring", "files"}

(* A row: hidden in the form (hidden) and in the list it is opened from (seen), and its *)
(* split. q: the rows stored of each entry, and what the server has of the row.         *)
TypeOK ==
  /\ ui \in [entry : Entries \cup {0}, options : SUBSET {"recurring", "installments", "files"},
             open : BOOLEAN, over : {"rule", None}, hidden : BOOLEAN, seen : BOOLEAN,
             split : {"none", "seeded", "loaded", "other", "wrong", "off"}]
  /\ q \in [stored : [Entries -> 0..MaxWrites], hidden : BOOLEAN, split : BOOLEAN]
  /\ net \subseteq [do : {"create", "save", "toggle", "orphan", "unlink", "rule", "group"},
                    of : [entry : Entries \cup {0}, left : SUBSET Steps, hidden : BOOLEAN,
                          split : {None, "shares", "clear"}],
                    st : {"sent", "done"}]
  /\ log \in [n : 0..MaxWrites, partial : BOOLEAN, want : BOOLEAN, old : BOOLEAN, cleared : BOOLEAN]
-----------------------------------------------------------------------------

(* entry 0: the row that exists; 1: a form just opened for a new one. *)
Init ==
  /\ \E entry \in {0, 1}, split \in BOOLEAN :
       /\ ui = [entry |-> entry, options |-> {}, open |-> entry = 1, over |-> None,
                hidden |-> FALSE, seen |-> FALSE, split |-> "none"]
       /\ q = [stored |-> [e \in Entries |-> 0], hidden |-> FALSE, split |-> split]
  /\ net = {}
  /\ log = [n |-> 0, partial |-> FALSE, want |-> FALSE, old |-> FALSE, cleared |-> ~q.split]

Form == ui.open /\ ui.over = None
Entering == Form /\ ui.entry # 0
Editing == Form /\ ui.entry = 0
Changes(v) == ui' = v /\ UNCHANGED <<q, net, log>>
Loading == Pending(net, {"create", "save"})

(* A save stays off until the shares add up; those of a group not there yet are none. *)
ValidUnseeded == ui.split \notin {"other", "wrong"}     \* broken: a split not loaded yet is valid
Valid == ui.split \notin {"seeded", "other", "wrong"}

Send(do, of) ==
  /\ log.n < MaxWrites
  /\ net' = net \cup {Sent(do, of)}
  /\ log' = [log EXCEPT !.n = @ + 1]
  /\ UNCHANGED <<ui, q>>
(* The shares are there once they are loaded: a split without any is sent as cleared. *)
Of(left) ==
  [entry |-> ui.entry, left |-> left, hidden |-> ui.hidden,
   split |-> IF ui.split = "none" THEN None ELSE IF ui.split = "loaded" THEN "shares" ELSE "clear"]
Nothing == [entry |-> 0, left |-> {}, hidden |-> FALSE, split |-> None]

Open ==
  /\ ~ui.open /\ ui.entry = 0
  /\ ui' = [ui EXCEPT !.open = TRUE, !.hidden = ui.seen, !.split = IF q.split THEN "seeded" ELSE "none"]
  /\ log' = [log EXCEPT !.old = @ \/ ui.seen # q.hidden \/ Pending(net, {"orphan"})]
  /\ UNCHANGED <<q, net>>
Shut(v) == [v EXCEPT !.open = FALSE, !.over = None, !.hidden = FALSE, !.options = {}, !.split = "none"]
(* The handler of a toggle whose form is gone reaches no other. *)
Orphaned(calls) == {IF c.do = "toggle" THEN [c EXCEPT !.do = "orphan"] ELSE c : c \in calls}
Close == Form /\ ui' = Shut(ui) /\ net' = Orphaned(net) /\ UNCHANGED <<q, log>>
(* Another transaction entered after this one. *)
NextEntry == ~ui.open /\ ui.entry = 1 /\ Changes([ui EXCEPT !.entry = 2, !.open = TRUE])
-----------------------------------------------------------------------------
(* A new transaction: repeated, or in installments, never both; with files. *)
MakeRecurring == Entering /\ Changes([ui EXCEPT !.options = (@ \ {"installments"}) \cup {"recurring"}])
MakeInstallments == Entering /\ Changes([ui EXCEPT !.options = (@ \ {"recurring"}) \cup {"installments"}])
AttachFiles == Entering /\ Changes([ui EXCEPT !.options = @ \cup {"files"}])
CreateTwice ==                                           \* broken: not off while one is pending
  Entering /\ Valid /\ Send("create", Of({"row"} \cup (ui.options \cap Steps)))
Create == Entering /\ Valid /\ ~Loading /\ Send("create", Of({"row"} \cup (ui.options \cap Steps)))

(* The steps of the chain, in order: the row, its repetition, its files. *)
NextOf(left) == IF "row" \in left THEN "row" ELSE IF "recurring" \in left THEN "recurring" ELSE "files"
Step(c) ==
  /\ c \in net /\ c.do = "create" /\ c.of.left # {}
  /\ net' = (net \ {c}) \cup {[c EXCEPT !.of.left = @ \ {NextOf(@)}]}
  /\ q' = IF NextOf(c.of.left) = "row" THEN [q EXCEPT !.stored[c.of.entry] = @ + 1] ELSE q
  /\ UNCHANGED <<ui, log>>
(* The dialog that is open closes, whichever entry it is about by now. *)
Created(c) ==
  /\ c \in net /\ c.do = "create" /\ c.of.left = {}
  /\ net' = Orphaned(net \ {c}) /\ ui' = Shut(ui)
  /\ UNCHANGED <<q, log>>
(* Any step can fail, and an answer be lost: the form stays, and can be saved again. *)
CreateFails(c) ==
  /\ c \in net /\ c.do = "create"
  /\ net' = net \ {c}
  /\ log' = [log EXCEPT !.partial = @ \/ "row" \notin c.of.left]
  /\ UNCHANGED <<ui, q>>
-----------------------------------------------------------------------------
(* The split of the row: its group comes, or is not among the groups; the user edits. *)
GroupLoads == Form /\ ui.split = "seeded" /\ Changes([ui EXCEPT !.split = "loaded"])
GroupMissing == Form /\ ui.split = "seeded" /\ Changes([ui EXCEPT !.split = "other"])
EditShares ==
  /\ Form /\ ui.split \in {"loaded", "other", "wrong"}
  /\ \E s \in {"loaded", "wrong"} : Changes([ui EXCEPT !.split = s])
SplitOff == Form /\ ui.split \notin {"none", "off"} /\ Changes([ui EXCEPT !.split = "off"])
SplitOn ==
  /\ Form /\ ui.split \in {"none", "off"}
  /\ Changes([ui EXCEPT !.split = IF @ = "off" THEN "seeded" ELSE "wrong"])
NewGroup == Form /\ ui.split \in {"other", "wrong"} /\ ~Pending(net, {"group"}) /\ Send("group", Nothing)

(* The whole row is sent. *)
Save ==
  /\ Editing /\ Valid /\ ~Loading /\ log.n < MaxWrites
  /\ net' = net \cup {Sent("save", Of({}))}
  /\ log' = [log EXCEPT !.n = @ + 1, !.old = @ \/ Pending(net, {"toggle"}), !.cleared = @ \/ ui.split = "off"]
  /\ UNCHANGED <<ui, q>>

(* The buttons that write at once: hide the row or show it, unlink it from its bill. *)
ToggleIgnore == Editing /\ ~Loading /\ ~Pending(net, {"toggle"}) /\ Send("toggle", Nothing)
UnlinkRecurring == Editing /\ ~Pending(net, {"unlink"}) /\ Send("unlink", Nothing)
OpenRule == Editing /\ Changes([ui EXCEPT !.over = "rule"])
CloseRule == ui.over = "rule" /\ Changes([ui EXCEPT !.over = None])
ExtendRule == ui.over = "rule" /\ ~Pending(net, {"rule"}) /\ Send("rule", Nothing)

Serve(c) ==
  /\ c \in net /\ c.do \in {"save", "toggle", "orphan"} /\ c.st = "sent"
  /\ q' = CASE c.do = "save" -> [q EXCEPT !.hidden = c.of.hidden,
                                           !.split = (@ /\ c.of.split = None) \/ c.of.split = "shares"]
            [] c.do \in {"toggle", "orphan"} -> [q EXCEPT !.hidden = ~@]
  /\ net' = Served(net, c)
  /\ log' = IF c.do \in {"toggle", "orphan"} THEN [log EXCEPT !.want = ~@] ELSE log
  /\ UNCHANGED ui

(* The answer of a toggle sets the flag of the form, the one it was pressed in if mounted. *)
Toggled(v) == [v EXCEPT !.hidden = q.hidden]
Answer(c) ==
  /\ c \in net /\ c.do # "create" /\ (c.st = "done" \/ c.do \in {"unlink", "rule", "group"})
  /\ net' = IF c.do = "save" THEN Orphaned(net \ {c}) ELSE net \ {c}
  /\ ui' = CASE c.do = "save" -> Shut(ui)
             [] c.do = "toggle" -> Toggled(ui)
             [] c.do = "rule" -> [ui EXCEPT !.over = None]
             [] c.do = "group" -> [ui EXCEPT !.split = IF @ \in {"other", "wrong"} THEN "loaded" ELSE @]
             [] OTHER -> ui
  /\ UNCHANGED <<q, log>>
(* It fails, or its answer is lost: the form stays as it is, its flag too. *)
Fail(c) ==
  /\ c \in net /\ c.do # "create"
  /\ net' = net \ {c}
  /\ log' = [log EXCEPT !.old = @ \/ (c.do = "toggle" /\ c.st = "done")]
  /\ UNCHANGED <<ui, q>>
(* The list the form is opened from is fetched again. *)
Refetched == ui.seen # q.hidden /\ Changes([ui EXCEPT !.seen = q.hidden])

Next ==
  \/ Open \/ Close \/ NextEntry \/ MakeRecurring \/ MakeInstallments \/ AttachFiles \/ Create
  \/ GroupLoads \/ GroupMissing \/ EditShares \/ SplitOff \/ SplitOn \/ NewGroup \/ Save
  \/ ToggleIgnore \/ UnlinkRecurring \/ OpenRule \/ CloseRule \/ ExtendRule \/ Refetched
  \/ \E c \in net : Step(c) \/ Created(c) \/ CreateFails(c) \/ Serve(c) \/ Answer(c) \/ Fail(c)

Spec == Init /\ [][Next]_vars
-----------------------------------------------------------------------------
(* What is entered once is stored once, unless a save failed after its first step or its *)
(* answer was lost: the form stays open then, and saving it again creates it again.      *)
StoredOnce == ~log.partial => \A e \in Entries : q.stored[e] <= 1

(* A save does not undo the toggle beside it, unless the form was opened from a row older  *)
(* than the server's, was saved while a toggle was on its way, or never heard of a toggle  *)
(* that was done, its answer lost; and it clears a split only if the user turned it off,   *)
(* though the shares it sends are not there when the form opens.                           *)
SaveChangesNothingElse ==
  ui.entry = 0 =>
    /\ ~log.old /\ net = {} => q.hidden = log.want
    /\ ~q.split => log.cleared
=============================================================================
