----------------------------- MODULE PayeesPage -----------------------------
(* The page of the payees: a list under filters, a summary of one of them, a *)
(* form, and the selection, whose payees are merged or deleted together. The *)
(* list is fetched again after a write and can lose a payee that is selected *)
(* all the same.                                                             *)
EXTENDS Naturals, FiniteSets, QueryCache

CONSTANT MaxWrites          \* bound: writes in a behaviour

VARIABLES ui, q, net, log

vars == <<ui, q, net, log>>

None == "none"
Payees == {"it", "other"}   \* one payee is followed; the other stands for all the others
Removes == {"delete", "deleteAll", "merge"}
Writes == Removes \cup {"create", "update", "star"}

(* only: the list is filtered to the favourites, which stand for what any filter asks.    *)
(* there, star: the payee is on the server, a favourite; listed: it is shown, got: in the *)
(* list on its way. excused: it may be hidden, see SelectedAreListed.                     *)
TypeOK ==
  /\ ui \in [over : {"form", "merge", "delete", None}, of : Payees \cup {None}, target : Payees \cup {None},
             doomed : SUBSET Payees, sel : SUBSET Payees, only : BOOLEAN]
  /\ q \in [there : BOOLEAN, star : BOOLEAN, listed : BOOLEAN, got : BOOLEAN,
            fetch : {"none", "sent", "read"}]
  /\ net \subseteq [do : Writes, of : SUBSET Payees, st : {"sent", "done"}]
  /\ log \in [n : 0..MaxWrites, excused : BOOLEAN]
-----------------------------------------------------------------------------
Shut(v) == [v EXCEPT !.over = None, !.of = None, !.target = None, !.doomed = {}]

Init ==
  /\ ui = [over |-> None, of |-> None, target |-> None, doomed |-> {}, sel |-> {}, only |-> FALSE]
  /\ q = [there |-> TRUE, star |-> TRUE, listed |-> TRUE, got |-> FALSE, fetch |-> "none"]
  /\ net = {} /\ log = [n |-> 0, excused |-> FALSE]

Page == ui.over = None
In(over) == ui.over = over
Changes(v) == ui' = v /\ UNCHANGED <<q, net, log>>
Write(do, of) ==
  /\ log.n < MaxWrites
  /\ net' = net \cup {Sent(do, of)}
  /\ log' = [log EXCEPT !.n = @ + 1]
  /\ UNCHANGED <<ui, q>>
Close == ui.over # None /\ Changes(Shut(ui))
-----------------------------------------------------------------------------
(* Another filter is another list; the effect on the filters clears the selection. *)
FilteredKeeping(v) == v                \* broken: the selection outlives the filter
Filtered(v) == [v EXCEPT !.sel = {}]
(* A search is asked for when its timer runs out, whatever is open by then. *)
Filter ==
  /\ ui' = Filtered([ui EXCEPT !.only = ~@])
  /\ q' = [q EXCEPT !.listed = FALSE, !.fetch = "sent", !.got = FALSE]
  /\ UNCHANGED <<net, log>>

Excused == [log EXCEPT !.excused = TRUE]
Listed == {p \in Payees : p = "it" => q.listed}
(* A row can still be there after its payee was removed. *)
Selects(sel) ==
  /\ Page
  /\ ui' = [ui EXCEPT !.sel = sel]
  /\ log' = IF q.there \/ "it" \notin sel \ ui.sel THEN log ELSE Excused
  /\ UNCHANGED <<q, net>>
Toggle(p) == Page /\ p \in Listed /\ Selects(IF p \in ui.sel THEN ui.sel \ {p} ELSE ui.sel \cup {p})
ToggleAll == Selects(IF Listed \subseteq ui.sel THEN {} ELSE Listed)

(* The form; its payee can be deleted from it without being asked. *)
OpenCreate == Page /\ Changes([ui EXCEPT !.over = "form"])
OpenEdit(p) == Page /\ p \in Listed /\ Changes([ui EXCEPT !.over = "form", !.of = p])
Save ==
  /\ In("form") /\ ~Pending(net, {"create", "update"})
  /\ IF ui.of = None THEN Write("create", {}) ELSE Write("update", {ui.of})
DeleteFromForm == In("form") /\ ui.of # None /\ ~Pending(net, {"delete"}) /\ Write("delete", {ui.of})
Star(p) == Page /\ p \in Listed /\ Write("star", {p})

(* One row, or the selection as it is now, to be confirmed. *)
AskDelete(p) ==
  /\ Page /\ p \in Listed /\ ~Pending(net, {"delete", "deleteAll"})
  /\ Changes([ui EXCEPT !.over = "delete", !.doomed = {p}])
Several == Cardinality(ui.sel) >= 2
AskDeleteAll ==
  /\ Page /\ Several /\ ~Pending(net, {"deleteAll"})
  /\ Changes([ui EXCEPT !.over = "delete", !.doomed = ui.sel])
ConfirmDelete ==
  /\ In("delete") /\ ~Pending(net, {"delete", "deleteAll"})
  /\ Write(IF Cardinality(ui.doomed) = 1 THEN "delete" ELSE "deleteAll", ui.doomed)

(* The target is one of the selected that the list still names; the sources are all the *)
(* others.                                                                              *)
AskMerge == Page /\ Several /\ Changes([ui EXCEPT !.over = "merge"])
PickTarget(p) == In("merge") /\ p \in ui.sel \cap Listed /\ Changes([ui EXCEPT !.target = p])
ConfirmMerge ==
  /\ In("merge") /\ ui.target # None /\ ~Pending(net, {"merge"})
  /\ Write("merge", ui.sel \ {ui.target})
-----------------------------------------------------------------------------
(* A star is turned, an edit can take a payee out of the filter or into it, and a removal *)
(* removes.                                                                               *)
Serve(c) ==
  /\ c \in net /\ c.st = "sent"
  /\ net' = Served(net, c)
  /\ LET turned == "it" \in c.of /\ c.do \in {"star", "update"}
     IN /\ q' = [q EXCEPT !.there = @ /\ ~("it" \in c.of /\ c.do \in Removes), !.star = turned # @]
        /\ log' = IF turned THEN Excused ELSE log
  /\ UNCHANGED ui
OtherDeletes ==
  /\ q.there /\ log.n < MaxWrites
  /\ q' = [q EXCEPT !.there = FALSE]
  /\ log' = [Excused EXCEPT !.n = @ + 1]
  /\ UNCHANGED <<ui, net>>

Fetch == Page /\ q.fetch = "none" /\ q' = [q EXCEPT !.fetch = "sent"] /\ UNCHANGED <<ui, net, log>>
Read ==
  /\ q.fetch = "sent"
  /\ q' = [q EXCEPT !.fetch = "read", !.got = q.there /\ (ui.only => q.star)]
  /\ log' = IF \E c \in net : "it" \in c.of /\ c.do \in Removes /\ c.st = "done" THEN Excused ELSE log
  /\ UNCHANGED <<ui, net>>
Got ==
  /\ q.fetch = "read"
  /\ q' = [q EXCEPT !.fetch = "none", !.listed = q.got, !.got = FALSE]
  /\ UNCHANGED <<ui, net, log>>
-----------------------------------------------------------------------------
(* An answer asks for the list again, closes its dialog, or the one of the same kind that is *)
(* open by then, and takes what it removed from the selection.                               *)
Closes(c) ==
  CASE c.do \in {"create", "update"} -> {"form"}
    [] c.do = "delete" -> {"form", "delete"}
    [] c.do = "deleteAll" -> {"delete"}
    [] c.do = "merge" -> {"merge"}
    [] OTHER -> {}
Deselected(c, v) ==
  CASE c.do \in {"deleteAll", "merge"} -> [v EXCEPT !.sel = {}]
    [] c.do = "delete" -> [v EXCEPT !.sel = @ \ c.of]
    [] OTHER -> v
Answer(c) ==
  /\ c \in net /\ c.st = "done"
  /\ net' = net \ {c}
  /\ ui' = Deselected(c, IF ui.over \in Closes(c) THEN Shut(ui) ELSE ui)
  /\ q' = [q EXCEPT !.fetch = "sent", !.got = FALSE]
  /\ UNCHANGED log
(* A write that failed, or whose answer was lost, leaves everything as it is. *)
Fail(c) ==
  /\ c \in net
  /\ net' = net \ {c}
  /\ log' = IF c.st = "done" THEN Excused ELSE log
  /\ UNCHANGED <<ui, q>>

Next ==
  \/ Close \/ Filter \/ ToggleAll \/ OpenCreate \/ Save \/ DeleteFromForm
  \/ AskDeleteAll \/ ConfirmDelete \/ AskMerge \/ ConfirmMerge \/ Fetch \/ Read \/ Got \/ OtherDeletes
  \/ \E p \in Payees : Toggle(p) \/ OpenEdit(p) \/ Star(p) \/ AskDelete(p) \/ PickTarget(p)
  \/ \E c \in net : Serve(c) \/ Answer(c) \/ Fail(c)

Spec == Init /\ [][Next]_vars
-----------------------------------------------------------------------------
(* What would be merged or deleted together is listed on the page: a selected payee       *)
(* leaves the selection with the filter and with the row; unless it was starred or edited *)
(* out of the filter, another user deletes it, or the list is read before the answer that *)
(* removes it, none of which the selection hears of.                                      *)
SelectedAreListed == ~log.excused => ui.sel \subseteq Listed
=============================================================================
