--------------------------- MODULE CategoriesPage ---------------------------
(* The page of the categories and their groups. A system category is hidden,  *)
(* not deleted, and the page looks for rules that still assign it before it   *)
(* hides it: only then is the user asked, and can turn the rules off with it. *)
EXTENDS Naturals, FiniteSets, QueryCache

CONSTANT MaxWrites          \* bound: writes in a behaviour

VARIABLES ui, q, net, log

vars == <<ui, q, net, log>>

None == "none"
Forms == {"category", "editCategory", "group", "editGroup"}
Confirms == {"deleteCategory", "deleteGroup"}
Writes == Forms \cup Confirms \cup {"show", "hide", "hideGroup"}

(* One system category is followed. hidden, used: what the server holds, shown: what the  *)
(* page does; asked, off: the user was asked about the rules, and turns them off. late: a *)
(* rule was written after they were looked for.                                           *)
TypeOK ==
  /\ ui \in [over : Forms \cup Confirms \cup {"hide", None}, collapsed : BOOLEAN]
  /\ q \in [hidden : BOOLEAN, used : BOOLEAN, shown : BOOLEAN, fetch : {"none", "clean", "dirty"}]
  /\ net \subseteq [do : Writes \cup {"look"}, used : BOOLEAN, asked : BOOLEAN, off : BOOLEAN,
                    st : {"sent", "done"}]
  /\ log \in [n : 0..MaxWrites, late : BOOLEAN]
-----------------------------------------------------------------------------
Call(do) == [do |-> do, used |-> FALSE, asked |-> FALSE, off |-> FALSE, st |-> "sent"]
Blank == [over |-> None, collapsed |-> FALSE]
Shut == [ui EXCEPT !.over = None]

Init ==
  /\ ui = Blank /\ net = {}
  /\ q \in [hidden : {FALSE}, used : BOOLEAN, shown : {TRUE}, fetch : {"none"}]
  /\ log = [n |-> 0, late |-> FALSE]

Page == ui.over = None
In(over) == ui.over = over
Changes(v) == ui' = v /\ UNCHANGED <<q, net, log>>
Write(c) ==
  /\ log.n < MaxWrites
  /\ net' = net \cup {c}
  /\ log' = [log EXCEPT !.n = @ + 1]
  /\ UNCHANGED <<ui, q>>
-----------------------------------------------------------------------------
(* Forms and confirmations; a form can be sent again while it is pending. *)
Open(over) == Page /\ Changes([ui EXCEPT !.over = over])
Ask(over) == Page /\ ~Pending(net, {over}) /\ Open(over)
Close == ui.over # None /\ ~(ui.over \in Confirms /\ Pending(net, {ui.over})) /\ Changes(Shut)
Save == ui.over \in Forms /\ Write(Call(ui.over))
Confirm == ui.over \in Confirms /\ ~Pending(net, {ui.over}) /\ Write(Call(ui.over))
Collapse == Page /\ Changes([ui EXCEPT !.collapsed = ~@])
HideGroup == Page /\ ~Pending(net, {"hideGroup", "editGroup"}) /\ Write(Call("hideGroup"))

(* The eye of the category: shows it again, or looks for its rules first; to click again *)
(* while they are looked for joins that.                                                 *)
Toggles == Page /\ ~Pending(net, {"show", "editCategory", "hide"})
Show == Toggles /\ ~q.shown /\ Write(Call("show"))
HideUnlooked == Toggles /\ q.shown /\ Write(Call("hide"))    \* broken: hides it at once
Hide ==
  /\ Toggles /\ q.shown
  /\ net' = net \cup (IF Pending(net, {"look"}) THEN {} ELSE {Call("look")})
  /\ UNCHANGED <<ui, q, log>>
Looked(c) ==
  /\ c \in net /\ c.do = "look" /\ c.st = "done"
  /\ IF c.used
     THEN /\ ui' = [ui EXCEPT !.over = "hide"] /\ net' = net \ {c}
          /\ UNCHANGED log
     ELSE /\ log.n < MaxWrites /\ net' = (net \ {c}) \cup {Call("hide")}
          /\ log' = [log EXCEPT !.n = @ + 1]
          /\ UNCHANGED ui
  /\ UNCHANGED q
HideAsked(off) ==
  /\ In("hide") /\ ~Pending(net, {"hide"})
  /\ Write([Call("hide") EXCEPT !.asked = TRUE, !.off = off])
-----------------------------------------------------------------------------
Serve(c) ==
  /\ c \in net /\ c.st = "sent"
  /\ net' = (net \ {c}) \cup {[c EXCEPT !.st = "done", !.used = c.do = "look" /\ q.used]}
  /\ q' = CASE c.do = "hide" -> [q EXCEPT !.hidden = TRUE, !.used = @ /\ ~c.off,
                                           !.fetch = IF @ = "none" THEN @ ELSE "dirty"]
            [] c.do = "show" -> [q EXCEPT !.hidden = FALSE, !.fetch = IF @ = "none" THEN @ ELSE "dirty"]
            [] OTHER -> q
  /\ UNCHANGED <<ui, log>>
(* Another tab, or a member of the workspace, writes a rule that assigns the category. *)
OtherAddsRule ==
  /\ ~q.used /\ log.n < MaxWrites
  /\ q' = [q EXCEPT !.used = TRUE]
  /\ log' = [n |-> log.n + 1, late |-> \E c \in net : c.do = "hide" \/ (c.do = "look" /\ c.st = "done")]
  /\ UNCHANGED <<ui, net>>
Fetched_ ==
  /\ q.fetch # "none"
  /\ \E shown \in {~q.hidden} \cup (IF q.fetch = "dirty" THEN {q.shown} ELSE {}) :
       q' = [q EXCEPT !.shown = shown, !.fetch = "none"]
  /\ UNCHANGED <<ui, net, log>>

Closes(c) ==
  CASE c.do \in {"category", "editCategory", "show"} -> {"category", "editCategory"}
    [] c.do \in {"group", "editGroup", "hideGroup"} -> {"group", "editGroup"}
    [] OTHER -> {c.do}
(* Every answer has the categories fetched again and closes the dialog of its kind. *)
Answer(c) ==
  /\ c \in net /\ c.st = "done" /\ c.do # "look"
  /\ net' = net \ {c}
  /\ q' = [q EXCEPT !.fetch = "clean"]
  /\ ui' = IF ui.over \in Closes(c) THEN Shut ELSE ui
  /\ UNCHANGED log
(* Refused, as the deletion of a category in use is, failed or lost: what is open stays open. *)
Fail(c) == c \in net /\ net' = net \ {c} /\ UNCHANGED <<ui, q, log>>

Next ==
  \/ Close \/ Save \/ Confirm \/ Collapse \/ HideGroup \/ Show \/ Hide \/ OtherAddsRule \/ Fetched_
  \/ \E over \in Forms : Open(over)
  \/ \E over \in Confirms : Ask(over)
  \/ \E off \in BOOLEAN : HideAsked(off)
  \/ \E c \in net : Looked(c) \/ Serve(c) \/ Answer(c) \/ Fail(c)

Spec == Init /\ [][Next]_vars
-----------------------------------------------------------------------------
(* A category that rules still assign is hidden only after the user was asked about them, *)
(* or the rule was written after they were looked for.                                    *)
HidesAreAsked ==
  \A c \in net : c.do = "hide" /\ c.st = "sent" /\ q.used => c.asked \/ log.late
=============================================================================
