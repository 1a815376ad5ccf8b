------------------------- MODULE WorkspaceSettings --------------------------
(* The settings of the active workspace: its form, its members, its archive. *)
(* Every write reads the active workspace when it is sent, while the form    *)
(* and the dialogs were opened before; the list of workspaces, asked for     *)
(* again after every change of the user or of a workspace, can move the page *)
(* to another one at any time. Home comes first in the list.                 *)
EXTENDS Naturals, FiniteSets, QueryCache

CONSTANT MaxWrites          \* bound: writes in a behaviour

VARIABLES ui, q, net, log

vars == <<ui, q, net, log>>

None == "none"
Home == "home"
Shared == "shared"          \* another owner has it too, and may archive it
Workspaces == {Home, Shared}
Dialogs == {"invite", "remove", "archive"}
Writes == {"update", "role"} \cup Dialogs
Lists == {"list", "after"}

(* id, list: the provider's; form: the workspace the fields were filled from; dialog, of: *)
(* the dialog that is open and the workspace it was opened in. ws, of, of a request: the  *)
(* workspace it names and the one it was meant for; got: the list as it was served. After *)
(* an archive, "after" is the list asked for and ws what the page switches to with it.    *)
(* live: the workspaces there are; moved: the page moved under an open dialog.            *)
TypeOK ==
  /\ ui \in [id : Workspaces \cup {None}, list : SUBSET Workspaces, form : Workspaces,
             dialog : Dialogs \cup {None}, of : Workspaces \cup {None}]
  /\ q = None
  /\ net \subseteq [do : Writes \cup {"list", "after", "me"},
                    of : [ws : Workspaces \cup {None}, of : Workspaces \cup {None}, got : SUBSET Workspaces],
                    st : {"sent", "done"}]
  /\ log \in [n : 0..MaxWrites, live : SUBSET Workspaces, moved : BOOLEAN]
-----------------------------------------------------------------------------
Init ==
  /\ \E w \in Workspaces :
       ui = [id |-> w, list |-> Workspaces, form |-> w, dialog |-> None, of |-> None]
  /\ q = None /\ net = {}
  /\ log = [n |-> 0, live |-> Workspaces, moved |-> FALSE]

(* The active workspace is one of the list; without it the page is a skeleton. *)
Current(v) == IF v.id \in v.list THEN v.id ELSE None
Page == Current(ui) # None /\ ui.dialog = None
In(d) == Current(ui) # None /\ ui.dialog = d
Changes(v) == ui' = v /\ UNCHANGED <<q, net, log>>

(* The fields are filled again whenever the active workspace is another one. *)
FilledOnce(v) == v                       \* broken: the fields are filled when the page opens
Filled(v) == IF Current(v) = None THEN v ELSE [v EXCEPT !.form = Current(v)]

(* The switcher beside the page. *)
Switch(w) == Page /\ w \in ui.list \ {ui.id} /\ Changes(Filled([ui EXCEPT !.id = w]))

Open(d) == Page /\ Changes([ui EXCEPT !.dialog = d, !.of = Current(ui)])
Shut(v) == [v EXCEPT !.dialog = None, !.of = None]
Close == Current(ui) # None /\ ui.dialog # None /\ Changes(Shut(ui))

Request(do, ws, of) == Sent(do, [ws |-> ws, of |-> of, got |-> {}])
Write(do, of) ==
  /\ log.n < MaxWrites
  /\ net' = net \cup {Request(do, Current(ui), of)}
  /\ log' = [log EXCEPT !.n = @ + 1]
  /\ UNCHANGED <<ui, q>>
Save == Page /\ ~Pending(net, {"update"}) /\ Write("update", ui.form)
(* The members listed are those of the active workspace, and a role is set in its row. *)
ChangeRole == Page /\ Write("role", Current(ui))
Confirm(d) == In(d) /\ ~Pending(net, {d}) /\ Write(d, ui.of)
Invite == Confirm("invite")
Remove == Confirm("remove")
Archive == Confirm("archive")
-----------------------------------------------------------------------------
(* The server refuses what is about an archived workspace, and to archive the last one. *)
Serve(c) ==
  /\ c \in net /\ c.st = "sent"
  /\ c.do \in Writes => c.of.ws \in log.live
  /\ c.do = "archive" => log.live # {c.of.ws}
  /\ net' = (net \ {c})
       \cup {[c EXCEPT !.st = "done", !.of.got = IF c.do \in Lists THEN log.live ELSE {}]}
  /\ log' = [log EXCEPT !.live = IF c.do = "archive" THEN @ \ {c.of.ws} ELSE @]
  /\ UNCHANGED <<ui, q>>

OtherArchives ==
  /\ Shared \in log.live
  /\ log' = [log EXCEPT !.live = @ \ {Shared}]
  /\ UNCHANGED <<ui, q, net>>

(* The workspaces of a list that the page falls back on: the first. *)
First(list) == IF Home \in list THEN Home ELSE IF list = {} THEN None ELSE Shared

(* loadWorkspaces: the list replaces the one there is, and the active workspace stays if *)
(* it is in it. After an archive the page then goes to the first of the workspaces that  *)
(* were listed when the archive was answered, and leaves for the dashboard.              *)
Reconciled(list) == [ui EXCEPT !.list = list, !.id = IF @ \in list THEN @ ELSE First(list)]
Follow(c, v) ==
  LET w == IF c.do = "list" THEN Filled(v)
           ELSE Filled(Shut([v EXCEPT !.id = IF c.of.ws = None THEN @ ELSE c.of.ws])) IN
  /\ ui' = w
  /\ log' = [log EXCEPT !.moved = @ \/ (w.of # None /\ w.id # ui.id)]
List(c) ==
  /\ c \in net /\ c.do \in Lists /\ c.st = "done"
  /\ net' = net \ {c}
  /\ Follow(c, Reconciled(c.of.got))
  /\ UNCHANGED q
(* A list that fails leaves none. *)
ListFails(c) ==
  /\ c \in net /\ c.do \in Lists
  /\ net' = net \ {c}
  /\ Follow(c, [ui EXCEPT !.list = {}])
  /\ UNCHANGED q

(* After a save the list and the user are asked for again, and a new user asks for the list. *)
Asks(c) ==
  CASE c.do = "update" -> {Request("list", None, None), Request("me", None, None)}
    [] c.do = "me" -> {Request("list", None, None)}
    [] c.do = "archive" -> {Request("after", First(ui.list \ {Current(ui)}), None)}
    [] OTHER -> {}
Answer(c) ==
  /\ c \in net /\ c.do \notin Lists /\ c.st = "done"
  /\ net' = (net \ {c}) \cup Asks(c)
  /\ ui' = IF c.do = ui.dialog THEN Shut(ui) ELSE ui
  /\ UNCHANGED <<q, log>>
Fail(c) == c \in net /\ c.do \notin Lists /\ net' = net \ {c} /\ UNCHANGED <<ui, q, log>>

Next ==
  \/ \E w \in Workspaces : Switch(w)
  \/ \E d \in Dialogs : Open(d)
  \/ Close \/ Save \/ ChangeRole \/ Invite \/ Remove \/ Archive \/ OtherArchives
  \/ \E c \in net : Serve(c) \/ List(c) \/ ListFails(c) \/ Answer(c) \/ Fail(c)

Spec == Init /\ [][Next]_vars
-----------------------------------------------------------------------------
(* What is written to a workspace was entered for it: its own fields, a member of its own, *)
(* an invitation into it; unless the list moved the page under an open dialog, which then  *)
(* acts on the workspace moved to.                                                         *)
WritesReachTheirWorkspace ==
  ~log.moved => \A c \in net : c.do \in Writes => c.of.ws = c.of.of
=============================================================================
