----------------------------- MODULE ImportPage -----------------------------
(* The import page: a statement or a file of orders is previewed by the     *)
(* server, again on every change of its options, reviewed, and imported as  *)
(* the preview last answered. No preview cancels the one before it, and the *)
(* import can be confirmed while one is under way. Past imports can be      *)
(* undone.                                                                  *)
EXTENDS Naturals, FiniteSets, QueryCache

CONSTANT MaxWrites          \* bound: imports and undos in a behaviour

VARIABLES ui, q, net, log

vars == <<ui, q, net, log>>

None == "none"
Files == 1..2
Options == 0..1             \* the mapping, the date format, the wallet: data
MaxAsked == 3               \* bound: previews asked for
Keys == {"logs", "transactions", "assets", "wallets", "portfolio"}
NoPreview == [file |-> 0, options |-> 0]

(* asked numbers the previews. left: see AssetLists. *)
TypeOK ==
  /\ ui \in [tab : {"statement", "orders"}, writer : BOOLEAN, file : Files \cup {0},
             options : Options, preview : [file : Files \cup {0}, options : Options],
             out : BOOLEAN, account : BOOLEAN, undo : BOOLEAN]
  /\ q \in Caches(Keys)
  /\ net \subseteq [do : {"preview", "import", "undo"},
                    of : [file : Files, options : Options, n : 0..MaxAsked], st : {"sent", "done"}]
  /\ log \in [n : 0..MaxWrites, asked : 0..MaxAsked, left : BOOLEAN]
-----------------------------------------------------------------------------
Blank(tab, writer) ==
  [tab |-> tab, writer |-> writer, file |-> 0, options |-> 0, preview |-> NoPreview,
   out |-> FALSE, account |-> FALSE, undo |-> FALSE]

Init ==
  /\ \E tab \in {"statement", "orders"}, writer \in BOOLEAN : ui = Blank(tab, writer)
  /\ q \in Settled(Keys) /\ net = {}
  /\ log = [n |-> 0, asked |-> 0, left |-> FALSE]

Page == ~ui.undo
Reviewing == Page /\ ui.preview # NoPreview
Changes(new) == ui' = new /\ UNCHANGED <<q, net, log>>
Previews == {c \in net : c.do = "preview"}

(* Another tab of the page: what this one holds is gone, and nobody hears its previews. *)
SelectTab(tab) ==
  /\ Page /\ tab # ui.tab
  /\ ui' = Blank(tab, ui.writer)
  /\ net' = net \ Previews
  /\ UNCHANGED <<q, log>>

(* A preview of this file under these options; a new state of the page goes with it. *)
Preview(file, options, new) ==
  /\ log.asked < MaxAsked
  /\ ui' = new
  /\ log' = [log EXCEPT !.asked = @ + 1]
  /\ net' = net \cup {Sent("preview", [file |-> file, options |-> options, n |-> log.asked + 1])}
  /\ UNCHANGED q

(* A file is dropped at any time, or picked while no preview is on its way. The statement *)
(* keeps the rows of the file before it, the orders do not.                               *)
ChooseFile(f) ==
  /\ Page /\ ui.writer
  /\ LET s == [ui EXCEPT !.file = f]
     IN IF ui.tab = "statement" THEN Preview(f, 0, [s EXCEPT !.options = 0])
        ELSE Preview(f, ui.options, [s EXCEPT !.preview = NoPreview])

ChangeOptions(o) ==
  Reviewing /\ o # ui.options /\ ui.file # 0 /\ Preview(ui.file, o, [ui EXCEPT !.options = o])

(* Cancel and "remove file": the answer of a preview under way still comes in. *)
Reset ==
  /\ Reviewing
  /\ Changes([Blank(ui.tab, ui.writer) EXCEPT !.options = IF ui.tab = "orders" THEN ui.options ELSE 0])

Previewed(c) ==
  /\ c \in Previews
  /\ net' = net \ {c}
  /\ ui' = [ui EXCEPT !.preview = [file |-> c.of.file, options |-> c.of.options],
                      !.out = FALSE]
  /\ UNCHANGED <<q, log>>

(* It fails: the orders of a file that cannot be previewed go, a statement's rows stay. *)
PreviewFails(c) ==
  /\ c \in Previews
  /\ net' = net \ {c}
  /\ ui' = [ui EXCEPT !.preview = IF ui.tab = "orders" THEN NoPreview ELSE @]
  /\ UNCHANGED <<q, log>>
-----------------------------------------------------------------------------
(* The review of a statement: the account, and the rows left out, all of them or not. *)
SelectAccount == Reviewing /\ ui.tab = "statement" /\ Changes([ui EXCEPT !.account = ~@])
ToggleExcluded == Reviewing /\ ui.tab = "statement" /\ Changes([ui EXCEPT !.out = ~@])

(* A write is sent; its button is off while it is pending. *)
Write(do) ==
  /\ log.n < MaxWrites /\ ~Pending(net, {do})
  /\ net' = net \cup {Sent(do, [file |-> 1, options |-> IF ui.tab = "orders" THEN 1 ELSE 0, n |-> 0])}
  /\ log' = [log EXCEPT !.n = @ + 1]
  /\ UNCHANGED <<ui, q>>
Import == Reviewing /\ (ui.tab = "statement" => ui.account /\ ~ui.out) /\ Write("import")
AskUndo == Page /\ ui.writer /\ Changes([ui EXCEPT !.undo = TRUE])
CloseUndo == ui.undo /\ Changes([ui EXCEPT !.undo = FALSE])
Undo == ui.undo /\ Write("undo")
-----------------------------------------------------------------------------
OfOrders(c) == c.of.options = 1
Affects(c) == {"logs"} \cup (IF OfOrders(c) THEN {"assets", "wallets", "portfolio"} ELSE {"transactions"})
Serve(c) ==
  /\ c \in net \ Previews /\ c.st = "sent"
  /\ net' = Served(net, c)
  /\ q' = Wrote(q, Affects(c))
  /\ UNCHANGED <<ui, log>>

Refetches(c) ==
  IF c.do = "undo" THEN {"logs", "assets", "transactions"}
  ELSE IF OfOrders(c) THEN {"logs", "assets", "wallets"} ELSE {"logs", "transactions"}

(* An import that went through empties its own panel, whatever was dropped on it since; *)
(* one of orders leaves the page, and nobody hears its previews.                        *)
Empties(c) == c.do = "import" /\ OfOrders(c) = (ui.tab = "orders")
Answer(c) ==
  /\ c \in net \ Previews /\ c.st = "done"
  /\ net' = net \ ({c} \cup IF Empties(c) /\ OfOrders(c) THEN Previews ELSE {})
  /\ ui' = IF c.do = "undo" THEN [ui EXCEPT !.undo = FALSE]
           ELSE IF Empties(c) THEN Blank(ui.tab, ui.writer) ELSE ui
  /\ q' = Refetch(q, Refetches(c))
  /\ LET left == OfOrders(c) /\ (q.key = "portfolio" \/ (c.do = "undo" /\ q.key = "wallets"))
     IN log' = [log EXCEPT !.left = (@ \/ left) /\ q.key \notin Refetches(c)]

(* It fails, or is done and its answer is lost: a toast, and nothing is asked for. *)
Fail(c) ==
  /\ c \in net \ Previews
  /\ net' = net \ {c}
  /\ log' = [log EXCEPT !.left = @ \/ (c.st = "done" /\ q.key \in Affects(c))]
  /\ UNCHANGED <<ui, q>>

Fetch ==
  /\ q' \in Fetched(q)
  /\ log' = [log EXCEPT !.left = @ /\ q'.old]
  /\ UNCHANGED <<ui, net>>
FetchFails ==
  /\ q.fetch # "none" /\ q' = Dropped(q)
  /\ log' = [log EXCEPT !.left = @ \/ q.old]
  /\ UNCHANGED <<ui, net>>
Revisit == q.fetch = "none" /\ q' = Revisited(q) /\ UNCHANGED <<ui, net, log>>

Next ==
  \/ \E tab \in {"statement", "orders"} : SelectTab(tab)
  \/ \E f \in Files : ChooseFile(f)
  \/ \E o \in Options : ChangeOptions(o)
  \/ ToggleExcluded \/ Reset \/ SelectAccount \/ Import \/ AskUndo \/ CloseUndo \/ Undo
  \/ Fetch \/ FetchFails \/ Revisit
  \/ \E c \in net : Previewed(c) \/ PreviewFails(c) \/ Serve(c) \/ Answer(c) \/ Fail(c)

Spec == Init /\ [][Next]_vars
-----------------------------------------------------------------------------
(* With no preview under way, the orders on the screen were counted for the wallet on the *)
(* screen, the one that an import would put them in.                                      *)
CountsDescribeTheImport ==
  ui.tab = "orders" /\ Previews = {} /\ ui.preview # NoPreview => ui.preview.options = ui.options

(* Once everything is answered, the lists are the server's, but for the chart of the     *)
(* portfolio and, after an undo, the wallets; and except after a lost answer or a failed *)
(* fetch, until an answer asks again.                                                    *)
ListsFreshWhenQuiet == net = {} /\ q.fetch = "none" /\ q.old => log.left
=============================================================================
