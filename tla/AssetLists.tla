----------------------------- MODULE AssetLists -----------------------------
(* The lists of the assets page and the writes behind its buttons: which  *)
(* lists a write makes old at the server, and which ones its handler asks *)
(* for again. Each list is shown in more than one place and read from the *)
(* cache for minutes, so one that is not asked for stays on the screen.   *)
EXTENDS Naturals, FiniteSets, QueryCache

CONSTANT MaxWrites          \* bound: writes in a behaviour

VARIABLES ui, q, net, log

vars == <<ui, q, net, log>>

None == "none"
Keys == {"assets", "groups", "portfolio", "values", "trades"}
Dialogs == {"asset", "wallet", "delete", "deleteWallet", "move", "addTrade", "trade", "deleteTrade"}
Writes == {"create", "update", "wallet", "delete", "deleteWallet", "move", "value", "trade", "sync"}

TypeOK ==
  /\ ui \in [tab : {"holdings", "ledger"}, writer : BOOLEAN, open : Dialogs \cup {None}]
  /\ q \in Caches(Keys)
  /\ net \subseteq [do : Writes, of : {None}, st : {"sent", "done"}]
  /\ log \in [n : 0..MaxWrites, left : BOOLEAN]
-----------------------------------------------------------------------------

Init ==
  /\ ui \in [tab : {"holdings"}, writer : BOOLEAN, open : {None}]
  /\ q \in Settled(Keys)
  /\ net = {}
  /\ log = [n |-> 0, left |-> FALSE]

Page == ui.open = None         \* a dialog takes every click
Changes(new) == ui' = new /\ UNCHANGED <<q, net, log>>
Tab(tab) == Page /\ tab # ui.tab /\ Changes([ui EXCEPT !.tab = tab])

(* The dialogs of the header, of a holding, of a wallet, and of the ledger. *)
Open(d) == ui.writer /\ Changes([ui EXCEPT !.open = d])
OpenFromHeader(d) == Page /\ d \in {"asset", "wallet"} /\ Open(d)
OpenFromHolding(d) ==
  Page /\ ui.tab = "holdings" /\ d \in {"asset", "delete", "move", "addTrade"} /\ Open(d)
OpenFromWallet(d) == Page /\ ui.tab = "holdings" /\ d \in {"wallet", "deleteWallet"} /\ Open(d)
OpenFromLedger(d) == Page /\ ui.tab = "ledger" /\ d \in {"trade", "deleteTrade"} /\ Open(d)
Close == ui.open # None /\ Changes([ui EXCEPT !.open = None])

(* A write is sent; its button is off while its mutation is pending. *)
Write(do) ==
  /\ log.n < MaxWrites /\ ~Pending(net, {do})
  /\ net' = net \cup {Sent(do, None)}
  /\ log' = [log EXCEPT !.n = @ + 1]
  /\ UNCHANGED <<ui, q>>
Confirm(d, do) == ui.open = d /\ Write(do)
SaveAsset(do) == do \in {"create", "update"} /\ ~Pending(net, {"create", "update"}) /\ Confirm("asset", do)
SaveWallet == Confirm("wallet", "wallet")
Delete == Confirm("delete", "delete")
DeleteWallet == Confirm("deleteWallet", "deleteWallet")
Move == Confirm("move", "move")
AddTrade == Confirm("addTrade", "trade")
SaveTrade == Confirm("trade", "trade")
DeleteTrade == Confirm("deleteTrade", "trade")
(* The buttons without a dialog: in an expanded holding, and beside a synced wallet. *)
Press(do) == Page /\ ui.writer /\ ui.tab = "holdings" /\ Write(do)
AddValue == Press("value")
DeleteInRow == Press("trade")
SyncWallet == Press("sync")
-----------------------------------------------------------------------------
(* The lists the server derives from what each write changes. *)
Affects(do) ==
  CASE do = "wallet" -> {"groups"}
    [] do \in {"create", "delete"} -> Keys \ {"values"}
    [] do \in {"move", "deleteWallet"} -> {"assets", "groups", "portfolio"}
    [] do \in {"update", "value", "sync"} -> Keys \ {"trades"}
    [] do = "trade" -> Keys

Serve(c) ==
  /\ c \in net /\ c.st = "sent"
  /\ net' = Served(net, c)
  /\ q' = Wrote(q, Affects(c.do))
  /\ UNCHANGED <<ui, log>>

(* refetchAssetViews, and what the other handlers ask for. *)
RefetchesLess(do) ==                   \* broken: a move asks for the wallets only
  CASE do \in {"wallet", "move"} -> {"groups"}
    [] do = "deleteWallet" -> {"assets", "groups"}
    [] do \in {"create", "update", "delete"} -> {"assets", "portfolio"}
    [] do = "value" -> {"assets", "portfolio", "values"}
    [] do = "trade" -> {"assets", "portfolio", "trades"}
    [] do = "sync" -> {}
Refetches(do) ==
  CASE do = "wallet" -> {"groups"}
    [] do \in {"move", "deleteWallet"} -> {"assets", "groups"}
    [] do \in {"create", "update", "delete"} -> {"assets", "portfolio"}
    [] do = "value" -> {"assets", "portfolio", "values"}
    [] do = "trade" -> {"assets", "portfolio", "trades"}
    [] do = "sync" -> {}

(* A handler closes the dialog of its kind that is open now, whichever row that is about. *)
Shuts(do) ==
  CASE do \in {"create", "update"} -> {"asset"}
    [] do = "trade" -> {"addTrade", "trade", "deleteTrade"}
    [] OTHER -> {do}

(* What the handlers do not ask for, by list. *)
LeftBy == [assets |-> {"sync"},
           trades |-> {"create", "delete"},
           portfolio |-> {"move", "deleteWallet", "sync"},
           values |-> {"update", "trade", "sync"},
           groups |-> {"create", "update", "delete", "value", "trade", "sync"}]

(* log.left: something has left the list old, and it has not been asked for and got since. *)
Answer(c) ==
  /\ c \in net /\ c.st = "done"
  /\ net' = net \ {c}
  /\ ui' = [ui EXCEPT !.open = IF @ \in Shuts(c.do) THEN None ELSE @]
  /\ q' = Refetch(q, Refetches(c.do))
  /\ log' = [log EXCEPT !.left = (@ \/ c.do \in LeftBy[q.key]) /\ q.key \notin Refetches(c.do)]

(* It fails, or is done and its answer is lost: a toast, and nothing is asked for. *)
Fail(c) ==
  /\ c \in net
  /\ net' = net \ {c}
  /\ log' = [log EXCEPT !.left = @ \/ (c.st = "done" /\ q.key \in Affects(c.do))]
  /\ UNCHANGED <<ui, q>>

Fetch ==
  /\ q' \in Fetched(q)
  /\ log' = [log EXCEPT !.left = @ /\ q'.old]
  /\ UNCHANGED <<ui, net>>
FetchFails ==
  /\ q.fetch # "none" /\ q' = Dropped(q)
  /\ log' = [log EXCEPT !.left = @ \/ q.old]
  /\ UNCHANGED <<ui, net>>
Revisit == q.fetch = "none" /\ q' = Revisited(q) /\ UNCHANGED <<ui, net, log>>

Next ==
  \/ \E tab \in {"holdings", "ledger"} : Tab(tab)
  \/ \E d \in Dialogs :
       OpenFromHeader(d) \/ OpenFromHolding(d) \/ OpenFromWallet(d) \/ OpenFromLedger(d)
  \/ \E do \in {"create", "update"} : SaveAsset(do)
  \/ SaveWallet \/ Delete \/ DeleteWallet \/ Move \/ AddTrade \/ SaveTrade \/ DeleteTrade
  \/ AddValue \/ DeleteInRow \/ SyncWallet \/ Close
  \/ Fetch \/ FetchFails \/ Revisit
  \/ \E c \in net : Serve(c) \/ Answer(c) \/ Fail(c)

Spec == Init /\ [][Next]_vars
-----------------------------------------------------------------------------
(* Once everything is answered, what the page shows is what the server holds, whichever   *)
(* writes and fetches overlapped, except for what a write left behind since the list was  *)
(* last asked for. These do (LeftBy): a sync asks for nothing of this page, a trade made  *)
(* with its asset is not in the ledger, a move is not in the chart, and only the wallets' *)
(* own writes reach their totals. So does a write whose answer is lost, and a fetch that  *)
(* fails: neither is asked for again.                                                     *)
ListsFreshWhenQuiet == net = {} /\ q.fetch = "none" /\ q.old => log.left
=============================================================================
