----------------------------- MODULE AssetForm -----------------------------
(* The form of the assets page, one for creating and for editing: the asset *)
(* that is edited, the fields, the quote of its ticker and the confirmation *)
(* of new growth values are separate pieces of state, and an answer is      *)
(* handled whatever the form shows by then.                                 *)
EXTENDS Naturals, FiniteSets, QueryCache

CONSTANT MaxWrites          \* bound: writes in a behaviour

VARIABLES ui, q, net, log

vars == <<ui, q, net, log>>

Ids == {"stock", "bond"}    \* priced by the market, and by a growth rule
New == "new"
None == "none"
Tickers == {"stock", "other"}          \* the stock's own, and another one
Writes == {"create", "update", "regenerate", "refresh", "wallet"}
MaxCalls == 2               \* bound: requests in flight

(* owner is not in the code: it is the asset whose fields the form was filled with. *)
TypeOK ==
  /\ ui \in [open : BOOLEAN, editing : Ids \cup {None}, owner : Ids \cup {New},
             query : Tickers \cup {None}, quote : Tickers \cup {None},
             over : {None, "wallet", "regenerate"}]
  /\ net \subseteq [do : Writes \cup {"quote"}, of : Ids \cup Tickers \cup {None},
                    st : {"sent", "done"}]
  /\ log \in [n : 0..MaxWrites, late : SUBSET {"refresh", "quote"}]
-----------------------------------------------------------------------------
Blank == [open |-> FALSE, editing |-> None, owner |-> New, query |-> None, quote |-> None,
          over |-> None]

Init ==
  /\ ui = Blank /\ q = None /\ net = {}
  /\ log = [n |-> 0, late |-> {}]

(* The page under a dialog, and a form under another one, take no clicks. *)
Page == ~ui.open /\ ui.over = None
Form == ui.open /\ ui.over = None
Changes(new) == ui' = new /\ UNCHANGED <<q, net, log>>

(* A write is sent; its button is off while its mutation is pending. *)
Write(do, of) ==
  /\ log.n < MaxWrites /\ ~Pending(net, {do}) /\ Cardinality(net) < MaxCalls
  /\ net' = net \cup {Sent(do, of)}
  /\ log' = [log EXCEPT !.n = @ + 1]
  /\ UNCHANGED <<ui, q>>
-----------------------------------------------------------------------------
OpenCreateStale ==                     \* broken: the last asset edited is not forgotten
  Page /\ Changes([Blank EXCEPT !.open = TRUE, !.editing = ui.editing])
OpenCreate == Page /\ Changes([Blank EXCEPT !.open = TRUE])

(* The preview is made up from the price the row carries. *)
OpenEdit(a) ==
  /\ Page
  /\ LET ticker == IF a = "stock" THEN "stock" ELSE None
     IN Changes([open |-> TRUE, editing |-> a, owner |-> a, query |-> ticker, quote |-> ticker,
                 over |-> None])

(* What is filled in is overwritten when the form opens again; what is edited stays. *)
Shut(s) == [Blank EXCEPT !.editing = s.editing, !.over = s.over]
Close == Form /\ Changes(Shut(ui))
CloseOver == ui.over # None /\ Changes([ui EXCEPT !.over = None])

(* A ticker typed or picked for a new asset; typing takes another one's preview away. *)
TypeTicker(s) ==
  /\ Form /\ ui.editing = None /\ ui.query # s
  /\ Changes([ui EXCEPT !.query = s, !.quote = None])

PickTicker(s) ==
  /\ Form /\ ui.editing = None /\ Cardinality(net) < MaxCalls
  /\ net' = net \cup {Sent("quote", s)}
  /\ ui' = [ui EXCEPT !.query = s]
  /\ UNCHANGED <<q, log>>

(* The answer fills the form that is there, whichever asked; a failure empties it. *)
Quoted(c, quote) ==
  /\ c \in net /\ c.do = "quote" /\ quote \in {c.of, None}
  /\ ui' = IF ui.open THEN [ui EXCEPT !.quote = quote] ELSE ui
  /\ net' = net \ {c}
  /\ log' = IF ui.open /\ quote \notin {None, ui.query} THEN [log EXCEPT !.late = @ \cup {"quote"}]
            ELSE log
  /\ UNCHANGED q

(* A new asset at a market price needs its quote; its other fields are data. *)
Complete == ui.editing = None => ui.query = None \/ ui.quote # None
MaySave == Form /\ Complete /\ ~Pending(net, {"create", "update", "regenerate"})

Create == MaySave /\ ui.editing = None /\ Write("create", None)
Update == MaySave /\ ui.editing # None /\ Write("update", ui.editing)
(* Other growth parameters first ask whether to compute the values anew. *)
AskRegenerate == MaySave /\ ui.editing = "bond" /\ Changes([ui EXCEPT !.over = "regenerate"])
Regenerate ==
  /\ ui.over = "regenerate" /\ ui.editing # None /\ ~Pending(net, {"update"})
  /\ Write("regenerate", ui.editing)
RefreshPrice == Form /\ ui.editing # None /\ ui.quote # None /\ Write("refresh", ui.editing)

(* The wallet's dialog opens over the page and over the form. *)
OpenWallet ==
  /\ Page \/ (Form /\ ~Pending(net, {"wallet"}))
  /\ Changes([ui EXCEPT !.over = "wallet"])
SaveWallet == ui.over = "wallet" /\ Write("wallet", None)
-----------------------------------------------------------------------------
(* What a handler does to the form, and whether that is another form than the one it knew. *)
Handled(c) ==
  CASE c.do = "create" -> Shut(ui)
    [] c.do \in {"update", "regenerate"} ->
         [Blank EXCEPT !.over = IF ui.over = "regenerate" THEN None ELSE ui.over]
    [] c.do = "refresh" ->
         [ui EXCEPT !.editing = c.of, !.quote = IF ui.open THEN "stock" ELSE @]
    [] c.do = "wallet" ->
         [ui EXCEPT !.over = IF @ = "wallet" THEN None ELSE @]
Late(c) == IF c.do = "refresh" /\ ~(ui.open /\ ui.owner = c.of) THEN {"refresh"} ELSE {}

Answer(c) ==
  /\ c \in net /\ c.do \in Writes
  /\ net' = net \ {c}
  /\ ui' = Handled(c)
  /\ log' = [log EXCEPT !.late = @ \cup Late(c)]
  /\ UNCHANGED q

Fail(c) ==
  /\ c \in net /\ c.do \in Writes
  /\ net' = net \ {c}
  /\ UNCHANGED <<ui, q, log>>

Next ==
  \/ OpenCreate \/ Close \/ CloseOver \/ OpenWallet \/ SaveWallet
  \/ Create \/ Update \/ AskRegenerate \/ Regenerate \/ RefreshPrice
  \/ \E a \in Ids : OpenEdit(a)
  \/ \E s \in Tickers : TypeTicker(s) \/ PickTicker(s)
  \/ \E c \in net : Answer(c) \/ Fail(c) \/ \E s \in Tickers \cup {None} : Quoted(c, s)

Spec == Init /\ [][Next]_vars
-----------------------------------------------------------------------------
(* The form saves into the asset whose fields it shows, and under the ticker it shows, *)
(* as long as no price refresh and no quote came in after its own form was gone. The   *)
(* form, its asset and its preview are three pieces of state set by six handlers.      *)
FormIsOfItsAsset ==
  ui.open =>
    /\ "refresh" \notin log.late => ui.editing = (IF ui.owner = New THEN None ELSE ui.owner)
    /\ log.late = {} /\ ~Pending(net, {"quote"}) => ui.quote \in {None, ui.query}
=============================================================================
