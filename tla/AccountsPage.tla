---------------------------- MODULE AccountsPage ----------------------------
(* The accounts page and the ways to a bank from it: a connector is picked, *)
(* and its widget, its consent page or its token leads to a connection. The *)
(* consent dialog asks for its countries and for the banks of one without   *)
(* cancelling what it asked before; the browser leaves for the bank's page  *)
(* and comes back to one that submits the consent.                          *)
EXTENDS Naturals, FiniteSets, QueryCache

CONSTANT MaxWrites          \* bound: writes in a behaviour

VARIABLES ui, q, net, log

vars == <<ui, q, net, log>>

None == "none"
Countries == {"BR", "PT"}
Connects == {"widget", "oauth", "token"}
Tokens == {"token", "retoken"}
Confirms == {"delete", "disconnect", "close"}
Fetches == {"countries", "banks"}
Others == {"create", "update", "reopen", "sync", "settings"}
MaxFetches == 2             \* bound: fetches of the consent dialog in flight

(* over: the dialog, or the page the browser came back to. last: the country remembered *)
(* in the browser's storage; consent: submitted already, in the session's; left: the    *)
(* consent dialog, which stays mounted, was closed at the banks of that country.         *)
TypeOK ==
  /\ ui \in [over : {"account", "edit", "connector", "reconnect", "retoken", "settings", "callback",
                     "refused", None}
                       \cup Connects \cup Confirms,
             step : {"options", "country", "bank", "direct", None}, country : Countries \cup {None},
             banks : Countries \cup {None}, loading : BOOLEAN, failed : BOOLEAN, leaving : BOOLEAN]
  /\ q \in [last : Countries \cup {None}, consent : BOOLEAN, left : BOOLEAN]
  /\ net \subseteq [do : Fetches \cup Connects \cup Confirms \cup Others
                    \cup {"ticket", "url", "consent", "resync", "retoken"},
                    of : Countries \cup {None}, st : {"sent"}]
  /\ log \in [n : 0..MaxWrites, late : BOOLEAN]
-----------------------------------------------------------------------------
Blank ==
  [over |-> None, step |-> None, country |-> None, banks |-> None, loading |-> FALSE, failed |-> FALSE,
   leaving |-> FALSE]

Init ==
  /\ ui = Blank /\ net = {}
  /\ q \in [last : Countries \cup {None}, consent : {FALSE}, left : {FALSE}]
  /\ log = [n |-> 0, late |-> FALSE]

Page == ui.over = None
In(over) == ui.over = over
Changes(v) == ui' = v /\ UNCHANGED <<q, net, log>>
Open(over) == Page /\ Changes([Blank EXCEPT !.over = over])
Write(do, v) ==
  /\ log.n < MaxWrites /\ ~Pending(net, {do})
  /\ net' = net \cup {Sent(do, None)}
  /\ ui' = v
  /\ log' = [log EXCEPT !.n = @ + 1]
  /\ UNCHANGED q
-----------------------------------------------------------------------------
(* The accounts and the connections of the page, and its dialogs. *)
AddAccount == Open("account")
EditAccount == Open("edit")
SaveAccount ==
  /\ ui.over \in {"account", "edit"} /\ ~Pending(net, {"create", "update"})
  /\ Write(IF ui.over = "edit" THEN "update" ELSE "create", ui)
Ask(confirm) == Open(confirm)
Confirm == ui.over \in Confirms /\ Write(ui.over, ui)
Reopen == Page /\ Write("reopen", ui)
(* One pending at a time; a connection that needs it is connected again instead. *)
Sync == Page /\ Write("sync", ui)
OpenSettings == Open("settings")
SaveSettings == In("settings") /\ Write("settings", ui)

(* By its connector: the widget again, the browser leaves, or a token is asked for. *)
ReconnectWidget ==
  /\ Page /\ Cardinality(net) < MaxFetches
  /\ ui' = [Blank EXCEPT !.over = "reconnect"]
  /\ net' = net \cup {Sent("ticket", None)}
  /\ UNCHANGED <<q, log>>
ReconnectOAuth == Page /\ Write("url", ui)
ReconnectToken == Open("retoken")

(* Every dialog closes, but not the ones that wait for their token or for the browser to *)
(* leave.                                                                                *)
Shut == [q EXCEPT !.left = IF In("oauth") THEN ui.step = "bank" ELSE @]
Close ==
  /\ ui.over \notin {None, "callback", "refused"} /\ ~ui.leaving
  /\ ui.over \in Tokens => ~Pending(net, Tokens)
  /\ ui' = Blank /\ net' = {c \in net : c.do # "ticket"} /\ q' = Shut
  /\ UNCHANGED log
-----------------------------------------------------------------------------
(* A connector is picked among those configured. *)
OpenConnectors == Open("connector")
PickWidget(options) ==
  /\ In("connector") /\ Cardinality(net) < MaxFetches
  /\ ui' = [Blank EXCEPT !.over = "widget", !.step = IF options THEN "options" ELSE None]
  /\ net' = IF options THEN net ELSE net \cup {Sent("ticket", None)}
  /\ UNCHANGED <<q, log>>
ConfirmOptions ==
  /\ In("widget") /\ ui.step = "options"
  /\ ui' = [ui EXCEPT !.step = None]
  /\ net' = net \cup {Sent("ticket", None)}
  /\ UNCHANGED <<q, log>>
(* What the widget leads to is exchanged, or the connection that it mended is synced; the *)
(* widget can be closed while that goes on.                                               *)
WidgetDone ==
  /\ ui.over \in {"widget", "reconnect"} /\ ui.step = None /\ ~Pending(net, {"ticket"})
  /\ Write(IF ui.over = "widget" THEN "widget" ELSE "resync", ui)
PickToken == In("connector") /\ Changes([Blank EXCEPT !.over = "token"])
SubmitToken == ui.over \in Tokens /\ ~Pending(net, Tokens) /\ Write(ui.over, ui)

PickDirect == In("connector") /\ Changes([Blank EXCEPT !.over = "oauth", !.step = "direct"])
(* It opens on its countries, and as it was left it asks for the banks of that country too. *)
PickOAuth ==
  /\ In("connector") /\ Cardinality(net) < MaxFetches
  /\ ui' = [Blank EXCEPT !.over = "oauth", !.step = "country", !.loading = TRUE]
  /\ net' = net \cup {Sent("countries", None)} \cup (IF q.left THEN {Sent("banks", q.last)} ELSE {})
  /\ UNCHANGED <<q, log>>

(* The effect that loads the banks of a country, when it is picked or remembered. *)
LoadBanksQuietly(v) == [v EXCEPT !.step = "bank", !.failed = FALSE]   \* broken: the old list stays
LoadBanks(v) == [v EXCEPT !.step = "bank", !.loading = TRUE, !.failed = FALSE]
PickCountry(c) ==
  /\ In("oauth") /\ ui.step = "country" /\ ~ui.loading /\ ~ui.failed /\ ~ui.leaving
  /\ Cardinality(net) < MaxFetches
  /\ ui' = LoadBanks([ui EXCEPT !.country = c])
  /\ q' = [q EXCEPT !.last = c]
  /\ net' = net \cup {Sent("banks", c)}
  /\ UNCHANGED log
Back == In("oauth") /\ ui.step = "bank" /\ Changes([ui EXCEPT !.step = "country"])

(* An answer lands in the dialog as it is, and ends its waiting, whichever fetch that is for. *)
Latest(c) ==
  /\ c.do = "countries" => ui.step = "country" /\ ui.country = None
  /\ c.do = "banks" => ui.step = "bank" /\ ui.country = c.of
Late(c) == log' = [log EXCEPT !.late = @ \/ (ui.over = "oauth" /\ ~Latest(c))]
GotCountries(c) ==
  /\ c \in net /\ c.do = "countries" /\ Late(c)
  /\ LET again == ui.over = "oauth" /\ ui.step # "direct" /\ q.last # None
     IN /\ net' = (net \ {c}) \cup (IF again THEN {Sent("banks", q.last)} ELSE {})
        /\ ui' = IF again THEN LoadBanks([ui EXCEPT !.country = q.last])
                 ELSE IF ui.over = "oauth" THEN [ui EXCEPT !.loading = FALSE] ELSE ui
  /\ q' = [q EXCEPT !.left = @ \/ (ui.over # "oauth" /\ q.last # None)]
GotBanks(c) ==
  /\ c \in net /\ c.do = "banks" /\ Late(c)
  /\ net' = net \ {c}
  /\ ui' = IF ui.over = "oauth" THEN [ui EXCEPT !.banks = c.of, !.loading = FALSE] ELSE ui
  /\ UNCHANGED q
FetchFails(c) ==
  /\ c \in net /\ c.do \in Fetches /\ Late(c)
  /\ net' = net \ {c}
  /\ ui' = IF ui.over = "oauth" THEN [ui EXCEPT !.failed = TRUE, !.loading = FALSE] ELSE ui
  /\ UNCHANGED q

(* A bank, or the connector itself: the address of its consent page is asked for. *)
Listing == ui.step = "bank" /\ ~ui.loading /\ ~ui.failed
Leave ==
  /\ In("oauth") /\ ~ui.leaving
  /\ ui.step = "direct" \/ (Listing /\ ui.banks # None)
  /\ Write("url", [ui EXCEPT !.leaving = TRUE])
-----------------------------------------------------------------------------
(* The browser leaves, whatever the page is doing, and comes back with the user's consent. *)
GotUrl(c) ==
  /\ c \in net /\ c.do = "url"
  /\ ui' = [Blank EXCEPT !.over = "callback"] /\ net' = {}
  /\ q' = [q EXCEPT !.consent = FALSE, !.left = FALSE]
  /\ UNCHANGED log
Refused == In("callback") /\ ~q.consent /\ Changes(Blank)
(* The page's effect can run again while the consent is being submitted. *)
Submit ==
  /\ In("callback") /\ ~q.consent
  /\ q' = [q EXCEPT !.consent = TRUE]
  /\ net' = net \cup {Sent("consent", None)}
  /\ UNCHANGED <<ui, log>>
NoAccounts(c) ==
  /\ In("callback") /\ c \in net /\ c.do = "consent"
  /\ net' = net \ {c} /\ q' = [q EXCEPT !.consent = FALSE]
  /\ ui' = [Blank EXCEPT !.over = "refused"]
  /\ UNCHANGED log
Retry == In("refused") /\ Changes([Blank EXCEPT !.over = "callback"])
GiveUp == In("refused") /\ Changes(Blank)

(* What an answer closes: the dialogs to a bank share one piece of state. *)
Closes(c) ==
  CASE c.do = "create" -> {"account", "edit"}
    [] c.do = "update" -> {"account", "edit"}
    [] c.do \in {"widget", "token"} -> Connects
    [] c.do = "resync" -> {"reconnect"}
    [] c.do = "consent" -> {"callback"}
    [] OTHER -> {c.do}
Answer(c) ==
  /\ c \in net /\ c.do \notin Fetches \cup {"url", "ticket"}
  /\ net' = net \ {c}
  /\ IF ui.over \in Closes(c) THEN ui' = Blank /\ q' = Shut ELSE UNCHANGED <<ui, q>>
  /\ UNCHANGED log
(* A failure leaves the dialog, but the widget and the page that came back go. *)
Fail(c) ==
  /\ c \in net /\ c.do \notin Fetches
  /\ net' = net \ {c}
  /\ ui' = IF c.do \in {"widget", "resync", "consent"} /\ ui.over \in Closes(c) THEN Blank
           ELSE IF c.do = "ticket" /\ ui.over \in {"widget", "reconnect"} THEN Blank
           ELSE IF c.do = "url" THEN [ui EXCEPT !.leaving = FALSE] ELSE ui
  /\ q' = IF c.do = "consent" THEN [q EXCEPT !.consent = FALSE]
          ELSE IF c.do = "widget" /\ ui.over \in Closes(c) THEN Shut ELSE q
  /\ UNCHANGED log
Ticket(c) == c \in net /\ c.do = "ticket" /\ net' = net \ {c} /\ UNCHANGED <<ui, q, log>>

Next ==
  \/ AddAccount \/ EditAccount \/ SaveAccount \/ Confirm \/ Reopen \/ Sync \/ OpenSettings \/ SaveSettings
  \/ ReconnectWidget \/ ReconnectOAuth \/ ReconnectToken \/ Close \/ OpenConnectors \/ ConfirmOptions
  \/ WidgetDone \/ PickToken \/ SubmitToken \/ PickDirect \/ PickOAuth \/ Back \/ Leave
  \/ Refused \/ Submit \/ Retry \/ GiveUp
  \/ \E confirm \in Confirms : Ask(confirm)
  \/ \E options \in BOOLEAN : PickWidget(options)
  \/ \E c \in Countries : PickCountry(c)
  \/ \E c \in net : \/ GotCountries(c) \/ GotBanks(c) \/ FetchFails(c) \/ GotUrl(c) \/ NoAccounts(c)
                    \/ Ticket(c) \/ Answer(c) \/ Fail(c)

Spec == Init /\ [][Next]_vars
-----------------------------------------------------------------------------
(* The banks one can choose from are of the country that the choice is sent with, though  *)
(* the list of another one is still there underneath; unless an answer that was no longer *)
(* waited for has landed in the dialog, which nothing holds off.                          *)
BanksAreOfTheCountry == ui.over = "oauth" /\ Listing /\ ~log.late => ui.banks = ui.country
=============================================================================
