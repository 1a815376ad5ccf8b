-------------------------- MODULE PageTypesProofs ---------------------------
(* TypeOK of Pages, for any bound on the writes. What a page holds is of its shape  *)
(* whatever it does: the inductive invariants of PagesProofs say so, or the ones    *)
(* below. The rest are counts, and what keeps them in their bounds: a write counts  *)
(* itself when it is sent, and none is sent beyond MaxWrites; what else is counted  *)
(* is counted of writes.                                                            *)
EXTENDS PagesProofs, FiniteSets, FiniteSetTheorems

Bounded == log.n \in 0..MaxWrites
LEMMA Counts ==
  ASSUME Bounded, log'.n = log.n \/ (log.n < MaxWrites /\ log'.n = log.n + 1)
  PROVE  Bounded'
BY MaxWritesAssumption DEF Bounded

LEMMA AssetBounded == AssetInv /\ Bounded /\ [Asset!Next]_Asset!vars => Bounded'
<1> SUFFICES ASSUME AssetInv, Bounded, [Asset!Next]_Asset!vars PROVE Bounded'
  OBVIOUS
<1>1. log \in [n : Nat, late : SUBSET {"refresh", "quote"}]
  BY DEF AssetInv, AssetShapes, AssetLogs
<1>2. \A do, of : Asset!Write(do, of) => Bounded'
  BY <1>1, Counts DEF Asset!Write
<1>3. \A v : Asset!Changes(v) => Bounded'
  BY Counts DEF Asset!Changes
<1>4. ASSUME NEW c, Asset!Answer(c) PROVE Bounded'
  BY <1>1, <1>4, Counts DEF Asset!Answer
<1>5. ASSUME NEW c, NEW s, Asset!Quoted(c, s) PROVE Bounded'
  BY <1>1, <1>5, Counts DEF Asset!Quoted
<1>6. CASE log' = log
  BY <1>6, Counts
<1> QED
  BY <1>2, <1>3, <1>4, <1>5, <1>6 DEF Asset!Next, Asset!vars, Asset!OpenCreate, Asset!Close, Asset!CloseOver,
     Asset!OpenWallet, Asset!SaveWallet, Asset!Create, Asset!Update, Asset!AskRegenerate, Asset!Regenerate,
     Asset!RefreshPrice, Asset!OpenEdit, Asset!TypeTicker, Asset!PickTicker, Asset!Fail

AssetListViews == [tab : {"holdings", "ledger"}, writer : BOOLEAN, open : Assets!Dialogs \cup {Assets!None}]
LEMMA AssetsBounded ==
  AssetsInv /\ ui \in AssetListViews /\ Bounded /\ [Assets!Next]_Assets!vars => ui' \in AssetListViews /\ Bounded'
<1> SUFFICES ASSUME AssetsInv, ui \in AssetListViews, Bounded, [Assets!Next]_Assets!vars
             PROVE  ui' \in AssetListViews /\ Bounded'
  OBVIOUS
<1>1. log \in ListLogs
  BY DEF AssetsInv
<1>2. \A do : Assets!Write(do) => ui' = ui /\ Bounded'
  BY <1>1, Counts DEF Assets!Write, ListLogs
<1>3. \A v \in AssetListViews : Assets!Changes(v) => ui' = v /\ Bounded'
  BY Counts DEF Assets!Changes
<1>4. \A d \in Assets!Dialogs \cup {Assets!None} : [ui EXCEPT !.open = d] \in AssetListViews
  BY DEF AssetListViews
<1>5. ASSUME NEW d \in Assets!Dialogs, Assets!Open(d) PROVE ui' \in AssetListViews /\ Bounded'
  BY <1>3, <1>4, <1>5 DEF Assets!Open
<1>6. CASE Assets!Close
  BY <1>3, <1>4, <1>6 DEF Assets!Close
<1>7. ASSUME NEW tab \in {"holdings", "ledger"}, Assets!Tab(tab) PROVE ui' \in AssetListViews /\ Bounded'
  <2>1. [ui EXCEPT !.tab = tab] \in AssetListViews
    BY DEF AssetListViews
  <2> QED
    BY <1>3, <1>7, <2>1 DEF Assets!Tab
<1>8. ASSUME NEW c, Assets!Answer(c) PROVE ui' \in AssetListViews /\ Bounded'
  <2>1. log'.n = log.n
    BY <1>1, <1>8 DEF Assets!Answer, ListLogs
  <2>2. ui' \in AssetListViews
    BY <1>8 DEF Assets!Answer, AssetListViews
  <2> QED
    BY <2>1, <2>2, Counts
<1>9. ASSUME ui' = ui, log' = log \/ \E left : log' = [log EXCEPT !.left = left]
      PROVE  ui' \in AssetListViews /\ Bounded'
  <2>1. log'.n = log.n
    BY <1>1, <1>9 DEF ListLogs
  <2> QED
    BY <1>9, <2>1, Counts
<1>10. CASE Assets!Fetch \/ Assets!FetchFails \/ \E c \in net : Assets!Fail(c)
  BY <1>9, <1>10 DEF Assets!Fetch, Assets!FetchFails, Assets!Fail
<1> QED
  BY <1>2, <1>5, <1>6, <1>7, <1>8, <1>9, <1>10 DEF Assets!Next, Assets!vars, Assets!OpenFromHeader,
     Assets!OpenFromHolding, Assets!OpenFromWallet, Assets!OpenFromLedger, Assets!SaveAsset, Assets!Confirm,
     Assets!SaveWallet, Assets!Delete, Assets!DeleteWallet, Assets!Move, Assets!AddTrade, Assets!SaveTrade,
     Assets!DeleteTrade, Assets!Press, Assets!AddValue, Assets!DeleteInRow, Assets!SyncWallet,
     Assets!Revisit, Assets!Serve

RowTypes ==
  /\ q \in [gone : SUBSET Transactions!Own, fit : SUBSET Transactions!Rows]
  /\ net \subseteq [do : {"categorize", "tags", "group", "delete", "link", "counterpart"},
                    of : SUBSET Transactions!Own, st : {"sent"}]
LEMMA RowsBounded ==
  RowsInv /\ RowTypes /\ Bounded /\ [Transactions!Next]_Transactions!vars => RowTypes' /\ Bounded'
<1> SUFFICES ASSUME RowsInv, RowTypes, Bounded, [Transactions!Next]_Transactions!vars
             PROVE  RowTypes' /\ Bounded'
  OBVIOUS
<1>1. log \in RowLogs /\ ui.sel \subseteq Transactions!Own
  BY DEF RowsInv, RowViews
<1>2. ASSUME NEW do \in {"categorize", "tags", "group", "delete", "link", "counterpart"},
             Transactions!Write(do, ui.sel)
      PROVE  RowTypes' /\ Bounded'
  <2>1. Bounded' /\ q' = q
    BY <1>1, <1>2, Counts DEF Transactions!Write, RowLogs
  <2>2. net' \subseteq [do : {"categorize", "tags", "group", "delete", "link", "counterpart"},
                        of : SUBSET Transactions!Own, st : {"sent"}]
    BY <1>1, <1>2 DEF Transactions!Write, Transactions!Sent, RowTypes
  <2> QED
    BY <2>1, <2>2 DEF RowTypes
<1>3. \A v : Transactions!Changes(v) => RowTypes' /\ Bounded'
  BY <1>1, Counts DEF Transactions!Changes, RowTypes, RowLogs
<1>4. Transactions!Own \subseteq Transactions!Rows
  BY DEF Transactions!Own, Transactions!Rows
<1>5. ASSUME NEW c \in net, Transactions!Answer(c) PROVE RowTypes' /\ Bounded'
  <2>1. net' \subseteq net /\ log' = log /\ (q' = q \/ q' = [q EXCEPT !.gone = @ \cup c.of])
    BY <1>5 DEF Transactions!Answer
  <2>2. c.of \subseteq Transactions!Own
    BY DEF RowTypes
  <2>3. q' \in [gone : SUBSET Transactions!Own, fit : SUBSET Transactions!Rows]
    BY <2>1, <2>2 DEF RowTypes
  <2> QED
    BY <2>1, <2>3, Counts DEF RowTypes
<1>6. CASE \E r \in Transactions!Own :
             Transactions!CreateOne(r) \/ Transactions!UpdateOne(r) \/ Transactions!DeleteOne(r)
  <2>1. PICK r \in Transactions!Own :
               Transactions!CreateOne(r) \/ Transactions!UpdateOne(r) \/ Transactions!DeleteOne(r)
    BY <1>6
  <2>2. PICK v : /\ Transactions!InDialog(v)
                 /\ \/ v = [q EXCEPT !.gone = @ \ {r}] \/ v = [q EXCEPT !.gone = @ \cup {r}]
                    \/ v = [q EXCEPT !.fit = @ \ {r}] \/ v = [q EXCEPT !.fit = @ \cup {r}]
    BY <2>1 DEF Transactions!CreateOne, Transactions!UpdateOne, Transactions!DeleteOne
  <2>3. v \in [gone : SUBSET Transactions!Own, fit : SUBSET Transactions!Rows]
    BY <1>4, <2>2 DEF RowTypes
  <2>4. q' = v /\ net' = net /\ log.n < MaxWrites /\ log'.n = log.n + 1
    BY <1>1, <2>2 DEF Transactions!InDialog, RowLogs
  <2> QED
    BY <2>3, <2>4, Counts DEF RowTypes
<1>7. CASE net' \subseteq net /\ q' = q /\ log' = log
  BY <1>7, Counts DEF RowTypes
<1>8. ASSUME NEW f, Transactions!Filters(f) \/ Transactions!FiltersAside(f) PROVE RowTypes' /\ Bounded'
  BY <1>3, <1>8 DEF Transactions!Filters, Transactions!FiltersAside
<1>9. ASSUME NEW s, Transactions!Select(s) PROVE RowTypes' /\ Bounded'
  BY <1>3, <1>9 DEF Transactions!Select
<1>10. ASSUME NEW over, Transactions!Open(over) PROVE RowTypes' /\ Bounded'
  BY <1>3, <1>10 DEF Transactions!Open
<1>11. CASE \E f \in 0..1 :
              \/ Transactions!PickAccounts(f) \/ Transactions!PickCategories(f) \/ Transactions!PickPayee(f)
              \/ Transactions!PickType(f) \/ Transactions!PickStatus(f) \/ Transactions!PickDates(f)
              \/ Transactions!PickAmounts(f) \/ Transactions!StepMonth(f)
  BY <1>8, <1>11 DEF Transactions!PickAccounts, Transactions!PickCategories, Transactions!PickPayee,
     Transactions!PickType, Transactions!PickStatus, Transactions!PickDates, Transactions!PickAmounts,
     Transactions!StepMonth
<1>12. CASE \E f \in 0..1 :
              \/ Transactions!Debounced(f)
              \/ \E g \in 0..1 : \/ Transactions!SubmitSearch(f, g)
                                 \/ \E view \in {"list", "calendar"} : Transactions!FollowLink(f, g, view)
  BY <1>3, <1>12 DEF Transactions!Debounced, Transactions!SubmitSearch, Transactions!FollowLink
<1>13. CASE \E g \in 0..1 : \/ Transactions!PickGroup(g) \/ Transactions!Tag(g) \/ Transactions!HideIgnored(g)
                            \/ Transactions!PageSize(g)
  BY <1>8, <1>13 DEF Transactions!PickGroup, Transactions!Tag, Transactions!HideIgnored, Transactions!PageSize
<1>14. CASE \/ \E view \in {"list", "calendar"} : Transactions!SwitchView(view)
            \/ \E p \in 1..2 : Transactions!Turn(p)
            \/ Transactions!ClearAll \/ Transactions!Sort \/ Transactions!SwitchCollection \/ Transactions!SelectDay
            \/ Transactions!SelectOnTrend \/ Transactions!SelectOnBars \/ Transactions!ClearSelection
  BY <1>3, <1>14 DEF Transactions!SwitchView, Transactions!Turn, Transactions!ClearAll, Transactions!Sort,
     Transactions!SwitchCollection, Transactions!SelectDay, Transactions!SelectOnTrend, Transactions!SelectOnBars, Transactions!Calendar,
     Transactions!ClearSelection
<1>15. CASE \/ \E r \in Transactions!Own : \/ Transactions!Toggle(r)
                                          \/ \E last \in Transactions!Own : Transactions!ToggleRange(r, last)
            \/ Transactions!ToggleAll
  BY <1>9, <1>15 DEF Transactions!Toggle, Transactions!ToggleRange, Transactions!ToggleAll
<1>16. CASE \/ Transactions!OpenDelete \/ Transactions!OpenGroup \/ Transactions!OpenLink \/ Transactions!Close
  BY <1>10, <1>16 DEF Transactions!OpenDelete, Transactions!OpenGroup, Transactions!OpenLink, Transactions!Close
<1>17. CASE \/ Transactions!Categorize \/ Transactions!Retag \/ Transactions!BulkDelete
            \/ Transactions!BulkAddToGroup \/ Transactions!LinkTransfer \/ Transactions!CreateCounterpart
  BY <1>2, <1>17 DEF Transactions!Categorize, Transactions!Retag, Transactions!BulkDelete, Transactions!Confirm,
     Transactions!BulkAddToGroup, Transactions!LinkTransfer, Transactions!CreateCounterpart
<1>18. CASE UNCHANGED Transactions!vars \/ \E c \in net : Transactions!Fail(c)
  BY <1>7, <1>18 DEF Transactions!vars, Transactions!Fail
<1>19. CASE Transactions!CreateOne(5)
  <2>1. 5 \in Transactions!Own
    BY DEF Transactions!Own
  <2> QED
    BY <1>6, <1>19, <2>1
<1> QED
  BY <1>5, <1>6, <1>11, <1>12, <1>13, <1>14, <1>15, <1>16, <1>17, <1>18, <1>19 DEF Transactions!Next

LEMMA DialogBounded ==
  Dialog!IInv /\ Bounded /\ [Dialog!Next]_Dialog!vars => q' = q /\ Bounded'
<1> SUFFICES ASSUME Dialog!IInv, Bounded, [Dialog!Next]_Dialog!vars PROVE q' = q /\ Bounded'
  OBVIOUS
<1>1. log \in Dialog!Logs
  BY DEF Dialog!IInv, Dialog!Shapes
<1>2. \A do, id, data, v : Dialog!Write(do, id, data, v) => q' = q /\ Bounded'
  BY <1>1, Counts DEF Dialog!Write, Dialog!Logs
<1>3. \A v : Dialog!Changes(v) => q' = q /\ Bounded'
  BY Counts DEF Dialog!Changes
<1>4. \A data, changesCategory, v : Dialog!Submit(data, changesCategory, v) => q' = q /\ Bounded'
  BY <1>2, <1>3 DEF Dialog!Submit
<1>5. ASSUME NEW r, Dialog!OpenFromCalendar(r) PROVE q' = q /\ Bounded'
  BY <1>1, <1>5, Counts DEF Dialog!OpenFromCalendar, Dialog!Logs
<1>6. ASSUME NEW c, Dialog!Got(c) \/ Dialog!Answer(c) PROVE q' = q /\ Bounded'
  BY <1>1, <1>6, Counts DEF Dialog!Got, Dialog!Answer, Dialog!Logs
<1>7. CASE q' = q /\ log' = log
  BY <1>7, Counts
<1> QED
  BY <1>2, <1>3, <1>4, <1>5, <1>6, <1>7 DEF Dialog!Next, Dialog!vars, Dialog!Add, Dialog!Duplicate, Dialog!Close,
     Dialog!SubmitScope, Dialog!SubmitCategory, Dialog!Delete, Dialog!SubmitSeries, Dialog!ClosePrompt,
     Dialog!Unlink, Dialog!RuleFromRow, Dialog!CloseOver, Dialog!SubmitOver, Dialog!Edit, Dialog!Save,
     Dialog!SaveAndNew, Dialog!OpenOver, Dialog!Fail

LEMMA AccountBounded == AccountInv /\ Bounded /\ [Accounts!Next]_Accounts!vars => Bounded'
<1> SUFFICES ASSUME AccountInv, Bounded, [Accounts!Next]_Accounts!vars PROVE Bounded'
  OBVIOUS
<1>1. log \in [n : Nat, late : BOOLEAN]
  BY DEF AccountInv, AccountShapes
<1>2. \A do, v : Accounts!Write(do, v) => Bounded'
  BY <1>1, Counts DEF Accounts!Write
<1>3. \A c : Accounts!Late(c) => Bounded'
  BY <1>1, Counts DEF Accounts!Late
<1>4. log' = log => Bounded'
  BY Counts
<1> USE <1>2, <1>3, <1>4
<1>5. ASSUME NEW v, Accounts!Changes(v) \/ Accounts!Open(v) PROVE Bounded'
  BY <1>5 DEF Accounts!Open, Accounts!Changes
<1>6. CASE \/ Accounts!AddAccount \/ Accounts!EditAccount \/ Accounts!OpenSettings \/ Accounts!ReconnectToken
           \/ Accounts!OpenConnectors \/ Accounts!PickToken \/ Accounts!PickDirect \/ Accounts!Back
           \/ Accounts!Refused \/ Accounts!Retry \/ Accounts!GiveUp
           \/ \E confirm \in Accounts!Confirms : Accounts!Ask(confirm)
  BY <1>5, <1>6 DEF Accounts!AddAccount, Accounts!EditAccount, Accounts!OpenSettings, Accounts!ReconnectToken,
     Accounts!OpenConnectors, Accounts!PickToken, Accounts!PickDirect, Accounts!Back, Accounts!Refused,
     Accounts!Retry, Accounts!GiveUp, Accounts!Ask
<1>7. CASE \/ Accounts!SaveAccount \/ Accounts!Confirm \/ Accounts!Reopen \/ Accounts!Sync \/ Accounts!SaveSettings
           \/ Accounts!ReconnectOAuth \/ Accounts!WidgetDone \/ Accounts!SubmitToken \/ Accounts!Leave
  BY <1>7 DEF Accounts!SaveAccount, Accounts!Confirm, Accounts!Reopen, Accounts!Sync, Accounts!SaveSettings,
     Accounts!ReconnectOAuth, Accounts!WidgetDone, Accounts!SubmitToken, Accounts!Leave
<1>8. CASE \E c \in net : Accounts!GotCountries(c) \/ Accounts!GotBanks(c) \/ Accounts!FetchFails(c)
  BY <1>8 DEF Accounts!GotCountries, Accounts!GotBanks, Accounts!FetchFails
<1>9. CASE \/ UNCHANGED Accounts!vars \/ Accounts!ReconnectWidget \/ Accounts!Close \/ Accounts!ConfirmOptions
           \/ Accounts!PickOAuth \/ Accounts!Submit
           \/ \E options \in BOOLEAN : Accounts!PickWidget(options)
           \/ \E c \in Accounts!Countries : Accounts!PickCountry(c)
  BY <1>9 DEF Accounts!vars, Accounts!ReconnectWidget, Accounts!Close, Accounts!ConfirmOptions,
     Accounts!PickOAuth, Accounts!Submit, Accounts!PickWidget, Accounts!PickCountry
<1>10. CASE \E c \in net : \/ Accounts!GotUrl(c) \/ Accounts!NoAccounts(c) \/ Accounts!Ticket(c)
                          \/ Accounts!Answer(c) \/ Accounts!Fail(c)
  BY <1>10 DEF Accounts!GotUrl, Accounts!NoAccounts, Accounts!Ticket, Accounts!Answer, Accounts!Fail
<1> QED
  BY <1>6, <1>7, <1>8, <1>9, <1>10 DEF Accounts!Next

LEMMA PayeeBounded == PayeeInv /\ Bounded /\ [Payees!Next]_Payees!vars => Bounded'
<1> SUFFICES ASSUME PayeeInv, Bounded, [Payees!Next]_Payees!vars PROVE Bounded'
  OBVIOUS
<1>1. log \in PayeeLogs
  BY DEF PayeeInv, PayeeShapes
<1>2. \A do, of : Payees!Write(do, of) => Bounded'
  BY <1>1, Counts DEF Payees!Write, PayeeLogs
<1>3. \A v : Payees!Changes(v) => Bounded'
  BY Counts DEF Payees!Changes
<1>4. Payees!Excused.n = log.n
  BY <1>1 DEF Payees!Excused, PayeeLogs
<1>5. ASSUME log' = log \/ log' = Payees!Excused PROVE Bounded'
  BY <1>4, <1>5, Counts
<1>6. CASE Payees!OtherDeletes
  <2>1. log'.n = log.n + 1
    BY <1>1, <1>6 DEF Payees!OtherDeletes, Payees!Excused, PayeeLogs
  <2> QED
    BY <1>6, <2>1, Counts DEF Payees!OtherDeletes
<1>7. ASSUME NEW sel, Payees!Selects(sel) PROVE Bounded'
  BY <1>5, <1>7 DEF Payees!Selects
<1> QED
  BY <1>2, <1>3, <1>5, <1>6, <1>7 DEF Payees!Next, Payees!vars, Payees!Close, Payees!Filter, Payees!ToggleAll,
     Payees!OpenCreate, Payees!Save, Payees!DeleteFromForm, Payees!AskDeleteAll, Payees!ConfirmDelete,
     Payees!AskMerge, Payees!ConfirmMerge, Payees!Fetch, Payees!Read, Payees!Got, Payees!Toggle,
     Payees!OpenEdit, Payees!Star, Payees!AskDelete, Payees!PickTarget, Payees!Serve, Payees!Answer, Payees!Fail

RuleTypes == q \in [file : BOOLEAN] /\ log \in [n : 0..MaxWrites]
LEMMA RuleBounded == RuleInv /\ RuleTypes /\ [Rules!Next]_Rules!vars => RuleTypes'
<1> SUFFICES ASSUME RuleInv, RuleTypes, [Rules!Next]_Rules!vars PROVE RuleTypes'
  OBVIOUS
<1>1. q' = q /\ log' = log => RuleTypes'
  BY DEF RuleTypes
<1>2. ASSUME NEW c, Rules!Writing(c) PROVE RuleTypes'
  BY <1>2, MaxWritesAssumption DEF Rules!Writing, RuleTypes
<1>3. \A do : Rules!Write(do) => RuleTypes'
  BY <1>2 DEF Rules!Write
<1>4. \A v : Rules!Changes(v) => q' = q /\ log' = log
  BY DEF Rules!Changes
<1>5. \A v : Rules!Asks(v) => q' = q /\ log' = log
  BY DEF Rules!Asks
<1>6. CASE Rules!ChooseFile \/ Rules!FileRead
  BY <1>6 DEF Rules!ChooseFile, Rules!FileRead, RuleTypes
<1> QED
  BY <1>1, <1>2, <1>3, <1>4, <1>5, <1>6 DEF Rules!Next, Rules!vars, Rules!Close, Rules!AskDelete, Rules!Delete,
     Rules!ApplyAll, Rules!Export, Rules!OpenPacks, Rules!Install, Rules!Import, Rules!OpenCreate, Rules!OpenEdit,
     Rules!TogglePanel, Rules!More, Rules!Save, Rules!EditRule, Rules!SetFlag, Rules!Previewed,
     Rules!PreviewFails, Rules!Answer, Rules!Fail

CategoryViews == [over : Categories!Forms \cup Categories!Confirms \cup {"hide", Categories!None}, collapsed : BOOLEAN]
LEMMA CategoryBounded ==
  CategoryInv /\ ui \in CategoryViews /\ Bounded /\ [Categories!Next]_Categories!vars
    => ui' \in CategoryViews /\ Bounded'
<1> SUFFICES ASSUME CategoryInv, ui \in CategoryViews, Bounded, [Categories!Next]_Categories!vars
             PROVE  ui' \in CategoryViews /\ Bounded'
  OBVIOUS
<1>1. log \in [n : Nat, late : BOOLEAN]
  BY DEF CategoryInv, CategoryShapes
<1>2. \A c : Categories!Write(c) => ui' = ui /\ Bounded'
  BY <1>1, Counts DEF Categories!Write
<1>3. \A v : Categories!Changes(v) => ui' = v /\ Bounded'
  BY Counts DEF Categories!Changes
<1>4. \A over \in Categories!Forms \cup Categories!Confirms \cup {"hide", Categories!None} :
        [ui EXCEPT !.over = over] \in CategoryViews
  BY DEF CategoryViews
<1>5. Categories!Shut \in CategoryViews
  BY <1>4 DEF Categories!Shut
<1>6. CASE Categories!Collapse
  <2>1. [ui EXCEPT !.collapsed = ~@] \in CategoryViews
    BY DEF CategoryViews
  <2> QED
    BY <1>3, <1>6, <2>1 DEF Categories!Collapse
<1>7. ASSUME NEW c, Categories!Looked(c) PROVE ui' \in CategoryViews /\ Bounded'
  BY <1>1, <1>4, <1>7, Counts DEF Categories!Looked
<1>8. CASE Categories!OtherAddsRule
  BY <1>8, Counts DEF Categories!OtherAddsRule
<1>9. ui' = ui /\ log' = log => ui' \in CategoryViews /\ Bounded'
  BY Counts
<1>10. ASSUME NEW c, Categories!Answer(c) PROVE ui' \in CategoryViews /\ Bounded'
  BY <1>5, <1>9, <1>10, Counts DEF Categories!Answer
<1>11. ASSUME NEW over \in Categories!Forms \cup Categories!Confirms, Categories!Open(over)
       PROVE  ui' \in CategoryViews /\ Bounded'
  BY <1>3, <1>4, <1>11 DEF Categories!Open
<1> QED
  BY <1>2, <1>3, <1>5, <1>6, <1>7, <1>8, <1>9, <1>10, <1>11 DEF Categories!Next, Categories!vars, Categories!Close,
     Categories!Save, Categories!Confirm, Categories!HideGroup, Categories!Show, Categories!Hide,
     Categories!Fetched_, Categories!Ask, Categories!HideAsked, Categories!Serve, Categories!Fail

LEMMA SettingsBounded ==
  SettingsInv /\ q = Settings!None /\ Bounded /\ [Settings!Next]_Settings!vars => q' = Settings!None /\ Bounded'
<1> SUFFICES ASSUME SettingsInv, q = Settings!None, Bounded, [Settings!Next]_Settings!vars
             PROVE  q' = q /\ Bounded'
  OBVIOUS
<1>1. log \in SettingsLogs
  BY DEF SettingsInv, SettingsShapes
<1>2. \A do, of : Settings!Write(do, of) => q' = q /\ Bounded'
  BY <1>1, Counts DEF Settings!Write, SettingsLogs
<1>3. \A v : Settings!Changes(v) => q' = q /\ Bounded'
  BY Counts DEF Settings!Changes
<1>4. ASSUME NEW c, NEW v, Settings!Follow(c, v), q' = q PROVE q' = q /\ Bounded'
  BY <1>1, <1>4, Counts DEF Settings!Follow, SettingsLogs
<1>5. ASSUME NEW c, Settings!Serve(c) PROVE q' = q /\ Bounded'
  BY <1>1, <1>5, Counts DEF Settings!Serve, SettingsLogs
<1>6. CASE Settings!OtherArchives
  BY <1>1, <1>6, Counts DEF Settings!OtherArchives, SettingsLogs
<1>7. CASE q' = q /\ log' = log
  BY <1>7, Counts
<1> QED
  BY <1>2, <1>3, <1>4, <1>5, <1>6, <1>7 DEF Settings!Next, Settings!vars, Settings!Switch, Settings!Open,
     Settings!Close, Settings!Save, Settings!ChangeRole, Settings!Invite, Settings!Remove, Settings!Archive,
     Settings!Confirm, Settings!List, Settings!ListFails, Settings!Answer, Settings!Fail

(* A save is sent with what was filled in, which is always of a row or of a new one. *)
PlanFroms == \A c \in net : c.of.from \subseteq Planning!Ids \cup {Planning!New}
LEMMA PlanBounded ==
  PlanListsInv /\ PlanFroms /\ Bounded /\ [Planning!Next]_Planning!vars => PlanFroms' /\ Bounded'
<1> SUFFICES ASSUME PlanListsInv, PlanFroms, Bounded, [Planning!Next]_Planning!vars
             PROVE  PlanFroms' /\ Bounded'
  OBVIOUS
<1>1. log \in ListLogs /\ ui \in PlanViews /\ net \subseteq PlanCalls
  BY DEF PlanListsInv, PlanInv
<1>2. ASSUME NEW do, NEW id, NEW from \in SUBSET (Planning!Ids \cup {Planning!New}), NEW then,
             Planning!Write(do, id, from, then)
      PROVE  PlanFroms' /\ Bounded'
  <2>1. Bounded'
    BY <1>1, <1>2, Counts DEF Planning!Write, ListLogs
  <2>2. PlanFroms'
    BY <1>2 DEF Planning!Write, Planning!Request, Planning!Sent, PlanFroms
  <2> QED
    BY <2>1, <2>2
<1>3. \A v : Planning!Changes(v) => PlanFroms' /\ Bounded'
  BY Counts DEF Planning!Changes, PlanFroms
<1>4. ASSUME NEW from \in SUBSET (Planning!Ids \cup {Planning!New}), NEW then, Planning!Save(from, then)
      PROVE  PlanFroms' /\ Bounded'
  BY <1>2, <1>4 DEF Planning!Save
<1>5. CASE Planning!SaveGoal \/ Planning!SaveBudget \/ Planning!SaveCollection
           \/ \E then \in BOOLEAN : Planning!SaveBill(then)
  <2>1. ui.keyed \in Planning!Ids \cup {Planning!New} /\ ui.kept \in Planning!Ids \cup {Planning!New}
    BY <1>1 DEF PlanViews
  <2> QED
    BY <1>4, <1>5, <2>1 DEF Planning!SaveGoal, Planning!SaveBudget, Planning!SaveCollection, Planning!SaveBill,
       Planning!BillForm, Planning!GoalForm, Planning!CollectionForm
<1>6. ASSUME NEW c \in net, Planning!Serve(c) PROVE PlanFroms' /\ Bounded'
  <2>1. [c EXCEPT !.st = "done"].of = c.of
    BY <1>1 DEF PlanCalls
  <2>2. PlanFroms'
    BY <1>6, <2>1 DEF Planning!Serve, Planning!Served, PlanFroms
  <2> QED
    BY <1>6, <2>2, Counts DEF Planning!Serve
<1>7. ASSUME NEW c \in net, Planning!Answer(c) PROVE PlanFroms' /\ Bounded'
  <2>1. log'.n = log.n
    BY <1>1, <1>7 DEF Planning!Answer, ListLogs
  <2>2. \A d \in Planning!Follows(c) : d.of.from = {}
    BY DEF Planning!Follows, Planning!Request, Planning!Sent
  <2>3. PlanFroms'
    BY <1>7, <2>2 DEF Planning!Answer, PlanFroms
  <2> QED
    BY <2>1, <2>3, Counts
<1>8. ASSUME NEW c \in net, Planning!Fail(c) PROVE PlanFroms' /\ Bounded'
  <2>1. log'.n = log.n
    BY <1>1, <1>8 DEF Planning!Fail, ListLogs
  <2> QED
    BY <1>8, <2>1, Counts DEF Planning!Fail, PlanFroms
<1>9. CASE UNCHANGED Planning!vars \/ Planning!Fetch \/ Planning!FetchFails \/ Planning!Revisit
  <2>1. net' = net /\ log'.n = log.n
    BY <1>1, <1>9 DEF Planning!vars, Planning!Fetch, Planning!FetchFails, Planning!Revisit, ListLogs
  <2> QED
    BY <2>1, Counts DEF PlanFroms
<1>10. CASE \/ Planning!Delete \/ Planning!Generate
            \/ \E r \in Planning!Ids : Planning!SetStatus(r) \/ Planning!Backfill(r)
  BY <1>2, <1>10 DEF Planning!Delete, Planning!Generate, Planning!SetStatus, Planning!Backfill
<1>11. CASE \/ Planning!Close \/ Planning!CloseDelete
            \/ \E r \in Planning!Ids \cup {Planning!None} :
                 Planning!OpenBill(r) \/ Planning!OpenGoal(r) \/ Planning!OpenBudget(r) \/ Planning!OpenCollection(r)
            \/ \E r \in Planning!Ids : Planning!AskDelete(r)
  BY <1>3, <1>11 DEF Planning!Close, Planning!CloseDelete, Planning!OpenBill, Planning!OpenGoal,
     Planning!OpenBudget, Planning!OpenCollection, Planning!Opens, Planning!AskDelete
<1> QED
  BY <1>5, <1>6, <1>7, <1>8, <1>9, <1>10, <1>11 DEF Planning!Next

(* In a group, what is owed and what is paid make up the one debt there was. *)
Owes(v) ==
  /\ v \in [debt : -4..1, paid : 0..4, line : -4..1, fetch : {"none", "clean", "dirty"}]
  /\ v.debt + v.paid = 1
LEMMA DirtyOwes == ASSUME NEW v, Owes(v) PROVE Owes(Groups!Dirty(v))
BY DEF Owes, Groups!Dirty
LEMMA PaidOwes ==
  ASSUME Owes(q), NEW debt \in -4..1, NEW paid \in 0..4, debt + paid = 1
  PROVE  Owes([q EXCEPT !.debt = debt, !.paid = paid])
<1> DEFINE v == [q EXCEPT !.debt = debt, !.paid = paid]
<1>1. ASSUME NEW D, NEW P, NEW F, q \in [debt : D, paid : P, line : D, fetch : F], debt \in D, paid \in P
      PROVE  v \in [debt : D, paid : P, line : D, fetch : F] /\ v.debt = debt /\ v.paid = paid
  BY <1>1
<1> HIDE DEF v
<1>2. v \in [debt : -4..1, paid : 0..4, line : -4..1, fetch : {"none", "clean", "dirty"}]
      /\ v.debt = debt /\ v.paid = paid
  BY <1>1 DEF Owes
<1>3. Owes(v)
  BY <1>2 DEF Owes
<1> QED
  BY <1>3 DEF v

LEMMA GroupBounded ==
  Groups!Ledger /\ Owes(q) /\ Bounded /\ [Groups!Next]_Groups!vars => Owes(q') /\ Bounded'
<1> SUFFICES ASSUME Groups!Ledger, Owes(q), Bounded, [Groups!Next]_Groups!vars PROVE Owes(q') /\ Bounded'
  OBVIOUS
<1>1. log \in Groups!Logs /\ net \subseteq Groups!Calls
  BY DEF Groups!Ledger, Groups!IInv, Groups!Shapes
<1>2. \A do, of : Groups!Write(do, of) => Owes(q') /\ Bounded'
  BY <1>1, Counts DEF Groups!Write, Groups!Logs
<1>3. \A v : Groups!Changes(v) => Owes(q') /\ Bounded'
  BY Counts DEF Groups!Changes
<1>4. \A v : Groups!ByHand(v) => Owes(q') /\ Bounded'
  BY <1>1, Counts DEF Groups!ByHand, Groups!Logs
<1>5. CASE Groups!SettleLine
  BY <1>1, <1>5, Counts DEF Groups!SettleLine, Groups!Logs
<1>6. ASSUME NEW c \in net, Groups!Serve(c) PROVE Owes(q') /\ Bounded'
  <2> DEFINE paid == IF c.do = "unsettle" THEN (IF q.paid = 0 THEN 0 ELSE -1)
                     ELSE IF c.of.there THEN c.of.amount ELSE 0 - c.of.amount
             v == [q EXCEPT !.debt = @ - paid, !.paid = @ + paid]
  <2>1. paid \in Int
    BY <1>1 DEF Groups!Calls, Groups!Amounts
  <2>2. q' = Groups!Dirty(v) /\ q.debt - paid \in -4..1 /\ q.paid + paid \in 0..4
    BY <1>6 DEF Groups!Serve
  <2> HIDE DEF paid
  <2>3. Owes(v)
    <3>1. q.debt \in Int /\ q.paid \in Int /\ q.debt + q.paid = 1
      BY DEF Owes
    <3>2. (q.debt - paid) + (q.paid + paid) = 1
      BY <2>1, <3>1
    <3> QED
      BY <2>2, <3>2, PaidOwes
  <2> HIDE DEF v
  <2> QED
    BY <1>6, <2>2, <2>3, DirtyOwes, Counts DEF Groups!Serve
<1>7. CASE Groups!OtherSettles
  <2> DEFINE v == [q EXCEPT !.debt = 0, !.paid = @ + 1]
  <2>1. Owes(v)
    <3>1. q.debt \in -4..1 /\ q.paid \in 0..4 /\ q.debt + q.paid = 1 /\ q.debt > 0
      BY <1>7 DEF Owes, Groups!OtherSettles
    <3>2. q.paid + 1 \in 0..4 /\ 0 \in -4..1 /\ 0 + (q.paid + 1) = 1
      BY <3>1
    <3> QED
      BY <3>2, PaidOwes
  <2>2. q' = Groups!Dirty(v)
    BY <1>7 DEF Groups!OtherSettles
  <2> HIDE DEF v
  <2>3. Bounded'
    BY <1>1, <1>7, Counts DEF Groups!OtherSettles, Groups!Logs
  <2> QED
    BY <2>1, <2>2, <2>3, DirtyOwes
<1>8. CASE Groups!Fetch \/ Groups!Fetched_
  BY <1>8, Counts DEF Groups!Fetch, Groups!Fetched_, Owes
<1>9. ASSUME NEW c, Groups!Answer(c) PROVE Owes(q') /\ Bounded'
  BY <1>9, Counts DEF Groups!Answer, Groups!Refetches, Owes
<1>10. ASSUME NEW c, Groups!Fail(c) PROVE Owes(q') /\ Bounded'
  BY <1>1, <1>10, Counts DEF Groups!Fail, Groups!Logs
<1>11. CASE UNCHANGED Groups!vars
  BY <1>11, Counts DEF Groups!vars
<1> QED
  BY <1>2, <1>3, <1>4, <1>5, <1>6, <1>7, <1>8, <1>9, <1>10, <1>11 DEF Groups!Next, Groups!Close, Groups!OpenGroup,
     Groups!Leave, Groups!AddGroup, Groups!EditGroup, Groups!SaveGroup, Groups!Archive, Groups!AskDelete,
     Groups!DeleteGroup, Groups!AddMember, Groups!EditMember, Groups!SaveMember, Groups!DeleteMember,
     Groups!SettleUp, Groups!Turn, Groups!Save, Groups!Unsettle, Groups!ReturnToEdit, Groups!TypeAmount,
     Groups!PickTransaction, Groups!SetMode

CardTypes == Bounded /\ net = {}
LEMMA CardBounded == CardInv /\ CardTypes /\ [Card!Next]_Card!vars => CardTypes'
<1> SUFFICES ASSUME CardInv, CardTypes, [Card!Next]_Card!vars PROVE CardTypes'
  OBVIOUS
<1>1. PICK S : log \in WindowLogs(S)
  BY DEF CardInv, IsWindowLog
<1>2. \A v : Card!Landed(v) => log'.n = log.n
  BY <1>1 DEF Card!Landed, WindowLogs
<1>3. \A ws : Card!Chosen(ws) => net' = net /\ log'.n = log.n
  BY <1>1 DEF Card!Chosen, WindowLogs
<1>4. \A w : Card!Pick(w) => net' = net /\ log'.n = log.n
  BY <1>3 DEF Card!Pick
<1>5. ASSUME net' = net, log'.n = log.n PROVE CardTypes'
  BY <1>5, Counts DEF CardTypes
<1>6. CASE Card!Account \/ Card!Bills
  BY <1>2, <1>5, <1>6 DEF Card!Account, Card!Bills
<1>7. CASE UNCHANGED Card!vars \/ Card!NewBill \/ Card!Midnight
  BY <1>1, <1>5, <1>7 DEF Card!vars, Card!NewBill, Card!Midnight, WindowLogs
<1>8. ASSUME NEW set, Card!SettingsSaved(set) PROVE CardTypes'
  BY <1>1, <1>8, Counts DEF Card!SettingsSaved, WindowLogs, CardTypes
<1>9. CASE Card!PickBar \/ Card!StepBack \/ Card!StepOn \/ \E d \in {Card!March(5)} : Card!PickFrom(d) \/ Card!PickTo(d)
  BY <1>4, <1>5, <1>9 DEF Card!PickBar, Card!StepBack, Card!StepOn, Card!ByCycle, Card!ByMonths, Card!PickFrom,
     Card!PickTo
<1>10. CASE Card!Clear
  BY <1>3, <1>5, <1>10 DEF Card!Clear
<1> QED
  BY <1>6, <1>7, <1>8, <1>9, <1>10 DEF Card!Next

(* The agent's panel: the bubble is of a message that was sent, or of none. *)
ChatTypes ==
  /\ ui.draft \in 0..MaxWrites /\ Bounded /\ q.made <= 2
  /\ \A c \in net : c \in ChatTurns => c.turn \in 1..MaxWrites
LEMMA MovesDraft ==
  ASSUME ChatInv, NEW conv \in ChatNames
  PROVE  Chat!Moves(conv).draft \in {ui.draft, 0}
<1> DEFINE u == [ui EXCEPT !.conv = conv]
           v == Chat!Moved(u)
<1>1. u \in ChatViews /\ u.draft = ui.draft
  BY DEF ChatInv, ChatShapes, ChatViews
<1> HIDE DEF u
<1>2. v \in ChatViews /\ v.draft \in {u.draft, 0}
  BY <1>1 DEF Chat!Moved, ChatViews
<1>3. Chat!Moves(conv) = Chat!Gone(v, Chat!Leaves)
  BY DEF Chat!Moves, u
<1> HIDE DEF v
<1> QED
  BY <1>1, <1>2, <1>3, GoneIs, LeavesAreCards

(* No message is sent: the bubble stays, or goes. *)
LEMMA ChatStays ==
  ASSUME ChatInv, ChatTypes, log'.n = log.n, q'.made = q.made, ui'.draft \in {ui.draft, 0},
         \A c \in net' : c \in ChatTurns => c \in net \/ \E d \in net : d \in ChatTurns /\ c.turn = d.turn
  PROVE  ChatTypes'
<1>1. Bounded' /\ ui'.draft \in 0..MaxWrites /\ q'.made <= 2
  BY MaxWritesAssumption, Counts DEF ChatTypes
<1>2. \A c \in net' : c \in ChatTurns => c.turn \in 1..MaxWrites
  BY DEF ChatTypes
<1> QED
  BY <1>1, <1>2 DEF ChatTypes

LEMMA ChatBounded == ChatInv /\ ChatTypes /\ [Chat!Next]_Chat!vars => ChatTypes'
<1> SUFFICES ASSUME ChatInv, ChatTypes, [Chat!Next]_Chat!vars PROVE ChatTypes'
  OBVIOUS
<1>0. ui \in ChatViews /\ q \in ChatStores /\ net \subseteq ChatTurns \cup ChatApplies /\ log \in ChatLogs
  BY DEF ChatInv, ChatShapes
<1>1. CASE UNCHANGED Chat!vars
  BY <1>1, ChatStays DEF Chat!vars
<1>2. CASE Chat!Return
  <2> DEFINE v == [ui EXCEPT !.open = TRUE]
  <2>1. v \in ChatViews /\ v.draft = ui.draft /\ ui' = Chat!Gone(v, Chat!Cards)
    BY <1>0, <1>2 DEF Chat!Return, ChatViews
  <2> HIDE DEF v
  <2> QED
    BY <1>2, <2>1, GoneIs, ChatStays DEF Chat!Return
<1>3. CASE Chat!ReadHistory \/ \E conv \in Chat!Conversations : Chat!PickConversation(conv)
  <2>1. ui'.draft = ui.draft /\ q'.made = q.made /\ net' = net /\ log' = log
    BY <1>0, <1>3 DEF Chat!ReadHistory, Chat!Reads, Chat!PickConversation, ChatViews, ChatStores
  <2> QED
    BY <2>1, ChatStays
<1>4. CASE Chat!NewConversation
  <2>1. ui' = Chat!Moves(Chat!None) /\ log' = Chat!Reopened(Chat!Leaves)
        /\ net' = Chat!Unheard(Chat!Leaves) /\ q' = q
    BY <1>4 DEF Chat!NewConversation
  <2>2. Chat!None \in ChatNames
    BY DEF ChatNames
  <2> QED
    BY <2>1, <2>2, UnheardAre, MovesDraft, ReopenedIs, ChatStays
<1>5. CASE Chat!Leave
  <2> DEFINE v == [ui EXCEPT !.open = FALSE, !.streaming = FALSE, !.draft = 0, !.offers = FALSE]
  <2>1. v \in ChatViews /\ v.draft = 0
    BY <1>0 DEF ChatViews
  <2>2. ui' = Chat!Gone(v, Chat!Cards) /\ log' = Chat!Reopened(Chat!Cards) /\ q' = q
    BY <1>5 DEF Chat!Leave
  <2> HIDE DEF v
  <2>3. ui'.draft = 0 /\ log'.n = log.n
    BY <2>1, <2>2, GoneIs, ReopenedIs
  <2>4. ASSUME NEW d \in net', d \in ChatTurns PROVE \E c \in net : c \in ChatTurns /\ d.turn = c.turn
    <3>1. PICK c \in net : d = [c EXCEPT !.live = FALSE]
      BY <1>5, <2>4 DEF Chat!Leave
    <3>2. c \in ChatTurns
      <4>1. c \in ChatApplies => d \in ChatApplies
        BY <3>1 DEF ChatApplies
      <4> QED
        BY <1>0, <2>4, <4>1, TurnsAre
    <3> QED
      BY <3>1, <3>2 DEF ChatTurns
  <2> QED
    BY <2>2, <2>3, <2>4, ChatStays
<1>6. CASE Chat!Send
  <2> DEFINE turn == log.n + 1
             d == [turn |-> turn, conv |-> ui.conv, fresh |-> ui.conv = Chat!None, live |-> TRUE, st |-> "sent"]
             v == [ui EXCEPT !.streaming = TRUE, !.draft = turn, !.offers = FALSE]
             l == Chat!Reopened({"bubble"})
             heard == \E c \in net : Chat!IsTurn(c) /\ c.live
  <2>1. /\ net' = Chat!Unheard({"bubble"}) \cup {d} /\ ui' = Chat!Gone(v, {"bubble"}) /\ q' = q
        /\ log' = [l EXCEPT !.n = turn, !.early = @ \/ heard] /\ log.n < MaxWrites
    BY <1>6 DEF Chat!Send
  <2>2. turn \in 1..MaxWrites
    BY <1>0, <2>1, MaxWritesAssumption DEF ChatLogs
  <2>9. turn \in Nat
    BY <2>2
  <2> HIDE DEF turn
  <2>3. d.turn = turn /\ v \in ChatViews /\ v.draft = turn
    BY <1>0, <2>9 DEF ChatViews
  <2>4. l \in ChatLogs
    BY ReopenedIs
  <2> HIDE DEF d, v, l
  <2>5. ui'.draft = turn
    BY <2>1, <2>3, GoneIs, LeavesAreCards
  <2>6. log'.n = turn
    BY <2>1, <2>4 DEF ChatLogs
  <2>7. \A c \in net' : c \in ChatTurns => c.turn \in 1..MaxWrites
    BY <2>1, <2>2, <2>3, UnheardAre DEF ChatTypes
  <2>8. turn \in 0..MaxWrites
    BY <2>2
  <2> QED
    BY <2>1, <2>5, <2>6, <2>7, <2>8 DEF ChatTypes, Bounded
<1>7. ASSUME NEW c \in net, Chat!Named(c) PROVE ChatTypes'
  <2> DEFINE conv == IF c.fresh THEN Chat!Created(c.turn) ELSE c.conv
             d == [c EXCEPT !.st = "streaming", !.conv = conv]
             moves == c.fresh /\ ui.open
  <2>1. c \in ChatTurns
    BY <1>0, <1>7, TurnsAre DEF Chat!Named
  <2>2. conv \in ChatNames
    BY <2>1 DEF Chat!Created, ChatTurns, ChatNames, Chat!Conversations
  <2>3. /\ net' = ((IF moves THEN Chat!Unheard(Chat!Leaves) ELSE net) \ {c}) \cup {d} /\ q' = q
        /\ ui' = IF moves THEN Chat!Moves(conv) ELSE IF c.fresh THEN [ui EXCEPT !.conv = conv] ELSE ui
        /\ log' = IF moves THEN Chat!Reopened(Chat!Leaves) ELSE log
    BY <1>7 DEF Chat!Named
  <2>4. d.turn = c.turn
    BY <2>1 DEF ChatTurns
  <2> HIDE DEF conv, d
  <2>5. \A e \in net' : e \in ChatTurns => e \in net \/ e.turn = c.turn
    BY <2>3, <2>4, UnheardAre
  <2>6. ui'.draft \in {ui.draft, 0}
    BY <1>0, <2>2, <2>3, MovesDraft DEF ChatViews
  <2>7. log'.n = log.n
    BY <2>3, ReopenedIs
  <2> QED
    BY <2>1, <2>3, <2>5, <2>6, <2>7, ChatStays
<1>8. ASSUME NEW c \in net, Chat!Proposal(c) PROVE ChatTypes'
  <2>1. ui'.draft = ui.draft /\ q'.made = q.made /\ net' = net /\ log' = log
    BY <1>0, <1>8 DEF Chat!Proposal, ChatViews, ChatStores
  <2> QED
    BY <2>1, ChatStays
<1>9. ASSUME NEW c \in net, Chat!Ends(c) PROVE ChatTypes'
  <2> DEFINE d == [c EXCEPT !.st = "ended"]
  <2>1. c \in ChatTurns
    BY <1>0, <1>9, TurnsAre DEF Chat!Ends
  <2>2. d.turn = c.turn
    BY <2>1 DEF ChatTurns
  <2>3. net' \subseteq (net \ {c}) \cup {d} /\ q' = q /\ log' = log
    BY <1>9 DEF Chat!Ends
  <2> HIDE DEF d
  <2>4. ui'.draft \in {ui.draft, 0}
    BY <1>0, <1>9 DEF Chat!Ends, ChatViews
  <2> QED
    BY <2>1, <2>2, <2>3, <2>4, ChatStays
<1>10. ASSUME NEW c \in net, Chat!ReadBack(c) PROVE ChatTypes'
  <2> DEFINE v == [ui EXCEPT !.draft = 0, !.offers = FALSE]
  <2>1. v \in ChatViews /\ v.draft = 0
    BY <1>0 DEF ChatViews
  <2>2. ui' = IF c.live THEN Chat!Gone(v, {"bubble"}) ELSE ui
    BY <1>10 DEF Chat!ReadBack
  <2> HIDE DEF v
  <2>3. ui'.draft \in {ui.draft, 0}
    BY <2>1, <2>2, GoneIs, LeavesAreCards
  <2>4. q'.made = q.made
    BY <1>0, <1>10 DEF Chat!ReadBack, Chat!Reads, ChatStores
  <2>5. log'.n = log.n
    BY <1>10, ReopenedIs DEF Chat!ReadBack
  <2>6. \A e \in net' : e \in ChatTurns => e \in net
    BY <1>10, UnheardAre DEF Chat!ReadBack
  <2> QED
    BY <2>3, <2>4, <2>5, <2>6, ChatStays
<1>11. ASSUME NEW card \in Chat!Cards, Chat!Apply(card) PROVE ChatTypes'
  <2> DEFINE d == [card |-> card, live |-> TRUE, st |-> "sent"]
  <2>1. d \notin ChatTurns
    BY TurnsAre DEF ChatApplies
  <2>2. net' = net \cup {d} /\ q' = q
    BY <1>11 DEF Chat!Apply
  <2> HIDE DEF d
  <2>3. ui'.draft = ui.draft /\ log'.n = log.n
    BY <1>0, <1>11 DEF Chat!Apply, ChatViews, ChatLogs
  <2> QED
    BY <2>1, <2>2, <2>3, ChatStays
<1>12. ASSUME NEW c \in net, Chat!Serve(c) PROVE ChatTypes'
  <2> DEFINE d == [c EXCEPT !.st = "done"]
  <2>1. c \in ChatApplies /\ net' = (net \ {c}) \cup {d}
    BY <1>0, <1>12, TurnsAre DEF Chat!Serve, Chat!Applies, Chat!Served
  <2>2. d \notin ChatTurns
    BY <2>1, TurnsAre DEF ChatApplies
  <2> HIDE DEF d
  <2>3. q.made \in Nat /\ q.made < 2 /\ q'.made = q.made + 1 /\ ui' = ui /\ log' = log
    BY <1>0, <1>12 DEF Chat!Serve, ChatStores
  <2>4. \A e \in net' : e \in ChatTurns => e \in net
    BY <2>1, <2>2
  <2> QED
    BY <2>3, <2>4 DEF ChatTypes, Bounded
<1>13. ASSUME NEW c \in net, Chat!Done(c) \/ Chat!ApplyFails(c) PROVE ChatTypes'
  <2>1. ui'.draft = ui.draft
    BY <1>0, <1>13 DEF Chat!Done, Chat!ApplyFails, ChatViews
  <2>2. log'.n = log.n
    BY <1>0, <1>13 DEF Chat!Done, Chat!ApplyFails, ChatLogs
  <2>3. q'.made = q.made
    BY <1>0, <1>13 DEF Chat!Done, Chat!ApplyFails, Chat!Remembered, ChatStores
  <2>4. net' \subseteq net
    BY <1>13 DEF Chat!Done, Chat!ApplyFails
  <2> QED
    BY <2>1, <2>2, <2>3, <2>4, ChatStays
<1> QED
  BY <1>1, <1>2, <1>3, <1>4, <1>5, <1>6, <1>7, <1>8, <1>9, <1>10, <1>11, <1>12, <1>13 DEF Chat!Next

(* The attachments: as many rows wait on screen as uploads are under way, and each of *)
(* those was a write, so that no answer finds no row to take away.                    *)
Uploads == {c \in net : c.do = "upload"}
FileTypes ==
  /\ q \in [files : SUBSET Files!Files, listed : SUBSET Files!Files, sent : Nat, fetch : BOOLEAN]
  /\ net \subseteq [do : {"preview", "rename", "delete", "upload"}, of : FileNames,
                    n : Files!Tries \cup 1..MaxWrites, st : {"sent", "done"}]
  /\ \A c \in Uploads : c.n \in 1..log.n
  /\ \A c, d \in Uploads : c.n = d.n => c = d
  /\ IsFiniteSet(Uploads) /\ q.sent = Cardinality(Uploads) /\ q.sent <= log.n
  /\ Bounded

LEMMA FileCallsStay ==
  ASSUME FileTypes, NEW S, S = [do : {"preview", "rename", "delete", "upload"}, of : FileNames,
                                n : Files!Tries \cup 1..MaxWrites, st : {"sent", "done"}],
         q' \in [files : SUBSET Files!Files, listed : SUBSET Files!Files, sent : Nat, fetch : BOOLEAN],
         q'.sent = q.sent, net' \subseteq S, Uploads' = Uploads,
         log'.n = log.n \/ (log.n < MaxWrites /\ log'.n = log.n + 1)
  PROVE  FileTypes'
<1>1. Bounded'
  BY Counts DEF FileTypes
<1>2. log.n \in Nat /\ log'.n \in Nat /\ log.n <= log'.n /\ q.sent \in Nat
  BY MaxWritesAssumption DEF FileTypes, Bounded
<1>3. \A c \in Uploads : c.n \in 1..log'.n
  BY <1>2 DEF FileTypes
<1>4. q.sent <= log'.n
  BY <1>2 DEF FileTypes
<1> QED
  BY <1>1, <1>3, <1>4 DEF FileTypes

LEMMA UploadEnds ==
  ASSUME FileTypes, NEW c \in Uploads, net' = net \ {c}, log'.n = log.n,
         q' \in [files : SUBSET Files!Files, listed : SUBSET Files!Files, sent : Int, fetch : BOOLEAN],
         q'.sent = q.sent - 1
  PROVE  FileTypes'
<1>1. Uploads' = Uploads \ {c}
  BY DEF Uploads
<1>2. IsFiniteSet(Uploads) /\ q.sent = Cardinality(Uploads) /\ q.sent \in Nat /\ q.sent <= log.n
  BY DEF FileTypes
<1>3. IsFiniteSet(Uploads') /\ Cardinality(Uploads') = q.sent - 1 /\ Cardinality(Uploads') \in Nat
  BY <1>1, <1>2, FS_RemoveElement, FS_CardinalityType
<1>4. q' \in [files : SUBSET Files!Files, listed : SUBSET Files!Files, sent : Nat, fetch : BOOLEAN]
  BY <1>3
<1>5. Bounded' /\ log.n \in Nat
  BY Counts, MaxWritesAssumption DEF FileTypes, Bounded
<1>6. q'.sent <= log'.n
  BY <1>2, <1>5
<1>7. net' \subseteq net /\ Uploads' \subseteq Uploads
  BY <1>1
<1> QED
  BY <1>3, <1>4, <1>5, <1>6, <1>7 DEF FileTypes

LEMMA UploadServed ==
  ASSUME FileTypes, NEW c \in Uploads, net' = (net \ {c}) \cup {[c EXCEPT !.st = "done"]}, log' = log, q' = q
  PROVE  FileTypes'
<1> DEFINE d == [c EXCEPT !.st = "done"]
           S == [do : {"preview", "rename", "delete", "upload"}, of : FileNames,
                 n : Files!Tries \cup 1..MaxWrites, st : {"sent", "done"}]
<1>1. c \in S /\ c \in net /\ c.do = "upload" /\ net \subseteq S
  BY DEF FileTypes, Uploads
<1>2. d \in S /\ d.do = "upload" /\ d.n = c.n /\ net' = (net \ {c}) \cup {d}
  BY <1>1
<1> HIDE DEF d
<1>3. Uploads' = (Uploads \ {c}) \cup {d}
  BY <1>2 DEF Uploads
<1>4. d \notin Uploads \ {c}
  BY <1>2 DEF FileTypes
<1>5. IsFiniteSet(Uploads) /\ q.sent = Cardinality(Uploads)
  BY DEF FileTypes
<1>6. IsFiniteSet(Uploads \ {c}) /\ Cardinality(Uploads \ {c}) = q.sent - 1
  BY <1>5, FS_RemoveElement
<1>7. IsFiniteSet(Uploads') /\ Cardinality(Uploads') = q.sent - 1 + 1
  BY <1>3, <1>4, <1>6, FS_AddElement
<1>8. q.sent \in Nat
  BY DEF FileTypes
<1>9. IsFiniteSet(Uploads') /\ Cardinality(Uploads') = q.sent
  BY <1>7, <1>8
<1>10. net' \subseteq S
  BY <1>1, <1>2
<1>11. \A e \in Uploads' : e.n \in 1..log.n
  BY <1>2, <1>3 DEF FileTypes
<1>12. \A e, f \in Uploads' : e.n = f.n => e = f
  BY <1>2, <1>3 DEF FileTypes
<1>13. q' = q /\ log' = log
  OBVIOUS
<1> HIDE DEF S
<1> QED
  BY <1>9, <1>10, <1>11, <1>12, <1>13 DEF FileTypes, Bounded, S

LEMMA UploadSent ==
  ASSUME FileInv, FileTypes, Files!Upload
  PROVE  FileTypes'
<1> DEFINE d == Files!Call("upload", Files!None, log.n + 1)
           S == [do : {"preview", "rename", "delete", "upload"}, of : FileNames,
                 n : Files!Tries \cup 1..MaxWrites, st : {"sent", "done"}]
<1>1. net' = net \cup {d} /\ log.n < MaxWrites /\ log' = [log EXCEPT !.n = @ + 1]
      /\ q' = [q EXCEPT !.sent = @ + 1]
  BY DEF Files!Upload, Files!Write
<1>2. log.n \in Nat /\ log.n + 1 \in 1..MaxWrites /\ log'.n = log.n + 1
  BY <1>1, MaxWritesAssumption DEF FileTypes, Bounded, FileInv, FileShapes
<1>3. d \in S /\ d.do = "upload" /\ d.n = log.n + 1
  BY <1>2 DEF Files!Call, FileNames
<1> HIDE DEF d
<1>4. Uploads' = Uploads \cup {d}
  BY <1>1, <1>3 DEF Uploads
<1>5. \A c \in Uploads : c.n \in 1..log.n
  BY DEF FileTypes
<1>6. d \notin Uploads /\ \A c \in Uploads : c.n # d.n
  BY <1>2, <1>3, <1>5
<1>7. IsFiniteSet(Uploads) /\ q.sent = Cardinality(Uploads) /\ q.sent \in Nat /\ q.sent <= log.n
  BY DEF FileTypes
<1>8. IsFiniteSet(Uploads') /\ Cardinality(Uploads') = q.sent + 1
  BY <1>4, <1>6, <1>7, FS_AddElement
<1>9. q' \in [files : SUBSET Files!Files, listed : SUBSET Files!Files, sent : Nat, fetch : BOOLEAN]
      /\ q'.sent = q.sent + 1
  BY <1>1, <1>7 DEF FileTypes
<1>10. net' \subseteq S
  BY <1>1, <1>3 DEF FileTypes
<1>11. \A c \in Uploads' : c.n \in 1..log'.n
  BY <1>2, <1>3, <1>4, <1>5
<1>12. \A c, e \in Uploads' : c.n = e.n => c = e
  BY <1>4, <1>6 DEF FileTypes
<1>13. q'.sent <= log'.n /\ Bounded'
  BY <1>1, <1>2, <1>7, <1>9, Counts DEF FileTypes
<1> HIDE DEF S
<1> QED
  BY <1>8, <1>9, <1>10, <1>11, <1>12, <1>13 DEF FileTypes, S

LEMMA FileBounded == FileInv /\ FileTypes /\ [Files!Next]_Files!vars => FileTypes'
<1> SUFFICES ASSUME FileInv, FileTypes, [Files!Next]_Files!vars PROVE FileTypes'
  OBVIOUS
<1> DEFINE S == [do : {"preview", "rename", "delete", "upload"}, of : FileNames,
                 n : Files!Tries \cup 1..MaxWrites, st : {"sent", "done"}]
           Q == [files : SUBSET Files!Files, listed : SUBSET Files!Files, sent : Nat, fetch : BOOLEAN]
<1>0. q \in Q /\ net \subseteq S /\ log \in [n : Nat, failed : BOOLEAN] /\ ui \in FileViews
      /\ Files!None \in FileNames
  BY DEF FileTypes, FileInv, FileShapes, FileNames
<1>1. ASSUME net' = net, q' \in Q, q'.sent = q.sent, log'.n = log.n PROVE FileTypes'
  BY <1>0, <1>1, FileCallsStay DEF Uploads
<1>2. \A v : Files!Changes(v) => FileTypes'
  BY <1>0, <1>1 DEF Files!Changes
<1>3. CASE Files!Fetched_ \/ UNCHANGED Files!vars
  BY <1>0, <1>1, <1>3 DEF Files!Fetched_, Files!vars
<1>4. CASE Files!Upload
  BY <1>4, UploadSent
<1>5. ASSUME NEW do \in {"rename", "delete"}, NEW of \in FileNames, Files!Write(do, of), q' = q PROVE FileTypes'
  <2> DEFINE d == Files!Call(do, of, log.n + 1)
  <2>1. net' = net \cup {d} /\ log.n < MaxWrites /\ log'.n = log.n + 1
    BY <1>0, <1>5 DEF Files!Write
  <2>2. log.n + 1 \in 1..MaxWrites
    BY <1>0, <2>1, MaxWritesAssumption
  <2>3. d \in S /\ d.do # "upload"
    BY <2>2 DEF Files!Call
  <2> HIDE DEF d
  <2>4. Uploads' = Uploads /\ net' \subseteq S
    BY <1>0, <2>1, <2>3 DEF Uploads
  <2> HIDE DEF S
  <2> QED
    BY <1>0, <1>5, <2>1, <2>4, FileCallsStay DEF S
<1>6. CASE Files!Rename \/ Files!Delete
  BY <1>0, <1>5, <1>6 DEF Files!Rename, Files!Delete, FileViews
<1>7. ASSUME NEW f \in Files!Files, Files!Preview(f) PROVE FileTypes'
  <2>1. PICK n \in Files!Tries : net' = net \cup {Files!Call("preview", f, n)}
    BY <1>7 DEF Files!Preview
  <2> DEFINE d == Files!Call("preview", f, n)
  <2>2. d \in S /\ d.do # "upload" /\ net' = net \cup {d}
    BY <2>1 DEF Files!Call, FileNames
  <2> HIDE DEF d
  <2>3. Uploads' = Uploads /\ net' \subseteq S
    BY <1>0, <2>2 DEF Uploads
  <2>4. q' = q /\ log'.n = log.n
    BY <1>0, <1>7 DEF Files!Preview
  <2> HIDE DEF S
  <2> QED
    BY <1>0, <2>3, <2>4, FileCallsStay DEF S
<1>8. ASSUME NEW c \in net, Files!Previewed(c) \/ Files!PreviewFails(c) PROVE FileTypes'
  <2>1. c.do = "preview" /\ net' = net \ {c} /\ q' = q
    BY <1>8 DEF Files!Previewed, Files!PreviewFails, Files!Previews
  <2>2. log'.n = log.n
    BY <1>0, <1>8 DEF Files!Previewed, Files!PreviewFails
  <2>3. Uploads' = Uploads /\ net' \subseteq S
    BY <1>0, <2>1 DEF Uploads
  <2> HIDE DEF S
  <2> QED
    BY <1>0, <2>1, <2>2, <2>3, FileCallsStay DEF S
<1>9. ASSUME NEW c \in net, Files!Serve(c) PROVE FileTypes'
  <2> DEFINE d == [c EXCEPT !.st = "done"]
  <2>1. net' = (net \ {c}) \cup {d} /\ log' = log
    BY <1>9 DEF Files!Serve, Files!Served
  <2>2. CASE c.do = "upload"
    <3>1. c \in Uploads /\ q' = q
      BY <1>9, <2>2 DEF Files!Serve, Uploads
    <3> QED
      BY <2>1, <3>1, UploadServed
  <2>3. CASE c.do # "upload"
    <3>1. d \in S /\ d.do # "upload"
      BY <1>0, <2>3
    <3> HIDE DEF d
    <3>2. Uploads' = Uploads /\ net' \subseteq S
      BY <1>0, <2>1, <2>3, <3>1 DEF Uploads
    <3>3. q' \in Q /\ q'.sent = q.sent
      BY <1>0, <1>9 DEF Files!Serve
    <3> HIDE DEF S
    <3> QED
      BY <2>1, <3>2, <3>3, FileCallsStay DEF S
  <2> QED
    BY <2>2, <2>3
<1>10. ASSUME NEW c \in net, Files!Answer(c) \/ Files!Fail(c) PROVE FileTypes'
  <2>1. net' = net \ {c} /\ log' = log
    BY <1>10 DEF Files!Answer, Files!Fail
  <2>2. Files!Unsent(c) \in {0, 1}
    BY DEF Files!Unsent
  <2>6. q.sent - Files!Unsent(c) \in Int
    BY <1>0, <2>2
  <2>3. q' \in [files : SUBSET Files!Files, listed : SUBSET Files!Files, sent : Int, fetch : BOOLEAN]
        /\ q'.sent = q.sent - Files!Unsent(c)
    <3>1. CASE Files!Answer(c)
      BY <1>0, <2>6, <3>1 DEF Files!Answer
    <3>2. CASE Files!Fail(c)
      BY <1>0, <2>6, <3>2 DEF Files!Fail
    <3> QED
      BY <1>10, <3>1, <3>2
  <2>4. CASE c.do = "upload"
    BY <2>1, <2>3, <2>4, UploadEnds DEF Uploads, Files!Unsent
  <2>5. CASE c.do # "upload"
    <3>1. q'.sent = q.sent /\ q' \in Q
      BY <1>0, <2>3, <2>5 DEF Files!Unsent
    <3>2. Uploads' = Uploads /\ net' \subseteq S
      BY <1>0, <2>1, <2>5 DEF Uploads
    <3> HIDE DEF S
    <3> QED
      BY <2>1, <3>1, <3>2, FileCallsStay DEF S
  <2> QED
    BY <2>4, <2>5
<1>11. CASE \/ Files!ClosePreview \/ Files!CancelRename \/ Files!CancelDelete
            \/ \E f \in Files!Files : Files!StartRename(f) \/ Files!AskDelete(f)
  BY <1>2, <1>11 DEF Files!ClosePreview, Files!CancelRename, Files!CancelDelete, Files!StartRename, Files!AskDelete
<1> QED
  BY <1>3, <1>4, <1>6, <1>7, <1>8, <1>9, <1>10, <1>11 DEF Files!Next

(* The form of a transaction: a row is stored no oftener than creates were sent; the one *)
(* whose create is under way can be stored once more.                                   *)
FormTypes ==
  /\ Bounded
  /\ \A e \in Form!Entries : q.stored[e] <= log.n
  /\ \A c \in Creates : "row" \in c.of.left => q.stored[c.of.entry] < log.n

LEMMA FormCounts ==
  ASSUME FormInv, FormTypes, q'.stored = q.stored, \A c \in net' : c.do = "create" => c \in net,
         log'.n = log.n \/ (log.n < MaxWrites /\ log'.n = log.n + 1)
  PROVE  FormTypes'
<1>1. Bounded' /\ log.n \in Nat /\ log'.n \in Nat /\ log.n <= log'.n
  BY MaxWritesAssumption, Counts DEF FormTypes, Bounded
<1>2. \A e \in Form!Entries : q.stored[e] \in Nat
  BY DEF FormInv, FormShapes, FormRows
<1>3. \A e \in Form!Entries : q'.stored[e] <= log'.n
  BY <1>1, <1>2 DEF FormTypes
<1>4. \A c \in Creates' : c \in Creates /\ c.of.entry \in Form!Entries
  BY DEF FormInv, StoredInv, Creates
<1>5. \A c \in Creates' : "row" \in c.of.left => q'.stored[c.of.entry] < log'.n
  BY <1>1, <1>2, <1>4 DEF FormTypes
<1> QED
  BY <1>1, <1>3, <1>5 DEF FormTypes

LEMMA CreateBounded == FormInv /\ FormTypes /\ Form!Create => FormTypes'
<1> SUFFICES ASSUME FormInv, FormTypes, Form!Create PROVE FormTypes'
  OBVIOUS
<1> DEFINE left == {"row"} \cup (ui.options \cap Form!Steps)
           of == Form!Of(left)
           c == Form!Sent("create", of)
<1>1. net' = net \cup {c} /\ log' = [log EXCEPT !.n = @ + 1] /\ q' = q /\ log.n < MaxWrites
  BY DEF Form!Create, Form!Send
<1>2. left \in SUBSET Form!Steps
  BY DEF Form!Steps
<1> HIDE DEF left
<1>3. of.entry = ui.entry
  BY <1>2, OfIs
<1>4. c.do = "create" /\ c.of = of
  BY DEF Form!Sent
<1> HIDE DEF of, c
<1>5. Creates' = {c}
  BY <1>1, <1>4 DEF Creates, Form!Create, Form!Loading, Form!Pending
<1>6. ui.entry \in Form!Entries /\ q.stored \in [Form!Entries -> Nat] /\ log.n \in Nat /\ log'.n = log.n + 1
  BY <1>1 DEF Form!Create, Form!Entering, FormInv, FormShapes, FormViews, FormRows, FormLogs
<1>7. \A e \in Form!Entries : q.stored[e] \in Nat /\ q.stored[e] <= log.n
  BY <1>6 DEF FormTypes
<1>8. \A e \in Form!Entries : q'.stored[e] <= log'.n /\ q'.stored[e] < log'.n
  BY <1>1, <1>6, <1>7
<1>9. Bounded'
  BY <1>1, <1>6, Counts DEF FormTypes
<1> QED
  BY <1>3, <1>4, <1>5, <1>6, <1>8, <1>9 DEF FormTypes

LEMMA StepBounded ==
  ASSUME FormInv, FormTypes, NEW c \in net, Form!Step(c)
  PROVE  FormTypes'
<1> DEFINE next == Form!NextOf(c.of.left)
           d == [c EXCEPT !.of.left = @ \ {next}]
<1>0. c \in FormCalls /\ c \in Creates /\ c.of.entry \in Form!Entries /\ q.stored \in [Form!Entries -> Nat]
      /\ q \in FormRows
  BY DEF FormInv, FormShapes, FormRows, StoredInv, Creates, Form!Step
<1>1. /\ net' = (net \ {c}) \cup {d} /\ log' = log
      /\ q' = IF next = "row" THEN [q EXCEPT !.stored[c.of.entry] = @ + 1] ELSE q
  BY DEF Form!Step
<1>2. (next = "row") = ("row" \in c.of.left)
  BY DEF Form!NextOf
<1>3. d \in FormCalls /\ d.do = "create" /\ "row" \notin d.of.left
  BY <1>0, <1>2 DEF FormCalls, Creates
<1> HIDE DEF next, d
<1>4. Creates' = {d}
  BY <1>0, <1>1, <1>3 DEF FormInv, StoredInv, Creates
<1>5. \A e \in Form!Entries :
        q'.stored[e] = IF e = c.of.entry /\ "row" \in c.of.left THEN q.stored[e] + 1 ELSE q.stored[e]
  BY <1>0, <1>1, <1>2 DEF FormRows
<1>6. log.n \in Nat /\ \A e \in Form!Entries : q.stored[e] \in Nat /\ q.stored[e] <= log.n
  BY <1>0 DEF FormTypes, FormInv, FormShapes, FormLogs
<1>7. "row" \in c.of.left => q.stored[c.of.entry] + 1 <= log.n
  BY <1>0, <1>6 DEF FormTypes
<1>8. \A e \in Form!Entries : q'.stored[e] <= log.n
  BY <1>5, <1>6, <1>7
<1> QED
  BY <1>1, <1>3, <1>4, <1>8 DEF FormTypes, Bounded

LEMMA FormBounded == FormInv /\ FormTypes /\ [Form!Next]_Form!vars => FormTypes'
<1> SUFFICES ASSUME FormInv, FormTypes, [Form!Next]_Form!vars PROVE FormTypes'
  OBVIOUS
<1>0. q \in FormRows /\ log \in FormLogs /\ net \in SUBSET FormCalls
  BY DEF FormInv, FormShapes
<1>1. ASSUME q' = q, net' \subseteq net, log'.n = log.n PROVE FormTypes'
  BY <1>1, FormCounts
<1>2. \A v : Form!Changes(v) => FormTypes'
  BY <1>1 DEF Form!Changes
<1>3. ASSUME NEW S \in SUBSET net, net' = Form!Orphaned(S), q'.stored = q.stored, log'.n = log.n PROVE FormTypes'
  <2>1. S \in SUBSET FormCalls
    BY <1>0
  <2>2. \A c \in net' : c.do = "create" => c \in net
    BY <1>3, <2>1, OrphanedIs
  <2> QED
    BY <1>3, <2>2, FormCounts
<1>4. ASSUME NEW do \in {"group", "toggle", "unlink", "rule", "save"}, NEW of,
             net' = net \cup {Form!Sent(do, of)}, q' = q, log'.n = log.n + 1, log.n < MaxWrites
      PROVE  FormTypes'
  BY <1>4, FormCounts DEF Form!Sent
<1>5. CASE UNCHANGED Form!vars
  BY <1>1, <1>5 DEF Form!vars
<1>6. CASE Form!Open
  BY <1>0, <1>1, <1>6 DEF Form!Open, FormLogs
<1>7. CASE Form!Create
  BY <1>7, CreateBounded
<1>8. CASE Form!Save
  <2>1. log'.n = log.n + 1
    BY <1>0, <1>8 DEF Form!Save, FormLogs
  <2> QED
    BY <1>4, <1>8, <2>1 DEF Form!Save
<1>9. ASSUME NEW do \in {"group", "toggle", "unlink", "rule", "save"}, NEW of, Form!Send(do, of) PROVE FormTypes'
  <2>1. log'.n = log.n + 1
    BY <1>0, <1>9 DEF Form!Send, FormLogs
  <2> QED
    BY <1>4, <1>9, <2>1 DEF Form!Send
<1>10. CASE Form!Close
  BY <1>3, <1>10 DEF Form!Close
<1>11. ASSUME NEW c \in net, Form!Created(c) PROVE FormTypes'
  BY <1>3, <1>11 DEF Form!Created
<1>12. ASSUME NEW c \in net, Form!CreateFails(c) \/ Form!Fail(c) PROVE FormTypes'
  BY <1>0, <1>1, <1>12 DEF Form!CreateFails, Form!Fail, FormLogs
<1>13. ASSUME NEW c \in net, Form!Serve(c) PROVE FormTypes'
  <2> DEFINE d == [c EXCEPT !.st = "done"]
  <2>1. net' = (net \ {c}) \cup {d} /\ c.do # "create" /\ c \in FormCalls
    BY <1>0, <1>13 DEF Form!Serve, Form!Served
  <2>2. d.do # "create"
    BY <2>1 DEF FormCalls
  <2> HIDE DEF d
  <2>3. q'.stored = q.stored
    BY <1>0, <1>13 DEF Form!Serve, FormRows
  <2>4. log'.n = log.n
    BY <1>0, <1>13 DEF Form!Serve, FormLogs
  <2> QED
    BY <2>1, <2>2, <2>3, <2>4, FormCounts
<1>14. ASSUME NEW c \in net, Form!Answer(c) PROVE FormTypes'
  <2>1. q' = q /\ log' = log
    BY <1>14 DEF Form!Answer
  <2>2. CASE c.do = "save"
    BY <1>3, <1>14, <2>1, <2>2 DEF Form!Answer
  <2>3. CASE c.do # "save"
    BY <1>1, <1>14, <2>1, <2>3 DEF Form!Answer
  <2> QED
    BY <2>2, <2>3
<1>15. CASE Form!NewGroup \/ Form!ToggleIgnore \/ Form!UnlinkRecurring \/ Form!ExtendRule
  BY <1>9, <1>15 DEF Form!NewGroup, Form!ToggleIgnore, Form!UnlinkRecurring, Form!ExtendRule
<1>16. CASE \/ Form!NextEntry \/ Form!MakeRecurring \/ Form!MakeInstallments \/ Form!AttachFiles
            \/ Form!GroupLoads \/ Form!GroupMissing \/ Form!EditShares \/ Form!SplitOff \/ Form!SplitOn
            \/ Form!OpenRule \/ Form!CloseRule \/ Form!Refetched
  BY <1>2, <1>16 DEF Form!NextEntry, Form!MakeRecurring, Form!MakeInstallments, Form!AttachFiles,
     Form!GroupLoads, Form!GroupMissing, Form!EditShares, Form!SplitOff, Form!SplitOn, Form!OpenRule,
     Form!CloseRule, Form!Refetched
<1> QED
  BY <1>5, <1>6, <1>7, <1>8, <1>10, <1>11, <1>12, <1>13, <1>14, <1>15, <1>16, StepBounded DEF Form!Next

(* The import page: a preview counts itself when it is asked for, and none is beyond the *)
(* bound.                                                                                *)
ImportSent == [do : {"preview", "import", "undo"},
                of : [file : Import!Files, options : Import!Options, n : 0..Import!MaxAsked], st : {"sent", "done"}]
ImportTypes == net \subseteq ImportSent /\ log.asked <= Import!MaxAsked /\ Bounded

LEMMA ImportBounded == ImportInv /\ ImportTypes /\ [Import!Next]_Import!vars => ImportTypes'
<1> SUFFICES ASSUME ImportInv, ImportTypes, [Import!Next]_Import!vars PROVE ImportTypes'
  OBVIOUS
<1>0. ui \in ImportViews /\ log \in ImportLogs /\ net \subseteq ImportSent
  BY DEF ImportTypes, ImportInv, ImportShapes
<1>1. ASSUME net' \subseteq ImportSent, log' = log \/ \E left : log' = [log EXCEPT !.left = left]
      PROVE  ImportTypes'
  <2>1. log'.n = log.n /\ log'.asked = log.asked
    BY <1>0, <1>1 DEF ImportLogs
  <2> QED
    BY <1>1, <2>1, Counts DEF ImportTypes
<1>2. ASSUME NEW f \in Import!Files, NEW o \in Import!Options, NEW v, Import!Preview(f, o, v) PROVE ImportTypes'
  <2> DEFINE d == Import!Sent("preview", [file |-> f, options |-> o, n |-> log.asked + 1])
  <2>1. net' = net \cup {d} /\ log' = [log EXCEPT !.asked = @ + 1] /\ log.asked < Import!MaxAsked
    BY <1>2 DEF Import!Preview
  <2>2. log'.asked = log.asked + 1 /\ log'.n = log.n /\ log.asked + 1 \in 0..Import!MaxAsked
    BY <1>0, <2>1 DEF ImportLogs, Import!MaxAsked
  <2>3. d \in ImportSent
    BY <2>2 DEF Import!Sent, ImportSent
  <2> HIDE DEF d
  <2>4. net' \subseteq ImportSent /\ log'.asked <= Import!MaxAsked
    BY <1>0, <2>1, <2>2, <2>3 DEF Import!MaxAsked
  <2> QED
    BY <2>2, <2>4, Counts DEF ImportTypes
<1>3. ASSUME NEW f \in Import!Files, Import!ChooseFile(f) PROVE ImportTypes'
  <2>1. 0 \in Import!Options /\ ui.options \in Import!Options
    BY <1>0 DEF ImportViews, Import!Options
  <2> QED
    BY <1>2, <1>3, <2>1 DEF Import!ChooseFile
<1>4. ASSUME NEW o \in Import!Options, Import!ChangeOptions(o) PROVE ImportTypes'
  <2>1. ui.file \in Import!Files
    BY <1>0, <1>4 DEF Import!ChangeOptions, ImportViews, ImportFiles
  <2> QED
    BY <1>2, <1>4, <2>1 DEF Import!ChangeOptions
<1>5. ASSUME NEW do \in {"import", "undo"}, Import!Write(do) PROVE ImportTypes'
  <2> DEFINE d == Import!Sent(do, [file |-> 1, options |-> IF ui.tab = "orders" THEN 1 ELSE 0, n |-> 0])
  <2>1. net' = net \cup {d} /\ log.n < MaxWrites /\ log' = [log EXCEPT !.n = @ + 1]
    BY <1>5 DEF Import!Write
  <2>2. d \in ImportSent
    BY DEF Import!Sent, Import!Files, Import!Options, Import!MaxAsked, ImportSent
  <2> HIDE DEF d
  <2>3. log'.n = log.n + 1 /\ log'.asked = log.asked
    BY <1>0, <2>1 DEF ImportLogs
  <2> QED
    BY <1>0, <2>1, <2>2, <2>3, Counts DEF ImportTypes
<1>6. ASSUME NEW c \in net, Import!Serve(c) PROVE ImportTypes'
  <2>1. net' = (net \ {c}) \cup {[c EXCEPT !.st = "done"]} /\ log' = log
    BY <1>6 DEF Import!Serve, Import!Served
  <2>2. c \in ImportSent /\ [c EXCEPT !.st = "done"] \in ImportSent
    BY <1>0 DEF ImportSent
  <2> QED
    BY <1>0, <1>1, <2>1, <2>2
<1>7. ASSUME NEW c \in net,
             Import!Previewed(c) \/ Import!PreviewFails(c) \/ Import!Answer(c) \/ Import!Fail(c)
      PROVE  ImportTypes'
  <2>1. net' \subseteq net
    BY <1>7 DEF Import!Previewed, Import!PreviewFails, Import!Answer, Import!Fail
  <2>2. log' = log \/ \E left : log' = [log EXCEPT !.left = left]
    BY <1>7 DEF Import!Previewed, Import!PreviewFails, Import!Answer, Import!Fail
  <2> QED
    BY <1>0, <1>1, <2>1, <2>2
<1>8. CASE \/ \E tab \in {"statement", "orders"} : Import!SelectTab(tab)
           \/ Import!ToggleExcluded \/ Import!Reset \/ Import!SelectAccount \/ Import!AskUndo \/ Import!CloseUndo
           \/ Import!Fetch \/ Import!FetchFails \/ Import!Revisit \/ UNCHANGED Import!vars
  <2>1. net' \subseteq net
    BY <1>8 DEF Import!SelectTab, Import!ToggleExcluded, Import!Reset, Import!SelectAccount, Import!AskUndo,
       Import!CloseUndo, Import!Changes, Import!Fetch, Import!FetchFails, Import!Revisit, Import!vars
  <2>2. log' = log \/ \E left : log' = [log EXCEPT !.left = left]
    BY <1>8 DEF Import!SelectTab, Import!ToggleExcluded, Import!Reset, Import!SelectAccount, Import!AskUndo,
       Import!CloseUndo, Import!Changes, Import!Fetch, Import!FetchFails, Import!Revisit, Import!vars
  <2> QED
    BY <1>0, <1>1, <2>1, <2>2
<1>9. CASE Import!Import \/ Import!Undo
  BY <1>5, <1>9 DEF Import!Import, Import!Undo
<1> QED
  BY <1>3, <1>4, <1>6, <1>7, <1>8, <1>9 DEF Import!Next

(* The invariant of each page, with its types. *)
AssetTyped == AssetInv /\ Bounded
AssetsTyped == AssetsInv /\ ui \in AssetListViews /\ Bounded
ImportTyped == ImportInv /\ ImportTypes
RowsTyped == RowsInv /\ RowTypes /\ Bounded
DialogTyped == Dialog!IInv /\ q = Dialog!None /\ Bounded
FormTyped == FormInv /\ FormTypes
CardTyped == CardInv /\ DaysInv /\ CardTypes
AccountTyped == AccountInv /\ Bounded
GroupTyped == Groups!Ledger /\ Owes(q) /\ Bounded
PayeeTyped == PayeeInv /\ Bounded
RuleTyped == RuleInv /\ RuleTypes
CategoryTyped == CategoryInv /\ ui \in CategoryViews /\ Bounded
ChatTyped == ChatInv /\ ChatTypes
FileTyped == FileInv /\ FileTypes
PlanTyped == PlanListsInv /\ PlanFroms /\ Bounded
SettingsTyped == SettingsInv /\ q = Settings!None /\ Bounded

LEMMA StartsBounded == log.n = 0 => Bounded
BY MaxWritesAssumption DEF Bounded

LEMMA InitTyped ==
  /\ Asset!Init => AssetTyped
  /\ Assets!Init => AssetsTyped
  /\ Import!Init => ImportTyped
  /\ Transactions!Init => RowsTyped
  /\ Dialog!Init => DialogTyped
  /\ Form!Init => FormTyped
  /\ Card!Init => CardTyped
  /\ Accounts!Init => AccountTyped
  /\ Groups!Init => GroupTyped
  /\ Payees!Init => PayeeTyped
  /\ Rules!Init => RuleTyped
  /\ Categories!Init => CategoryTyped
  /\ Chat!Init => ChatTyped
  /\ Files!Init => FileTyped
  /\ Planning!Init => PlanTyped
  /\ Settings!Init => SettingsTyped
<1>1. Asset!Init => AssetTyped
  BY InitAsset, StartsBounded DEF Asset!Init, AssetTyped
<1>2. Assets!Init => AssetsTyped
  BY InitAssets, StartsBounded DEF Assets!Init, AssetsTyped, AssetListViews
<1>3. Import!Init => ImportTyped
  BY InitImport, StartsBounded DEF Import!Init, ImportTyped, ImportTypes, Import!MaxAsked
<1>4. Transactions!Init => RowsTyped
  <2> SUFFICES ASSUME Transactions!Init PROVE RowsTyped
    OBVIOUS
  <2>1. q \in [gone : SUBSET Transactions!Own, fit : SUBSET Transactions!Rows]
    BY DEF Transactions!Init, Transactions!Own, Transactions!Rows
  <2>2. log.n = 0 /\ net = {}
    BY DEF Transactions!Init
  <2> QED
    BY <2>1, <2>2, InitRows, StartsBounded DEF RowsTyped, RowTypes
<1>5. Dialog!Init => DialogTyped
  BY Dialog!InitIInv, StartsBounded DEF Dialog!Init, DialogTyped
<1>6. Form!Init => FormTyped
  <2> SUFFICES ASSUME Form!Init PROVE FormTyped
    OBVIOUS
  <2>1. log.n = 0 /\ net = {} /\ \A e \in Form!Entries : q.stored[e] = 0
    BY DEF Form!Init
  <2> QED
    BY <2>1, InitForm, StartsBounded DEF FormTyped, FormTypes, Creates
<1>7. Card!Init => CardTyped
  BY InitCard, InitDays, StartsBounded DEF Card!Init, CardTyped, CardTypes
<1>8. Accounts!Init => AccountTyped
  <2>1. Accounts!Init => log.n = 0
    BY DEF Accounts!Init
  <2> QED
    BY <2>1, InitAccount, StartsBounded DEF AccountTyped
<1>9. Groups!Init => GroupTyped
  <2>1. Groups!Init => log.n = 0 /\ Owes(q)
    BY DEF Groups!Init, Owes
  <2> QED
    BY <2>1, Groups!InitLedger, StartsBounded DEF GroupTyped
<1>10. Payees!Init => PayeeTyped
  BY InitPayee, StartsBounded DEF Payees!Init, PayeeTyped
<1>11. Rules!Init => RuleTyped
  BY InitRule, MaxWritesAssumption DEF Rules!Init, RuleTyped, RuleTypes
<1>12. Categories!Init => CategoryTyped
  <2>1. Categories!Init => log.n = 0 /\ ui \in CategoryViews
    BY DEF Categories!Init, CategoryViews, Categories!Blank
  <2> QED
    BY <2>1, InitCategory, StartsBounded DEF CategoryTyped
<1>13. Chat!Init => ChatTyped
  <2>1. Chat!Init => log.n = 0 /\ ui.draft = 0 /\ q.made = 0 /\ net = {}
    BY DEF Chat!Init
  <2> QED
    BY <2>1, InitChat, StartsBounded, MaxWritesAssumption DEF ChatTyped, ChatTypes
<1>14. Files!Init => FileTyped
  <2>1. Files!Init => Uploads = {}
    BY DEF Files!Init, Uploads
  <2> QED
    BY <2>1, InitFiles, StartsBounded, FS_EmptySet DEF Files!Init, FileTyped, FileTypes
<1>15. Planning!Init => PlanTyped
  <2>1. Planning!Init => log.n = 0 /\ PlanFroms
    BY DEF Planning!Init, PlanFroms
  <2> QED
    BY <2>1, InitPlanLists, StartsBounded DEF PlanTyped
<1>16. Settings!Init => SettingsTyped
  BY InitSettings, StartsBounded DEF Settings!Init, SettingsTyped
<1> QED
  BY <1>1, <1>2, <1>3, <1>4, <1>5, <1>6, <1>7, <1>8, <1>9, <1>10, <1>11, <1>12, <1>13, <1>14, <1>15, <1>16

LEMMA NextTyped ==
  /\ AssetTyped /\ [Asset!Next]_Asset!vars => AssetTyped'
  /\ AssetsTyped /\ [Assets!Next]_Assets!vars => AssetsTyped'
  /\ ImportTyped /\ [Import!Next]_Import!vars => ImportTyped'
  /\ RowsTyped /\ [Transactions!Next]_Transactions!vars => RowsTyped'
  /\ DialogTyped /\ [Dialog!Next]_Dialog!vars => DialogTyped'
  /\ FormTyped /\ [Form!Next]_Form!vars => FormTyped'
  /\ CardTyped /\ [Card!Next]_Card!vars => CardTyped'
  /\ AccountTyped /\ [Accounts!Next]_Accounts!vars => AccountTyped'
  /\ GroupTyped /\ [Groups!Next]_Groups!vars => GroupTyped'
  /\ PayeeTyped /\ [Payees!Next]_Payees!vars => PayeeTyped'
  /\ RuleTyped /\ [Rules!Next]_Rules!vars => RuleTyped'
  /\ CategoryTyped /\ [Categories!Next]_Categories!vars => CategoryTyped'
  /\ ChatTyped /\ [Chat!Next]_Chat!vars => ChatTyped'
  /\ FileTyped /\ [Files!Next]_Files!vars => FileTyped'
  /\ PlanTyped /\ [Planning!Next]_Planning!vars => PlanTyped'
  /\ SettingsTyped /\ [Settings!Next]_Settings!vars => SettingsTyped'
<1>1. AssetTyped /\ [Asset!Next]_Asset!vars => AssetTyped'
  BY NextAsset, AssetBounded DEF AssetTyped
<1>2. AssetsTyped /\ [Assets!Next]_Assets!vars => AssetsTyped'
  BY NextAssets, AssetsBounded DEF AssetsTyped
<1>3. ImportTyped /\ [Import!Next]_Import!vars => ImportTyped'
  BY NextImport, ImportBounded DEF ImportTyped
<1>4. RowsTyped /\ [Transactions!Next]_Transactions!vars => RowsTyped'
  BY NextRows, RowsBounded DEF RowsTyped
<1>5. DialogTyped /\ [Dialog!Next]_Dialog!vars => DialogTyped'
  BY Dialog!NextIInv, DialogBounded DEF DialogTyped
<1>6. FormTyped /\ [Form!Next]_Form!vars => FormTyped'
  BY NextForm, FormBounded DEF FormTyped
<1>7. CardTyped /\ [Card!Next]_Card!vars => CardTyped'
  BY NextCard, NextDays, CardBounded DEF CardTyped
<1>8. AccountTyped /\ [Accounts!Next]_Accounts!vars => AccountTyped'
  BY NextAccount, AccountBounded DEF AccountTyped
<1>9. GroupTyped /\ [Groups!Next]_Groups!vars => GroupTyped'
  BY Groups!NextLedger, GroupBounded DEF GroupTyped
<1>10. PayeeTyped /\ [Payees!Next]_Payees!vars => PayeeTyped'
  BY NextPayee, PayeeBounded DEF PayeeTyped
<1>11. RuleTyped /\ [Rules!Next]_Rules!vars => RuleTyped'
  BY NextRule, RuleBounded DEF RuleTyped
<1>12. CategoryTyped /\ [Categories!Next]_Categories!vars => CategoryTyped'
  BY NextCategory, CategoryBounded DEF CategoryTyped
<1>13. ChatTyped /\ [Chat!Next]_Chat!vars => ChatTyped'
  BY NextChat, ChatBounded DEF ChatTyped
<1>14. FileTyped /\ [Files!Next]_Files!vars => FileTyped'
  BY NextFiles, FileBounded DEF FileTyped
<1>15. PlanTyped /\ [Planning!Next]_Planning!vars => PlanTyped'
  BY NextPlanLists, PlanBounded DEF PlanTyped
<1>16. SettingsTyped /\ [Settings!Next]_Settings!vars => SettingsTyped'
  BY NextSettings, SettingsBounded DEF SettingsTyped
<1> QED
  BY <1>1, <1>2, <1>3, <1>4, <1>5, <1>6, <1>7, <1>8, <1>9, <1>10, <1>11, <1>12, <1>13, <1>14, <1>15, <1>16

LEMMA TypedIsTypeOK ==
  /\ AssetTyped => Asset!TypeOK
  /\ AssetsTyped => Assets!TypeOK
  /\ ImportTyped => Import!TypeOK
  /\ RowsTyped => Transactions!TypeOK
  /\ DialogTyped => Dialog!TypeOK
  /\ FormTyped => Form!TypeOK
  /\ CardTyped => Card!TypeOK
  /\ AccountTyped => Accounts!TypeOK
  /\ GroupTyped => Groups!TypeOK
  /\ PayeeTyped => Payees!TypeOK
  /\ RuleTyped => Rules!TypeOK
  /\ CategoryTyped => Categories!TypeOK
  /\ ChatTyped => Chat!TypeOK
  /\ FileTyped => Files!TypeOK
  /\ PlanTyped => Planning!TypeOK
  /\ SettingsTyped => Settings!TypeOK
<1>1. AssetTyped => Asset!TypeOK
  BY DEF AssetTyped, AssetInv, AssetShapes, AssetViews, AssetFormCalls, AssetLogs, Bounded, Asset!TypeOK
<1>2. AssetsTyped => Assets!TypeOK
  BY DEF AssetsTyped, AssetsInv, AssetListViews, AssetCalls, CacheRows, ListLogs, Bounded, Assets!TypeOK,
     Assets!Caches
<1>3. ImportTyped => Import!TypeOK
  <2> SUFFICES ASSUME ImportTyped PROVE Import!TypeOK
    OBVIOUS
  <2>1. log.asked \in 0..Import!MaxAsked /\ log \in ImportLogs /\ log.n \in 0..MaxWrites
    BY MaxWritesAssumption DEF ImportTyped, ImportInv, ImportShapes, ImportTypes, ImportLogs, Bounded, Import!MaxAsked
  <2>2. log \in [n : 0..MaxWrites, asked : 0..Import!MaxAsked, left : BOOLEAN]
    BY <2>1 DEF ImportLogs
  <2> QED
    BY <2>2 DEF ImportTyped, ImportInv, ImportShapes, ImportViews, ImportFiles, ImportFresh, ImportTypes, ImportSent,
       CacheRows, Import!TypeOK, Import!Caches
<1>4. RowsTyped => Transactions!TypeOK
  BY DEF RowsTyped, RowsInv, RowViews, RowTypes, RowLogs, Bounded, Transactions!TypeOK
<1>5. DialogTyped => Dialog!TypeOK
  BY DEF DialogTyped, Dialog!IInv, Dialog!Shapes, Dialog!Views, Dialog!Calls, Dialog!Kinds, Dialog!Targets,
     Dialog!Logs, Bounded, Dialog!TypeOK
<1>6. FormTyped => Form!TypeOK
  <2> SUFFICES ASSUME FormTyped PROVE Form!TypeOK
    OBVIOUS
  <2>1. ui \in FormViews /\ q \in FormRows /\ net \subseteq FormCalls /\ log \in FormLogs /\ Bounded
    BY DEF FormTyped, FormInv, FormShapes, FormTypes
  <2>2. q.stored \in [Form!Entries -> 0..MaxWrites]
    <3>1. \A e \in Form!Entries : q.stored[e] \in 0..MaxWrites
      <4> SUFFICES ASSUME NEW e \in Form!Entries PROVE q.stored[e] \in 0..MaxWrites
        OBVIOUS
      <4>1. q.stored[e] \in Nat /\ q.stored[e] <= log.n /\ log.n \in 0..MaxWrites
        BY <2>1 DEF FormTyped, FormTypes, FormRows, Bounded
      <4> QED
        BY <4>1, MaxWritesAssumption
    <3> QED
      BY <2>1, <3>1 DEF FormRows
  <2>3. q \in [stored : [Form!Entries -> 0..MaxWrites], hidden : BOOLEAN, split : BOOLEAN]
    BY <2>1, <2>2 DEF FormRows
  <2>4. log \in [n : 0..MaxWrites, partial : BOOLEAN, want : BOOLEAN, old : BOOLEAN, cleared : BOOLEAN]
    BY <2>1 DEF FormLogs, Bounded
  <2> QED
    BY <2>1, <2>3, <2>4 DEF FormViews, FormCalls, Form!TypeOK
<1>7. CardTyped => Card!TypeOK
  <2> SUFFICES ASSUME CardTyped PROVE Card!TypeOK
    OBVIOUS
  <2>1. PICK S : ui \in WindowViews(S)
    BY DEF CardTyped, CardInv, IsWindowView
  <2>2. PICK T : log \in WindowLogs(T)
    BY DEF CardTyped, CardInv, IsWindowLog
  <2>3. ui.set \in Card!Settings /\ ui.dueOn \in Card!Feeds /\ ui.from \in Card!Calendar /\ ui.to \in Card!Calendar
    BY DEF CardTyped, DaysInv, OpensInv, InCalendar
  <2>4. ui \in [account : BOOLEAN, set : Card!Settings, dueOn : Card!Feeds, touched : BOOLEAN,
                from : Card!Calendar, to : Card!Calendar]
    BY <2>1, <2>3 DEF WindowViews
  <2>5. log.chosen \subseteq [from : Card!Calendar, to : Card!Calendar]
    BY <2>3 DEF CardTyped, CardInv, Stays
  <2>6. log \in [n : 0..MaxWrites, chosen : SUBSET [from : Card!Calendar, to : Card!Calendar], landed : BOOLEAN]
    BY <2>2, <2>5 DEF WindowLogs, CardTyped, CardTypes, Bounded
  <2>7. q \in [card : BOOLEAN, set : Card!Settings, dueOn : Card!Feeds, today : Card!Calendar,
               long : {Card!March(9), Card!None}]
    <3>1. 91..121 \subseteq Card!Calendar
      BY Calendar DEF Card!Calendar
    <3> QED
      BY <3>1 DEF CardTyped, DaysInv, OpensInv, CardRows
  <2> QED
    BY <2>4, <2>6, <2>7 DEF CardTyped, CardTypes, Card!TypeOK
<1>8. AccountTyped => Accounts!TypeOK
  BY DEF AccountTyped, AccountInv, AccountShapes, AccountViews, AccountDialogs, AccountStorage, AccountCalls,
     AccountKinds, Bounded, Accounts!TypeOK
<1>9. GroupTyped => Groups!TypeOK
  BY DEF GroupTyped, Groups!Ledger, Groups!IInv, Groups!Shapes, Groups!Views, Groups!Calls, Groups!Logs, Owes,
     Bounded, Groups!TypeOK
<1>10. PayeeTyped => Payees!TypeOK
  BY DEF PayeeTyped, PayeeInv, PayeeShapes, PayeeViews, PayeeServers, PayeeCalls, PayeeLogs, Bounded, Payees!TypeOK
<1>11. RuleTyped => Rules!TypeOK
  BY DEF RuleTyped, RuleInv, RuleShapes, RuleViews, RuleCalls, RuleTypes, Rules!TypeOK
<1>12. CategoryTyped => Categories!TypeOK
  BY DEF CategoryTyped, CategoryInv, CategoryShapes, CategoryViews, CategoryRows, CategoryCalls, Bounded,
     Categories!TypeOK
<1>13. ChatTyped => Chat!TypeOK
  <2> SUFFICES ASSUME ChatTyped PROVE Chat!TypeOK
    OBVIOUS
  <2>1. ui \in ChatViews /\ q \in ChatStores /\ net \subseteq ChatTurns \cup ChatApplies /\ log \in ChatLogs
    BY DEF ChatTyped, ChatInv, ChatShapes
  <2>2. q.made \in 0..2
    BY <2>1 DEF ChatTyped, ChatTypes, ChatStores
  <2>3. q \in [home : ChatNames, read : BOOLEAN, marks : SUBSET Chat!Cards, made : 0..2]
    BY <2>1, <2>2 DEF ChatStores
  <2>4. ui \in [open : BOOLEAN, conv : ChatNames, streaming : BOOLEAN, draft : 0..MaxWrites, offers : BOOLEAN,
                applied : SUBSET Chat!Cards, busy : SUBSET Chat!Cards]
    BY <2>1 DEF ChatTyped, ChatTypes, ChatViews
  <2>5. net \subseteq [turn : 1..MaxWrites, conv : ChatNames, fresh : BOOLEAN, live : BOOLEAN,
                       st : {"sent", "streaming", "ended"}]
                  \cup [card : Chat!Cards, live : BOOLEAN, st : {"sent", "done"}]
    BY <2>1 DEF ChatTyped, ChatTypes, ChatTurns, ChatApplies
  <2>6. log \in [n : 0..MaxWrites, early : BOOLEAN, tried : SUBSET Chat!Cards, why : SUBSET {"reopened", "lost"}]
    BY <2>1 DEF ChatTyped, ChatTypes, Bounded, ChatLogs
  <2> QED
    BY <2>3, <2>4, <2>5, <2>6 DEF ChatNames, Chat!Turns, Chat!TypeOK
<1>14. FileTyped => Files!TypeOK
  <2> SUFFICES ASSUME FileTyped PROVE Files!TypeOK
    OBVIOUS
  <2>1. q.sent \in 0..MaxWrites
    BY MaxWritesAssumption DEF FileTyped, FileTypes, Bounded
  <2>2. q \in [files : SUBSET Files!Files, listed : SUBSET Files!Files, sent : 0..MaxWrites, fetch : BOOLEAN]
    BY <2>1 DEF FileTyped, FileTypes
  <2>3. log \in [n : 0..MaxWrites, failed : BOOLEAN]
    BY DEF FileTyped, FileTypes, FileInv, FileShapes, Bounded
  <2> QED
    BY <2>2, <2>3 DEF FileTyped, FileTypes, FileInv, FileShapes, FileViews, FileNames, Files!TypeOK
<1>15. PlanTyped => Planning!TypeOK
  <2> SUFFICES ASSUME PlanTyped PROVE Planning!TypeOK
    OBVIOUS
  <2>1. net \subseteq [do : Planning!Writes, st : {"sent", "done"},
                       of : [id : Planning!Ids \cup {Planning!New, Planning!None},
                             from : SUBSET (Planning!Ids \cup {Planning!New}), then : BOOLEAN]]
    BY DEF PlanTyped, PlanListsInv, PlanInv, PlanCalls, PlanRows, PlanFroms
  <2>2. log \in [n : 0..MaxWrites, left : BOOLEAN]
    BY DEF PlanTyped, PlanListsInv, ListLogs, Bounded
  <2> QED
    BY <2>1, <2>2 DEF PlanTyped, PlanListsInv, PlanInv, PlanViews, CacheRows, Planning!Caches, Planning!TypeOK
<1>16. SettingsTyped => Settings!TypeOK
  BY DEF SettingsTyped, SettingsInv, SettingsShapes, SettingsViews, SettingsNames, SettingsCalls, SettingsLogs,
     Bounded, Settings!TypeOK
<1> QED
  BY <1>1, <1>2, <1>3, <1>4, <1>5, <1>6, <1>7, <1>8, <1>9, <1>10, <1>11, <1>12, <1>13, <1>14, <1>15, <1>16
-----------------------------------------------------------------------------
(* The invariant of the page that a behaviour is of. *)
Typed ==
  /\ Is("asset") => AssetTyped
  /\ Is("assets") => AssetsTyped
  /\ Is("import") => ImportTyped
  /\ Is("transactions") => RowsTyped
  /\ Is("dialog") => DialogTyped
  /\ Is("form") => FormTyped
  /\ Is("card") => CardTyped
  /\ Is("accounts") => AccountTyped
  /\ Is("groups") => GroupTyped
  /\ Is("payees") => PayeeTyped
  /\ Is("rules") => RuleTyped
  /\ Is("categories") => CategoryTyped
  /\ Is("chat") => ChatTyped
  /\ Is("files") => FileTyped
  /\ Is("planning") => PlanTyped
  /\ Is("settings") => SettingsTyped

(* The state of every page keeps its types: its dialogs, its caches and its requests are *)
(* of their kinds, and its counts, of uploads waiting, of rows stored or of debts paid,  *)
(* in their bounds.                                                                      *)
THEOREM TypeCorrect == Spec => []TypeOK
<1>1. Init => Typed
  BY InitTyped DEF Init, Is, Typed
<1>2. Typed /\ [Next]_vars => Typed'
  <2> SUFFICES ASSUME Typed, [Next]_vars PROVE Typed'
    OBVIOUS
  <2>1. at' = at
    BY DEF Next, vars
  <2>2. /\ Is("asset") => [Asset!Next]_Asset!vars
        /\ Is("assets") => [Assets!Next]_Assets!vars
        /\ Is("import") => [Import!Next]_Import!vars
        /\ Is("transactions") => [Transactions!Next]_Transactions!vars
    BY DEF Next, Is, vars, Asset!vars, Assets!vars, Import!vars, Transactions!vars
  <2>3. /\ Is("dialog") => [Dialog!Next]_Dialog!vars
        /\ Is("form") => [Form!Next]_Form!vars
        /\ Is("card") => [Card!Next]_Card!vars
        /\ Is("accounts") => [Accounts!Next]_Accounts!vars
    BY DEF Next, Is, vars, Dialog!vars, Form!vars, Card!vars, Accounts!vars
  <2>4. /\ Is("groups") => [Groups!Next]_Groups!vars
        /\ Is("payees") => [Payees!Next]_Payees!vars
        /\ Is("rules") => [Rules!Next]_Rules!vars
        /\ Is("categories") => [Categories!Next]_Categories!vars
    BY DEF Next, Is, vars, Groups!vars, Payees!vars, Rules!vars, Categories!vars
  <2>5. /\ Is("chat") => [Chat!Next]_Chat!vars
        /\ Is("files") => [Files!Next]_Files!vars
        /\ Is("planning") => [Planning!Next]_Planning!vars
        /\ Is("settings") => [Settings!Next]_Settings!vars
    BY DEF Next, Is, vars, Chat!vars, Files!vars, Planning!vars, Settings!vars
  <2> QED
    BY <2>1, <2>2, <2>3, <2>4, <2>5, NextTyped DEF Typed, Is
<1>3. Typed => TypeOK
  BY TypedIsTypeOK DEF Typed, TypeOK
<1> QED
  BY <1>1, <1>2, <1>3, PTL DEF Spec
=============================================================================
