-------------------------- MODULE GroupPagesProofs --------------------------
(* LinkedAmountsAgree and NothingOverpaid of GroupPages, for any number of *)
(* writes: whichever way the form of a settlement came to its amount, its  *)
(* payer and its link, and whenever the balances are read and answered.    *)
EXTENDS GroupPages, TLAPS

Views == [group : BOOLEAN, owner : BOOLEAN, over : Overs \cup {None}, there : BOOLEAN,
          amount : Amounts \cup {0}, mode : {"none", "create", "existing"}, tx : Amounts \cup {0}]
Calls == [do : Writes, of : [there : BOOLEAN, amount : Amounts \cup {0}, tx : Amounts \cup {0}],
          st : {"sent", "done"}]
Shapes ==
  /\ ui \in Views /\ net \subseteq Calls
  /\ q \in [debt : Int, paid : Int, line : Int, fetch : {"none", "clean", "dirty"}]

(* LinkedAmountsAgree speaks of calls only. In the form a transaction stays *)
(* only with its amount and its kind of link, and no longer than the form.  *)
LinkFits(v) == v.tx # 0 => v.over = "settle" /\ v.mode = "existing" /\ v.amount = v.tx

IInv == Shapes /\ LinkFits(ui) /\ LinkedAmountsAgree
-----------------------------------------------------------------------------
LEMMA InitIInv == Init => IInv
BY DEF Init, IInv, Shapes, Views, Calls, LinkFits, LinkedAmountsAgree, Overs, Amounts, None

(* Without a form no transaction is linked. *)
LEMMA ShutFits ==
  ASSUME NEW v \in Views
  PROVE  Shut(v) \in Views /\ LinkFits(Shut(v))
<1>1. Shut(v) \in Views
  BY DEF Views, Shut
<1>2. Shut(v).tx = 0
  BY DEF Views, Shut
<1> QED
  BY <1>1, <1>2 DEF LinkFits

(* Steps that send nothing keep everything if they keep the form. *)
LEMMA NoCall ==
  ASSUME IInv, ui' \in Views, LinkFits(ui)', net' \subseteq net, UNCHANGED q
  PROVE  IInv'
BY DEF IInv, Shapes, LinkedAmountsAgree

LEMMA ChangeKeeps ==
  ASSUME IInv, NEW v \in Views, LinkFits(v), Changes(v) \/ ByHand(v)
  PROVE  IInv'
<1>1. ui' = v /\ UNCHANGED <<q, net>>
  BY DEF Changes, ByHand
<1> QED
  BY <1>1, NoCall DEF LinkFits

(* A write that links nothing, or what the form does. *)
LEMMA WriteKeeps ==
  ASSUME IInv, NEW do \in Writes, NEW of, Write(do, of),
         of \in [there : BOOLEAN, amount : Amounts \cup {0}, tx : Amounts \cup {0}],
         of.tx # 0 => of.amount = of.tx
  PROVE  IInv'
<1> DEFINE c == Sent(do, of)
<1>1. c \in Calls /\ c.of = of
  BY DEF Sent, Calls
<1>2. net' = net \cup {c} /\ ui' = ui /\ q' = q
  BY DEF Write
<1> HIDE DEF c
<1>3. Shapes' /\ LinkFits(ui)'
  BY <1>1, <1>2 DEF IInv, Shapes, LinkFits
<1>4. LinkedAmountsAgree'
  BY <1>1, <1>2 DEF IInv, LinkedAmountsAgree
<1> QED
  BY <1>3, <1>4 DEF IInv

LEMMA NothingLinked ==
  /\ Nothing \in [there : BOOLEAN, amount : Amounts \cup {0}, tx : Amounts \cup {0}]
  /\ Nothing.tx = 0
BY DEF Nothing

(* What the form sends agrees if the form does. *)
LEMMA SaveKeeps == IInv /\ Save => IInv'
<1> SUFFICES ASSUME IInv, Save PROVE IInv'
  OBVIOUS
<1>1. Of \in [there : BOOLEAN, amount : Amounts \cup {0}, tx : Amounts \cup {0}]
  BY DEF IInv, Shapes, Views, Of
<1>2. Of.tx # 0 => Of.amount = Of.tx
  BY DEF IInv, LinkFits, Of
<1> QED
  BY <1>1, <1>2, WriteKeeps DEF Save, Writes

(* The server's steps and the fetches leave the form, and every call its amounts. *)
LEMMA ServeKeeps ==
  ASSUME IInv, NEW c \in net, Serve(c)
  PROVE  IInv'
<1> DEFINE d == [c EXCEPT !.st = "done"]
<1>1. c \in Calls
  BY DEF IInv, Shapes
<1>2. d \in Calls /\ d.do = c.do /\ d.of = c.of
  BY <1>1 DEF Calls
<1>3. net' = (net \ {c}) \cup {d} /\ ui' = ui
  BY DEF Serve, Served
<1>4. q' \in [debt : Int, paid : Int, line : Int, fetch : {"none", "clean", "dirty"}]
  <2> DEFINE paid == IF c.do = "unsettle" THEN (IF q.paid = 0 THEN 0 ELSE -1)
                     ELSE IF c.of.there THEN c.of.amount ELSE 0 - c.of.amount
             v == [q EXCEPT !.debt = @ - paid, !.paid = @ + paid]
  <2>1. paid \in Int
    BY <1>1 DEF Calls, Amounts
  <2>2. q' = Dirty(v)
    BY DEF Serve
  <2> HIDE DEF paid
  <2>3. q.debt - paid \in Int /\ q.paid + paid \in Int
    BY <2>1 DEF IInv, Shapes
  <2>4. v \in [debt : Int, paid : Int, line : Int, fetch : {"none", "clean", "dirty"}]
    BY <2>3 DEF IInv, Shapes
  <2> HIDE DEF v
  <2> QED
    BY <2>2, <2>4 DEF Dirty
<1> HIDE DEF d
<1>5. LinkedAmountsAgree'
  BY <1>2, <1>3 DEF IInv, LinkedAmountsAgree
<1> QED
  BY <1>2, <1>3, <1>4, <1>5 DEF IInv, Shapes, LinkFits

LEMMA BalanceKeeps ==
  ASSUME IInv, UNCHANGED <<ui, net>>,
         q' \in [debt : Int, paid : Int, line : Int, fetch : {"none", "clean", "dirty"}]
  PROVE  IInv'
BY DEF IInv, Shapes, LinkFits, LinkedAmountsAgree

LEMMA AnswerKeeps ==
  ASSUME IInv, NEW c \in net, Answer(c)
  PROVE  IInv'
<1>1. ui \in Views /\ LinkFits(ui)
  BY DEF IInv, Shapes
<1>2. ui' \in Views /\ LinkFits(ui)'
  BY <1>1, ShutFits DEF Answer, LinkFits
<1>3. q' \in [debt : Int, paid : Int, line : Int, fetch : {"none", "clean", "dirty"}]
  BY DEF Answer, Refetches, IInv, Shapes
<1>4. net' \subseteq net
  BY DEF Answer
<1> QED
  BY <1>2, <1>3, <1>4 DEF IInv, Shapes, LinkedAmountsAgree
-----------------------------------------------------------------------------
LEMMA NextIInv == IInv /\ [Next]_vars => IInv'
<1> SUFFICES ASSUME IInv, [Next]_vars PROVE IInv'
  OBVIOUS
<1>0. ui \in Views /\ LinkFits(ui)
  BY DEF IInv, Shapes
<1>1. CASE UNCHANGED vars
  BY <1>0, <1>1, NoCall DEF vars, LinkFits
<1>2. CASE Close
  BY <1>0, <1>2, ShutFits, ChangeKeeps DEF Close
<1>3. CASE OpenGroup \/ Leave
  <2>1. PICK group \in BOOLEAN : Changes([ui EXCEPT !.group = group])
    BY <1>3 DEF OpenGroup, Leave
  <2>2. [ui EXCEPT !.group = group] \in Views /\ LinkFits([ui EXCEPT !.group = group])
    BY <1>0 DEF Views, LinkFits
  <2> QED
    BY <2>1, <2>2, ChangeKeeps
<1>4. CASE AddGroup \/ EditGroup \/ AskDelete \/ AddMember \/ EditMember \/ SettleUp
           \/ \E edited \in BOOLEAN : ReturnToEdit(edited)
  <2>1. PICK over \in Overs : Changes([ui EXCEPT !.over = over])
    BY <1>4 DEF AddGroup, EditGroup, AskDelete, AddMember, EditMember, SettleUp, ReturnToEdit, Overs
  <2>2. ui.over # "settle"
    BY <1>4 DEF AddGroup, EditGroup, AskDelete, AddMember, EditMember, SettleUp, ReturnToEdit, Members,
       Page, In, None
  <2>3. [ui EXCEPT !.over = over] \in Views /\ LinkFits([ui EXCEPT !.over = over])
    BY <1>0, <2>2 DEF Views, LinkFits
  <2> QED
    BY <2>1, <2>3, ChangeKeeps
<1>5. CASE SaveGroup \/ Archive \/ DeleteGroup \/ SaveMember \/ DeleteMember \/ Unsettle
  BY <1>5, NothingLinked, WriteKeeps
     DEF SaveGroup, Archive, DeleteGroup, SaveMember, DeleteMember, Unsettle, Writes
<1>6. CASE SettleLine
  <2> DEFINE v == [ui EXCEPT !.over = "settle", !.there = q.line > 0,
                          !.amount = IF q.line \in {1, -1} THEN 1 ELSE 2]
  <2>1. ui.tx = 0
    BY <1>0, <1>6 DEF SettleLine, Page, LinkFits, None
  <2>2. (q.line > 0) \in BOOLEAN
    BY DEF IInv, Shapes
  <2>3. "settle" \in Overs /\ (IF q.line \in {1, -1} THEN 1 ELSE 2) \in Amounts
    BY DEF Overs, Amounts
  <2>4. v \in Views
    BY <1>0, <2>2, <2>3 DEF Views
  <2>6. v.tx = 0
    BY <1>0, <2>1 DEF Views
  <2>5. ui' = v /\ UNCHANGED <<q, net>>
    BY <1>6 DEF SettleLine
  <2> HIDE DEF v
  <2> QED
    BY <2>4, <2>5, <2>6, NoCall DEF LinkFits
<1>7. CASE Turn
  <2> DEFINE v == [ui EXCEPT !.there = ~@, !.mode = "none", !.tx = 0]
  <2>1. v \in Views
    BY <1>0 DEF Views
  <2>2. v.tx = 0
    BY <1>0 DEF Views
  <2>3. ByHand(v)
    BY <1>7 DEF Turn
  <2> HIDE DEF v
  <2> QED
    BY <2>1, <2>2, <2>3, ChangeKeeps DEF LinkFits
<1>8. ASSUME NEW a \in Amounts, TypeAmount(a) PROVE IInv'
  <2>1. [ui EXCEPT !.amount = a] \in Views /\ LinkFits([ui EXCEPT !.amount = a])
    BY <1>0, <1>8 DEF Views, LinkFits, TypeAmount
  <2> QED
    BY <1>8, <2>1, ChangeKeeps DEF TypeAmount
<1>9. ASSUME NEW a \in Amounts, PickTransaction(a) PROVE IInv'
  <2> DEFINE v == [ui EXCEPT !.tx = a, !.amount = a]
  <2>1. v \in Views
    BY <1>0 DEF Views
  <2>2. ui.over = "settle" /\ ui.mode = "existing"
    BY <1>9 DEF PickTransaction, ByHand, In
  <2>3. v.over = "settle" /\ v.mode = "existing" /\ v.amount = v.tx
    BY <1>0, <2>2 DEF Views
  <2>4. ByHand(v)
    BY <1>9 DEF PickTransaction
  <2> HIDE DEF v
  <2> QED
    BY <2>1, <2>3, <2>4, ChangeKeeps DEF LinkFits
<1>10. ASSUME NEW mode \in {"none", "create", "existing"}, SetMode(mode) PROVE IInv'
  <2> DEFINE v == [ui EXCEPT !.mode = mode, !.tx = 0]
  <2>1. v \in Views
    BY <1>0 DEF Views
  <2>2. v.tx = 0
    BY <1>0 DEF Views
  <2>3. Changes(v)
    BY <1>10 DEF SetMode
  <2> HIDE DEF v
  <2> QED
    BY <2>1, <2>2, <2>3, ChangeKeeps DEF LinkFits
<1>11. CASE Save
  BY <1>11, SaveKeeps
<1>12. CASE OtherSettles
  <2> DEFINE v == [q EXCEPT !.debt = 0, !.paid = @ + 1]
  <2>0. q.paid + 1 \in Int /\ 0 \in Int
    BY DEF IInv, Shapes
  <2>1. v \in [debt : Int, paid : Int, line : Int, fetch : {"none", "clean", "dirty"}]
    BY <2>0 DEF IInv, Shapes
  <2>3. q' = Dirty(v)
    BY <1>12 DEF OtherSettles
  <2> HIDE DEF v
  <2>2. q' \in [debt : Int, paid : Int, line : Int, fetch : {"none", "clean", "dirty"}]
    BY <2>1, <2>3 DEF Dirty
  <2> QED
    BY <1>12, <2>2, BalanceKeeps DEF OtherSettles
<1>13. CASE Fetch
  BY <1>13, BalanceKeeps DEF Fetch, IInv, Shapes
<1>14. CASE Fetched_
  <2>1. PICK line \in {q.debt} \cup (IF q.fetch = "dirty" THEN {q.line} ELSE {}) :
          q' = [q EXCEPT !.line = line, !.fetch = "none"]
    BY <1>14 DEF Fetched_
  <2>2. q' = [debt |-> q.debt, paid |-> q.paid, line |-> line, fetch |-> "none"] /\ line \in Int
    BY <2>1 DEF IInv, Shapes
  <2>3. q' \in [debt : Int, paid : Int, line : Int, fetch : {"none", "clean", "dirty"}]
    BY <2>2 DEF IInv, Shapes
  <2> QED
    BY <1>14, <2>3, BalanceKeeps DEF Fetched_
<1>15. ASSUME NEW c \in net, Serve(c) \/ Answer(c) \/ Fail(c) PROVE IInv'
  <2>1. CASE Fail(c)
    BY <1>0, <2>1, NoCall DEF Fail, LinkFits
  <2> QED
    BY <1>15, <2>1, ServeKeeps, AnswerKeeps
<1> QED
  BY <1>1, <1>2, <1>3, <1>4, <1>5, <1>6, <1>7, <1>8, <1>9, <1>10, <1>11, <1>12, <1>13, <1>14, <1>15 DEF Next

(* A settlement that links a transaction is of its amount: group-detail.tsx  *)
(* sets the amount when one is picked, locks it, and lets the transaction go *)
(* when the payer or the kind of link changes and when the form closes.      *)
THEOREM LinksAgree == Spec => []LinkedAmountsAgree
<1>1. IInv => LinkedAmountsAgree
  BY DEF IInv
<1> QED
  BY InitIInv, NextIInv, <1>1, PTL DEF Spec
-----------------------------------------------------------------------------
Logs == [n : Nat, why : SUBSET {"byHand", "early", "other", "lost"}]

(* A payment, or one taken back, that was served and not yet answered.       *)
Answering(calls) == \E c \in calls : c.do \in {"settle", "unsettle"} /\ c.st = "done"
SettledNow(calls) == \E c \in calls : c.do = "settle" /\ c.st = "done"

(* As long as nothing excuses the page the debt is open or paid, the line   *)
(* says which once all is answered and fetched, at most one payment is on   *)
(* its way, of the debt, and the form of a line, if it still offers that    *)
(* payment, offers it while the debt is open or until its answer closes it. *)
Balances(v, calls) ==
  /\ v.debt \in {0, 1} /\ v.paid = 1 - v.debt /\ v.line \in {0, 1}
  /\ v.fetch = "none" /\ ~Answering(calls) => v.line = v.debt
  /\ v.fetch = "dirty" => Answering(calls)
OnePayment(v, calls) ==
  /\ \A c, d \in calls : c.do = "settle" /\ d.do = "settle" => c = d
  /\ \A c \in calls : c.do = "settle" => c.of.there /\ c.of.amount = 1 /\ (c.st = "sent" => v.debt = 1)
Offered(form, v, calls) ==
  form.amount # 0 => /\ form.over = "settle" /\ form.there /\ form.amount = 1
                     /\ v.debt = 1 \/ SettledNow(calls)

OneDebt == Balances(q, net) /\ OnePayment(q, net) /\ Offered(ui, q, net)
Ledger == IInv /\ log \in Logs /\ (log.why = {} => OneDebt)

LEMMA InitLedger == Init => Ledger
<1> SUFFICES ASSUME Init PROVE Ledger
  OBVIOUS
<1>1. IInv
  BY InitIInv
<1>2. log \in Logs
  BY DEF Init, Logs
<1>3. ui.amount = 0 /\ net = {}
  BY DEF Init
<1>4. q.debt = 1 /\ q.paid = 0 /\ q.line = 1 /\ q.fetch = "none"
  BY DEF Init
<1> QED
  BY <1>1, <1>2, <1>3, <1>4 DEF Ledger, OneDebt, Balances, OnePayment, Offered, Answering, SettledNow

(* The form is closed, or offers what it offered. *)
LEMMA FormKeeps ==
  ASSUME Ledger, IInv', net' = net, q' = q, log' = log,
         ui'.amount = 0 \/ (ui'.amount = ui.amount /\ ui'.over = ui.over /\ ui'.there = ui.there)
  PROVE  Ledger'
BY DEF Ledger, OneDebt, Offered

(* By hand nothing is promised any more. *)
LEMMA ExcusedKeeps ==
  ASSUME Ledger, IInv', NEW w \in {"byHand", "early", "other", "lost"}, log' \in Logs, w \in log'.why
  PROVE  Ledger'
BY DEF Ledger

LEMMA ByHandKeeps ==
  ASSUME Ledger, IInv', NEW v, ByHand(v)
  PROVE  Ledger'
<1>1. log' = [log EXCEPT !.why = log.why \cup {"byHand"}]
  BY DEF ByHand
<1>2. log' \in Logs /\ "byHand" \in log'.why
  BY <1>1 DEF Ledger, Logs
<1> QED
  BY <1>2, ExcusedKeeps

(* Buttons that open, close or edit a form other than by hand. *)
LEMMA FormsKeep ==
  ASSUME Ledger, IInv',
         \/ Close \/ OpenGroup \/ Leave \/ AddGroup \/ EditGroup \/ AskDelete \/ AddMember \/ EditMember
         \/ SettleUp
         \/ \E edited \in BOOLEAN : ReturnToEdit(edited)
         \/ \E mode \in {"none", "create", "existing"} : SetMode(mode)
  PROVE  Ledger'
<1>0. ui \in Views
  BY DEF Ledger, IInv, Shapes
<1>1. net' = net /\ q' = q /\ log' = log
  BY DEF Close, OpenGroup, Leave, AddGroup, EditGroup, AskDelete, AddMember, EditMember, SettleUp,
     ReturnToEdit,
         SetMode, Changes
<1>2. CASE Close
  <2>1. ui'.amount = 0
    BY <1>0, <1>2 DEF Close, Changes, Shut, Views
  <2> QED
    BY <1>1, <2>1, FormKeeps
<1>3. CASE OpenGroup \/ Leave
  <2>1. ui'.amount = ui.amount /\ ui'.over = ui.over /\ ui'.there = ui.there
    BY <1>0, <1>3 DEF OpenGroup, Leave, Changes, Views
  <2> QED
    BY <1>1, <2>1, FormKeeps
<1>4. CASE AddGroup \/ EditGroup \/ AskDelete \/ AddMember \/ EditMember \/ SettleUp
           \/ \E edited \in BOOLEAN : ReturnToEdit(edited)
  <2>1. ui'.amount = ui.amount
    BY <1>0, <1>4 DEF AddGroup, EditGroup, AskDelete, AddMember, EditMember, SettleUp, ReturnToEdit,
       Changes, Views
  <2>2. ui.over # "settle"
    BY <1>4 DEF AddGroup, EditGroup, AskDelete, AddMember, EditMember, SettleUp, ReturnToEdit, Members,
       Page, In, None
  <2>3. log.why = {} => ui.amount = 0
    BY <2>2 DEF Ledger, OneDebt, Offered
  <2> QED
    BY <1>1, <2>1, <2>3 DEF Ledger, OneDebt, Offered
<1>5. ASSUME NEW mode \in {"none", "create", "existing"}, SetMode(mode) PROVE Ledger'
  <2>1. ui'.amount = ui.amount /\ ui'.over = ui.over /\ ui'.there = ui.there
    BY <1>0, <1>5 DEF SetMode, Changes, Views
  <2> QED
    BY <1>1, <2>1, FormKeeps
<1> QED
  BY <1>2, <1>3, <1>4, <1>5

(* A line is offered for the debt it shows only when all is answered and fetched. *)
LEMMA LineKeeps ==
  ASSUME Ledger, IInv', SettleLine
  PROVE  Ledger'
<1>0. ui \in Views /\ log \in Logs
  BY DEF Ledger, IInv, Shapes
<1>1. q' = q /\ net' = net /\ q.line # 0
  BY DEF SettleLine
<1>2. CASE Quiet
  <2>1. log' = log
    BY <1>2 DEF SettleLine
  <2>2. ASSUME OneDebt PROVE OneDebt'
    <3>1. q.line = 1 /\ q.debt = 1
      BY <1>1, <1>2, <2>2 DEF OneDebt, Balances, Quiet, Answering
    <3>2. (q.line > 0) = TRUE /\ (IF q.line \in {1, -1} THEN 1 ELSE 2) = 1
      BY <3>1
    <3>3. ui'.over = "settle" /\ ui'.there /\ ui'.amount = 1
      BY <1>0, <3>2 DEF Views, SettleLine
    <3> QED
      BY <1>1, <2>2, <3>1, <3>3 DEF OneDebt, Offered
  <2> QED
    BY <2>1, <2>2 DEF Ledger
<1>3. CASE ~Quiet
  <2>1. log' = [log EXCEPT !.why = log.why \cup {"early"}]
    BY <1>3 DEF SettleLine
  <2>2. log' \in Logs /\ "early" \in log'.why
    BY <1>0, <2>1 DEF Logs
  <2> QED
    BY <2>2, ExcusedKeeps
<1> QED
  BY <1>2, <1>3

(* What is sent besides the form's payment does not pay. *)
LEMMA SendKeeps ==
  ASSUME Ledger, IInv', NEW do \in Writes, NEW of, Write(do, of),
         do = "settle" => /\ ~Pending(net, {"settle"})
                          /\ log.why = {} => of.there /\ of.amount = 1 /\ q.debt = 1
  PROVE  Ledger'
<1> DEFINE c == Sent(do, of)
<1>1. c.do = do /\ c.of = of /\ c.st = "sent"
  BY DEF Sent
<1>2. ui' = ui /\ q' = q /\ net' = net \cup {c} /\ log' = [log EXCEPT !.n = @ + 1]
  BY DEF Write
<1> HIDE DEF c
<1>3. log.n + 1 \in Nat
  BY DEF Ledger, Logs
<1>4. log' \in Logs /\ log'.why = log.why
  BY <1>2, <1>3 DEF Ledger, Logs
<1>5. Answering(net') <=> Answering(net)
  BY <1>1, <1>2 DEF Answering
<1>6. SettledNow(net') <=> SettledNow(net)
  BY <1>1, <1>2 DEF SettledNow
<1>7. log.why = {} /\ OnePayment(q, net) => OnePayment(q, net')
  BY <1>1, <1>2 DEF OnePayment, Pending
<1> QED
  BY <1>2, <1>4, <1>5, <1>6, <1>7 DEF Ledger, OneDebt, Balances, Offered

LEMMA SendsKeep ==
  ASSUME Ledger, IInv',
         Save \/ SaveGroup \/ Archive \/ DeleteGroup \/ SaveMember \/ DeleteMember \/ Unsettle
  PROVE  Ledger'
<1>1. CASE Save
  <2>1. ui.amount # 0 /\ ~Pending(net, {"settle"}) /\ Write("settle", Of)
    BY <1>1 DEF Save
  <2>2. log.why = {} => Of.there /\ Of.amount = 1 /\ q.debt = 1
    BY <2>1 DEF Ledger, OneDebt, Offered, Of, Pending, SettledNow
  <2> QED
    BY <2>1, <2>2, SendKeeps DEF Writes
<1>2. CASE SaveGroup \/ Archive \/ DeleteGroup \/ SaveMember \/ DeleteMember \/ Unsettle
  <2>1. PICK do \in Writes \ {"settle"} : Write(do, Nothing)
    BY <1>2 DEF SaveGroup, Archive, DeleteGroup, SaveMember, DeleteMember, Unsettle, Writes
  <2> QED
    BY <2>1, SendKeeps
<1> QED
  BY <1>1, <1>2
-----------------------------------------------------------------------------
Servers == [debt : Int, paid : Int, line : Int, fetch : {"none", "clean", "dirty"}]

LEMMA DirtyFits ==
  ASSUME NEW v \in Servers
  PROVE  /\ Dirty(v) \in Servers /\ Dirty(v).debt = v.debt /\ Dirty(v).paid = v.paid /\ Dirty(v).line = v.line
         /\ Dirty(v).fetch = IF v.fetch = "none" THEN "none" ELSE "dirty"
BY DEF Dirty, Servers

(* The one payment closes the debt; what is taken back opens it again. *)
LEMMA ServedKeeps ==
  ASSUME Ledger, IInv', NEW c \in net, Serve(c)
  PROVE  Ledger'
<1> DEFINE d == [c EXCEPT !.st = "done"]
           paid == IF c.do = "unsettle" THEN (IF q.paid = 0 THEN 0 ELSE -1)
                   ELSE IF c.of.there THEN c.of.amount ELSE 0 - c.of.amount
           v == [q EXCEPT !.debt = @ - paid, !.paid = @ + paid]
<1>0. ui \in Views /\ q \in Servers /\ c \in Calls
  BY DEF Ledger, IInv, Shapes, Servers
<1>1. /\ c.do \in {"settle", "unsettle"} /\ c.st = "sent" /\ ui' = ui /\ log' = log
      /\ net' = (net \ {c}) \cup {d} /\ q' = Dirty(v)
  BY DEF Serve, Served
<1>2. d.do = c.do /\ d.of = c.of /\ d.st = "done"
  BY <1>0 DEF Calls
<1>3. paid \in Int
  BY <1>0 DEF Calls, Amounts
<1> HIDE DEF d
<1>4. v \in Servers /\ v.debt = q.debt - paid /\ v.paid = q.paid + paid /\ v.line = q.line
      /\ v.fetch = q.fetch
  <2> HIDE DEF paid
  <2>1. q.debt - paid \in Int /\ q.paid + paid \in Int
    BY <1>0, <1>3 DEF Servers
  <2> QED
    BY <1>0, <2>1 DEF Servers
<1> HIDE DEF v
<1>5. /\ q'.debt = q.debt - paid /\ q'.paid = q.paid + paid /\ q'.line = q.line
      /\ q'.fetch = IF q.fetch = "none" THEN "none" ELSE "dirty"
  BY <1>1, <1>4, DirtyFits
<1>6. Answering(net')
  BY <1>1, <1>2 DEF Answering
<1>7. ASSUME OneDebt PROVE OneDebt'
  <2>1. q.debt \in {0, 1} /\ q.paid = 1 - q.debt /\ q.line \in {0, 1}
    BY <1>7 DEF OneDebt, Balances
  <2>2. CASE c.do = "settle"
    <3>1. paid = 1 /\ q.debt = 1
      BY <1>1, <1>7, <2>2 DEF OneDebt, OnePayment
    <3>2. q'.debt = 0 /\ q'.paid = 1
      BY <1>5, <2>1, <3>1
    <3>3. Balances(q', net')
      BY <1>5, <1>6, <2>1, <3>2 DEF Balances
    <3>4. OnePayment(q', net')
      BY <1>1, <1>2, <1>7, <2>2 DEF OneDebt, OnePayment
    <3>5. SettledNow(net')
      BY <1>1, <1>2, <2>2 DEF SettledNow
    <3> QED
      BY <1>1, <1>7, <3>3, <3>4, <3>5 DEF OneDebt, Offered
  <2>3. CASE c.do = "unsettle"
    <3>1. q'.debt = 1 /\ q'.paid = 0
      BY <1>5, <2>1, <2>3
    <3>2. Balances(q', net')
      BY <1>5, <1>6, <2>1, <3>1 DEF Balances
    <3>3. OnePayment(q', net')
      BY <1>1, <1>2, <1>7, <2>3, <3>1 DEF OneDebt, OnePayment
    <3> QED
      BY <1>1, <1>7, <3>1, <3>2, <3>3 DEF OneDebt, Offered
  <2> QED
    BY <1>1, <2>2, <2>3
<1> QED
  BY <1>1, <1>7 DEF Ledger

LEMMA OtherKeeps ==
  ASSUME Ledger, IInv', OtherSettles
  PROVE  Ledger'
<1>1. log' = [log EXCEPT !.n = @ + 1, !.why = log.why \cup {"other"}]
  BY DEF OtherSettles
<1>2. log.n + 1 \in Nat
  BY DEF Ledger, Logs
<1>3. log' \in Logs /\ "other" \in log'.why
  BY <1>1, <1>2 DEF Ledger, Logs
<1> QED
  BY <1>3, ExcusedKeeps

(* The balances are read; what is read beside a payment is read again after its answer. *)
LEMMA BalancesRead ==
  ASSUME Ledger, IInv', Fetch \/ Fetched_
  PROVE  Ledger'
<1>0. q \in Servers
  BY DEF Ledger, IInv, Shapes, Servers
<1>1. ui' = ui /\ net' = net /\ log' = log
  BY DEF Fetch, Fetched_
<1>2. CASE Fetch
  <2>1. q'.debt = q.debt /\ q'.paid = q.paid /\ q'.line = q.line /\ q'.fetch = "clean"
    BY <1>0, <1>2 DEF Fetch, Servers
  <2> QED
    BY <1>1, <2>1 DEF Ledger, OneDebt, Balances, OnePayment, Offered
<1>3. CASE Fetched_
  <2>1. PICK line \in {q.debt} \cup (IF q.fetch = "dirty" THEN {q.line} ELSE {}) :
          q' = [q EXCEPT !.line = line, !.fetch = "none"]
    BY <1>3 DEF Fetched_
  <2>2. q'.debt = q.debt /\ q'.paid = q.paid /\ q'.line = line /\ q'.fetch = "none"
    BY <1>0, <2>1 DEF Servers
  <2> QED
    BY <1>1, <2>1, <2>2 DEF Ledger, OneDebt, Balances, OnePayment, Offered
<1> QED
  BY <1>2, <1>3

(* The answer to a payment closes its form and asks for the balances. *)
LEMMA AnsweredKeeps ==
  ASSUME Ledger, IInv', NEW c \in net, Answer(c)
  PROVE  Ledger'
<1>0. ui \in Views /\ q \in Servers /\ c \in Calls
  BY DEF Ledger, IInv, Shapes, Servers
<1>1. /\ net' = net \ {c} /\ log' = log /\ q' = Refetches(c, q)
      /\ ui' = IF ui.over \in Closes(c) THEN Shut(ui) ELSE ui
  BY DEF Answer
<1>2. Shut(ui).amount = 0
  BY <1>0 DEF Shut, Views
<1>3. /\ q'.debt = q.debt /\ q'.paid = q.paid /\ q'.line = q.line
      /\ q'.fetch = IF c.do \in {"settle", "unsettle", "member", "deleteMember"} THEN "clean" ELSE q.fetch
  BY <1>0, <1>1 DEF Refetches, Servers
<1>4. c.do \notin {"settle", "unsettle"} => (Answering(net') <=> Answering(net))
  BY <1>1 DEF Answering
<1>5. c.do # "settle" => (SettledNow(net') <=> SettledNow(net))
  BY <1>1 DEF SettledNow
<1>6. c.do = "settle" => "settle" \in Closes(c)
  BY DEF Closes
<1>7. ASSUME OneDebt PROVE OneDebt'
  <2>1. Balances(q', net')
    BY <1>3, <1>4, <1>7 DEF OneDebt, Balances
  <2>2. OnePayment(q', net')
    BY <1>1, <1>3, <1>7 DEF OneDebt, OnePayment
  <2>3. Offered(ui', q', net')
    BY <1>1, <1>2, <1>3, <1>5, <1>6, <1>7 DEF OneDebt, Offered
  <2> QED
    BY <2>1, <2>2, <2>3 DEF OneDebt
<1> QED
  BY <1>1, <1>7 DEF Ledger

LEMMA FailedKeeps ==
  ASSUME Ledger, IInv', NEW c \in net, Fail(c)
  PROVE  Ledger'
<1>0. c \in Calls
  BY DEF Ledger, IInv, Shapes
<1>1. net' = net \ {c} /\ ui' = ui /\ q' = q
  BY DEF Fail
<1>2. CASE c.st = "done"
  <2>1. log' = [log EXCEPT !.why = log.why \cup {"lost"}]
    BY <1>2 DEF Fail
  <2>2. log' \in Logs /\ "lost" \in log'.why
    BY <2>1 DEF Ledger, Logs
  <2> QED
    BY <2>2, ExcusedKeeps
<1>3. CASE c.st # "done"
  <2>1. log' = log
    BY <1>3 DEF Fail
  <2>2. (Answering(net') <=> Answering(net)) /\ (SettledNow(net') <=> SettledNow(net))
    BY <1>1, <1>3 DEF Answering, SettledNow
  <2> QED
    BY <1>1, <2>1, <2>2 DEF Ledger, OneDebt, Balances, OnePayment, Offered
<1> QED
  BY <1>2, <1>3
-----------------------------------------------------------------------------
LEMMA NextLedger == Ledger /\ [Next]_vars => Ledger'
<1> SUFFICES ASSUME Ledger, [Next]_vars PROVE Ledger'
  OBVIOUS
<1>1. IInv'
  BY NextIInv DEF Ledger
<1>2. CASE UNCHANGED vars
  BY <1>1, <1>2, FormKeeps DEF vars
<1>3. CASE Turn \/ \E a \in Amounts : TypeAmount(a) \/ PickTransaction(a)
  <2>1. PICK v : ByHand(v)
    BY <1>3 DEF Turn, TypeAmount, PickTransaction
  <2> QED
    BY <1>1, <2>1, ByHandKeeps
<1> QED
  BY <1>1, <1>2, <1>3, FormsKeep, LineKeeps, SendsKeep, ServedKeeps, OtherKeeps, BalancesRead, AnsweredKeeps,
     FailedKeeps DEF Next

(* A debt that is settled from its line is not paid twice, for any number of *)
(* writes and whenever the balances are fetched: group-detail.tsx takes the  *)
(* line away as the payment is answered, but for the reasons the page names. *)
THEOREM NoDebtOverpaid == Spec => []NothingOverpaid
<1>1. Ledger => NothingOverpaid
  BY DEF Ledger, OneDebt, Balances, NothingOverpaid
<1>2. Spec => []Ledger
  BY InitLedger, NextLedger, PTL DEF Spec
<1> QED
  BY <1>1, <1>2, PTL
=============================================================================
