----------------------------- MODULE GroupPages -----------------------------
(* The pages of the groups that share expenses: the list with its form, and *)
(* one group with its members, what one member owes the owner (one debt is  *)
(* followed) and the settlements that pay it. A line of the balances offers *)
(* its own amount to be settled, and goes only when they are fetched again. *)
EXTENDS Integers, FiniteSets, QueryCache

CONSTANT MaxWrites          \* bound: writes in a behaviour

VARIABLES ui, q, net, log

vars == <<ui, q, net, log>>

None == "none"
Amounts == {1, 2}           \* the debt at the start, and a transaction's
Overs == {"settle", "member", "editMember", "group", "editGroup", "deleteGroup"}
Writes == {"settle", "unsettle", "member", "deleteMember", "createGroup", "editGroup", "deleteGroup"}

(* there: the member pays the owner; amount 0: empty. tx: the transaction linked, by its *)
(* amount. line: the amount a line shows, q.debt: what is owed; paid: settled till now.  *)
TypeOK ==
  /\ ui \in [group : BOOLEAN, owner : BOOLEAN, over : Overs \cup {None}, there : BOOLEAN,
             amount : Amounts \cup {0}, mode : {"none", "create", "existing"}, tx : Amounts \cup {0}]
  /\ q \in [debt : -4..1, paid : 0..4, line : -4..1, fetch : {"none", "clean", "dirty"}]
  /\ net \subseteq [do : Writes, of : [there : BOOLEAN, amount : Amounts \cup {0},
                                       tx : Amounts \cup {0}], st : {"sent", "done"}]
  /\ log \in [n : 0..MaxWrites, why : SUBSET {"byHand", "early", "other", "lost"}]
-----------------------------------------------------------------------------
Nothing == [there |-> FALSE, amount |-> 0, tx |-> 0]

(* owner: the viewer owns the group, or is the member. *)
Init ==
  /\ \E owner \in BOOLEAN :
       ui = [group |-> FALSE, owner |-> owner, over |-> None, there |-> FALSE, amount |-> 0,
             mode |-> "none", tx |-> 0]
  /\ q = [debt |-> 1, paid |-> 0, line |-> 1, fetch |-> "none"] /\ net = {}
  /\ log = [n |-> 0, why |-> {}]

Shut(v) == [v EXCEPT !.over = None, !.there = FALSE, !.amount = 0, !.mode = "none", !.tx = 0]
Changes(v) == ui' = v /\ UNCHANGED <<q, net, log>>
Page(group) == ui.group = group /\ ui.over = None
In(over) == ui.over = over
Write(do, of) ==
  /\ log.n < MaxWrites
  /\ net' = net \cup {Sent(do, of)}
  /\ log' = [log EXCEPT !.n = @ + 1]
  /\ UNCHANGED <<ui, q>>
Close == ui.over \notin {None, "deleteGroup"} /\ Changes(Shut(ui))

(* The list: only the owner of a group edits it; who cancels a deletion is back in the form. *)
OpenGroup == Page(FALSE) /\ Changes([ui EXCEPT !.group = TRUE])
Leave == Page(TRUE) /\ Changes([ui EXCEPT !.group = FALSE])
AddGroup == Page(FALSE) /\ Changes([ui EXCEPT !.over = "group"])
EditGroup == Page(FALSE) /\ ui.owner /\ Changes([ui EXCEPT !.over = "editGroup"])
SaveGroup ==
  /\ ui.over \in {"group", "editGroup"} /\ ~Pending(net, {"createGroup", "editGroup"})
  /\ Write(IF ui.over = "group" THEN "createGroup" ELSE "editGroup", Nothing)
Archive == In("editGroup") /\ Write("editGroup", Nothing)
AskDelete == In("editGroup") /\ ~Pending(net, {"deleteGroup"}) /\ Changes([ui EXCEPT !.over = "deleteGroup"])
ReturnToEdit(edited) ==
  In("deleteGroup") /\ Changes([ui EXCEPT !.over = IF edited THEN "group" ELSE "editGroup"])
DeleteGroup == In("deleteGroup") /\ ~Pending(net, {"deleteGroup"}) /\ Write("deleteGroup", Nothing)

(* Members. *)
Members == Page(TRUE) /\ ui.owner
AddMember == Members /\ Changes([ui EXCEPT !.over = "member"])
EditMember == Members /\ Changes([ui EXCEPT !.over = "editMember"])
SaveMember == ui.over \in {"member", "editMember"} /\ ~Pending(net, {"member"}) /\ Write("member", Nothing)
DeleteMember == In("editMember") /\ ~Pending(net, {"deleteMember"}) /\ Write("deleteMember", Nothing)
-----------------------------------------------------------------------------
(* A line is settled in its own direction, or any two members are, by hand. *)
Quiet == q.fetch = "none" /\ net = {}
SettleLine ==
  /\ Page(TRUE) /\ q.line # 0 /\ (ui.owner \/ q.line > 0)
  /\ ui' = [ui EXCEPT !.over = "settle", !.there = q.line > 0, !.amount = IF q.line \in {1, -1} THEN 1 ELSE 2]
  /\ log' = IF Quiet THEN log ELSE [log EXCEPT !.why = @ \cup {"early"}]
  /\ UNCHANGED <<q, net>>
ByHand(v) ==
  /\ In("settle") /\ ui' = v
  /\ log' = [log EXCEPT !.why = @ \cup {"byHand"}]
  /\ UNCHANGED <<q, net>>
SettleUp == Page(TRUE) /\ ui.owner /\ Changes([ui EXCEPT !.over = "settle"])

(* Who pays can have a transaction made for it, or link one, which then sets the amount. *)
Payer == ui.there # ui.owner
Turn == ByHand([ui EXCEPT !.there = ~@, !.mode = "none", !.tx = 0])
TypeAmount(a) == ui.mode # "existing" /\ ByHand([ui EXCEPT !.amount = a])
SetModeKeeping(mode) ==                                  \* broken: the pick stays
  In("settle") /\ Payer /\ Changes([ui EXCEPT !.mode = mode])
SetMode(mode) == In("settle") /\ Payer /\ Changes([ui EXCEPT !.mode = mode, !.tx = 0])
PickTransaction(a) == Payer /\ ui.mode = "existing" /\ ByHand([ui EXCEPT !.tx = a, !.amount = a])

Of == [there |-> ui.there, amount |-> ui.amount, tx |-> ui.tx]
SaveTwice ==                           \* broken: not off while one is pending
  /\ In("settle") /\ ui.amount # 0 /\ (ui.mode = "existing" => ui.tx # 0) /\ Write("settle", Of)
Save ==
  /\ In("settle") /\ ui.amount # 0 /\ (ui.mode = "existing" => ui.tx # 0) /\ ~Pending(net, {"settle"})
  /\ Write("settle", Of)
Unsettle == Page(TRUE) /\ ui.owner /\ q.paid > 0 /\ Write("unsettle", Nothing)
-----------------------------------------------------------------------------
Dirty(v) == [v EXCEPT !.fetch = IF @ = "none" THEN @ ELSE "dirty"]
Serve(c) ==
  /\ c \in net /\ c.do \in {"settle", "unsettle"} /\ c.st = "sent"
  /\ net' = Served(net, c)
  /\ LET paid == IF c.do = "unsettle" THEN (IF q.paid = 0 THEN 0 ELSE -1)
                 ELSE IF c.of.there THEN c.of.amount ELSE 0 - c.of.amount
     IN /\ q.debt - paid \in -4..1 /\ q.paid + paid \in 0..4
        /\ q' = Dirty([q EXCEPT !.debt = @ - paid, !.paid = @ + paid])
  /\ UNCHANGED <<ui, log>>
(* The member settles it from another browser; nobody checks that it is still owed. *)
OtherSettles ==
  /\ q.debt > 0 /\ log.n < MaxWrites
  /\ q' = Dirty([q EXCEPT !.debt = 0, !.paid = @ + 1])
  /\ log' = [log EXCEPT !.n = @ + 1, !.why = @ \cup {"other"}]
  /\ UNCHANGED <<ui, net>>
Fetch ==
  /\ q.fetch = "none" /\ q.line # q.debt
  /\ q' = [q EXCEPT !.fetch = "clean"] /\ UNCHANGED <<ui, net, log>>
Fetched_ ==
  /\ q.fetch # "none"
  /\ \E line \in {q.debt} \cup (IF q.fetch = "dirty" THEN {q.line} ELSE {}) :
       q' = [q EXCEPT !.line = line, !.fetch = "none"]
  /\ UNCHANGED <<ui, net, log>>

(* What the answer fetches again, and the dialog it closes. *)
Refetches(c, v) ==
  IF c.do \in {"settle", "unsettle", "member", "deleteMember"} THEN [v EXCEPT !.fetch = "clean"] ELSE v
Closes(c) ==
  CASE c.do \in {"createGroup", "editGroup"} -> {"group", "editGroup"}
    [] c.do = "deleteGroup" -> {"group", "editGroup", "deleteGroup"}
    [] c.do \in {"member", "deleteMember"} -> {"member", "editMember"}
    [] OTHER -> {c.do}
Answer(c) ==
  /\ c \in net /\ (c.st = "done" \/ c.do \notin {"settle", "unsettle"})
  /\ net' = net \ {c}
  /\ q' = Refetches(c, q)
  /\ ui' = IF ui.over \in Closes(c) THEN Shut(ui) ELSE ui
  /\ UNCHANGED log
(* A write that failed or whose answer was lost leaves the dialog open. *)
Fail(c) ==
  /\ c \in net
  /\ net' = net \ {c}
  /\ log' = IF c.st = "done" THEN [log EXCEPT !.why = @ \cup {"lost"}] ELSE log
  /\ UNCHANGED <<ui, q>>

Next ==
  \/ Close \/ OpenGroup \/ Leave \/ AddGroup \/ EditGroup \/ SaveGroup \/ Archive \/ AskDelete \/ DeleteGroup
  \/ AddMember \/ EditMember \/ SaveMember \/ DeleteMember \/ SettleLine \/ SettleUp \/ Turn \/ Save
  \/ Unsettle
  \/ OtherSettles \/ Fetch \/ Fetched_
  \/ \E edited \in BOOLEAN : ReturnToEdit(edited)
  \/ \E a \in Amounts : TypeAmount(a) \/ PickTransaction(a)
  \/ \E mode \in {"none", "create", "existing"} : SetMode(mode)
  \/ \E c \in net : Serve(c) \/ Answer(c) \/ Fail(c)

Spec == Init /\ [][Next]_vars
-----------------------------------------------------------------------------
(* A debt settled from its line is not paid twice, as the page takes the line away when   *)
(* the payment is answered; unless the next one is begun before the balances are back, an *)
(* answer is lost, the amount is chosen by hand, or the other one pays meanwhile.         *)
NothingOverpaid == log.why = {} => q.debt >= 0

(* A settlement that links a transaction is of its amount: the form locks it, and the *)
(* transaction goes when the payer or the kind of link changes.                       *)
LinkedAmountsAgree == \A c \in net : c.do = "settle" /\ c.of.tx # 0 => c.of.amount = c.of.tx
=============================================================================
