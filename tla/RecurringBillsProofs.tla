------------------------ MODULE RecurringBillsProofs -------------------------
(* What the matching of recurring bills keeps for any number of sessions, days  *)
(* and user edits, and any bill whose windows stay clear of each other. A week  *)
(* does not: its claims of 5 days reach into the next window of 2 (recurring_   *)
(* week); every longer period of the code does.                                 *)
EXTENDS RecurringBills, TLAPS

(* The windows around two occurrences do not meet, and no claim reaches from *)
(* the window of one occurrence to another occurrence.                       *)
WindowsApart ==
    /\ Before <= Claim /\ After <= Claim
    /\ Before + After < Period /\ Claim + Before < Period /\ Claim + After < Period

(* An occurrence is paid once.                                             *)
OneChargeEach == \A c, d \in Charges : DueOf[c] = DueOf[d] => c = d

OnGrid(d) == d \in Int /\ (d - Start) % Period = 0

(* The occurrence that a row stands for can be told from its id.           *)
BillIds == {i \in Nat \X (Occurrences \cup {NoOccurrence}) \X (Charges \cup {NoCharge}) :
              i[3] = NoCharge => i[2] \in Occurrences}
Stands(i) == IF i[3] = NoCharge THEN i[2] ELSE DueOf[i[3]]

Tables(R) == UNION {[I -> R] : I \in SUBSET BillIds}
Rows == [date : Int, source : {"recurring", "real"},
         linked : BOOLEAN, charge : Charges \cup {NoCharge}, ignored : BOOLEAN,
         due : Occurrences \cup {NoOccurrence}, span : Nat \X Nat]
Changes == [linked : {TRUE}, due : Occurrences] \cup [source : {"real"}, charge : Charges]
States == [pc : {"idle", "due", "bill", "ready"}, begin : Nat, cutoff : Int, next : Int,
           moved : BOOLEAN, charge : Charges \cup {NoCharge},
           add : Tables(Rows), upd : Tables(Changes)]

(* A placeholder keeps its date and occurrence, whatever charge takes it   *)
(* over; a charge keeps its date, and is linked for what it pays.          *)
RowFits(i, r) ==
    /\ r.source = "real" <=> r.charge # NoCharge
    /\ i[3] = NoCharge => /\ r.date = i[2] /\ r.due = i[2]
                          /\ r.charge # NoCharge => DueOf[r.charge] = i[2]
    /\ i[3] # NoCharge => /\ r.charge = i[3] /\ r.date = DateOf[i[3]]
                          /\ r.linked => r.due = DueOf[i[3]]

ChangeFits(i, u) ==
    \/ u = [linked |-> TRUE, due |-> Stands(i)]
    \/ /\ i[3] = NoCharge
       /\ \E c \in Charges : u = [source |-> "real", charge |-> c] /\ DueOf[c] = i[2]

(* A row the user has left alone is visible to every search.               *)
Unspoilt(r) == ~r.ignored /\ (r.charge = NoCharge => r.linked)

(* Everything before the pointer n has a row, or the user had a hand in it. *)
Stood(n, ids, hands) ==
    \A d \in Occurrences : d < n /\ d \notin hands => \E i \in ids : Stands(i) = d

(* Whatever else stands for the occurrence was committed after the session began. *)
Late(st, d, table, hands) ==
    d \notin hands => \A j \in DOMAIN table : Stands(j) = d => st.begin < table[j].span[2]

SessionFits(st, table, hands, now) ==
    /\ st.begin <= now
    /\ st.next >= Start /\ OnGrid(st.next)
    /\ st.pc = "bill" => st.charge # NoCharge /\ Late(st, DueOf[st.charge], table, hands)
    /\ \A i \in DOMAIN st.add : /\ RowFits(i, st.add[i]) /\ Unspoilt(st.add[i])
                                /\ Late(st, Stands(i), table, hands)
    /\ \A i \in DOMAIN st.upd : ChangeFits(i, st.upd[i])
    /\ Stood(st.next, DOMAIN table \cup DOMAIN st.add, hands)

Spanned(r, now) == r.span[1] < r.span[2] /\ r.span[2] <= now

TableFits(table, hands, now) ==
    \A i \in DOMAIN table :
        /\ RowFits(i, table[i]) /\ Spanned(table[i], now)
        /\ Stands(i) \notin hands => Unspoilt(table[i])

(* OnceUnlessOverlapped, told from the ids.                                *)
Once(table, hands) ==
    \A i, j \in DOMAIN table :
        i # j /\ Stands(i) = Stands(j) /\ Stands(i) \notin hands
            => Overlap(table[i].span, table[j].span)

IInv ==
    /\ today \in Int /\ clock \in Nat
    /\ next >= Start /\ OnGrid(next) /\ Stood(next, DOMAIN rows, edited)
    /\ rows \in Tables(Rows) /\ TableFits(rows, edited, clock) /\ Once(rows, edited)
    /\ sess \in [Sessions -> States]
    /\ \A s \in Sessions : SessionFits(sess[s], rows, edited, clock)
-----------------------------------------------------------------------------
(* The grid of occurrences.                                                *)

LEMMA Multiple ==
  ASSUME NEW d \in Int, OnGrid(d)
  PROVE  \E k \in Int : d = Start + k * Period
<1> DEFINE k == (d - Start) \div Period
<1>1. d - Start = Period * k /\ k \in Int
  BY BillAssumption DEF OnGrid
<1> HIDE DEF k
<1>2. d = Start + k * Period
  BY <1>1, BillAssumption
<1> QED
  BY <1>1, <1>2

LEMMA Apart ==
  ASSUME NEW j \in Int, NEW k \in Int, j < k
  PROVE  k * Period - j * Period >= Period
<1>1. (k - j) * Period >= Period
  BY BillAssumption
<1> QED
  BY <1>1, BillAssumption

(* Occurrences less than a period apart are one.                           *)
LEMMA GridApart ==
  ASSUME NEW a \in Int, NEW b \in Int, OnGrid(a), OnGrid(b), a - b < Period, b - a < Period
  PROVE  a = b
<1>1. PICK j \in Int : a = Start + j * Period
  BY Multiple
<1>2. PICK k \in Int : b = Start + k * Period
  BY Multiple
<1>3. ~(j < k) /\ ~(k < j)
  BY <1>1, <1>2, Apart, BillAssumption
<1>4. j = k
  BY <1>3
<1> QED
  BY <1>1, <1>2, <1>4

LEMMA GridNext ==
  ASSUME NEW d \in Int, OnGrid(d)
  PROVE  d + Period \in Int /\ OnGrid(d + Period)
<1>1. PICK k \in Int : d = Start + k * Period
  BY Multiple
<1>2. (d + Period) - Start = (k + 1) * Period
  BY <1>1, BillAssumption
<1>3. ((k + 1) * Period) % Period = 0
  BY BillAssumption
<1> QED
  BY <1>2, <1>3, BillAssumption DEF OnGrid

LEMMA GridStart == Start \in Int /\ OnGrid(Start)
BY BillAssumption DEF OnGrid

LEMMA OccurrencesAre ==
  /\ \A d : d \in Occurrences <=> OnGrid(d) /\ Start <= d /\ d <= End
  /\ NoOccurrence \notin Occurrences
  /\ \A c \in Charges : DueOf[c] \in Occurrences /\ DateOf[c] \in Int
                        /\ DueOf[c] - Before <= DateOf[c] /\ DateOf[c] <= DueOf[c] + After
BY BillAssumption DEF Occurrences, OnGrid, NoOccurrence

(* The charge that fulfils an occurrence moves the pointer by one period.  *)
LEMMA AdvanceIs ==
  ASSUME WindowsApart, NEW due \in Int, NEW date \in Int, InWindow(date, due)
  PROVE  AdvancePast(due, date) = due + Period
<1> DEFINE target == IF date > due THEN date ELSE due
<1>1. target - due \in Int /\ 0 <= target - due /\ target - due < Period
  BY BillAssumption DEF WindowsApart, InWindow
<1>2. (target - due) \div Period = 0
  BY <1>1, BillAssumption
<1>3. AdvancePast(due, date) = due + Period * ((target - due) \div Period + 1)
  BY DEF AdvancePast
<1> HIDE DEF target
<1> QED
  BY <1>2, <1>3, BillAssumption
-----------------------------------------------------------------------------
(* Tables, rows and changes.                                               *)

LEMMA StandsIs ==
  ASSUME NEW i \in BillIds
  PROVE  Stands(i) \in Occurrences
BY OccurrencesAre, BillAssumption DEF BillIds, Stands

LEMMA TableIs ==
  ASSUME NEW R, NEW t \in Tables(R)
  PROVE  DOMAIN t \subseteq BillIds /\ t = [i \in DOMAIN t |-> t[i]]
         /\ \A i \in DOMAIN t : t[i] \in R
BY DEF Tables

LEMMA IsTable ==
  ASSUME NEW R, NEW I \in SUBSET BillIds, NEW t, t = [i \in I |-> t[i]], \A i \in I : t[i] \in R
  PROVE  t \in Tables(R) /\ DOMAIN t = I
<1>1. t \in [I -> R]
  OBVIOUS
<1> QED
  BY <1>1 DEF Tables

LEMMA WithIs ==
  ASSUME NEW R, NEW t \in Tables(R), NEW i \in BillIds, NEW r \in R
  PROVE  /\ With(t, i, r) \in Tables(R)
         /\ DOMAIN With(t, i, r) = DOMAIN t \cup {i}
         /\ With(t, i, r)[i] = r
         /\ \A j \in DOMAIN t : j # i => With(t, i, r)[j] = t[j]
<1> DEFINE w == With(t, i, r)
           I == DOMAIN t \cup {i}
<1>1. w = [j \in I |-> IF j = i THEN r ELSE t[j]]
  BY DEF With
<1>2. I \in SUBSET BillIds /\ \A j \in I : w[j] \in R
  BY <1>1, TableIs
<1>3. w = [j \in I |-> w[j]]
  BY <1>1
<1> HIDE DEF w
<1>4. w \in Tables(R) /\ DOMAIN w = I
  BY <1>2, <1>3, IsTable
<1> QED
  BY <1>1, <1>4 DEF w

LEMMA WithoutIs ==
  ASSUME NEW R, NEW t \in Tables(R), NEW gone
  PROVE  /\ Without(t, gone) \in Tables(R)
         /\ DOMAIN Without(t, gone) = DOMAIN t \ gone
         /\ \A j \in DOMAIN t \ gone : Without(t, gone)[j] = t[j]
<1> DEFINE w == Without(t, gone)
           I == DOMAIN t \ gone
<1>1. w = [j \in I |-> t[j]]
  BY DEF Without
<1>2. I \in SUBSET BillIds /\ \A j \in I : w[j] \in R
  BY <1>1, TableIs
<1>3. w = [j \in I |-> w[j]]
  BY <1>1
<1> HIDE DEF w
<1>4. w \in Tables(R) /\ DOMAIN w = I
  BY <1>2, <1>3, IsTable
<1> QED
  BY <1>1, <1>4 DEF w

(* What a session's change makes of a row, whatever happened to it since.  *)
LEMMA OverlayFits ==
  ASSUME NEW i \in BillIds, NEW r \in Rows, RowFits(i, r), NEW u, ChangeFits(i, u)
  PROVE  /\ Overlay(u, r) \in Rows /\ RowFits(i, Overlay(u, r))
         /\ Overlay(u, r).span = r.span
         /\ Unspoilt(r) => Unspoilt(Overlay(u, r))
<1>0. PICK o : o = Overlay(u, r)
  OBVIOUS
<1>1. CASE u = [linked |-> TRUE, due |-> Stands(i)]
  <2>1. /\ o \in Rows /\ o.date = r.date /\ o.source = r.source /\ o.linked = TRUE
        /\ o.charge = r.charge /\ o.ignored = r.ignored /\ o.due = Stands(i) /\ o.span = r.span
    BY <1>0, <1>1, StandsIs DEF Overlay, Rows
  <2> QED
    BY <1>0, <2>1 DEF RowFits, Unspoilt, Stands
<1>2. CASE /\ i[3] = NoCharge
           /\ \E c \in Charges : u = [source |-> "real", charge |-> c] /\ DueOf[c] = i[2]
  <2>1. PICK c \in Charges : u = [source |-> "real", charge |-> c] /\ DueOf[c] = i[2]
    BY <1>2
  <2>2. /\ o \in Rows /\ o.date = r.date /\ o.source = "real" /\ o.linked = r.linked
        /\ o.charge = c /\ o.ignored = r.ignored /\ o.due = r.due /\ o.span = r.span
    BY <1>0, <2>1 DEF Overlay, Rows
  <2>3. c # NoCharge
    BY BillAssumption
  <2> QED
    BY <1>0, <1>2, <2>1, <2>2, <2>3 DEF RowFits, Unspoilt
<1> QED
  BY <1>1, <1>2 DEF ChangeFits
-----------------------------------------------------------------------------
LEMMA EmptyIs == \A R : <<>> \in Tables(R) /\ DOMAIN <<>> = {}
<1>1. DOMAIN <<>> = {}
  OBVIOUS
<1>2. <<>> = [i \in {} |-> <<>>[i]]
  OBVIOUS
<1> QED
  BY <1>1, <1>2, IsTable

LEMMA IdleFits ==
  /\ Idle \in States
  /\ \A table, hands : \A now \in Nat : SessionFits(Idle, table, hands, now)
<1>1. Idle \in States
  BY EmptyIs, BillAssumption DEF Idle, States
<1>2. ASSUME NEW table, NEW hands, NEW now \in Nat PROVE SessionFits(Idle, table, hands, now)
  <2>1. Stood(Start, DOMAIN table \cup {}, hands)
    BY OccurrencesAre, BillAssumption DEF Stood, OnGrid
  <2> QED
    BY <2>1, EmptyIs, GridStart, BillAssumption DEF Idle, SessionFits
<1> QED
  BY <1>1, <1>2

LEMMA InitIInv == Init => IInv
<1> SUFFICES ASSUME Init PROVE IInv
  OBVIOUS
<1>1. Stood(Start, DOMAIN rows, edited)
  BY OccurrencesAre, BillAssumption DEF Stood, OnGrid
<1>2. rows \in Tables(Rows) /\ TableFits(rows, edited, clock) /\ Once(rows, edited)
  BY EmptyIs DEF Init, TableFits, Once
<1> QED
  BY <1>1, <1>2, IdleFits, GridStart, BillAssumption DEF Init, IInv

(* A session that others leave alone: the rows it has seen may be changed, or *)
(* deleted by the user, and what others commit is late.                       *)
LEMMA SessionStays ==
  ASSUME NEW st \in States, NEW table, NEW after, NEW hands, NEW hands2, NEW now \in Nat, NEW then \in Nat,
         SessionFits(st, table, hands, now), now <= then, hands \subseteq hands2,
         \A j \in DOMAIN table : j \in DOMAIN after \/ Stands(j) \in hands2,
         \A j \in DOMAIN after : \/ after[j].span[2] \in Nat /\ after[j].span[2] > now
                                 \/ j \in DOMAIN table /\ after[j].span = table[j].span
  PROVE  SessionFits(st, after, hands2, then)
<1>1. st.begin \in Nat /\ st.begin <= now
  BY DEF States, SessionFits
<1>2. ASSUME NEW d, Late(st, d, table, hands) PROVE Late(st, d, after, hands2)
  BY <1>1, <1>2 DEF Late
<1>3. Stood(st.next, DOMAIN after \cup DOMAIN st.add, hands2)
  BY DEF SessionFits, Stood
<1> QED
  BY <1>1, <1>2, <1>3 DEF SessionFits

(* A step of one session alone.                                            *)
LEMMA BecomesKeeps ==
  ASSUME IInv, NEW s \in Sessions, NEW st \in States, SessionFits(st, rows, edited, clock), Becomes(s, st)
  PROVE  IInv'
<1>1. sess' \in [Sessions -> States] /\ sess' = [sess EXCEPT ![s] = st]
  BY DEF IInv, Becomes
<1>2. \A t \in Sessions : SessionFits(sess'[t], rows, edited, clock)
  BY <1>1 DEF IInv
<1> QED
  BY <1>1, <1>2 DEF IInv, Becomes, bill

(* A session begins with the state new.                                    *)
LEMMA BeginKeeps ==
  ASSUME IInv, NEW s \in Sessions, NEW new \in States, clock' = clock + 1,
         SessionFits(new, rows, edited, clock'), sess' = [sess EXCEPT ![s] = new],
         UNCHANGED <<today, bill, rows, edited, edits>>
  PROVE  IInv'
<1>1. clock \in Nat /\ clock' \in Nat /\ clock <= clock' /\ today' \in Int
  BY DEF IInv
<1>2. sess' \in [Sessions -> States]
  BY DEF IInv
<1>3. ASSUME NEW t \in Sessions PROVE SessionFits(sess'[t], rows, edited, clock')
  <2>1. CASE t = s
    BY <2>1 DEF IInv
  <2>2. CASE t # s
    <3>1. sess'[t] = sess[t] /\ sess[t] \in States /\ SessionFits(sess[t], rows, edited, clock)
      BY <2>2 DEF IInv
    <3> QED
      BY <1>1, <3>1, SessionStays
  <2> QED
    BY <2>1, <2>2
<1>4. TableFits(rows, edited, clock')
  <2> SUFFICES ASSUME NEW i \in DOMAIN rows PROVE Spanned(rows[i], clock')
    BY DEF IInv, TableFits
  <2>1. rows[i] \in Rows
    BY TableIs DEF IInv
  <2>2. Spanned(rows[i], clock)
    BY DEF IInv, TableFits
  <2> QED
    BY <1>1, <2>1, <2>2 DEF Spanned, Rows
<1> QED
  BY <1>1, <1>2, <1>3, <1>4 DEF IInv, bill
-----------------------------------------------------------------------------
(* The windows: what a search finds for an occurrence stands for it.       *)

LEMMA InWindowIs ==
  ASSUME WindowsApart, NEW i \in BillIds, NEW r \in Rows, RowFits(i, r), NEW due \in Occurrences
  PROVE  InWindow(r.date, due) <=> Stands(i) = due
<1>1. /\ due \in Int /\ OnGrid(due) /\ Stands(i) \in Int /\ OnGrid(Stands(i))
      /\ r.date \in Int
  BY StandsIs, OccurrencesAre DEF OnGrid, Rows
<1>2. Stands(i) - Before <= r.date /\ r.date <= Stands(i) + After
  <2>1. CASE i[3] = NoCharge
    BY <1>1, <2>1, BillAssumption DEF RowFits, Stands
  <2>2. CASE i[3] # NoCharge
    <3>1. i[3] \in Charges /\ r.date = DateOf[i[3]] /\ Stands(i) = DueOf[i[3]]
      BY <2>2 DEF BillIds, RowFits, Stands
    <3> QED
      BY <3>1, OccurrencesAre
  <2> QED
    BY <2>1, <2>2
<1>3. ASSUME InWindow(r.date, due) PROVE Stands(i) = due
  <2>1. Stands(i) - due < Period /\ due - Stands(i) < Period
    BY <1>1, <1>2, <1>3, BillAssumption DEF InWindow, WindowsApart
  <2> QED
    BY <1>1, <2>1, GridApart
<1> QED
  BY <1>2, <1>3 DEF InWindow

LEMMA StoodNext ==
  ASSUME NEW due \in Int, OnGrid(due), NEW ids, NEW ids2, NEW hands, Stood(due, ids, hands), ids \subseteq ids2,
         due \in hands \/ \E i \in ids2 : Stands(i) = due
  PROVE  Stood(due + Period, ids2, hands)
<1> SUFFICES ASSUME NEW d \in Occurrences, d < due + Period, d \notin hands
             PROVE  \E i \in ids2 : Stands(i) = d
  BY DEF Stood
<1>1. d \in Int /\ OnGrid(d)
  BY OccurrencesAre DEF OnGrid
<1>2. d < due \/ d = due
  <2>1. CASE d < due
    BY <2>1
  <2>2. CASE ~(d < due)
    <3>1. d - due < Period /\ due - d < Period
      BY <1>1, <2>2, BillAssumption
    <3> QED
      BY <1>1, <3>1, GridApart
  <2> QED
    BY <2>1, <2>2
<1> QED
  BY <1>2 DEF Stood

(* What a session sees of the table.                                       *)
LEMMA ViewFits ==
  ASSUME IInv, NEW st \in States, SessionFits(st, rows, edited, clock)
  PROVE  /\ DOMAIN View(st) = DOMAIN rows \cup DOMAIN st.add
         /\ \A i \in DOMAIN View(st) :
               /\ i \in BillIds /\ View(st)[i] \in Rows /\ RowFits(i, View(st)[i])
               /\ Stands(i) \notin edited => Unspoilt(View(st)[i])
<1>1. /\ st.add \in Tables(Rows) /\ st.upd \in Tables(Changes)
      /\ rows \in Tables(Rows) /\ TableFits(rows, edited, clock)
  BY DEF IInv, States
<1>2. DOMAIN View(st) = DOMAIN rows \cup DOMAIN st.add
  BY DEF View
<1>3. ASSUME NEW i \in DOMAIN View(st)
      PROVE  /\ i \in BillIds /\ View(st)[i] \in Rows /\ RowFits(i, View(st)[i])
             /\ Stands(i) \notin edited => Unspoilt(View(st)[i])
  <2>1. i \in BillIds
    BY <1>1, <1>2, TableIs
  <2>2. CASE i \in DOMAIN st.add
    <3>1. View(st)[i] = st.add[i]
      BY <1>2, <2>2 DEF View
    <3> QED
      BY <1>1, <2>1, <2>2, <3>1, TableIs DEF SessionFits
  <2>3. CASE i \notin DOMAIN st.add
    <3>1. i \in DOMAIN rows
      BY <1>2, <2>3
    <3>2. rows[i] \in Rows /\ RowFits(i, rows[i]) /\ (Stands(i) \notin edited => Unspoilt(rows[i]))
      BY <1>1, <3>1, TableIs DEF TableFits
    <3>3. CASE i \in DOMAIN st.upd
      <4>1. View(st)[i] = Overlay(st.upd[i], rows[i])
        BY <1>2, <2>3, <3>1, <3>3 DEF View
      <4>2. ChangeFits(i, st.upd[i])
        BY <3>3 DEF SessionFits
      <4> QED
        BY <2>1, <3>2, <4>1, <4>2, OverlayFits
    <3>4. CASE i \notin DOMAIN st.upd
      <4>1. View(st)[i] = rows[i]
        BY <1>2, <2>3, <3>1, <3>4 DEF View
      <4> QED
        BY <2>1, <3>2, <4>1
    <3> QED
      BY <3>3, <3>4
  <2> QED
    BY <2>2, <2>3
<1> QED
  BY <1>2, <1>3

LEMMA SearchFinds ==
  ASSUME WindowsApart, IInv, NEW st \in States, SessionFits(st, rows, edited, clock),
         NEW due \in Occurrences
  PROVE  /\ Covered(View(st), due) => \E i \in DOMAIN View(st) : Stands(i) = due
         /\ \A i \in RealFor(View(st), due) : i \in DOMAIN View(st) /\ Stands(i) = due
         /\ ~Covered(View(st), due) /\ RealFor(View(st), due) = {} /\ due \notin edited
              => \A i \in DOMAIN View(st) : Stands(i) # due
<1> DEFINE V == View(st)
<1>1. \A i \in DOMAIN V : /\ i \in BillIds /\ V[i] \in Rows /\ RowFits(i, V[i])
                          /\ Stands(i) \notin edited => Unspoilt(V[i])
  BY ViewFits
<1> HIDE DEF V
<1>2. \A i \in DOMAIN V : InWindow(V[i].date, due) <=> Stands(i) = due
  BY <1>1, InWindowIs
<1>3. ASSUME ~Covered(V, due), RealFor(V, due) = {}, due \notin edited,
             NEW i \in DOMAIN V, Stands(i) = due
      PROVE  FALSE
  <2>1. InWindow(V[i].date, due) /\ Unspoilt(V[i]) /\ V[i] \in Rows /\ RowFits(i, V[i])
    BY <1>1, <1>2, <1>3
  <2>2. ~V[i].linked
    BY <1>3, <2>1 DEF Covered
  <2>3. V[i].charge # NoCharge /\ ~V[i].ignored
    BY <2>1, <2>2 DEF Unspoilt
  <2>4. V[i].source = "real"
    BY <2>1, <2>3 DEF RowFits
  <2>5. i \in RealFor(V, due)
    BY <2>1, <2>2, <2>3, <2>4 DEF RealFor
  <2> QED
    BY <1>3, <2>5
<1>4. Covered(V, due) => \E i \in DOMAIN V : Stands(i) = due
  BY <1>2 DEF Covered
<1>5. \A i \in RealFor(V, due) : i \in DOMAIN V /\ Stands(i) = due
  BY <1>2 DEF RealFor
<1> QED
  BY <1>3, <1>4, <1>5 DEF V
-----------------------------------------------------------------------------
(* The steps of generation and of the backfill.                            *)

LEMMA StartFits ==
  ASSUME IInv, NEW new \in States, new.pc = "due", new.begin = clock', clock' = clock + 1,
         new.add = <<>>, new.upd = <<>>, new.next \in {Start, next}
  PROVE  SessionFits(new, rows, edited, clock')
<1>1. new.next >= Start /\ OnGrid(new.next)
  BY GridStart, BillAssumption DEF IInv
<1>2. Stood(Start, DOMAIN rows, edited)
  BY OccurrencesAre, BillAssumption DEF Stood, OnGrid
<1>3. Stood(new.next, DOMAIN rows \cup DOMAIN new.add, edited)
  <2>1. Stood(new.next, DOMAIN rows, edited)
    BY <1>2 DEF IInv
  <2> QED
    BY <2>1 DEF Stood
<1>4. DOMAIN new.add = {} /\ DOMAIN new.upd = {}
  BY EmptyIs
<1>5. clock' \in Nat
  BY DEF IInv
<1> QED
  BY <1>1, <1>3, <1>4, <1>5 DEF SessionFits

LEMMA GenerateKeeps ==
  ASSUME IInv, NEW s \in Sessions, GenerateBegin(s)
  PROVE  IInv'
<1>1. PICK new : new = [[Idle EXCEPT !.pc = "due", !.next = next] EXCEPT !.begin = clock', !.cutoff = today]
  OBVIOUS
<1>2. /\ new.pc = "due" /\ new.begin = clock' /\ new.next = next
      /\ new.add = <<>> /\ new.upd = <<>>
  BY <1>1 DEF Idle
<1>3. clock' \in Nat /\ today \in Int /\ next \in Int /\ clock' = clock + 1
  BY DEF IInv, GenerateBegin, Begin, OnGrid
<1>4. new \in States
  BY <1>1, <1>3, IdleFits DEF States
<1>5. SessionFits(new, rows, edited, clock')
  BY <1>2, <1>3, <1>4, StartFits
<1>6. sess' = [sess EXCEPT ![s] = new] /\ UNCHANGED <<today, bill, rows, edited, edits>>
  BY <1>1 DEF GenerateBegin, Begin
<1> QED
  BY <1>3, <1>4, <1>5, <1>6, BeginKeeps

LEMMA BackfillKeeps ==
  ASSUME IInv, NEW s \in Sessions, BackfillBegin(s)
  PROVE  IInv'
<1>1. PICK new : new = [[Idle EXCEPT !.pc = "due", !.next = Start, !.moved = next # Start]
                           EXCEPT !.begin = clock', !.cutoff = today]
  OBVIOUS
<1>2. /\ new.pc = "due" /\ new.begin = clock' /\ new.next = Start
      /\ new.add = <<>> /\ new.upd = <<>>
  BY <1>1 DEF Idle
<1>3. clock' \in Nat /\ today \in Int /\ clock' = clock + 1 /\ Start \in Int
  BY BillAssumption DEF IInv, BackfillBegin, Begin
<1>4. new \in States
  BY <1>1, <1>3, IdleFits DEF States
<1>5. SessionFits(new, rows, edited, clock')
  BY <1>2, <1>3, <1>4, StartFits
<1>6. sess' = [sess EXCEPT ![s] = new] /\ UNCHANGED <<today, bill, rows, edited, edits>>
  BY <1>1 DEF BackfillBegin, Begin
<1> QED
  BY <1>3, <1>4, <1>5, <1>6, BeginKeeps

(* The session has dealt with one more occurrence, and may have written or *)
(* linked a row for it.                                                    *)
LEMMA OccurrenceFits ==
  ASSUME IInv, NEW st \in States, SessionFits(st, rows, edited, clock), st.pc = "due",
         NEW new \in States, new.pc = "due", new.begin = st.begin, new.next = st.next + Period,
         DOMAIN st.add \subseteq DOMAIN new.add,
         \A i \in DOMAIN new.add :
            \/ i \in DOMAIN st.add /\ new.add[i] = st.add[i]
            \/ RowFits(i, new.add[i]) /\ Unspoilt(new.add[i]) /\ Late(st, Stands(i), rows, edited),
         \A i \in DOMAIN new.upd :
            (i \in DOMAIN st.upd /\ new.upd[i] = st.upd[i]) \/ ChangeFits(i, new.upd[i]),
         st.next \in edited \/ \E i \in DOMAIN rows \cup DOMAIN new.add : Stands(i) = st.next
  PROVE  SessionFits(new, rows, edited, clock)
<1>1. st.next \in Int /\ st.next >= Start /\ OnGrid(st.next) /\ st.begin <= clock
  BY DEF SessionFits, States
<1>2. new.next >= Start /\ OnGrid(new.next)
  BY <1>1, GridNext, BillAssumption
<1>3. Stood(new.next, DOMAIN rows \cup DOMAIN new.add, edited)
  <2>1. Stood(st.next, DOMAIN rows \cup DOMAIN st.add, edited)
    BY DEF SessionFits
  <2> QED
    BY <1>1, <2>1, StoodNext
<1>4. \A i \in DOMAIN new.add : /\ RowFits(i, new.add[i]) /\ Unspoilt(new.add[i])
                                /\ Late(new, Stands(i), rows, edited)
  BY DEF SessionFits, Late
<1>5. \A i \in DOMAIN new.upd : ChangeFits(i, new.upd[i])
  BY DEF SessionFits
<1> QED
  BY <1>1, <1>2, <1>3, <1>4, <1>5 DEF SessionFits

LEMMA OccurrenceKeeps ==
  ASSUME WindowsApart, IInv, NEW s \in Sessions, Occurrence(s)
  PROVE  IInv'
<1> DEFINE st == sess[s]
           due == st.next
           then == [st EXCEPT !.next = due + Period, !.moved = TRUE]
           V == View(st)
<1>1. st \in States /\ SessionFits(st, rows, edited, clock) /\ st.pc = "due"
  BY DEF IInv, Occurrence
<1>2. due \in Occurrences
  BY <1>1, OccurrencesAre DEF Occurrence, More, SessionFits, OnGrid
<1>3. /\ Covered(V, due) => \E i \in DOMAIN V : Stands(i) = due
      /\ \A i \in RealFor(V, due) : i \in DOMAIN V /\ Stands(i) = due
      /\ ~Covered(V, due) /\ RealFor(V, due) = {} /\ due \notin edited
           => \A i \in DOMAIN V : Stands(i) # due
  BY <1>1, <1>2, SearchFinds
<1>4. DOMAIN V = DOMAIN rows \cup DOMAIN st.add /\ \A i \in DOMAIN V : i \in BillIds
  BY <1>1, ViewFits
<1>5. due \in Int /\ due + Period \in Int /\ due \in Nat
  BY <1>2, OccurrencesAre, BillAssumption DEF OnGrid
<1>6. st.add \in Tables(Rows) /\ st.upd \in Tables(Changes) /\ st.begin \in Nat
  BY <1>1 DEF States
<1>7. /\ then \in States /\ then.pc = "due" /\ then.begin = st.begin /\ then.next = due + Period
      /\ then.add = st.add /\ then.upd = st.upd
  BY <1>1, <1>5 DEF States
<1>8. CASE Covered(V, due)
  <2>1. Becomes(s, then)
    BY <1>8 DEF Occurrence
  <2>2. SessionFits(then, rows, edited, clock)
    <3> HIDE DEF then, V
    <3> QED
      BY <1>1, <1>3, <1>4, <1>7, <1>8, OccurrenceFits
  <2> QED
    BY <1>7, <2>1, <2>2, BecomesKeeps
<1>9. CASE ~Covered(V, due) /\ RealFor(V, due) # {}
  <2> DEFINE change == [linked |-> TRUE, due |-> due]
  <2>1. PICK i \in RealFor(V, due) : Becomes(s, Set(then, i, change))
    BY <1>9 DEF Occurrence
  <2>2. i \in BillIds /\ Stands(i) = due /\ i \in DOMAIN V
    BY <1>3, <1>4
  <2>3. change \in Changes /\ ChangeFits(i, change)
    BY <1>2, <2>2 DEF Changes, ChangeFits
  <2>4. PICK new : new = Set(then, i, change)
    OBVIOUS
  <2>5. new.upd = With(st.upd, i, change) /\ With(st.upd, i, change) \in Tables(Changes)
        /\ DOMAIN With(st.upd, i, change) = DOMAIN st.upd \cup {i}
        /\ With(st.upd, i, change)[i] = change
        /\ \A j \in DOMAIN st.upd : j # i => With(st.upd, i, change)[j] = st.upd[j]
    <3> HIDE DEF change
    <3>1. new.upd = With(st.upd, i, change)
      BY <1>7, <2>4 DEF Set, States
    <3>2. st.upd \in Tables(Changes) /\ i \in BillIds /\ change \in Changes
      BY <1>6, <2>2, <2>3
    <3> HIDE DEF st, then, V
    <3>3. With(st.upd, i, change) \in Tables(Changes)
      BY <3>2, WithIs
    <3>4. DOMAIN With(st.upd, i, change) = DOMAIN st.upd \cup {i}
      BY DEF With
    <3>5. With(st.upd, i, change)[i] = change
      BY DEF With
    <3>6. \A j \in DOMAIN st.upd : j # i => With(st.upd, i, change)[j] = st.upd[j]
      BY DEF With
    <3> QED
      BY <3>1, <3>3, <3>4, <3>5, <3>6
  <2>6. /\ new \in States /\ new.pc = "due" /\ new.begin = st.begin /\ new.next = due + Period
        /\ new.add = st.add
    <3> HIDE DEF change, then
    <3> QED
      BY <1>7, <2>4, <2>5 DEF Set, States
  <2>7. SessionFits(new, rows, edited, clock)
    <3> HIDE DEF then, V, change
    <3> QED
      BY <1>1, <1>4, <2>2, <2>3, <2>5, <2>6, OccurrenceFits
  <2> QED
    BY <2>1, <2>4, <2>6, <2>7, BecomesKeeps
<1>10. CASE ~Covered(V, due) /\ RealFor(V, due) = {}
  <2> DEFINE i == <<st.begin, due, NoCharge>>
             row == Placeholder(then, due)
  <2>1. Becomes(s, Add(then, i, row))
    BY <1>7, <1>10 DEF Occurrence
  <2>2. i \in BillIds /\ Stands(i) = due /\ i[3] = NoCharge /\ i[2] = due
    BY <1>2, <1>6 DEF BillIds, Stands
  <2>3. row \in Rows /\ RowFits(i, row) /\ Unspoilt(row)
    <3>1. row = [date |-> due, source |-> "recurring", linked |-> TRUE, charge |-> NoCharge,
                 ignored |-> FALSE, due |-> due, span |-> <<st.begin, st.begin>>]
      BY <1>7 DEF Placeholder
    <3> HIDE DEF i, row
    <3> QED
      BY <1>2, <1>5, <1>6, <2>2, <3>1 DEF Rows, RowFits, Unspoilt
  <2>4. Late(st, due, rows, edited)
    BY <1>3, <1>4, <1>10 DEF Late
  <2> HIDE DEF i, row
  <2>5. PICK new : new = Add(then, i, row)
    OBVIOUS
  <2>6. new.add = With(st.add, i, row) /\ With(st.add, i, row) \in Tables(Rows)
        /\ DOMAIN With(st.add, i, row) = DOMAIN st.add \cup {i}
        /\ With(st.add, i, row)[i] = row
        /\ \A j \in DOMAIN st.add : j # i => With(st.add, i, row)[j] = st.add[j]
    <3>1. new.add = With(st.add, i, row)
      BY <1>7, <2>5 DEF Add, States
    <3>2. st.add \in Tables(Rows) /\ i \in BillIds /\ row \in Rows
      BY <1>6, <2>2, <2>3
    <3> HIDE DEF st, then, V
    <3>3. With(st.add, i, row) \in Tables(Rows)
      BY <3>2, WithIs
    <3>4. DOMAIN With(st.add, i, row) = DOMAIN st.add \cup {i}
      BY DEF With
    <3>5. With(st.add, i, row)[i] = row
      BY DEF With
    <3>6. \A j \in DOMAIN st.add : j # i => With(st.add, i, row)[j] = st.add[j]
      BY DEF With
    <3> QED
      BY <3>1, <3>3, <3>4, <3>5, <3>6
  <2>7. /\ new \in States /\ new.pc = "due" /\ new.begin = st.begin /\ new.next = due + Period
        /\ new.upd = st.upd
    <3> HIDE DEF then
    <3> QED
      BY <1>7, <2>5, <2>6 DEF Add, States
  <2>8. SessionFits(new, rows, edited, clock)
    <3> HIDE DEF then, V
    <3> QED
      BY <1>1, <2>2, <2>3, <2>4, <2>6, <2>7, OccurrenceFits
  <2> QED
    BY <2>1, <2>5, <2>7, <2>8, BecomesKeeps
<1> QED
  BY <1>8, <1>9, <1>10
-----------------------------------------------------------------------------
(* The steps of a charge.                                                  *)

LEMMA ClaimableIs ==
  ASSUME WindowsApart, IInv, NEW c \in Charges, NEW i \in Claimable(rows, DateOf[c])
  PROVE  i \in BillIds /\ ChangeFits(i, [source |-> "real", charge |-> c])
<1>1. i \in BillIds /\ rows[i] \in Rows /\ RowFits(i, rows[i])
  BY TableIs DEF IInv, Claimable, TableFits
<1>2. rows[i].charge = NoCharge /\ DateOf[c] - Claim <= rows[i].date /\ rows[i].date <= DateOf[c] + Claim
  BY DEF Claimable
<1>3. i[3] = NoCharge /\ i[2] \in Occurrences /\ rows[i].date = i[2]
  BY <1>1, <1>2, BillAssumption DEF BillIds, RowFits
<1>4. DueOf[c] \in Int /\ OnGrid(DueOf[c]) /\ i[2] \in Int /\ OnGrid(i[2]) /\ DateOf[c] \in Int
      /\ DueOf[c] - Before <= DateOf[c] /\ DateOf[c] <= DueOf[c] + After
  BY <1>3, OccurrencesAre DEF OnGrid
<1>5. DueOf[c] - i[2] < Period /\ i[2] - DueOf[c] < Period
  BY <1>2, <1>3, <1>4, BillAssumption DEF WindowsApart
<1>6. DueOf[c] = i[2]
  BY <1>4, <1>5, GridApart
<1> QED
  BY <1>1, <1>3, <1>6 DEF ChangeFits

(* With nothing to claim, nothing stands for what the charge pays.         *)
LEMMA NothingToClaim ==
  ASSUME WindowsApart, OneChargeEach, IInv, NEW c \in Charges, Claimable(rows, DateOf[c]) = {},
         \A i \in DOMAIN rows : rows[i].charge # c, DueOf[c] \notin edited
  PROVE  \A i \in DOMAIN rows : Stands(i) # DueOf[c]
<1> SUFFICES ASSUME NEW i \in DOMAIN rows, Stands(i) = DueOf[c] PROVE FALSE
  OBVIOUS
<1>1. /\ i \in BillIds /\ rows[i] \in Rows /\ RowFits(i, rows[i]) /\ Unspoilt(rows[i])
      /\ rows[i].charge # c
  BY TableIs DEF IInv, TableFits
<1>2. i[3] = NoCharge
  <2> SUFFICES ASSUME i[3] # NoCharge PROVE FALSE
    OBVIOUS
  <2>1. i[3] \in Charges /\ rows[i].charge = i[3] /\ DueOf[i[3]] = DueOf[c]
    BY <1>1 DEF BillIds, RowFits, Stands
  <2> QED
    BY <1>1, <2>1 DEF OneChargeEach
<1>3. rows[i].charge = NoCharge
  <2> SUFFICES ASSUME rows[i].charge # NoCharge PROVE FALSE
    OBVIOUS
  <2>1. rows[i].charge \in Charges /\ DueOf[rows[i].charge] = DueOf[c]
    BY <1>1, <1>2 DEF Rows, RowFits, Stands
  <2> QED
    BY <1>1, <2>1 DEF OneChargeEach
<1>4. rows[i].date = DueOf[c]
  BY <1>1, <1>2 DEF RowFits, Stands
<1>5. rows[i].date >= DateOf[c] - Claim /\ rows[i].date <= DateOf[c] + Claim
  <2>1. DueOf[c] \in Int /\ DateOf[c] \in Int /\ DueOf[c] - Before <= DateOf[c] /\ DateOf[c] <= DueOf[c] + After
    BY OccurrencesAre DEF OnGrid
  <2> QED
    BY <1>4, <2>1, BillAssumption DEF WindowsApart
<1>6. rows[i].source = "recurring" /\ rows[i].linked /\ ~rows[i].ignored
  BY <1>1, <1>3 DEF Rows, RowFits, Unspoilt
<1>7. i \in Claimable(rows, DateOf[c])
  BY <1>3, <1>5, <1>6 DEF Claimable
<1> QED
  BY <1>7

LEMMA ChargeBeginKeeps ==
  ASSUME WindowsApart, OneChargeEach, IInv, NEW s \in Sessions, NEW c \in Charges, ChargeBegin(s, c)
  PROVE  IInv'
<1> DEFINE found == Claimable(rows, DateOf[c])
           idle == [Idle EXCEPT !.charge = c]
<1>1. clock \in Nat /\ clock' \in Nat /\ clock' = clock + 1 /\ today \in Int
  <2>1. \E state : Begin(s, state)
    BY Zenon DEF ChargeBegin
  <2> QED
    BY <2>1 DEF IInv, Begin
<1>2. c # NoCharge
  BY BillAssumption
<1>3. Stood(Start, DOMAIN rows \cup {}, edited)
  BY OccurrencesAre, BillAssumption DEF Stood, OnGrid
<1>4. CASE found # {}
  <2> DEFINE change == [source |-> "real", charge |-> c]
  <2>1. PICK i \in found : Begin(s, Set([idle EXCEPT !.pc = "ready"], i, change))
    BY <1>4 DEF ChargeBegin
  <2>2. i \in BillIds /\ ChangeFits(i, change) /\ change \in Changes
    BY ClaimableIs DEF Changes
  <2>3. PICK new : new = [Set([idle EXCEPT !.pc = "ready"], i, change)
                             EXCEPT !.begin = clock', !.cutoff = today]
    OBVIOUS
  <2>4. sess' = [sess EXCEPT ![s] = new] /\ UNCHANGED <<today, bill, rows, edited, edits>>
    BY <2>1, <2>3 DEF Begin
  <2> HIDE DEF change
  <2>5. With(<<>>, i, change) \in Tables(Changes) /\ DOMAIN With(<<>>, i, change) = {i}
        /\ With(<<>>, i, change)[i] = change
    <3>1. With(<<>>, i, change) \in Tables(Changes)
      BY <2>2, EmptyIs, WithIs
    <3>2. DOMAIN With(<<>>, i, change) = {i}
      BY EmptyIs DEF With
    <3> QED
      BY <3>1, <3>2 DEF With
  <2>6. new = [pc |-> "ready", begin |-> clock', cutoff |-> today, next |-> Start, moved |-> FALSE,
               charge |-> c, add |-> <<>>, upd |-> With(<<>>, i, change)]
    BY <2>3 DEF Set, Idle
  <2>7. new \in States
    BY <1>1, <2>5, <2>6, EmptyIs, BillAssumption DEF States
  <2>8. SessionFits(new, rows, edited, clock')
    <3>1. new.pc = "ready" /\ new.begin = clock' /\ new.next = Start /\ DOMAIN new.add = {}
      BY <2>6, EmptyIs
    <3>2. \A j \in DOMAIN new.upd : ChangeFits(j, new.upd[j])
      BY <2>2, <2>5, <2>6
    <3> QED
      BY <1>1, <1>3, <3>1, <3>2, GridStart, BillAssumption DEF SessionFits
  <2> QED
    BY <1>1, <2>4, <2>7, <2>8, BeginKeeps
<1>5. CASE found = {}
  <2>1. PICK new : new = [[idle EXCEPT !.pc = "bill"] EXCEPT !.begin = clock', !.cutoff = today]
    OBVIOUS
  <2>2. sess' = [sess EXCEPT ![s] = new] /\ UNCHANGED <<today, bill, rows, edited, edits>>
    BY <1>5, <2>1 DEF ChargeBegin, Begin
  <2>3. new = [pc |-> "bill", begin |-> clock', cutoff |-> today, next |-> Start, moved |-> FALSE,
               charge |-> c, add |-> <<>>, upd |-> <<>>]
    BY <2>1 DEF Idle
  <2>4. new \in States
    BY <1>1, <2>3, EmptyIs, BillAssumption DEF States
  <2>5. Late(new, DueOf[c], rows, edited)
    BY <1>5, NothingToClaim DEF ChargeBegin, Late
  <2>6. SessionFits(new, rows, edited, clock')
    BY <1>1, <1>2, <1>3, <2>3, <2>5, EmptyIs, GridStart, BillAssumption DEF SessionFits
  <2> QED
    BY <1>1, <2>2, <2>4, <2>6, BeginKeeps
<1> QED
  BY <1>4, <1>5

LEMMA ChargeBillKeeps ==
  ASSUME WindowsApart, IInv, NEW s \in Sessions, ChargeBill(s)
  PROVE  IInv'
<1> DEFINE st == sess[s]
           c == st.charge
           fulfils == Fulfils(DateOf[c], next)
           i == <<st.begin, NoOccurrence, c>>
           row == [date |-> DateOf[c], source |-> "real", linked |-> fulfils,
                   charge |-> c, ignored |-> FALSE,
                   due |-> IF fulfils THEN next ELSE NoOccurrence,
                   span |-> <<st.begin, st.begin>>]
           then == [st EXCEPT !.pc = "ready", !.moved = fulfils,
                        !.next = IF fulfils THEN AdvancePast(next, DateOf[c]) ELSE @]
<1>1. st \in States /\ SessionFits(st, rows, edited, clock) /\ st.pc = "bill"
  BY DEF IInv, ChargeBill
<1>2. c \in Charges /\ c # NoCharge /\ st.begin \in Nat /\ st.next \in Int
  BY <1>1 DEF States, SessionFits
<1>3. next \in Int /\ next >= Start /\ OnGrid(next) /\ Stood(next, DOMAIN rows, edited)
  BY DEF IInv, OnGrid
<1>4. /\ DueOf[c] \in Occurrences /\ DueOf[c] \in Int /\ OnGrid(DueOf[c]) /\ DateOf[c] \in Int
      /\ DueOf[c] - Before <= DateOf[c] /\ DateOf[c] <= DueOf[c] + After
  BY <1>2, OccurrencesAre DEF OnGrid
<1>5. fulfils => next = DueOf[c] /\ AdvancePast(next, DateOf[c]) = next + Period
  <2> SUFFICES ASSUME InWindow(DateOf[c], next)
               PROVE  next = DueOf[c] /\ AdvancePast(next, DateOf[c]) = next + Period
    BY DEF Fulfils
  <2>1. next - DueOf[c] < Period /\ DueOf[c] - next < Period
    BY <1>3, <1>4, BillAssumption DEF InWindow, WindowsApart
  <2> QED
    BY <1>3, <1>4, <2>1, GridApart, AdvanceIs
<1>6. i \in BillIds /\ i[3] = c /\ Stands(i) = DueOf[c]
  BY <1>2 DEF BillIds, Stands
<1>7. fulfils \in BOOLEAN
  BY DEF Fulfils, InWindow
<1>8. row \in Rows /\ RowFits(i, row) /\ Unspoilt(row)
  <2>1. row.due \in Occurrences \cup {NoOccurrence}
    BY <1>4, <1>5
  <2>2. row \in Rows
    <3> HIDE DEF fulfils
    <3> QED
      BY <1>2, <1>4, <1>7, <2>1 DEF Rows
  <2> QED
    BY <1>2, <1>5, <1>6, <2>2 DEF RowFits, Unspoilt
<1>9. Becomes(s, Add(then, i, row))
  <2>1. then.begin = st.begin
    BY <1>1 DEF States
  <2> QED
    BY <2>1 DEF ChargeBill
<1>10. PICK new : new = Add(then, i, row)
  OBVIOUS
<1>11. PICK n : n = IF fulfils THEN AdvancePast(next, DateOf[c]) ELSE st.next
  OBVIOUS
<1>12. n \in Int /\ n >= Start /\ OnGrid(n)
  <2>1. st.next >= Start /\ OnGrid(st.next)
    BY <1>1 DEF SessionFits
  <2> QED
    BY <1>2, <1>3, <1>5, <1>11, <2>1, GridNext, BillAssumption
<1> HIDE DEF i, row
<1>13. st.add \in Tables(Rows) /\ st.upd \in Tables(Changes)
  BY <1>1 DEF States
<1>14. /\ With(st.add, i, row) \in Tables(Rows)
       /\ DOMAIN With(st.add, i, row) = DOMAIN st.add \cup {i}
       /\ With(st.add, i, row)[i] = row
       /\ \A j \in DOMAIN st.add : j # i => With(st.add, i, row)[j] = st.add[j]
  <2> HIDE DEF st
  <2>1. With(st.add, i, row) \in Tables(Rows)
    BY <1>6, <1>8, <1>13, WithIs
  <2>2. /\ DOMAIN With(st.add, i, row) = DOMAIN st.add \cup {i}
        /\ With(st.add, i, row)[i] = row
        /\ \A j \in DOMAIN st.add : j # i => With(st.add, i, row)[j] = st.add[j]
    BY DEF With
  <2> QED
    BY <2>1, <2>2
<1>15. /\ then \in [pc : {"ready"}, begin : Nat, cutoff : Int, next : Int, moved : BOOLEAN,
                    charge : Charges \cup {NoCharge}, add : Tables(Rows), upd : Tables(Changes)]
       /\ then.begin = st.begin /\ then.next = n /\ then.add = st.add /\ then.upd = st.upd
  <2> HIDE DEF fulfils
  <2> QED
    BY <1>1, <1>7, <1>11, <1>12 DEF States
<1>16. /\ new \in States /\ new.pc = "ready" /\ new.begin = st.begin /\ new.next = n
       /\ new.upd = st.upd /\ new.add = With(st.add, i, row)
  <2> HIDE DEF then, st, fulfils
  <2> QED
    BY <1>10, <1>14, <1>15 DEF Add, States
<1>17. Stood(n, DOMAIN rows \cup DOMAIN new.add, edited)
  <2>1. CASE fulfils
    <3>1. n = next + Period /\ next = DueOf[c] /\ i \in DOMAIN new.add
      BY <1>5, <1>11, <1>14, <1>16, <2>1
    <3> HIDE DEF fulfils
    <3> QED
      BY <1>3, <1>6, <3>1, StoodNext
  <2>2. CASE ~fulfils
    <3>1. n = st.next /\ Stood(st.next, DOMAIN rows \cup DOMAIN st.add, edited)
      BY <1>1, <1>11, <2>2 DEF SessionFits
    <3> HIDE DEF fulfils, st
    <3> QED
      BY <1>14, <1>16, <3>1 DEF Stood
  <2> QED
    BY <2>1, <2>2
<1>18. SessionFits(new, rows, edited, clock)
  <2>1. Late(st, DueOf[c], rows, edited)
    BY <1>1 DEF SessionFits
  <2>2. \A j \in DOMAIN new.add : /\ RowFits(j, new.add[j]) /\ Unspoilt(new.add[j])
                                  /\ Late(new, Stands(j), rows, edited)
    <3> SUFFICES ASSUME NEW j \in DOMAIN new.add
                 PROVE  /\ RowFits(j, new.add[j]) /\ Unspoilt(new.add[j])
                        /\ Late(st, Stands(j), rows, edited)
      BY <1>16 DEF Late
    <3>1. CASE j = i
      BY <1>6, <1>8, <1>14, <1>16, <2>1, <3>1
    <3>2. CASE j # i
      <4>1. j \in DOMAIN st.add /\ new.add[j] = st.add[j]
        BY <1>14, <1>16, <3>2
      <4> QED
        BY <1>1, <4>1 DEF SessionFits
    <3> QED
      BY <3>1, <3>2
  <2>3. new.begin <= clock /\ \A j \in DOMAIN new.upd : ChangeFits(j, new.upd[j])
    BY <1>1, <1>16 DEF SessionFits
  <2> HIDE DEF st, then, fulfils
  <2> QED
    BY <1>12, <1>16, <1>17, <2>2, <2>3 DEF SessionFits
<1> QED
  BY <1>9, <1>10, <1>16, <1>18, BecomesKeeps

LEMMA AbortKeeps ==
  ASSUME IInv, NEW s \in Sessions, Abort(s)
  PROVE  IInv'
<1>1. clock' = clock + 1 /\ clock' \in Nat /\ sess' = [sess EXCEPT ![s] = Idle]
      /\ UNCHANGED <<today, bill, rows, edited, edits>>
  BY DEF IInv, Abort
<1>2. Idle \in States /\ SessionFits(Idle, rows, edited, clock')
  BY <1>1, IdleFits
<1> QED
  BY <1>1, <1>2, BeginKeeps

LEMMA CommitKeeps ==
  ASSUME IInv, NEW s \in Sessions, Commit(s)
  PROVE  IInv'
<1> DEFINE st == sess[s]
           New(i) == [st.add[i] EXCEPT !.span = <<st.begin, clock'>>]
           I == DOMAIN rows \cup DOMAIN st.add
<1>1. /\ st \in States /\ SessionFits(st, rows, edited, clock)
      /\ rows \in Tables(Rows) /\ TableFits(rows, edited, clock) /\ Once(rows, edited)
      /\ clock \in Nat /\ clock' = clock + 1 /\ clock' \in Nat
  BY DEF IInv, Commit
<1>2. st.add \in Tables(Rows) /\ st.upd \in Tables(Changes)
      /\ st.begin \in Nat /\ st.begin < clock' /\ st.next \in Int
  BY <1>1 DEF States, SessionFits
<1>3. /\ DOMAIN rows' = I /\ I \subseteq BillIds /\ rows' = [i \in I |-> rows'[i]]
      /\ \A i \in DOMAIN st.add : rows'[i] = New(i)
      /\ \A i \in DOMAIN rows \ DOMAIN st.add :
            \/ rows'[i] = rows[i]
            \/ i \in DOMAIN st.upd /\ rows'[i] = Overlay(st.upd[i], rows[i])
  <2> HIDE DEF New
  <2>1. I \subseteq BillIds
    BY <1>1, <1>2, TableIs
  <2>2. rows' = [i \in I |-> IF i \in DOMAIN st.add THEN New(i)
                             ELSE IF i \in DOMAIN st.upd THEN Overlay(st.upd[i], rows[i])
                             ELSE rows[i]]
    BY DEF Commit, New
  <2> HIDE DEF st, I
  <2>3. DOMAIN rows' = I /\ rows' = [i \in I |-> rows'[i]]
    BY <2>2
  <2> QED
    BY <2>1, <2>2, <2>3 DEF I
(* What the session wrote.                                                 *)
<1>4. ASSUME NEW i \in DOMAIN st.add
      PROVE  /\ i \in BillIds /\ rows'[i] \in Rows /\ RowFits(i, rows'[i]) /\ Unspoilt(rows'[i])
             /\ rows'[i].span = <<st.begin, clock'>> /\ Late(st, Stands(i), rows, edited)
  <2>1. i \in BillIds /\ st.add[i] \in Rows /\ RowFits(i, st.add[i]) /\ Unspoilt(st.add[i])
        /\ Late(st, Stands(i), rows, edited)
    BY <1>1, <1>2, TableIs DEF SessionFits
  <2>2. PICK r : r = st.add[i]
    OBVIOUS
  <2>3. rows'[i] = [r EXCEPT !.span = <<st.begin, clock'>>]
    BY <1>3, <2>2
  <2>4. /\ rows'[i] \in Rows /\ rows'[i].span = <<st.begin, clock'>>
        /\ rows'[i].date = r.date /\ rows'[i].source = r.source /\ rows'[i].linked = r.linked
        /\ rows'[i].charge = r.charge /\ rows'[i].ignored = r.ignored /\ rows'[i].due = r.due
    <3> HIDE DEF st
    <3> QED
      BY <1>1, <1>2, <2>1, <2>2, <2>3 DEF Rows
  <2> QED
    BY <2>1, <2>2, <2>4 DEF RowFits, Unspoilt
(* What was there before.                                                  *)
<1>5. ASSUME NEW i \in DOMAIN rows \ DOMAIN st.add
      PROVE  /\ i \in BillIds /\ rows'[i] \in Rows /\ RowFits(i, rows'[i])
             /\ rows'[i].span = rows[i].span /\ Spanned(rows[i], clock)
             /\ Stands(i) \notin edited => Unspoilt(rows'[i])
  <2>1. i \in BillIds /\ rows[i] \in Rows /\ RowFits(i, rows[i]) /\ Spanned(rows[i], clock)
        /\ (Stands(i) \notin edited => Unspoilt(rows[i]))
    BY <1>1, TableIs DEF TableFits
  <2>2. CASE rows'[i] = rows[i]
    BY <2>1, <2>2
  <2>3. CASE i \in DOMAIN st.upd /\ rows'[i] = Overlay(st.upd[i], rows[i])
    <3>1. ChangeFits(i, st.upd[i])
      BY <1>1, <2>3 DEF SessionFits
    <3> QED
      BY <2>1, <2>3, <3>1, OverlayFits
  <2> QED
    BY <1>3, <2>2, <2>3
<1> HIDE DEF New
<1>6. rows' \in Tables(Rows)
  <2>1. \A i \in I : rows'[i] \in Rows
    BY <1>4, <1>5
  <2> HIDE DEF I
  <2> QED
    BY <1>3, <2>1, IsTable
<1>7. ASSUME NEW i \in DOMAIN rows' PROVE Spanned(rows'[i], clock')
  <2>1. CASE i \in DOMAIN st.add
    BY <1>2, <1>4, <2>1, <1>1 DEF Spanned
  <2>2. CASE i \in DOMAIN rows \ DOMAIN st.add
    <3>1. rows[i] \in Rows /\ Spanned(rows[i], clock) /\ rows'[i].span = rows[i].span
      BY <1>1, <1>5, <2>2, TableIs
    <3> QED
      BY <1>1, <3>1 DEF Spanned, Rows
  <2> QED
    BY <1>3, <2>1, <2>2
<1>8. TableFits(rows', edited, clock')
  <2> SUFFICES ASSUME NEW i \in DOMAIN rows'
               PROVE  RowFits(i, rows'[i]) /\ (Stands(i) \notin edited => Unspoilt(rows'[i]))
    BY <1>7 DEF TableFits
  <2> QED
    BY <1>3, <1>4, <1>5
<1>9. Once(rows', edited)
  <2> SUFFICES ASSUME NEW i \in DOMAIN rows', NEW j \in DOMAIN rows',
                      i # j, Stands(i) = Stands(j), Stands(i) \notin edited
               PROVE  Overlap(rows'[i].span, rows'[j].span)
    BY DEF Once
  <2>1. ASSUME NEW a \in DOMAIN st.add, NEW b \in DOMAIN rows \ DOMAIN st.add,
               Stands(a) = Stands(b), Stands(a) \notin edited
        PROVE  Overlap(rows'[a].span, rows'[b].span) /\ Overlap(rows'[b].span, rows'[a].span)
    <3>1. rows'[a].span = <<st.begin, clock'>> /\ st.begin < rows[b].span[2]
      BY <1>4, <2>1 DEF Late
    <3>2. rows'[b].span = rows[b].span /\ rows[b] \in Rows /\ Spanned(rows[b], clock)
      BY <1>1, <1>5, <2>1, TableIs
    <3>3. rows[b].span[1] \in Nat /\ rows[b].span[2] \in Nat /\ rows[b].span[1] < clock'
      BY <1>1, <3>2 DEF Spanned, Rows
    <3> QED
      BY <3>1, <3>2, <3>3 DEF Overlap
  <2>2. CASE i \in DOMAIN st.add /\ j \in DOMAIN st.add
    BY <1>2, <1>4, <2>2 DEF Overlap
  <2>3. CASE i \notin DOMAIN st.add /\ j \notin DOMAIN st.add
    <3>1. i \in DOMAIN rows \ DOMAIN st.add /\ j \in DOMAIN rows \ DOMAIN st.add
      BY <1>3, <2>3
    <3>2. Overlap(rows[i].span, rows[j].span)
      BY <1>1, <3>1 DEF Once
    <3> QED
      BY <1>5, <3>1, <3>2
  <2> QED
    BY <1>3, <2>1, <2>2, <2>3
<1>10. next' >= Start /\ OnGrid(next') /\ Stood(next', DOMAIN rows', edited)
  <2>1. CASE st.moved
    <3>1. next' = st.next
      BY <2>1 DEF Commit
    <3>2. st.next >= Start /\ OnGrid(st.next) /\ Stood(st.next, I, edited)
      BY <1>1 DEF SessionFits
    <3> HIDE DEF st, I
    <3> QED
      BY <1>3, <3>1, <3>2
  <2>2. CASE ~st.moved
    <3>1. next' = next
      BY <2>2 DEF Commit
    <3>2. next >= Start /\ OnGrid(next) /\ Stood(next, DOMAIN rows, edited)
      BY DEF IInv
    <3> QED
      BY <1>3, <3>1, <3>2 DEF Stood
  <2> QED
    BY <2>1, <2>2
<1>11. sess' \in [Sessions -> States]
  BY IdleFits DEF IInv, Commit
<1>12. ASSUME NEW t \in Sessions PROVE SessionFits(sess'[t], rows', edited, clock')
  <2>1. CASE t = s
    <3>1. sess'[t] = Idle
      BY <2>1 DEF IInv, Commit
    <3> QED
      BY <1>1, <3>1, IdleFits
  <2>2. CASE t # s
    <3>1. sess'[t] = sess[t] /\ sess[t] \in States /\ SessionFits(sess[t], rows, edited, clock)
      BY <2>2 DEF IInv, Commit
    <3>2. \A j \in DOMAIN rows : j \in DOMAIN rows'
      BY <1>3
    <3>3. \A j \in DOMAIN rows' : \/ rows'[j].span[2] \in Nat /\ rows'[j].span[2] > clock
                                  \/ j \in DOMAIN rows /\ rows'[j].span = rows[j].span
      <4> SUFFICES ASSUME NEW j \in DOMAIN rows, j \notin DOMAIN st.add
                   PROVE  rows'[j].span = rows[j].span
        BY <1>1, <1>3, <1>4
      <4> QED
        BY <1>5
    <3> QED
      BY <1>1, <3>1, <3>2, <3>3, SessionStays
  <2> QED
    BY <2>1, <2>2
<1>13. today' \in Int /\ edited' = edited
  BY DEF IInv, Commit
<1> QED
  BY <1>1, <1>6, <1>8, <1>9, <1>10, <1>11, <1>12, <1>13 DEF IInv
-----------------------------------------------------------------------------
(* What the user and the calendar do.                                      *)

LEMMA StandsForIs ==
  ASSUME NEW i \in BillIds, NEW r \in Rows, RowFits(i, r)
  PROVE  StandsFor(r) = Stands(i)
<1>1. CASE i[3] = NoCharge
  BY <1>1 DEF RowFits, Stands, StandsFor
<1>2. CASE i[3] # NoCharge
  BY <1>2 DEF RowFits, Stands, StandsFor
<1> QED
  BY <1>1, <1>2

(* A hand on one row, after which its occurrence is the user's.            *)
LEMMA EditKeeps ==
  ASSUME IInv, NEW i \in DOMAIN rows, Edit(i), rows' \in Tables(Rows),
         DOMAIN rows' \subseteq DOMAIN rows, DOMAIN rows \ {i} \subseteq DOMAIN rows',
         \A j \in DOMAIN rows' : j # i => rows'[j] = rows[j],
         i \in DOMAIN rows' => RowFits(i, rows'[i]) /\ rows'[i].span = rows[i].span
  PROVE  IInv'
<1>1. /\ rows \in Tables(Rows) /\ TableFits(rows, edited, clock) /\ Once(rows, edited)
      /\ Stood(next, DOMAIN rows, edited) /\ clock \in Nat
  BY DEF IInv
<1>2. StandsFor(rows[i]) = Stands(i)
  BY <1>1, StandsForIs, TableIs DEF TableFits
<1>3. edited \subseteq edited' /\ Stands(i) \in edited'
      /\ UNCHANGED <<today, next, sess, clock>>
  BY <1>2 DEF Edit, bill
<1>4. \A j \in DOMAIN rows' : rows'[j].span = rows[j].span
  OBVIOUS
<1>5. \A j \in DOMAIN rows : j \in DOMAIN rows' \/ Stands(j) \in edited'
  BY <1>3
<1>6. TableFits(rows', edited', clock)
  BY <1>1, <1>3 DEF TableFits, Spanned
<1>7. Once(rows', edited')
  BY <1>1, <1>3, <1>4 DEF Once
<1>8. Stood(next, DOMAIN rows', edited')
  BY <1>1, <1>3, <1>5 DEF Stood
<1>9. ASSUME NEW s \in Sessions PROVE SessionFits(sess[s], rows', edited', clock)
  <2>1. sess[s] \in States /\ SessionFits(sess[s], rows, edited, clock)
    BY DEF IInv
  <2>2. \A j \in DOMAIN rows' : j \in DOMAIN rows /\ rows'[j].span = rows[j].span
    BY <1>4
  <2>3. clock <= clock
    BY <1>1
  <2> QED
    BY <1>1, <1>3, <1>5, <2>1, <2>2, <2>3, SessionStays
<1> QED
  BY <1>3, <1>6, <1>7, <1>8, <1>9 DEF IInv

LEMMA DeleteKeeps ==
  ASSUME IInv, NEW i \in DOMAIN rows, DeleteRow(i)
  PROVE  IInv'
<1>1. rows \in Tables(Rows) /\ rows' = Without(rows, {i})
  BY DEF IInv, DeleteRow
<1>2. rows' \in Tables(Rows)
  BY <1>1, WithoutIs
<1>3. DOMAIN rows' = DOMAIN rows \ {i} /\ \A j \in DOMAIN rows \ {i} : rows'[j] = rows[j]
  BY <1>1 DEF Without
<1> QED
  BY <1>2, <1>3, EditKeeps DEF DeleteRow

(* A column that says nothing of what the row stands for.                  *)
LEMMA ColumnFits ==
  ASSUME IInv, NEW i \in DOMAIN rows, NEW row \in Rows, RowFits(i, row), row.span = rows[i].span,
         rows' = [rows EXCEPT ![i] = row], Edit(i)
  PROVE  IInv'
<1>1. rows \in Tables(Rows) /\ DOMAIN rows \subseteq BillIds
  BY TableIs DEF IInv
<1>2. DOMAIN rows' = DOMAIN rows /\ \A j \in DOMAIN rows : rows'[j] = IF j = i THEN row ELSE rows[j]
  OBVIOUS
<1>3. \A j \in DOMAIN rows : rows'[j] \in Rows
  BY <1>1, <1>2, TableIs
<1>4. rows' = [j \in DOMAIN rows |-> rows'[j]]
  BY <1>2
<1>5. rows' \in Tables(Rows)
  BY <1>1, <1>3, <1>4, IsTable
<1> QED
  BY <1>2, <1>5, EditKeeps

LEMMA ToggleKeeps ==
  ASSUME IInv, NEW i \in DOMAIN rows, ToggleIgnore(i)
  PROVE  IInv'
<1>1. rows[i] \in Rows /\ RowFits(i, rows[i])
  BY TableIs DEF IInv, TableFits
<1>2. PICK row : row = [rows[i] EXCEPT !.ignored = ~@]
  OBVIOUS
<1>3. row \in Rows /\ RowFits(i, row) /\ row.span = rows[i].span
  BY <1>1, <1>2 DEF Rows, RowFits
<1>4. rows' = [rows EXCEPT ![i] = row]
  BY <1>2 DEF ToggleIgnore
<1> QED
  BY <1>3, <1>4, ColumnFits DEF ToggleIgnore

LEMMA UnlinkKeeps ==
  ASSUME IInv, NEW i \in DOMAIN rows, Unlink(i)
  PROVE  IInv'
<1>1. rows[i] \in Rows /\ RowFits(i, rows[i])
  BY TableIs DEF IInv, TableFits
<1>2. PICK row : row = [rows[i] EXCEPT !.linked = FALSE]
  OBVIOUS
<1>3. row \in Rows /\ RowFits(i, row) /\ row.span = rows[i].span
  BY <1>1, <1>2 DEF Rows, RowFits
<1>4. rows' = [rows EXCEPT ![i] = row]
  BY <1>2 DEF Unlink
<1> QED
  BY <1>3, <1>4, ColumnFits DEF Unlink

LEMMA OthersKeep ==
  ASSUME IInv, Day \/ Pause \/ UNCHANGED vars
  PROVE  IInv'
<1>1. UNCHANGED <<next, rows, sess, clock, edited>> /\ today' \in Int
  BY DEF IInv, Day, Pause, vars, bill
<1> QED
  BY <1>1 DEF IInv

LEMMA NextIInv ==
  ASSUME WindowsApart, OneChargeEach
  PROVE  IInv /\ [Next]_vars => IInv'
<1> SUFFICES ASSUME IInv, [Next]_vars PROVE IInv'
  OBVIOUS
<1>1. CASE Day \/ Pause \/ UNCHANGED vars
  BY <1>1, OthersKeep
<1>2. ASSUME NEW s \in Sessions, GenerateBegin(s) PROVE IInv'
  BY <1>2, GenerateKeeps
<1>3. ASSUME NEW s \in Sessions, BackfillBegin(s) PROVE IInv'
  BY <1>3, BackfillKeeps
<1>4. ASSUME NEW s \in Sessions, Occurrence(s) PROVE IInv'
  BY <1>4, OccurrenceKeeps
<1>5. ASSUME NEW s \in Sessions, ChargeBill(s) PROVE IInv'
  BY <1>5, ChargeBillKeeps
<1>6. ASSUME NEW s \in Sessions, Commit(s) PROVE IInv'
  BY <1>6, CommitKeeps
<1>7. ASSUME NEW s \in Sessions, Abort(s) PROVE IInv'
  BY <1>7, AbortKeeps
<1>8. ASSUME NEW s \in Sessions, NEW c \in Charges, ChargeBegin(s, c) PROVE IInv'
  BY <1>8, ChargeBeginKeeps
<1>9. ASSUME NEW i \in DOMAIN rows, DeleteRow(i) \/ ToggleIgnore(i) \/ Unlink(i) PROVE IInv'
  BY <1>9, DeleteKeeps, ToggleKeeps, UnlinkKeeps
<1> QED
  BY <1>1, <1>2, <1>3, <1>4, <1>5, <1>6, <1>7, <1>8, <1>9 DEF Next
-----------------------------------------------------------------------------
LEMMA IInvHolds ==
  ASSUME WindowsApart, OneChargeEach
  PROVE  Spec => []IInv
BY InitIInv, NextIInv, PTL DEF Spec

(* A charge is linked for the occurrence it pays: the searches of            *)
(* recurring_match_service never take it to a neighbour, whatever the other  *)
(* sessions commit in between.                                               *)
THEOREM ChargesKeepTheirOccurrence ==
  ASSUME WindowsApart, OneChargeEach
  PROVE  Spec => []OwnOccurrence
<1>1. IInv => OwnOccurrence
  <2> SUFFICES ASSUME IInv, NEW i \in DOMAIN rows, rows[i].linked, rows[i].charge # NoCharge
               PROVE  rows[i].due = DueOf[rows[i].charge]
    BY DEF OwnOccurrence
  <2>1. i \in BillIds /\ rows[i] \in Rows /\ RowFits(i, rows[i])
    BY TableIs DEF IInv, TableFits
  <2>2. CASE i[3] = NoCharge
    BY <2>1, <2>2 DEF RowFits
  <2>3. CASE i[3] # NoCharge
    BY <2>1, <2>3 DEF RowFits
  <2> QED
    BY <2>2, <2>3
<1> QED
  BY <1>1, IInvHolds, PTL

(* No occurrence before the pointer is without a row, unless the user took   *)
(* it: stale commits of the pointer included.                                *)
THEOREM NoOccurrenceIsLost ==
  ASSUME WindowsApart, OneChargeEach
  PROVE  Spec => []NoOccurrenceLost
<1>1. IInv => NoOccurrenceLost
  <2> SUFFICES ASSUME IInv, NEW d \in Occurrences, d < next, d \notin edited
               PROVE  \E i \in DOMAIN rows : StandsFor(rows[i]) = d
    BY DEF NoOccurrenceLost
  <2>1. PICK i \in DOMAIN rows : Stands(i) = d
    BY DEF IInv, Stood
  <2>2. StandsFor(rows[i]) = Stands(i)
    BY StandsForIs, TableIs DEF IInv, TableFits
  <2> QED
    BY <2>1, <2>2
<1> QED
  BY <1>1, IInvHolds, PTL

(* An occurrence counts twice only when the sessions that wrote its rows     *)
(* overlapped, or the user had a hand in it.                                 *)
THEOREM CountedOnce ==
  ASSUME WindowsApart, OneChargeEach
  PROVE  Spec => []OnceUnlessOverlapped
<1>1. IInv => OnceUnlessOverlapped
  <2> SUFFICES ASSUME IInv, NEW i \in DOMAIN rows, NEW j \in DOMAIN rows, i # j,
                      StandsFor(rows[i]) = StandsFor(rows[j]), StandsFor(rows[i]) \notin edited
               PROVE  Overlap(rows[i].span, rows[j].span)
    BY DEF OnceUnlessOverlapped
  <2>1. StandsFor(rows[i]) = Stands(i) /\ StandsFor(rows[j]) = Stands(j)
    BY StandsForIs, TableIs DEF IInv, TableFits
  <2> QED
    BY <2>1 DEF IInv, Once
<1> QED
  BY <1>1, IInvHolds, PTL
=============================================================================
