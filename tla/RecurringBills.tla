---------------------------- MODULE RecurringBills ----------------------------
(*****************************************************************************)
(* One recurring bill and the rows that stand for its occurrences: the       *)
(* placeholders generate_pending and the backfill write, and the real        *)
(* charges a bank sync or a file import matches to them.                     *)
(*                                                                           *)
(* Generation, backfill and ingestion are sessions at READ COMMITTED: each   *)
(* query sees the committed rows and the session's own.  The bill's          *)
(* pointer next_occurrence is loaded once.  A query flushes what was         *)
(* changed before it, so a pointer that was moved is written even when it    *)
(* ends where it began.  The locks a flush takes until the commit are left   *)
(* out, which only adds interleavings.                                       *)
(*                                                                           *)
(* The charges of an instance carry the bill's account, amount, currency,    *)
(* direction and wording, so the dates decide every match.  Months have      *)
(* one length here and no occurrence falls on a weekend.  A charge is        *)
(* ingested by one pass; overlapping passes over one external id are         *)
(* LedgerSync's subject.                                                     *)
(*****************************************************************************)
EXTENDS Integers, FiniteSets, Columns

CONSTANTS
    Period,      \* days between two occurrences
    Before,      \* _match_window: days a charge may land before its occurrence
    After,       \* ... and after it
    Claim,       \* days between a charge and the placeholder it claims (5)
    Start,       \* start_date
    End,         \* end_date
    Charges,     \* the real charges
    DueOf,       \* the occurrence a charge pays
    DateOf,      \* the day it is booked
    Sessions,    \* sessions that can be in flight at once
    MaxDay,      \* bound: last day of the clock
    MaxBegun,    \* bound: sessions begun
    MaxEdits     \* bound: user edits

NoCharge == "none"
NoOccurrence == -1

ASSUME BillAssumption ==
    /\ NoCharge \notin Charges
    /\ Period \in Nat \ {0} /\ Before \in Nat /\ After \in Nat /\ Claim \in Nat
    /\ Start \in Nat /\ End \in Nat /\ Start <= End
    /\ MaxDay \in Nat /\ MaxBegun \in Nat /\ MaxEdits \in Nat
    /\ \A c \in Charges : /\ DueOf[c] \in Start..End
                          /\ (DueOf[c] - Start) % Period = 0
                          /\ DateOf[c] \in (DueOf[c] - Before)..(DueOf[c] + After)

VARIABLES
    today,
    next,      \* next_occurrence
    active,    \* is_active
    auto,      \* auto_generate
    rows,      \* transactions: id -> columns
    sess,      \* the sessions
    clock,     \* begins and commits so far
    edited,    \* occurrences whose rows the user has changed
    edits      \* counter for the bound

bill == <<next, active, auto>>
vars == <<today, bill, rows, sess, clock, edited, edits>>

Occurrences == {d \in Start..End : (d - Start) % Period = 0}
Pointers == {d \in Start..(End + 2 * Period) : (d - Start) % Period = 0}
Times == 0..(2 * MaxBegun)

(* A row is known by the session that wrote it and what for.               *)
Ids == Times \X (Occurrences \cup {NoOccurrence}) \X (Charges \cup {NoCharge})

(* due is history: the occurrence the row was written or linked for.       *)
Row == [date : 0..(MaxDay + After), source : {"recurring", "real"},
        linked : BOOLEAN, charge : Charges \cup {NoCharge}, ignored : BOOLEAN,
        due : Occurrences \cup {NoOccurrence}, span : Times \X Times]

Idle == [pc |-> "idle", begin |-> 0, cutoff |-> 0, next |-> Start,
         moved |-> FALSE, charge |-> NoCharge, add |-> <<>>, upd |-> <<>>]

TypeOK ==
    /\ today \in 0..MaxDay
    /\ next \in Pointers
    /\ active \in BOOLEAN /\ auto \in BOOLEAN
    /\ DOMAIN rows \subseteq Ids
    /\ \A i \in DOMAIN rows : rows[i] \in Row
    /\ DOMAIN sess = Sessions
    /\ \A s \in Sessions :
          /\ sess[s].pc \in {"idle", "due", "bill", "ready"}
          /\ sess[s].next \in Pointers /\ sess[s].moved \in BOOLEAN
          /\ DOMAIN sess[s].add \subseteq Ids /\ DOMAIN sess[s].upd \subseteq Ids
    /\ clock \in Times
    /\ edited \subseteq Occurrences

Init ==
    /\ today = 0
    /\ next = Start /\ active = TRUE /\ auto \in BOOLEAN
    /\ rows = <<>>
    /\ sess = [s \in Sessions |-> Idle]
    /\ clock = 0 /\ edited = {} /\ edits = 0

-----------------------------------------------------------------------------
(* What a session sees and changes.                                        *)

View(s) ==
    LET Seen == DOMAIN rows \cup DOMAIN s.add
    IN [i \in Seen |-> IF i \in DOMAIN s.add THEN s.add[i]
                       ELSE IF i \in DOMAIN s.upd THEN Overlay(s.upd[i], rows[i])
                       ELSE rows[i]]

Add(s, i, row) == [s EXCEPT !.add = With(@, i, row)]
Set(s, i, columns) == [s EXCEPT !.upd = With(@, i, columns)]

(* The window around an occurrence in which its charge may land.           *)
InWindow(date, due) == due - Before <= date /\ date <= due + After

(* Broken variant: every row of the neighbouring period covers as well.    *)
CoveredWide(V, due) ==
    \E i \in DOMAIN V : V[i].linked /\ V[i].date >= due - Period /\ V[i].date <= due + After

(* Broken variant: only a row of the very day covers.                      *)
CoveredExact(V, due) == \E i \in DOMAIN V : V[i].linked /\ V[i].date = due

(* occurrence_already_covered: ignored rows count.                         *)
Covered(V, due) ==
    \E i \in DOMAIN V : V[i].linked /\ InWindow(V[i].date, due)

(* find_real_tx_for_occurrence.                                            *)
RealFor(V, due) ==
    {i \in DOMAIN V : /\ ~V[i].linked /\ V[i].source = "real"
                      /\ ~V[i].ignored
                      /\ InWindow(V[i].date, due)}

(* Broken variant: the claim reaches into the neighbouring period.         *)
ClaimableWide(V, date) ==
    {i \in DOMAIN V : /\ V[i].source = "recurring" /\ V[i].linked
                      /\ V[i].charge = NoCharge
                      /\ ~V[i].ignored
                      /\ V[i].date >= date - Period /\ V[i].date <= date + Period}

(* find_placeholder_for_incoming.                                          *)
Claimable(V, date) ==
    {i \in DOMAIN V : /\ V[i].source = "recurring" /\ V[i].linked
                      /\ V[i].charge = NoCharge
                      /\ ~V[i].ignored
                      /\ V[i].date >= date - Claim /\ V[i].date <= date + Claim}

(* find_bill_for_incoming: whether the charge fulfils the next occurrence. *)
Fulfils(date, due) == active /\ InWindow(date, due)

(* advance_past: beyond the charge and beyond the occurrence it fulfilled. *)
AdvancePast(due, date) ==
    LET target == IF date > due THEN date ELSE due
    IN due + Period * ((target - due) \div Period + 1)

-----------------------------------------------------------------------------
InFlight == {s \in Sessions : sess[s].pc # "idle"}

(* A day passes; a session sees one midnight at most.                      *)
Day ==
    /\ today < MaxDay
    /\ \A s \in InFlight : sess[s].cutoff = today
    /\ today' = today + 1
    /\ UNCHANGED <<bill, rows, sess, clock, edited, edits>>

(* clock plus the sessions in flight is twice the sessions begun.          *)
Begin(s, state) ==
    /\ sess[s].pc = "idle"
    /\ clock + Cardinality(InFlight) < 2 * MaxBegun
    /\ clock' = clock + 1
    /\ sess' = [sess EXCEPT ![s] =
                   [state EXCEPT !.begin = clock', !.cutoff = today]]
    /\ UNCHANGED <<today, bill, rows, edited, edits>>

Becomes(s, state) ==
    /\ sess' = [sess EXCEPT ![s] = state]
    /\ UNCHANGED <<today, bill, rows, clock, edited, edits>>

(* generate_pending picks up the bill once it is due.                      *)
GenerateBegin(s) ==
    /\ active /\ auto /\ next <= today
    /\ Begin(s, [Idle EXCEPT !.pc = "due", !.next = next])

(* backfill_recurring rewinds the pointer to the start.                    *)
BackfillBegin(s) ==
    /\ active
    /\ Begin(s, [Idle EXCEPT !.pc = "due", !.next = Start, !.moved = next # Start])

More(s) == sess[s].next <= sess[s].cutoff /\ sess[s].next <= End

(* The row of an occurrence nothing covers.                                *)
Placeholder(s, due) ==
    [date |-> due, source |-> "recurring", linked |-> TRUE, charge |-> NoCharge,
     ignored |-> FALSE, due |-> due, span |-> <<s.begin, s.begin>>]

(* One turn of _materialize_due.                                           *)
Occurrence(s) ==
    LET due == sess[s].next
        V == View(sess[s])
        then == [sess[s] EXCEPT !.next = due + Period, !.moved = TRUE]
    IN /\ sess[s].pc = "due"
       /\ More(s)
       /\ IF Covered(V, due) THEN Becomes(s, then)
          ELSE IF RealFor(V, due) # {}
            THEN \E i \in RealFor(V, due) :
                    Becomes(s, Set(then, i, [linked |-> TRUE, due |-> due]))
          ELSE Becomes(s, Add(then, <<then.begin, due, NoCharge>>, Placeholder(then, due)))

(* A sync pass or an import comes upon a charge and looks for a         *)
(* placeholder first, whose row it then takes over, date and link kept. *)
ChargeBegin(s, c) ==
    LET found == Claimable(rows, DateOf[c])
        idle == [Idle EXCEPT !.charge = c]
    IN /\ DateOf[c] <= today
       /\ \A i \in DOMAIN rows : rows[i].charge # c
       /\ \A t \in Sessions : sess[t].charge # c
       /\ IF found # {}
            THEN \E i \in found :
                    Begin(s, Set([idle EXCEPT !.pc = "ready"], i,
                                 [source |-> "real", charge |-> c]))
            ELSE Begin(s, [idle EXCEPT !.pc = "bill"])

(* ... then for the bill, as it is by then; a charge that fulfils neither *)
(* is a row of its own.                                                   *)
ChargeBill(s) ==
    LET c == sess[s].charge
        fulfils == Fulfils(DateOf[c], next)
        row == [date |-> DateOf[c], source |-> "real", linked |-> fulfils,
                charge |-> c, ignored |-> FALSE,
                due |-> IF fulfils THEN next ELSE NoOccurrence,
                span |-> <<sess[s].begin, sess[s].begin>>]
        then == [sess[s] EXCEPT !.pc = "ready", !.moved = fulfils,
                    !.next = IF fulfils THEN AdvancePast(next, DateOf[c]) ELSE @]
    IN /\ sess[s].pc = "bill"
       /\ Becomes(s, Add(then, <<then.begin, NoOccurrence, c>>, row))

(* The commit writes the pointer if the session moved it, and deactivates *)
(* a bill that has passed its end.                                        *)
Commit(s) ==
    LET st == sess[s]
    IN /\ st.pc = "ready" \/ (st.pc = "due" /\ ~More(s))
       /\ DOMAIN st.upd \subseteq DOMAIN rows
       /\ clock' = clock + 1
       /\ next' = IF st.moved THEN st.next ELSE next
       /\ active' = (active /\ st.next <= End)
       /\ rows' = [i \in DOMAIN rows \cup DOMAIN st.add |->
              IF i \in DOMAIN st.add
                THEN [st.add[i] EXCEPT !.span = <<st.begin, clock'>>]
              ELSE IF i \in DOMAIN st.upd
                THEN Overlay(st.upd[i], rows[i])
              ELSE rows[i]]
       /\ sess' = [sess EXCEPT ![s] = Idle]
       /\ UNCHANGED <<today, auto, edited, edits>>

(* An exception rolls the session back; so does an UPDATE of a row that *)
(* was deleted meanwhile.                                               *)
Abort(s) ==
    /\ sess[s].pc # "idle"
    /\ clock' = clock + 1
    /\ sess' = [sess EXCEPT ![s] = Idle]
    /\ UNCHANGED <<today, bill, rows, edited, edits>>

-----------------------------------------------------------------------------
(* The user.                                                               *)

StandsFor(r) == IF r.charge = NoCharge THEN r.due ELSE DueOf[r.charge]

Edit(i) ==
    /\ edits < MaxEdits
    /\ edits' = edits + 1
    /\ edited' = edited \cup {StandsFor(rows[i])}
    /\ UNCHANGED <<today, bill, sess, clock>>

DeleteRow(i) ==
    /\ rows' = Without(rows, {i})
    /\ Edit(i)

ToggleIgnore(i) ==
    /\ rows' = [rows EXCEPT ![i].ignored = ~@]
    /\ Edit(i)

(* unlink_recurring_transaction: the bill stays where it is.               *)
Unlink(i) ==
    /\ rows[i].linked
    /\ rows' = [rows EXCEPT ![i].linked = FALSE]
    /\ Edit(i)

(* update_recurring_transaction on the two switches.                       *)
Pause ==
    /\ edits < MaxEdits
    /\ edits' = edits + 1
    /\ \/ active' = ~active /\ UNCHANGED auto
       \/ auto' = ~auto /\ UNCHANGED active
    /\ UNCHANGED <<today, next, rows, sess, clock, edited>>

Next ==
    \/ Day \/ Pause
    \/ \E s \in Sessions :
          \/ GenerateBegin(s) \/ BackfillBegin(s) \/ Occurrence(s)
          \/ ChargeBill(s) \/ Commit(s) \/ Abort(s)
          \/ \E c \in Charges : ChargeBegin(s, c)
    \/ \E i \in DOMAIN rows : DeleteRow(i) \/ ToggleIgnore(i) \/ Unlink(i)

Spec == Init /\ [][Next]_vars

-----------------------------------------------------------------------------
(* Properties.                                                             *)

Overlap(s, t) == s[1] < t[2] /\ t[1] < s[2]

(* An occurrence has two rows only when sessions that wrote them were in *)
(* flight together, or the user had a hand in it: generation, repeated   *)
(* backfills and late charges never count it twice one after the other.  *)
(* About _materialize_due, its checks and the matching of charges.       *)
OnceUnlessOverlapped ==
    \A i, j \in DOMAIN rows :
        i # j /\ StandsFor(rows[i]) = StandsFor(rows[j])
              /\ StandsFor(rows[i]) \notin edited
            => Overlap(rows[i].span, rows[j].span)

(* The pointer never moves past an occurrence that has no row: whatever *)
(* order rewinds, early charges and stale commits come in.  About       *)
(* advance_past, _materialize_due and backfill_recurring.               *)
NoOccurrenceLost ==
    \A d \in Occurrences : d < next /\ d \notin edited =>
        \E i \in DOMAIN rows : StandsFor(rows[i]) = d

(* A charge is linked for the occurrence it pays, never for a neighbour. *)
(* About the windows of recurring_match_service.                         *)
OwnOccurrence ==
    \A i \in DOMAIN rows :
        rows[i].linked /\ rows[i].charge # NoCharge =>
            rows[i].due = DueOf[rows[i].charge]
=============================================================================
