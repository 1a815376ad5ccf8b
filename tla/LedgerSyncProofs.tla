-------------------------- MODULE LedgerSyncProofs ---------------------------
(* What any number of overlapping passes make of any feed: two rows share an *)
(* account and an external id only if the passes that gave it to them were   *)
(* in flight at the same time. The operators of the invariant take the rows  *)
(* and the time as parameters, so that a session can be set beside the rows  *)
(* before and after somebody else's commit.                                  *)
(*                                                                           *)
(* Then the types, for which the pairing of transfers must take nothing but  *)
(* rows that exist; and, with hypotheses that each theorem names, that       *)
(* transfers stay mutual, that a pass keeps every operation it reads, and    *)
(* that an operation has one row.                                            *)
EXTENDS LedgerSync, TLAPS, FiniteSetTheorems

RowColumns == {"ext", "acct", "day", "side", "status", "source", "ignored", "pair", "op", "span"}
PassColumns == {"pc", "begin", "todo", "home", "items", "add", "upd", "del", "accts", "openAdd", "openDel",
                "seen", "calm"}
Settable == {"status", "ext", "source", "op", "pair"}

InFlight(s) == s.pc # "idle"

(* The committed rows whose external id a session changes. *)
Renamed(s) == {i \in DOMAIN s.upd : "ext" \in DOMAIN s.upd[i]}

(* A committed row that a session need not fear as the duplicate of one of its own: *)
(* it deletes the row, gives it another external id, or the row got the one it has  *)
(* when the session was in flight.                                                  *)
Settled(s, j, rs) == j \in s.del \/ j \in Renamed(s) \/ s.begin < rs[j].span[2]

(* Row i of a session has no duplicate among the committed ones to fear. *)
Clear(s, i, a, e, rs) ==
  \A j \in DOMAIN rs : j # i /\ rs[j].acct = a /\ rs[j].ext = e /\ e # NoExt => Settled(s, j, rs)

(* The account of a row that may be gone: one entered by hand may come again. *)
Home(i, a, rs) == IF i[1] = 0 THEN a = <<AcctOf[i[2]], "link">> ELSE i \in DOMAIN rs /\ rs[i].acct = a

AddFits(s, rs) ==
  \A i \in DOMAIN s.add : /\ i[1] = s.begin /\ DOMAIN s.add[i] = RowColumns
                          /\ Clear(s, i, s.add[i].acct, s.add[i].ext, rs)

UpdFits(s, rs, now) ==
  /\ \A i \in DOMAIN s.upd : DOMAIN s.upd[i] \subseteq Settable
  /\ \A i \in Renamed(s) : /\ i[1] \in Nat /\ i[1] <= now
                           /\ \A a : Home(i, a, rs) => Clear(s, i, a, s.upd[i].ext, rs)

SessionFits(s, rs, now) ==
  /\ DOMAIN s = PassColumns
  /\ InFlight(s) => /\ s.begin \in Nat /\ 0 < s.begin /\ s.begin <= now
                    /\ s.pc # "ready" => s.del = {}
                    /\ AddFits(s, rs) /\ UpdFits(s, rs, now)

RowFits(i, r, now) ==
  /\ i[1] \in Nat /\ i[1] <= now /\ DOMAIN r = RowColumns
  /\ i[1] = 0 => r.acct = <<AcctOf[i[2]], "link">>
  /\ r.ext # NoExt => /\ r.span[1] \in Nat /\ r.span[2] \in Nat
                      /\ r.span[1] < r.span[2] /\ r.span[2] <= now

(* A session's rows bear the time it began, which no other row does. *)
BeginsApart(ps, rs) ==
  \A p \in Passes : InFlight(ps[p]) =>
     /\ \A i \in DOMAIN rs : i[1] # ps[p].begin
     /\ \A q \in Passes \ {p} : InFlight(ps[q]) => ps[q].begin # ps[p].begin
     /\ \A q \in Passes : InFlight(ps[q]) => \A i \in Renamed(ps[q]) : i[1] # ps[p].begin

IInv ==
  /\ clock \in Nat /\ DOMAIN pass = Passes
  /\ \A i \in DOMAIN rows : RowFits(i, rows[i], clock)
  /\ \A p \in Passes : SessionFits(pass[p], rows, clock)
  /\ BeginsApart(pass, rows)
  /\ DuplicatesOnlyByOverlap
-----------------------------------------------------------------------------
(* Tables, and what a query of a session sees.                             *)

LEMMA ViewIs ==
  ASSUME NEW s
  PROVE  /\ DOMAIN View(s) = (DOMAIN rows \cup DOMAIN s.add) \ s.del
         /\ \A i \in DOMAIN View(s) :
               /\ i \in DOMAIN s.add => View(s)[i] = s.add[i]
               /\ i \notin DOMAIN s.add /\ i \in DOMAIN s.upd => View(s)[i] = Overlay(s.upd[i], rows[i])
               /\ i \notin DOMAIN s.add /\ i \notin DOMAIN s.upd => View(s)[i] = rows[i]
<1>1. PICK V : V = View(s)
  OBVIOUS
<1>2. V = [i \in (DOMAIN rows \cup DOMAIN s.add) \ s.del |->
             IF i \in DOMAIN s.add THEN s.add[i]
             ELSE IF i \in DOMAIN s.upd THEN Overlay(s.upd[i], rows[i]) ELSE rows[i]]
  BY <1>1 DEF View
<1>3. /\ DOMAIN V = (DOMAIN rows \cup DOMAIN s.add) \ s.del
      /\ \A i \in DOMAIN V :
            /\ i \in DOMAIN s.add => V[i] = s.add[i]
            /\ i \notin DOMAIN s.add /\ i \in DOMAIN s.upd => V[i] = Overlay(s.upd[i], rows[i])
            /\ i \notin DOMAIN s.add /\ i \notin DOMAIN s.upd => V[i] = rows[i]
  BY <1>2
<1> QED
  BY <1>1, <1>3

(* A session is judged by the rows it changes alone. *)
LEMMA SessionMoves ==
  ASSUME NEW s, NEW rs, NEW now, SessionFits(s, rs, now), InFlight(s), NEW t, DOMAIN t = PassColumns,
         t.begin = s.begin, t.add = s.add, t.upd = s.upd, t.del = s.del, t.pc # "ready" => t.del = {}
  PROVE  SessionFits(t, rs, now) /\ Renamed(t) = Renamed(s)
<1>1. Renamed(t) = Renamed(s)
  BY DEF Renamed
<1>2. \A j : Settled(s, j, rs) = Settled(t, j, rs)
  BY <1>1 DEF Settled
<1>3. \A i, a, e : Clear(s, i, a, e, rs) => Clear(t, i, a, e, rs)
  BY <1>2 DEF Clear
<1>4. AddFits(t, rs)
  BY <1>3 DEF AddFits, SessionFits
<1>5. UpdFits(t, rs, now)
  BY <1>1, <1>3 DEF UpdFits, SessionFits
<1> QED
  BY <1>1, <1>4, <1>5 DEF SessionFits

(* Where the lookup of an external id finds nothing, there is nothing to fear. *)
LEMMA FreeIsClear ==
  ASSUME NEW s, NEW now, SessionFits(s, rows, now), InFlight(s), \A j \in DOMAIN rows : j[1] # s.begin,
         \A j \in DOMAIN rows : DOMAIN rows[j] = RowColumns,
         NEW e, SameExt(s, e) = {}, NEW i
  PROVE  Clear(s, i, s.home, e, rows)
<1> SUFFICES ASSUME NEW j \in DOMAIN rows, rows[j].acct = s.home, rows[j].ext = e, ~Settled(s, j, rows)
             PROVE  FALSE
  BY DEF Clear
<1>1. j \notin s.del /\ j \notin Renamed(s)
  BY DEF Settled
<1>2. j \notin DOMAIN s.add
  BY DEF SessionFits, AddFits
<1>3. j \in DOMAIN View(s)
  BY <1>1, <1>2, ViewIs
<1>4. View(s)[j].acct = s.home /\ View(s)[j].ext = e
  <2>1. CASE j \notin DOMAIN s.upd
    BY <1>2, <1>3, <2>1, ViewIs
  <2>2. CASE j \in DOMAIN s.upd
    <3>1. View(s)[j] = Overlay(s.upd[j], rows[j])
      BY <1>2, <1>3, <2>2, ViewIs
    <3>2. "ext" \notin DOMAIN s.upd[j] /\ "acct" \notin DOMAIN s.upd[j]
      BY <1>1, <2>2 DEF Renamed, SessionFits, UpdFits, Settable
    <3>3. "ext" \in DOMAIN rows[j] /\ "acct" \in DOMAIN rows[j]
      BY DEF RowColumns
    <3>4. \A c \in DOMAIN rows[j] \ DOMAIN s.upd[j] : Overlay(s.upd[j], rows[j])[c] = rows[j][c]
      BY DEF Overlay
    <3>5. View(s)[j].acct = rows[j].acct /\ View(s)[j].ext = rows[j].ext
      BY <3>1, <3>2, <3>3, <3>4
    <3> QED
      BY <3>5
  <2> QED
    BY <2>1, <2>2
<1> QED
  BY <1>3, <1>4 DEF SameExt, InHome
-----------------------------------------------------------------------------
(* What a session does to its rows.                                        *)

(* What a session is given, beside its own state, when it looks at the rows. *)
Facts(s) ==
  /\ SessionFits(s, rows, clock) /\ InFlight(s)
  /\ \A j \in DOMAIN rows : RowFits(j, rows[j], clock) /\ j[1] # s.begin

(* A step of a session: it keeps the time it began, and renames committed rows alone. *)
Onward(s, t) ==
  /\ SessionFits(t, rows, clock) /\ InFlight(t) /\ t.begin = s.begin
  /\ Renamed(t) \subseteq Renamed(s) \cup DOMAIN rows

(* Columns set on a row that the session holds as its own. *)
LEMMA PutAddFits ==
  ASSUME NEW s, Facts(s), NEW i \in DOMAIN s.add, NEW columns, DOMAIN columns \subseteq Settable,
         "ext" \in DOMAIN columns => i \in InHome(s) /\ SameExt(s, columns.ext) = {}
  PROVE  Onward(s, Put(s, i, columns))
<1>1. PICK row : row = Overlay(columns, s.add[i])
  OBVIOUS
<1>2. PICK add : add = With(s.add, i, row)
  OBVIOUS
<1>3. PICK t : t = [s EXCEPT !.add = add]
  OBVIOUS
<1>4. Put(s, i, columns) = t
  BY <1>1, <1>2, <1>3 DEF Put
<1>5. /\ DOMAIN t = PassColumns /\ t.pc = s.pc /\ t.begin = s.begin
      /\ t.add = add /\ t.upd = s.upd /\ t.del = s.del
  BY <1>3 DEF Facts, SessionFits, PassColumns
<1>6. Renamed(t) = Renamed(s)
  BY <1>5 DEF Renamed
<1>7. \A k, a, e : Clear(s, k, a, e, rows) => Clear(t, k, a, e, rows)
  BY <1>5, <1>6 DEF Clear, Settled
<1>8. DOMAIN row = RowColumns /\ row.acct = s.add[i].acct
      /\ row.ext = IF "ext" \in DOMAIN columns THEN columns.ext ELSE s.add[i].ext
  <2>1. DOMAIN s.add[i] = RowColumns
    BY DEF Facts, SessionFits, AddFits
  <2>2. /\ DOMAIN row = DOMAIN columns \cup DOMAIN s.add[i]
        /\ \A c \in DOMAIN columns : row[c] = columns[c]
        /\ \A c \in DOMAIN s.add[i] \ DOMAIN columns : row[c] = s.add[i][c]
    BY <1>1 DEF Overlay
  <2> QED
    BY <2>1, <2>2 DEF RowColumns, Settable
<1>9. Clear(s, i, row.acct, row.ext, rows)
  <2>1. CASE "ext" \in DOMAIN columns
    <3>1. s.add[i].acct = s.home
      BY <2>1, ViewIs DEF InHome
    <3>2. Clear(s, i, s.home, columns.ext, rows)
      BY <2>1, FreeIsClear DEF Facts, RowFits
    <3> QED
      BY <1>8, <2>1, <3>1, <3>2
  <2>2. CASE "ext" \notin DOMAIN columns
    BY <1>8, <2>2 DEF Facts, SessionFits, AddFits
  <2> QED
    BY <2>1, <2>2
<1>10. DOMAIN add = DOMAIN s.add /\ add[i] = row /\ \A k \in DOMAIN s.add \ {i} : add[k] = s.add[k]
  BY <1>2 DEF With
<1>11. AddFits(t, rows)
  BY <1>5, <1>7, <1>8, <1>9, <1>10 DEF AddFits, Facts, SessionFits
<1>12. UpdFits(t, rows, clock)
  BY <1>5, <1>6, <1>7 DEF UpdFits, Facts, SessionFits
<1>13. SessionFits(t, rows, clock) /\ InFlight(t)
  BY <1>5, <1>11, <1>12 DEF SessionFits, Facts, InFlight
<1> QED
  BY <1>4, <1>5, <1>6, <1>13 DEF Onward

(* Columns set on a committed row. *)
LEMMA PutUpdFits ==
  ASSUME NEW s, Facts(s), NEW i, i \notin DOMAIN s.add, NEW columns, DOMAIN columns \subseteq Settable,
         "ext" \in DOMAIN columns => i \in InHome(s) /\ SameExt(s, columns.ext) = {}
  PROVE  Onward(s, Put(s, i, columns))
<1>1. PICK old : old = IF i \in DOMAIN s.upd THEN s.upd[i] ELSE <<>>
  OBVIOUS
<1>2. PICK set : set = Overlay(columns, old)
  OBVIOUS
<1>3. PICK upd : upd = With(s.upd, i, set)
  OBVIOUS
<1>4. PICK t : t = [s EXCEPT !.upd = upd]
  OBVIOUS
<1>5. Put(s, i, columns) = t
  BY <1>1, <1>2, <1>3, <1>4 DEF Put
<1>6. /\ DOMAIN t = PassColumns /\ t.pc = s.pc /\ t.begin = s.begin
      /\ t.add = s.add /\ t.upd = upd /\ t.del = s.del
  BY <1>4 DEF Facts, SessionFits, PassColumns
<1>7. DOMAIN upd = DOMAIN s.upd \cup {i} /\ upd[i] = set /\ \A k \in DOMAIN s.upd \ {i} : upd[k] = s.upd[k]
  BY <1>3 DEF With
<1>8. /\ DOMAIN set = DOMAIN columns \cup DOMAIN old
      /\ \A c \in DOMAIN columns : set[c] = columns[c]
      /\ \A c \in DOMAIN old \ DOMAIN columns : set[c] = old[c]
  BY <1>2 DEF Overlay
<1>9. DOMAIN <<>> = {}
  OBVIOUS
<1>10. DOMAIN old \subseteq Settable /\ ("ext" \in DOMAIN old <=> i \in Renamed(s))
       /\ (i \in Renamed(s) => old = s.upd[i])
  BY <1>1, <1>9 DEF Facts, SessionFits, UpdFits, Renamed
<1>11. Renamed(s) \subseteq Renamed(t)
  BY <1>6, <1>7, <1>8, <1>10 DEF Renamed
<1>12. \A k, a, e : Clear(s, k, a, e, rows) => Clear(t, k, a, e, rows)
  BY <1>6, <1>11 DEF Clear, Settled
<1>13. AddFits(t, rows)
  BY <1>6, <1>12 DEF AddFits, Facts, SessionFits
<1>14. ASSUME "ext" \in DOMAIN columns
       PROVE  /\ i \in DOMAIN rows /\ i[1] \in Nat /\ i[1] <= clock
              /\ \A a : Home(i, a, rows) => Clear(s, i, a, columns.ext, rows)
  <2>1. i \in DOMAIN View(s) /\ View(s)[i].acct = s.home /\ i \in DOMAIN rows
    BY <1>14, ViewIs DEF InHome
  <2>2. RowFits(i, rows[i], clock)
    BY <2>1 DEF Facts
  <2>3. rows[i].acct = s.home
    <3>1. CASE i \notin DOMAIN s.upd
      BY <2>1, <3>1, ViewIs
    <3>2. CASE i \in DOMAIN s.upd
      <4>1. "acct" \notin DOMAIN s.upd[i] /\ "acct" \in DOMAIN rows[i]
        BY <2>2, <3>2 DEF Facts, SessionFits, UpdFits, Settable, RowFits, RowColumns
      <4>2. View(s)[i] = Overlay(s.upd[i], rows[i])
        BY <2>1, <3>2, ViewIs
      <4>3. \A c \in DOMAIN rows[i] \ DOMAIN s.upd[i] : Overlay(s.upd[i], rows[i])[c] = rows[i][c]
        BY DEF Overlay
      <4>4. View(s)[i].acct = rows[i].acct
        BY <4>1, <4>2, <4>3
      <4> QED
        BY <2>1, <4>4
    <3> QED
      BY <3>1, <3>2
  <2>4. \A a : Home(i, a, rows) => a = s.home
    BY <2>2, <2>3 DEF Home, RowFits
  <2>5. Clear(s, i, s.home, columns.ext, rows)
    BY <1>14, FreeIsClear DEF Facts, RowFits
  <2> QED
    BY <2>1, <2>2, <2>4, <2>5 DEF RowFits
<1>15. Renamed(t) \subseteq Renamed(s) \cup DOMAIN rows
  BY <1>6, <1>7, <1>8, <1>10, <1>14 DEF Renamed
<1>16. ASSUME NEW k \in Renamed(t)
       PROVE  /\ k[1] \in Nat /\ k[1] <= clock
              /\ \A a : Home(k, a, rows) => Clear(s, k, a, upd[k].ext, rows)
  <2>1. CASE k = i /\ "ext" \in DOMAIN columns
    BY <1>7, <1>8, <1>14, <2>1
  <2>2. CASE ~(k = i /\ "ext" \in DOMAIN columns)
    <3>1. k \in Renamed(s) /\ upd[k].ext = s.upd[k].ext
      BY <1>6, <1>7, <1>8, <1>10, <2>2 DEF Renamed
    <3> QED
      BY <3>1 DEF Facts, SessionFits, UpdFits
  <2> QED
    BY <2>1, <2>2
<1>17. \A k \in DOMAIN upd : DOMAIN upd[k] \subseteq Settable
  BY <1>7, <1>8, <1>10 DEF Facts, SessionFits, UpdFits
<1>18. UpdFits(t, rows, clock)
  BY <1>6, <1>12, <1>16, <1>17 DEF UpdFits
<1>19. SessionFits(t, rows, clock) /\ InFlight(t)
  BY <1>6, <1>13, <1>18 DEF SessionFits, Facts, InFlight
<1> QED
  BY <1>5, <1>6, <1>15, <1>19 DEF Onward

(* A row of its own, where the lookup of its external id found none. *)
LEMMA InsertFits ==
  ASSUME NEW s, Facts(s), NEW e, NEW st, SameExt(s, e) = {}
  PROVE  Onward(s, Insert(s, e, st))
<1>1. PICK i : i = <<s.begin, e>>
  OBVIOUS
<1>2. PICK row : row = [ext |-> e, acct |-> s.home, day |-> DayOf[e], side |-> SideOf[e],
                        status |-> st, source |-> "sync", ignored |-> FALSE, pair |-> {},
                        op |-> OpOf[e], span |-> <<s.begin, s.begin>>]
  OBVIOUS
<1>3. PICK add : add = With(s.add, i, row)
  OBVIOUS
<1>4. PICK t : t = [s EXCEPT !.add = add]
  OBVIOUS
<1>5. Insert(s, e, st) = t
  BY <1>1, <1>2, <1>3, <1>4 DEF Insert
<1>6. /\ DOMAIN t = PassColumns /\ t.pc = s.pc /\ t.begin = s.begin
      /\ t.add = add /\ t.upd = s.upd /\ t.del = s.del
  BY <1>4 DEF Facts, SessionFits, PassColumns
<1>7. Renamed(t) = Renamed(s)
  BY <1>6 DEF Renamed
<1>8. \A k, a, f : Clear(s, k, a, f, rows) => Clear(t, k, a, f, rows)
  BY <1>6, <1>7 DEF Clear, Settled
<1>9. i[1] = s.begin /\ DOMAIN row = RowColumns /\ row.acct = s.home /\ row.ext = e
  BY <1>1, <1>2 DEF RowColumns
<1>10. Clear(s, i, s.home, e, rows)
  BY FreeIsClear DEF Facts, RowFits
<1>11. DOMAIN add = DOMAIN s.add \cup {i} /\ add[i] = row /\ \A k \in DOMAIN s.add \ {i} : add[k] = s.add[k]
  BY <1>3 DEF With
<1>12. AddFits(t, rows)
  BY <1>6, <1>8, <1>9, <1>10, <1>11 DEF AddFits, Facts, SessionFits
<1>13. UpdFits(t, rows, clock)
  BY <1>6, <1>7, <1>8 DEF UpdFits, Facts, SessionFits
<1>14. SessionFits(t, rows, clock) /\ InFlight(t)
  BY <1>6, <1>12, <1>13 DEF SessionFits, Facts, InFlight
<1> QED
  BY <1>5, <1>6, <1>7, <1>14 DEF Onward

(* One report of the feed, through the three passes of the matching. *)
LEMMA MatchFits ==
  ASSUME NEW s, Facts(s), NEW e, NEW st, NEW t,
         IF SameExt(s, e) # {} THEN t = ByExt(s, e, st)
         ELSE IF ManualMatches(s, e) # {} THEN \E i \in ManualMatches(s, e) : t = ByManual(s, i, e)
         ELSE IF SyncedTwins(s, e, st) # {} THEN \E i \in SyncedTwins(s, e, st) : t = ByTwin(s, i, e, st)
         ELSE t = Insert(s, e, st)
  PROVE  Onward(s, t)
<1>1. Onward(s, s)
  BY DEF Onward, Facts
<1>2. ASSUME NEW i, NEW columns, DOMAIN columns \subseteq Settable,
             "ext" \in DOMAIN columns => i \in InHome(s) /\ SameExt(s, columns.ext) = {}
      PROVE  Onward(s, Put(s, i, columns))
  BY <1>2, PutAddFits, PutUpdFits
<1>3. CASE SameExt(s, e) # {}
  <2>1. PICK i : i = Oldest(SameExt(s, e))
    OBVIOUS
  <2>2. PICK columns : columns = [status |-> "posted"]
    OBVIOUS
  <2>3. DOMAIN columns = {"status"}
    BY <2>2
  <2>4. t = s \/ t = Put(s, i, columns)
    BY <1>3, <2>1, <2>2 DEF ByExt
  <2>5. Onward(s, Put(s, i, columns))
    BY <1>2, <2>3 DEF Settable
  <2> QED
    BY <1>1, <2>4, <2>5
<1>4. ASSUME SameExt(s, e) = {}, NEW i \in InHome(s), t = ByManual(s, i, e) PROVE Onward(s, t)
  <2>1. PICK columns : columns = [ext |-> e, source |-> "sync", op |-> OpOf[e]]
    OBVIOUS
  <2>2. DOMAIN columns = {"ext", "source", "op"} /\ columns.ext = e
    BY <2>1
  <2>3. t = s \/ t = Put(s, i, columns)
    BY <1>4, <2>1 DEF ByManual
  <2>4. Onward(s, Put(s, i, columns))
    BY <1>2, <1>4, <2>2 DEF Settable
  <2> QED
    BY <1>1, <2>3, <2>4
<1>5. ASSUME SameExt(s, e) = {}, NEW i \in InHome(s), t = ByTwin(s, i, e, st) PROVE Onward(s, t)
  <2>1. PICK columns : columns = [status |-> "posted", ext |-> e, op |-> OpOf[e]]
    OBVIOUS
  <2>2. DOMAIN columns = {"status", "ext", "op"} /\ columns.ext = e
    BY <2>1
  <2>3. t = s \/ t = Put(s, i, columns)
    BY <1>5, <2>1 DEF ByTwin
  <2>4. Onward(s, Put(s, i, columns))
    BY <1>2, <1>5, <2>2 DEF Settable
  <2> QED
    BY <1>1, <2>3, <2>4
<1>6. ManualMatches(s, e) \subseteq InHome(s) /\ SyncedTwins(s, e, st) \subseteq InHome(s)
  BY DEF ManualMatches, SyncedTwins
<1> QED
  BY <1>3, <1>4, <1>5, <1>6, InsertFits
-----------------------------------------------------------------------------
(* The steps of one pass that leave the committed rows alone.              *)

LEMMA FactsOf ==
  ASSUME IInv, NEW p \in Passes, InFlight(pass[p])
  PROVE  Facts(pass[p])
BY DEF IInv, BeginsApart, Facts

(* The invariant, where the rows are what they were. *)
LEMMA SameRows ==
  ASSUME IInv, rows' = rows
  PROVE  DuplicatesOnlyByOverlap'
BY DEF IInv, DuplicatesOnlyByOverlap

LEMMA OnwardKeeps ==
  ASSUME IInv, NEW p \in Passes, InFlight(pass[p]), NEW t, Onward(pass[p], t),
         DOMAIN pass' = Passes, pass'[p] = t, \A q \in Passes \ {p} : pass'[q] = pass[q],
         UNCHANGED <<rows, clock>>
  PROVE  IInv'
<1>1. DOMAIN pass' = Passes /\ pass'[p] = t /\ \A q \in Passes \ {p} : pass'[q] = pass[q]
  OBVIOUS
<1>2. \A q \in Passes : SessionFits(pass'[q], rows, clock)
  BY <1>1 DEF IInv, Onward
<1>3. BeginsApart(pass', rows)
  <2>1. InFlight(t) /\ t.begin = pass[p].begin /\ Renamed(t) \subseteq Renamed(pass[p]) \cup DOMAIN rows
    BY DEF Onward
  <2>2. \A q \in Passes : /\ InFlight(pass'[q]) <=> InFlight(pass[q])
                          /\ InFlight(pass[q]) => pass'[q].begin = pass[q].begin
                          /\ Renamed(pass'[q]) \subseteq Renamed(pass[q]) \cup DOMAIN rows
    BY <1>1, <2>1
  <2>3. BeginsApart(pass, rows)
    BY DEF IInv
  <2> QED
    BY <2>2, <2>3 DEF BeginsApart
<1>4. DuplicatesOnlyByOverlap'
  BY SameRows
<1> QED
  BY <1>1, <1>2, <1>3, <1>4 DEF IInv

(* A step that leaves alone what the session does to its rows. *)
LEMMA MovesKeep ==
  ASSUME IInv, NEW p \in Passes, InFlight(pass[p]), NEW t, DOMAIN t = PassColumns, InFlight(t),
         t.begin = pass[p].begin, t.add = pass[p].add, t.upd = pass[p].upd, t.del = pass[p].del,
         t.pc # "ready", pass[p].pc # "ready",
         DOMAIN pass' = Passes, pass'[p] = t, \A q \in Passes \ {p} : pass'[q] = pass[q],
         UNCHANGED <<rows, clock>>
  PROVE  IInv'
<1>1. SessionFits(pass[p], rows, clock) /\ pass[p].del = {}
  BY DEF IInv, SessionFits
<1>2. SessionFits(t, rows, clock) /\ Renamed(t) = Renamed(pass[p])
  BY <1>1, SessionMoves
<1>3. Onward(pass[p], t)
  BY <1>2 DEF Onward
<1> QED
  BY <1>3, OnwardKeeps

LEMMA FetchKeeps ==
  ASSUME IInv, NEW p \in Passes, NEW a \in Accounts, Fetch(p, a)
  PROVE  IInv'
<1>1. DOMAIN pass = Passes /\ DOMAIN pass[p] = PassColumns /\ pass[p].pc = "account"
  BY DEF IInv, SessionFits, Fetch
<1>2. \E home, items, todo, more, seen :
         pass' = [pass EXCEPT ![p].pc = "items", ![p].home = home, ![p].items = items, ![p].todo = todo,
                              ![p].accts = more, ![p].seen = seen]
  BY DEF Fetch
<1>3. PICK home, items, todo, more, seen :
         pass' = [pass EXCEPT ![p].pc = "items", ![p].home = home, ![p].items = items, ![p].todo = todo,
                              ![p].accts = more, ![p].seen = seen]
  BY <1>2
<1>4. DOMAIN pass' = Passes /\ \A q \in Passes \ {p} : pass'[q] = pass[q]
  BY <1>1, <1>3
<1>5. PICK t : t = pass'[p]
  OBVIOUS
<1>6. /\ DOMAIN t = PassColumns /\ t.pc = "items"
      /\ t.begin = pass[p].begin /\ t.add = pass[p].add /\ t.upd = pass[p].upd /\ t.del = pass[p].del
  BY <1>1, <1>3, <1>5 DEF PassColumns
<1>7. InFlight(t) /\ InFlight(pass[p])
  BY <1>1, <1>6 DEF InFlight
<1> QED
  BY <1>1, <1>4, <1>5, <1>6, <1>7, MovesKeep DEF Fetch

LEMMA OpeningKeeps ==
  ASSUME IInv, NEW p \in Passes, Opening(p)
  PROVE  IInv'
<1>1. DOMAIN pass = Passes /\ DOMAIN pass[p] = PassColumns /\ pass[p].pc = "items"
  BY DEF IInv, SessionFits, Opening
<1>2. PICK gap \in Gaps :
        LET s == pass[p]
            found == {o \in openings : o[1] = s.home}
        IN Becomes(p, [s EXCEPT
             !.pc = IF s.todo = {} THEN "reconcile" ELSE "account",
             !.openAdd = IF gap /\ found = {} THEN @ \cup {<<s.home, p>>} ELSE @,
             !.openDel = IF gap THEN @ ELSE @ \cup found])
  BY DEF Opening
<1>3. PICK t : LET s == pass[p]
                   found == {o \in openings : o[1] = s.home}
               IN t = [s EXCEPT
                         !.pc = IF s.todo = {} THEN "reconcile" ELSE "account",
                         !.openAdd = IF gap /\ found = {} THEN @ \cup {<<s.home, p>>} ELSE @,
                         !.openDel = IF gap THEN @ ELSE @ \cup found]
  OBVIOUS
<1>4. /\ DOMAIN t = PassColumns /\ t.pc \in {"reconcile", "account"}
      /\ t.begin = pass[p].begin /\ t.add = pass[p].add /\ t.upd = pass[p].upd /\ t.del = pass[p].del
  BY <1>1, <1>3 DEF PassColumns
<1>5. DOMAIN pass' = Passes /\ pass'[p] = t /\ \A q \in Passes \ {p} : pass'[q] = pass[q]
  <2>1. pass' = [pass EXCEPT ![p] = t]
    BY <1>2, <1>3 DEF Becomes
  <2> QED
    BY <1>1, <2>1
<1>6. InFlight(t) /\ InFlight(pass[p]) /\ t.pc # "ready"
  BY <1>1, <1>4 DEF InFlight
<1>7. UNCHANGED <<rows, clock>>
  BY DEF Opening, Becomes
<1> QED
  BY <1>1, <1>4, <1>5, <1>6, <1>7, MovesKeep

LEMMA ItemKeeps ==
  ASSUME IInv, NEW p \in Passes, NEW e \in Exts, NEW st \in {"pending", "posted"}, Item(p, e, st)
  PROVE  IInv'
<1>1. PICK s : s = [pass[p] EXCEPT !.items = @ \ {<<e, st>>}]
  OBVIOUS
<1>2. DOMAIN pass[p] = PassColumns /\ pass[p].pc = "items" /\ InFlight(pass[p])
  BY DEF IInv, SessionFits, Item, InFlight
<1>3. /\ DOMAIN s = PassColumns /\ s.pc = "items"
      /\ s.begin = pass[p].begin /\ s.add = pass[p].add /\ s.upd = pass[p].upd /\ s.del = pass[p].del
  BY <1>1, <1>2 DEF PassColumns
<1>4. SessionFits(s, rows, clock) /\ Renamed(s) = Renamed(pass[p])
  <2>1. SessionFits(pass[p], rows, clock) /\ pass[p].del = {}
    BY <1>2 DEF IInv, SessionFits
  <2> QED
    BY <1>2, <1>3, <2>1, SessionMoves
<1>5. Facts(s)
  BY <1>2, <1>3, <1>4, FactsOf DEF Facts, InFlight
<1>6. PICK t : /\ pass' = [pass EXCEPT ![p] = t]
               /\ IF SameExt(s, e) # {} THEN t = ByExt(s, e, st)
                  ELSE IF ManualMatches(s, e) # {} THEN \E i \in ManualMatches(s, e) : t = ByManual(s, i, e)
                  ELSE IF SyncedTwins(s, e, st) # {} THEN \E i \in SyncedTwins(s, e, st) : t = ByTwin(s, i, e, st)
                  ELSE t = Insert(s, e, st)
  BY <1>1 DEF Item, Becomes
<1>7. Onward(s, t)
  BY <1>5, <1>6, MatchFits
<1>8. Onward(pass[p], t)
  BY <1>3, <1>4, <1>7 DEF Onward
<1>9. UNCHANGED <<rows, clock>>
  BY DEF Item, Becomes
<1>10. DOMAIN pass' = Passes /\ pass'[p] = t /\ \A q \in Passes \ {p} : pass'[q] = pass[q]
  BY <1>6 DEF IInv
<1> QED
  BY <1>2, <1>8, <1>9, <1>10, OnwardKeeps

LEMMA AbortKeeps ==
  ASSUME IInv, NEW p \in Passes, Abort(p)
  PROVE  IInv'
<1>1. DOMAIN PassIdle = PassColumns /\ ~InFlight(PassIdle)
  BY DEF PassIdle, PassColumns, InFlight
<1>2. pass' = [pass EXCEPT ![p] = PassIdle] /\ UNCHANGED <<rows, clock>>
  BY DEF Abort, Becomes
<1>3. DOMAIN pass' = Passes /\ pass'[p] = PassIdle /\ \A q \in Passes \ {p} : pass'[q] = pass[q]
  BY <1>2 DEF IInv
<1>4. \A q \in Passes : SessionFits(pass'[q], rows, clock)
  BY <1>1, <1>3 DEF IInv, SessionFits
<1>5. BeginsApart(pass', rows)
  BY <1>1, <1>3 DEF IInv, BeginsApart
<1>6. DuplicatesOnlyByOverlap'
  BY <1>2, SameRows
<1> QED
  BY <1>2, <1>3, <1>4, <1>5, <1>6 DEF IInv

(* A pass begins: what it will insert bears a time no row bears yet. *)
LEMMA BeginKeeps ==
  ASSUME IInv, NEW p \in Passes, Begin(p)
  PROVE  IInv'
<1>1. PICK now : now = clock + 1 /\ now \in Nat /\ clock \in Nat /\ clock < now
  BY DEF IInv
<1>2. clock' = now /\ rows' = rows
  BY <1>1 DEF Begin
<1>3. PICK t : t = [PassIdle EXCEPT !.pc = "account", !.begin = now, !.todo = Accounts]
  OBVIOUS
<1>4. /\ DOMAIN t = PassColumns /\ t.pc = "account" /\ t.begin = now
      /\ t.add = <<>> /\ t.upd = <<>> /\ t.del = {}
  BY <1>3 DEF PassIdle, PassColumns
<1>5. DOMAIN <<>> = {}
  OBVIOUS
<1>6. DOMAIN pass' = Passes /\ pass'[p] = t /\ \A q \in Passes \ {p} : pass'[q] = pass[q]
  BY <1>2, <1>3 DEF Begin, IInv
<1>7. Renamed(t) = {} /\ InFlight(t)
  BY <1>4, <1>5 DEF Renamed, InFlight
<1>8. SessionFits(t, rows, now)
  BY <1>1, <1>4, <1>5, <1>7 DEF SessionFits, AddFits, UpdFits
<1>9. ASSUME NEW q \in Passes \ {p} PROVE SessionFits(pass'[q], rows, now)
  <2>1. SessionFits(pass[q], rows, clock) /\ pass'[q] = pass[q]
    BY <1>6 DEF IInv
  <2>2. AddFits(pass[q], rows) /\ UpdFits(pass[q], rows, clock) => UpdFits(pass[q], rows, now)
    BY <1>1 DEF UpdFits
  <2> QED
    BY <1>1, <2>1, <2>2 DEF SessionFits
<1>10. \A i \in DOMAIN rows : RowFits(i, rows[i], now) /\ i[1] # now
  BY <1>1 DEF IInv, RowFits
<1>11. BeginsApart(pass', rows)
  <2>1. \A q \in Passes : InFlight(pass[q]) => pass[q].begin # now
    BY <1>1 DEF IInv, SessionFits
  <2>2. \A q \in Passes : InFlight(pass[q]) => \A i \in Renamed(pass[q]) : i[1] # now
    BY <1>1 DEF IInv, SessionFits, UpdFits
  <2>3. BeginsApart(pass, rows)
    BY DEF IInv
  <2> QED
    BY <1>4, <1>6, <1>7, <1>10, <2>1, <2>2, <2>3 DEF BeginsApart
<1>12. DuplicatesOnlyByOverlap'
  BY <1>2, SameRows
<1> QED
  BY <1>1, <1>2, <1>6, <1>8, <1>9, <1>10, <1>11, <1>12 DEF IInv
-----------------------------------------------------------------------------
(* Pairing and the cleanup, whatever pairs the pairing finds.              *)

LEMMA PairedIs ==
  ASSUME NEW s, Facts(s), NEW pairs, NEW t, t = Paired(s, pairs)
  PROVE  /\ DOMAIN t = PassColumns /\ t.begin = s.begin
         /\ DOMAIN t.add = DOMAIN s.add
         /\ \A i \in DOMAIN s.add : /\ DOMAIN t.add[i] = RowColumns
                                    /\ t.add[i].acct = s.add[i].acct /\ t.add[i].ext = s.add[i].ext
         /\ \A i \in DOMAIN t.upd : DOMAIN t.upd[i] \subseteq Settable
         /\ \A i \in Renamed(t) : i \in Renamed(s) /\ t.upd[i].ext = s.upd[i].ext
         /\ \A i \in Renamed(s) \ DOMAIN s.add : i \in Renamed(t)
<1> DEFINE Marked == UNION pairs
           IdOf(i) == CHOOSE m \in pairs : i \in m
           Mark(i) == IF i \in Marked THEN [pair |-> IdOf(i)] ELSE <<>>
           Old(i) == IF i \in DOMAIN s.upd THEN s.upd[i] ELSE <<>>
<1>1. PICK add : add = [i \in DOMAIN s.add |-> IF i \in Marked THEN [s.add[i] EXCEPT !.pair = IdOf(i)] ELSE s.add[i]]
  OBVIOUS
<1>2. PICK upd : upd = [i \in (DOMAIN s.upd \cup Marked) \ DOMAIN s.add |-> Overlay(Mark(i), Old(i))]
  OBVIOUS
<1>3. t = [s EXCEPT !.add = add, !.upd = upd]
  BY <1>1, <1>2 DEF Paired
<1>4. DOMAIN s = PassColumns
  BY DEF Facts, SessionFits
<1>5. DOMAIN t = PassColumns /\ t.begin = s.begin /\ t.add = add /\ t.upd = upd
  BY <1>3, <1>4 DEF PassColumns
<1> HIDE DEF Marked, IdOf
<1>6. DOMAIN add = DOMAIN s.add
  BY <1>1
<1>7. ASSUME NEW i \in DOMAIN s.add
      PROVE  /\ DOMAIN add[i] = RowColumns
             /\ add[i].acct = s.add[i].acct /\ add[i].ext = s.add[i].ext
  <2>1. DOMAIN s.add[i] = RowColumns
    BY DEF Facts, SessionFits, AddFits
  <2>2. add[i] = s.add[i] \/ add[i] = [s.add[i] EXCEPT !.pair = IdOf(i)]
    BY <1>1
  <2> QED
    BY <2>1, <2>2 DEF RowColumns
<1>8. DOMAIN <<>> = {}
  OBVIOUS
<1>9. \A i : DOMAIN Mark(i) \subseteq {"pair"}
  BY <1>8
<1>10. \A i : /\ DOMAIN Old(i) \subseteq Settable
              /\ "ext" \in DOMAIN Old(i) <=> i \in Renamed(s)
              /\ i \in Renamed(s) => Old(i) = s.upd[i]
  BY <1>8 DEF Facts, SessionFits, UpdFits, Renamed
<1> HIDE DEF Mark, Old
<1>11. DOMAIN upd = (DOMAIN s.upd \cup Marked) \ DOMAIN s.add
  BY <1>2
<1>12. ASSUME NEW i \in DOMAIN upd
       PROVE  /\ DOMAIN upd[i] = DOMAIN Mark(i) \cup DOMAIN Old(i)
              /\ \A c \in DOMAIN Old(i) \ DOMAIN Mark(i) : upd[i][c] = Old(i)[c]
  BY <1>2, <1>11 DEF Overlay
<1>13. \A i \in DOMAIN upd : DOMAIN upd[i] \subseteq Settable
  BY <1>9, <1>10, <1>12 DEF Settable
<1>14. ASSUME NEW i \in DOMAIN upd, "ext" \in DOMAIN upd[i]
       PROVE  i \in Renamed(s) /\ upd[i].ext = s.upd[i].ext
  BY <1>9, <1>10, <1>12, <1>14
<1>15. ASSUME NEW i \in Renamed(s) \ DOMAIN s.add
       PROVE  i \in DOMAIN upd /\ "ext" \in DOMAIN upd[i]
  <2>1. i \in DOMAIN upd
    BY <1>11, <1>15 DEF Renamed
  <2> QED
    BY <1>10, <1>12, <1>15, <2>1
<1> QED
  BY <1>5, <1>6, <1>7, <1>13, <1>14, <1>15 DEF Renamed

LEMMA ReconcileKeeps ==
  ASSUME IInv, NEW p \in Passes, Reconcile(p)
  PROVE  IInv'
<1>1. PICK s : s = pass[p]
  OBVIOUS
<1>2. s.pc = "reconcile" /\ InFlight(s) /\ s.del = {} /\ Facts(s)
  BY <1>1, FactsOf DEF Reconcile, InFlight, IInv, SessionFits
<1>3. PICK pairs : LET m == Paired(s, pairs)
                       gone == PhantomRows(View(m))
                   IN Becomes(p, [m EXCEPT !.pc = "ready",
                                     !.add = Without(@, gone),
                                     !.upd = Without(@, gone),
                                     !.del = gone \ DOMAIN m.add])
  BY <1>1 DEF Reconcile
<1>4. PICK m : m = Paired(s, pairs)
  OBVIOUS
<1>5. PICK gone : gone = PhantomRows(View(m))
  OBVIOUS
<1>6. PICK t : t = [m EXCEPT !.pc = "ready", !.add = Without(@, gone), !.upd = Without(@, gone),
                             !.del = gone \ DOMAIN m.add]
  OBVIOUS
<1>7. pass' = [pass EXCEPT ![p] = t] /\ UNCHANGED <<rows, clock>>
  BY <1>3, <1>4, <1>5, <1>6 DEF Becomes
<1>8. /\ DOMAIN m = PassColumns /\ m.begin = s.begin
      /\ DOMAIN m.add = DOMAIN s.add
      /\ \A i \in DOMAIN s.add : /\ DOMAIN m.add[i] = RowColumns
                                 /\ m.add[i].acct = s.add[i].acct /\ m.add[i].ext = s.add[i].ext
      /\ \A i \in DOMAIN m.upd : DOMAIN m.upd[i] \subseteq Settable
      /\ \A i \in Renamed(m) : i \in Renamed(s) /\ m.upd[i].ext = s.upd[i].ext
      /\ \A i \in Renamed(s) \ DOMAIN s.add : i \in Renamed(m)
  BY <1>2, <1>4, PairedIs
<1>9. /\ DOMAIN t = PassColumns /\ t.pc = "ready" /\ t.begin = s.begin
      /\ t.add = Without(m.add, gone) /\ t.upd = Without(m.upd, gone) /\ t.del = gone \ DOMAIN s.add
  BY <1>6, <1>8 DEF PassColumns
<1>10. DOMAIN t.add = DOMAIN m.add \ gone /\ \A i \in DOMAIN t.add : t.add[i] = m.add[i]
  BY <1>9 DEF Without
<1>11. DOMAIN t.upd = DOMAIN m.upd \ gone /\ \A i \in DOMAIN t.upd : t.upd[i] = m.upd[i]
  BY <1>9 DEF Without
<1>12. Renamed(t) = Renamed(m) \ gone
  BY <1>11 DEF Renamed
<1>13. ASSUME NEW j \in DOMAIN rows, Settled(s, j, rows) PROVE Settled(t, j, rows)
  <2>1. j \notin DOMAIN s.add
    BY <1>2 DEF Facts, SessionFits, AddFits
  <2> QED
    BY <1>2, <1>8, <1>9, <1>12, <1>13, <2>1 DEF Settled
<1>14. \A i, a, e : Clear(s, i, a, e, rows) => Clear(t, i, a, e, rows)
  BY <1>13 DEF Clear
<1>15. AddFits(t, rows)
  BY <1>2, <1>8, <1>9, <1>10, <1>14 DEF AddFits, Facts, SessionFits
<1>16. UpdFits(t, rows, clock)
  <2>1. \A i \in DOMAIN t.upd : DOMAIN t.upd[i] \subseteq Settable
    BY <1>8, <1>11
  <2>2. \A i \in Renamed(t) : i \in Renamed(s) /\ t.upd[i].ext = s.upd[i].ext
    BY <1>8, <1>11, <1>12 DEF Renamed
  <2>3. UpdFits(s, rows, clock)
    BY <1>2 DEF Facts, SessionFits
  <2> QED
    BY <1>14, <2>1, <2>2, <2>3 DEF UpdFits
<1>17. SessionFits(t, rows, clock) /\ InFlight(t)
  BY <1>2, <1>9, <1>15, <1>16 DEF SessionFits, Facts, InFlight
<1>18. Onward(s, t)
  BY <1>8, <1>9, <1>12, <1>17 DEF Onward
<1>19. DOMAIN pass' = Passes /\ pass'[p] = t /\ \A q \in Passes \ {p} : pass'[q] = pass[q]
  BY <1>7 DEF IInv
<1> QED
  BY <1>1, <1>2, <1>7, <1>18, <1>19, OnwardKeeps
-----------------------------------------------------------------------------
(* What a commit, or a user's edit, does to the sessions of the others.    *)

LEMMA DisturbedIs ==
  ASSUME IInv, NEW q \in Passes
  PROVE  LET t == Disturbed[q]
             s == pass[q]
         IN /\ DOMAIN t = PassColumns /\ t.pc = s.pc /\ t.begin = s.begin
            /\ t.add = s.add /\ t.upd = s.upd /\ t.del = s.del
<1>1. DOMAIN pass[q] = PassColumns
  BY DEF IInv, SessionFits
<1>2. Disturbed[q] = pass[q] \/ Disturbed[q] = [pass[q] EXCEPT !.calm = FALSE]
  BY DEF Disturbed
<1> QED
  BY <1>1, <1>2 DEF PassColumns

(* The rows that a session knew keep what it knew of them, or come with an *)
(* external id that they got just now.                                     *)
LEMMA OthersFit ==
  ASSUME IInv, NEW q \in Passes, NEW rs, NEW now \in Nat, clock <= now,
         \A j \in DOMAIN rs : \/ j \in DOMAIN rows /\ rs[j].acct = rows[j].acct /\ rs[j].ext = rows[j].ext
                                                   /\ rs[j].span = rows[j].span
                              \/ rs[j].ext = NoExt
                              \/ InFlight(pass[q]) => pass[q].begin < rs[j].span[2],
         \A j \in DOMAIN rs : \/ j \in DOMAIN rows /\ rs[j].acct = rows[j].acct
                              \/ j[1] = 0
                              \/ InFlight(pass[q]) => j \notin Renamed(pass[q])
  PROVE  SessionFits(Disturbed[q], rs, now)
<1>1. PICK s : s = pass[q]
  OBVIOUS
<1>2. SessionFits(s, rows, clock)
  BY <1>1 DEF IInv
<1>3. PICK t : t = Disturbed[q]
  OBVIOUS
<1>4. /\ DOMAIN t = PassColumns /\ t.pc = s.pc /\ t.begin = s.begin
      /\ t.add = s.add /\ t.upd = s.upd /\ t.del = s.del
  BY <1>1, <1>3, DisturbedIs
<1>5. CASE ~InFlight(s)
  BY <1>3, <1>4, <1>5 DEF SessionFits, InFlight
<1>6. CASE InFlight(s)
  <2>1. \A i, a, e : Clear(s, i, a, e, rows) => Clear(s, i, a, e, rs)
    BY <1>1, <1>6 DEF Clear, Settled
  <2>2. \A i \in Renamed(s) : \A a : Home(i, a, rs) => Home(i, a, rows)
    BY <1>1, <1>6 DEF Home
  <2>3. AddFits(s, rs)
    BY <1>2, <1>6, <2>1 DEF SessionFits, AddFits
  <2>4. UpdFits(s, rs, now)
    <3>1. clock \in Nat
      BY DEF IInv
    <3> QED
      BY <1>2, <1>6, <2>1, <2>2, <3>1 DEF SessionFits, UpdFits
  <2>5. SessionFits(s, rs, now)
    <3>1. clock \in Nat
      BY DEF IInv
    <3> QED
      BY <1>2, <1>6, <2>3, <2>4, <3>1 DEF SessionFits
  <2>6. t.pc # "ready" => t.del = {}
    BY <1>2, <1>4, <1>6 DEF SessionFits
  <2> QED
    BY <1>3, <1>4, <1>6, <2>5, <2>6, SessionMoves
<1> QED
  BY <1>5, <1>6

LEMMA EditKeeps ==
  ASSUME IInv, clock' = clock, pass' = Disturbed,
         \A j \in DOMAIN rows' :
            /\ RowFits(j, rows'[j], clock)
            /\ \/ j \in DOMAIN rows /\ rows'[j].acct = rows[j].acct /\ rows'[j].ext = rows[j].ext
                                    /\ rows'[j].span = rows[j].span
               \/ j[1] = 0 /\ rows'[j].ext = NoExt
  PROVE  IInv'
<1>1. clock \in Nat /\ clock <= clock /\ BeginsApart(pass, rows)
  BY DEF IInv
<1>2. DOMAIN pass' = Passes
  BY DEF Disturbed
<1>3. ASSUME NEW q \in Passes PROVE SessionFits(pass'[q], rows', clock)
  BY <1>1, OthersFit
<1>4. \A q \in Passes : /\ InFlight(pass'[q]) <=> InFlight(pass[q])
                        /\ pass'[q].begin = pass[q].begin
                        /\ Renamed(pass'[q]) = Renamed(pass[q])
  BY DisturbedIs DEF InFlight, Renamed
<1>5. \A q \in Passes : InFlight(pass[q]) => pass[q].begin # 0
  BY DEF IInv, SessionFits
<1>6. BeginsApart(pass', rows')
  BY <1>1, <1>4, <1>5 DEF BeginsApart
<1>7. DuplicatesOnlyByOverlap'
  BY DEF IInv, DuplicatesOnlyByOverlap
<1> QED
  BY <1>1, <1>2, <1>3, <1>6, <1>7 DEF IInv

(* What users do to rows, and what they only read of them. *)
Changing == (\E i \in DOMAIN rows : ToggleIgnore(i)) \/ \E r \in asked : DeleteRow(r) \/ UnlinkPair(r)
Reading == (\E i \in DOMAIN rows : ReadRow(i) \/ ReadPair(i)) \/ \E r \in asked : UnlinkRaises(r)

LEMMA ChangingIs ==
  ASSUME Changing
  PROVE  /\ pass' = Disturbed /\ UNCHANGED <<feed, accts, openings, clock, begun, manuals>>
         /\ DOMAIN rows' \subseteq DOMAIN rows
         /\ \A j \in DOMAIN rows' : \/ rows'[j] = rows[j]
                                    \/ \E b \in BOOLEAN : rows'[j] = [rows[j] EXCEPT !.ignored = b]
                                    \/ rows'[j] = [rows[j] EXCEPT !.pair = {}]
<1>1. ASSUME NEW i \in DOMAIN rows, ToggleIgnore(i)
      PROVE  /\ DOMAIN rows' = DOMAIN rows
             /\ \A j \in DOMAIN rows : \/ rows'[j] = rows[j]
                                       \/ \E b \in BOOLEAN : rows'[j] = [rows[j] EXCEPT !.ignored = b]
  <2>1. PICK r : r = [rows[i] EXCEPT !.ignored = ~rows[i].ignored]
    OBVIOUS
  <2>2. rows' = [rows EXCEPT ![i] = r]
    BY <1>1, <2>1 DEF ToggleIgnore
  <2>3. (~rows[i].ignored) \in BOOLEAN
    OBVIOUS
  <2>4. \E b \in BOOLEAN : r = [rows[i] EXCEPT !.ignored = b]
    BY <2>1, <2>3
  <2> QED
    BY <2>2, <2>4
<1>2. ASSUME NEW r \in asked, DeleteRow(r)
      PROVE  DOMAIN rows' \subseteq DOMAIN rows /\ \A j \in DOMAIN rows' : rows'[j] = rows[j]
  BY <1>2 DEF DeleteRow, Without
<1>3. ASSUME NEW r \in asked, UnlinkPair(r)
      PROVE  /\ DOMAIN rows' = DOMAIN rows
             /\ \A j \in DOMAIN rows : rows'[j] = rows[j] \/ rows'[j] = [rows[j] EXCEPT !.pair = {}]
  BY <1>3 DEF UnlinkPair
<1>4. pass' = Disturbed /\ UNCHANGED <<feed, accts, openings, clock, begun, manuals>>
  BY DEF Changing, ToggleIgnore, DeleteRow, UnlinkPair, Edits, Write
<1> QED
  BY <1>1, <1>2, <1>3, <1>4 DEF Changing

LEMMA ReadingIs ==
  ASSUME Reading
  PROVE  UNCHANGED <<feed, accts, openings, rows, pass, clock, torn, begun, manuals>>
BY DEF Reading, ReadRow, ReadPair, Read, Edits, UnlinkRaises

(* The user's own edits change no account, external id or span. *)
LEMMA UserKeeps ==
  ASSUME IInv, Changing
  PROVE  IInv'
<1>1. clock' = clock /\ pass' = Disturbed
  BY ChangingIs
<1>2. \A j \in DOMAIN rows' :
         j \in DOMAIN rows /\ (rows'[j] = rows[j] \/ rows'[j] = [rows[j] EXCEPT !.pair = {}]
                              \/ \E b \in BOOLEAN : rows'[j] = [rows[j] EXCEPT !.ignored = b])
  BY ChangingIs
<1>3. ASSUME NEW j \in DOMAIN rows'
      PROVE  /\ RowFits(j, rows'[j], clock)
             /\ j \in DOMAIN rows /\ rows'[j].acct = rows[j].acct /\ rows'[j].ext = rows[j].ext
                                  /\ rows'[j].span = rows[j].span
  <2>1. j \in DOMAIN rows /\ RowFits(j, rows[j], clock)
    BY <1>2 DEF IInv
  <2>2. DOMAIN rows'[j] = RowColumns /\ rows'[j].acct = rows[j].acct /\ rows'[j].ext = rows[j].ext
                                     /\ rows'[j].span = rows[j].span
    BY <1>2, <2>1 DEF RowFits, RowColumns
  <2> QED
    BY <2>1, <2>2 DEF RowFits
<1> QED
  BY <1>1, <1>3, EditKeeps

LEMMA AddManualKeeps ==
  ASSUME IInv, NEW e \in Exts, AddManual(e)
  PROVE  IInv'
<1>1. clock' = clock /\ pass' = Disturbed /\ clock \in Nat
  BY DEF AddManual, IInv
<1>2. PICK i : i = <<0, e>>
  OBVIOUS
<1>3. i[1] = 0 /\ i[2] = e
  BY <1>2
<1>4. PICK row : row = [ext |-> NoExt, acct |-> <<AcctOf[e], "link">>, day |-> DayOf[e],
          side |-> SideOf[e], status |-> "posted", source |-> "manual",
          ignored |-> FALSE, pair |-> {}, op |-> OpOf[e], span |-> <<0, 0>>]
  OBVIOUS
<1>5. rows' = With(rows, i, row)
  BY <1>2, <1>4 DEF AddManual
<1>6. DOMAIN rows' = DOMAIN rows \cup {i} /\ rows'[i] = row /\ \A j \in DOMAIN rows \ {i} : rows'[j] = rows[j]
  BY <1>5 DEF With
<1>7. DOMAIN row = RowColumns /\ row.ext = NoExt /\ row.acct = <<AcctOf[i[2]], "link">>
  BY <1>3, <1>4 DEF RowColumns
<1>8. RowFits(i, row, clock)
  BY <1>1, <1>3, <1>7 DEF RowFits
<1>9. \A j \in DOMAIN rows : RowFits(j, rows[j], clock)
  BY DEF IInv
<1> QED
  BY <1>1, <1>3, <1>6, <1>7, <1>8, <1>9, EditKeeps
-----------------------------------------------------------------------------
(* The commit.                                                             *)

(* What a committed row is: one of the session's, with its time on it, or as it was. *)
LEMMA CommittedIs ==
  ASSUME IInv, NEW p \in Passes, Commit(p), NEW s, s = pass[p], NEW i \in DOMAIN rows'
  PROVE  /\ i \in DOMAIN s.add \/ i \in DOMAIN rows
         /\ i \notin s.del /\ DOMAIN rows'[i] = RowColumns
         /\ i \in DOMAIN s.add => /\ rows'[i].acct = s.add[i].acct /\ rows'[i].ext = s.add[i].ext
                                  /\ rows'[i].span = <<s.begin, clock + 1>>
         /\ i \notin DOMAIN s.add => rows'[i].acct = rows[i].acct
         /\ i \notin DOMAIN s.add /\ i \in Renamed(s) => /\ rows'[i].ext = s.upd[i].ext
                                                         /\ rows'[i].span = <<s.begin, clock + 1>>
         /\ i \notin DOMAIN s.add /\ i \notin Renamed(s) => /\ rows'[i].ext = rows[i].ext
                                                            /\ rows'[i].span = rows[i].span
<1> DEFINE Kept == (DOMAIN rows \cup DOMAIN s.add) \ s.del
           Stamp(r, fresh) == IF fresh THEN [r EXCEPT !.span = <<s.begin, clock + 1>>] ELSE r
<1>1. rows' = [j \in Kept |-> IF j \in DOMAIN s.add THEN Stamp(s.add[j], TRUE)
                              ELSE IF j \in DOMAIN s.upd
                                THEN Stamp(Overlay(s.upd[j], rows[j]), "ext" \in DOMAIN s.upd[j])
                                ELSE rows[j]]
  BY DEF Commit
<1>2. i \in Kept
  BY <1>1
<1>3. Facts(s)
  BY FactsOf DEF Commit, InFlight
<1>4. CASE i \in DOMAIN s.add
  <2>1. rows'[i] = [s.add[i] EXCEPT !.span = <<s.begin, clock + 1>>]
    BY <1>1, <1>2, <1>4
  <2>2. DOMAIN s.add[i] = RowColumns
    BY <1>3, <1>4 DEF Facts, SessionFits, AddFits
  <2> HIDE DEF Stamp
  <2> QED
    BY <1>2, <1>4, <2>1, <2>2 DEF RowColumns
<1>5. CASE i \notin DOMAIN s.add
  <2>1. i \in DOMAIN rows /\ DOMAIN rows[i] = RowColumns
    BY <1>2, <1>3, <1>5 DEF Facts, RowFits
  <2>2. CASE i \notin DOMAIN s.upd
    <3>1. rows'[i] = rows[i]
      BY <1>1, <1>2, <1>5, <2>2
    <3>2. i \notin Renamed(s)
      BY <2>2 DEF Renamed
    <3> QED
      BY <1>2, <1>5, <2>1, <3>1, <3>2
  <2>3. CASE i \in DOMAIN s.upd
    <3>1. PICK r : r = Overlay(s.upd[i], rows[i])
      OBVIOUS
    <3>2. rows'[i] = IF "ext" \in DOMAIN s.upd[i] THEN [r EXCEPT !.span = <<s.begin, clock + 1>>] ELSE r
      BY <1>1, <1>2, <1>5, <2>3, <3>1
    <3>3. DOMAIN s.upd[i] \subseteq Settable
      BY <1>3, <2>3 DEF Facts, SessionFits, UpdFits
    <3>4. /\ DOMAIN r = DOMAIN s.upd[i] \cup DOMAIN rows[i]
          /\ \A c \in DOMAIN s.upd[i] : r[c] = s.upd[i][c]
          /\ \A c \in DOMAIN rows[i] \ DOMAIN s.upd[i] : r[c] = rows[i][c]
      BY <3>1 DEF Overlay
    <3>5. /\ DOMAIN r = RowColumns /\ r.acct = rows[i].acct /\ r.span = rows[i].span
          /\ r.ext = IF "ext" \in DOMAIN s.upd[i] THEN s.upd[i].ext ELSE rows[i].ext
      BY <2>1, <3>3, <3>4 DEF Settable, RowColumns
    <3>6. i \in Renamed(s) <=> "ext" \in DOMAIN s.upd[i]
      BY <2>3 DEF Renamed
    <3>7. /\ DOMAIN rows'[i] = RowColumns /\ rows'[i].acct = r.acct /\ rows'[i].ext = r.ext
          /\ rows'[i].span = IF "ext" \in DOMAIN s.upd[i] THEN <<s.begin, clock + 1>> ELSE r.span
      BY <3>2, <3>5 DEF RowColumns
    <3> QED
      BY <1>2, <1>5, <2>1, <3>5, <3>6, <3>7
  <2> QED
    BY <2>2, <2>3
<1> QED
  BY <1>4, <1>5

(* A row that this commit gives its external id, and one it does not touch. *)
LEMMA FreshAndOld ==
  ASSUME IInv, NEW p \in Passes, Commit(p), NEW s, s = pass[p], NEW i \in DOMAIN rows', NEW j \in DOMAIN rows',
         i \in DOMAIN s.add \/ i \in Renamed(s), j \notin DOMAIN s.add, j \notin Renamed(s),
         rows'[i].acct = rows'[j].acct, rows'[i].ext = rows'[j].ext, rows'[i].ext # NoExt
  PROVE  Overlap(rows'[i].span, rows'[j].span) /\ Overlap(rows'[j].span, rows'[i].span)
<1>1. Facts(s)
  BY FactsOf DEF Commit, InFlight
<1>2. j \in DOMAIN rows /\ j \notin s.del /\ i # j
      /\ rows'[j].acct = rows[j].acct /\ rows'[j].ext = rows[j].ext /\ rows'[j].span = rows[j].span
  BY CommittedIs
<1>3. s.begin < rows[j].span[2]
  <2>1. CASE i \in DOMAIN s.add
    <3>1. rows'[i].acct = s.add[i].acct /\ rows'[i].ext = s.add[i].ext
      BY <2>1, CommittedIs
    <3>2. Clear(s, i, s.add[i].acct, s.add[i].ext, rows)
      BY <1>1, <2>1 DEF Facts, SessionFits, AddFits
    <3>3. Settled(s, j, rows)
      BY <1>2, <3>1, <3>2 DEF Clear
    <3> QED
      BY <1>2, <3>3 DEF Settled
  <2>2. CASE i \notin DOMAIN s.add
    <3>1. i \in DOMAIN rows /\ rows'[i].acct = rows[i].acct /\ rows'[i].ext = s.upd[i].ext
      BY <2>2, CommittedIs
    <3>2. Home(i, rows[i].acct, rows)
      BY <1>1, <3>1 DEF Facts, RowFits, Home
    <3>3. Clear(s, i, rows[i].acct, s.upd[i].ext, rows)
      BY <1>1, <2>2, <3>2 DEF Facts, SessionFits, UpdFits
    <3>4. Settled(s, j, rows)
      BY <1>2, <3>1, <3>3 DEF Clear
    <3> QED
      BY <1>2, <3>4 DEF Settled
  <2> QED
    BY <2>1, <2>2
<1>4. rows'[i].span = <<s.begin, clock + 1>>
  BY CommittedIs
<1>5. /\ rows[j].span[1] \in Nat /\ rows[j].span[2] \in Nat
      /\ rows[j].span[1] < rows[j].span[2] /\ rows[j].span[2] <= clock
  BY <1>1, <1>2 DEF Facts, RowFits
<1>6. clock \in Nat /\ rows[j].span[1] < clock + 1
  BY <1>5 DEF IInv
<1> QED
  BY <1>2, <1>3, <1>4, <1>6 DEF Overlap

LEMMA CommitKeeps ==
  ASSUME IInv, NEW p \in Passes, Commit(p)
  PROVE  IInv'
<1>1. PICK s : s = pass[p]
  OBVIOUS
<1>2. PICK now : now = clock + 1
  OBVIOUS
<1>3. now \in Nat /\ clock \in Nat /\ clock < now /\ clock' = now
  BY <1>2 DEF Commit, IInv
<1>4. Facts(s) /\ InFlight(s)
  BY <1>1, FactsOf DEF Commit, InFlight
<1>5. s.begin \in Nat /\ 0 < s.begin /\ s.begin <= clock
  BY <1>4 DEF Facts, SessionFits
<1>6. DOMAIN PassIdle = PassColumns /\ ~InFlight(PassIdle)
  BY DEF PassIdle, PassColumns, InFlight
<1>7. DOMAIN pass' = Passes /\ pass'[p] = PassIdle /\ \A q \in Passes \ {p} : pass'[q] = Disturbed[q]
  BY DEF Commit, Disturbed
<1>8. \A j \in DOMAIN s.add : j[1] = s.begin
  BY <1>4 DEF Facts, SessionFits, AddFits
<1>9. \A q \in Passes \ {p} : InFlight(pass[q]) =>
         /\ pass[q].begin \in Nat /\ pass[q].begin <= clock /\ pass[q].begin # s.begin
         /\ \A i \in Renamed(pass[q]) : i[1] # s.begin
  BY <1>1, <1>4 DEF IInv, BeginsApart, SessionFits
<1>10. ASSUME NEW j \in DOMAIN rows' PROVE RowFits(j, rows'[j], now)
  <2>1. /\ j \in DOMAIN s.add \/ j \in DOMAIN rows
        /\ DOMAIN rows'[j] = RowColumns
        /\ j \notin DOMAIN s.add => rows'[j].acct = rows[j].acct
        /\ \/ rows'[j].span = <<s.begin, now>>
           \/ j \in DOMAIN rows /\ rows'[j].span = rows[j].span /\ rows'[j].ext = rows[j].ext
    BY <1>1, <1>2, CommittedIs
  <2>2. j \in DOMAIN rows => RowFits(j, rows[j], clock)
    BY DEF IInv
  <2>3. j[1] \in Nat /\ j[1] <= now /\ (j[1] = 0 => rows'[j].acct = <<AcctOf[j[2]], "link">>)
    BY <1>3, <1>5, <1>8, <2>1, <2>2 DEF RowFits
  <2>4. rows'[j].ext # NoExt => /\ rows'[j].span[1] \in Nat /\ rows'[j].span[2] \in Nat
                                /\ rows'[j].span[1] < rows'[j].span[2] /\ rows'[j].span[2] <= now
    <3>1. CASE rows'[j].span = <<s.begin, now>>
      BY <1>3, <1>5, <3>1
    <3>2. CASE j \in DOMAIN rows /\ rows'[j].span = rows[j].span /\ rows'[j].ext = rows[j].ext
      BY <1>3, <2>2, <3>2 DEF RowFits
    <3> QED
      BY <2>1, <3>1, <3>2
  <2> QED
    BY <2>1, <2>3, <2>4 DEF RowFits
<1>11. ASSUME NEW q \in Passes \ {p} PROVE SessionFits(pass'[q], rows', now)
  <2>1. ASSUME NEW j \in DOMAIN rows'
        PROVE  \/ j \in DOMAIN rows /\ rows'[j].acct = rows[j].acct /\ rows'[j].ext = rows[j].ext
                                    /\ rows'[j].span = rows[j].span
               \/ rows'[j].ext = NoExt
               \/ InFlight(pass[q]) => pass[q].begin < rows'[j].span[2]
    <3>1. \/ rows'[j].span = <<s.begin, now>>
          \/ j \in DOMAIN rows /\ rows'[j].acct = rows[j].acct /\ rows'[j].ext = rows[j].ext
                               /\ rows'[j].span = rows[j].span
      BY <1>1, <1>2, CommittedIs
    <3>2. InFlight(pass[q]) => pass[q].begin < now
      BY <1>3, <1>9
    <3>3. rows'[j].span = <<s.begin, now>> => rows'[j].span[2] = now
      OBVIOUS
    <3> QED
      BY <3>1, <3>2, <3>3
  <2>2. ASSUME NEW j \in DOMAIN rows'
        PROVE  \/ j \in DOMAIN rows /\ rows'[j].acct = rows[j].acct
               \/ j[1] = 0
               \/ InFlight(pass[q]) => j \notin Renamed(pass[q])
    <3>1. \/ j \in DOMAIN s.add
          \/ j \in DOMAIN rows /\ rows'[j].acct = rows[j].acct
      BY <1>1, CommittedIs
    <3> QED
      BY <1>8, <1>9, <3>1
  <2>3. clock <= now /\ q \in Passes
    BY <1>3
  <2>4. SessionFits(Disturbed[q], rows', now)
    BY <1>3, <2>1, <2>2, <2>3, OthersFit
  <2> QED
    BY <1>7, <2>4
<1>12. SessionFits(pass'[p], rows', now)
  BY <1>6, <1>7 DEF SessionFits
<1>13. BeginsApart(pass', rows')
  <2>1. \A q \in Passes \ {p} : /\ InFlight(pass'[q]) <=> InFlight(pass[q])
                                /\ pass'[q].begin = pass[q].begin
                                /\ Renamed(pass'[q]) = Renamed(pass[q])
    BY <1>7, DisturbedIs DEF InFlight, Renamed
  <2>2. \A j \in DOMAIN rows' : j \in DOMAIN rows \/ j[1] = s.begin
    BY <1>1, <1>8, CommittedIs
  <2>3. BeginsApart(pass, rows) /\ ~InFlight(pass'[p])
    BY <1>6, <1>7 DEF IInv
  <2> QED
    BY <1>9, <2>1, <2>2, <2>3 DEF BeginsApart
<1>14. DuplicatesOnlyByOverlap'
  <2> SUFFICES ASSUME NEW i \in DOMAIN rows', NEW j \in DOMAIN rows', i # j, rows'[i].acct = rows'[j].acct,
                      rows'[i].ext = rows'[j].ext, rows'[i].ext # NoExt
               PROVE  Overlap(rows'[i].span, rows'[j].span)
    BY DEF DuplicatesOnlyByOverlap
  <2> DEFINE Fresh(k) == k \in DOMAIN s.add \/ k \in Renamed(s)
  <2>1. CASE Fresh(i) /\ Fresh(j)
    <3>1. rows'[i].span = <<s.begin, now>> /\ rows'[j].span = <<s.begin, now>>
      BY <1>1, <1>2, <2>1, CommittedIs
    <3>2. s.begin < now
      BY <1>3, <1>5
    <3> QED
      BY <3>1, <3>2 DEF Overlap
  <2>2. CASE Fresh(i) /\ ~Fresh(j)
    BY <1>1, <2>2, FreshAndOld
  <2>3. CASE ~Fresh(i) /\ Fresh(j)
    BY <1>1, <2>3, FreshAndOld
  <2>4. CASE ~Fresh(i) /\ ~Fresh(j)
    <3>1. /\ i \in DOMAIN rows /\ rows'[i].acct = rows[i].acct /\ rows'[i].ext = rows[i].ext
                               /\ rows'[i].span = rows[i].span
          /\ j \in DOMAIN rows /\ rows'[j].acct = rows[j].acct /\ rows'[j].ext = rows[j].ext
                               /\ rows'[j].span = rows[j].span
      BY <1>1, <2>4, CommittedIs
    <3> QED
      BY <3>1 DEF IInv, DuplicatesOnlyByOverlap
  <2> QED
    BY <2>1, <2>2, <2>3, <2>4
<1>15. \A q \in Passes : SessionFits(pass'[q], rows', now)
  BY <1>11, <1>12
<1> QED
  BY <1>3, <1>7, <1>10, <1>13, <1>14, <1>15 DEF IInv
-----------------------------------------------------------------------------

LEMMA InitIInv == Init => IInv
<1> SUFFICES ASSUME Init PROVE IInv
  OBVIOUS
<1>1. DOMAIN PassIdle = PassColumns /\ ~InFlight(PassIdle)
  BY DEF PassIdle, PassColumns, InFlight
<1>2. DOMAIN pass = Passes /\ (\A p \in Passes : pass[p] = PassIdle) /\ clock = 0
  BY DEF Init
<1>3. DOMAIN rows = {}
  BY DEF Init
<1>4. \A p \in Passes : SessionFits(pass[p], rows, clock)
  BY <1>1, <1>2 DEF SessionFits
<1>5. BeginsApart(pass, rows)
  BY <1>1, <1>2 DEF BeginsApart
<1> QED
  BY <1>2, <1>3, <1>4, <1>5 DEF IInv, DuplicatesOnlyByOverlap

LEMMA NextIInv == IInv /\ [Next]_vars => IInv'
<1> SUFFICES ASSUME IInv, [Next]_vars PROVE IInv'
  OBVIOUS
<1>1. ASSUME UNCHANGED <<rows, pass, clock>> PROVE IInv'
  BY <1>1, SameRows DEF IInv
<1>2. CASE UNCHANGED vars
  BY <1>1, <1>2 DEF vars
<1>3. ASSUME NEW e \in Exts, Settle(e) \/ \E st \in {"pending", "posted"} : Publish(e, st) PROVE IInv'
  BY <1>1, <1>3 DEF Settle, Publish
<1>4. ASSUME NEW e \in Exts, AddManual(e) PROVE IInv'
  BY <1>4, AddManualKeeps
<1>5. ASSUME NEW p \in Passes, Begin(p) \/ Opening(p) \/ Reconcile(p) \/ Commit(p) \/ Abort(p) PROVE IInv'
  BY <1>5, BeginKeeps, OpeningKeeps, ReconcileKeeps, CommitKeeps, AbortKeeps
<1>6. ASSUME NEW p \in Passes, NEW a \in Accounts, Fetch(p, a) PROVE IInv'
  BY <1>6, FetchKeeps
<1>7. ASSUME NEW p \in Passes, NEW e \in Exts, NEW st \in {"pending", "posted"}, Item(p, e, st) PROVE IInv'
  BY <1>7, ItemKeeps
<1>8. CASE Changing
  BY <1>8, UserKeeps
<1>9. CASE Reading
  BY <1>1, <1>9, ReadingIs
<1> QED
  BY <1>2, <1>3, <1>4, <1>5, <1>6, <1>7, <1>8, <1>9 DEF Next, Changing, Reading

LEMMA IInvHolds == Spec => []IInv
BY InitIInv, NextIInv, PTL DEF Spec

(* Two rows share an account and an external id only if the passes that gave *)
(* it to them were in flight at the same time, for any number of passes,     *)
(* accounts, reports and edits: whatever the pairing and the cleanup do, and *)
(* though a pass may rename, delete or find gone the row it would have met.  *)
THEOREM StrayDuplicatesNeedOverlap == Spec => []DuplicatesOnlyByOverlap
<1>1. IInv => DuplicatesOnlyByOverlap
  BY DEF IInv
<1> QED
  BY <1>1, IInvHolds, PTL
-----------------------------------------------------------------------------
(* Induction and recursion over numbers, told of sets.                     *)

LEMMA LeastOf ==
  ASSUME NEW T, T \subseteq Nat, T # {}
  PROVE  \E n \in T : \A m \in T : n <= m
<1> DEFINE less == {ss \in Nat \X Nat : ss[1] < ss[2]}
<1>1. IsWellFoundedOn(less, Nat)
  BY NatLessThanWellFounded DEF OpToRel
<1>2. \A m, n \in Nat : <<m, n>> \in less <=> m < n
  OBVIOUS
<1> HIDE DEF less
<1>3. PICK n \in T : \A m \in T : ~(<<m, n>> \in less)
  BY <1>1, WFMin
<1>4. \A m \in T : ~(m < n)
  BY <1>2, <1>3
<1>5. \A m \in T : m \in Nat /\ n \in Nat
  OBVIOUS
<1> QED
  BY <1>4, <1>5

LEMMA SetInduction ==
  ASSUME NEW S, 0 \in S, \A n \in Nat : n \in S => n + 1 \in S
  PROVE  Nat \subseteq S
<1> SUFFICES ASSUME Nat \ S # {} PROVE FALSE
  OBVIOUS
<1>1. PICK n \in Nat \ S : \A m \in Nat \ S : n <= m
  BY LeastOf
<1> QED
  BY <1>1

(* A function that is told value by value exists. *)
StaysIn(G, N, S) == \A n \in 1..N, x \in S : G[<<n, x>>] \in S
Iterates(f, a, G, N) == f[0] = a /\ \A n \in 1..N : f[n] = G[<<n, f[n - 1]>>]

LEMMA Recursion ==
  ASSUME NEW N \in Nat, NEW S, NEW a \in S, NEW G, StaysIn(G, N, S)
  PROVE  \E f \in [0..N -> S] : Iterates(f, a, G, N)
<1> USE DEF StaysIn, Iterates
<1> DEFINE Upto(k) == \E f \in [0..k -> S] : f[0] = a /\ \A n \in 1..k : f[n] = G[<<n, f[n - 1]>>]
           Good == {k \in Nat : k <= N => Upto(k)}
<1>1. 0 \in Good
  <2>1. PICK f : f = [n \in 0..0 |-> a]
    OBVIOUS
  <2>2. f \in [0..0 -> S] /\ f[0] = a
    BY <2>1
  <2>3. \A n \in 1..0 : FALSE
    OBVIOUS
  <2> QED
    BY <2>2, <2>3
<1>2. ASSUME NEW k \in Nat, k \in Good, k + 1 <= N PROVE Upto(k + 1)
  <2>1. PICK f \in [0..k -> S] : f[0] = a /\ \A n \in 1..k : f[n] = G[<<n, f[n - 1]>>]
    BY <1>2
  <2>2. k + 1 \in 1..N /\ f[k] \in S
    BY <1>2, <2>1
  <2>3. PICK y \in S : y = G[<<k + 1, f[k]>>]
    BY <2>2
  <2>4. PICK g : g = [n \in 0..(k + 1) |-> IF n = k + 1 THEN y ELSE f[n]]
    OBVIOUS
  <2>5. g \in [0..(k + 1) -> S]
    BY <2>1, <2>4
  <2>6. g[0] = a
    BY <2>1, <2>4
  <2>7. ASSUME NEW n \in 1..(k + 1) PROVE g[n] = G[<<n, g[n - 1]>>]
    <3>1. CASE n = k + 1
      <4>1. n \in 0..(k + 1) /\ n - 1 = k /\ k \in 0..(k + 1) /\ k # k + 1
        BY <3>1
      <4>2. g[n] = y /\ g[n - 1] = f[k]
        BY <2>4, <3>1, <4>1
      <4> QED
        BY <2>3, <3>1, <4>2
    <3>2. CASE n # k + 1
      <4>1. n \in 1..k /\ n \in 0..(k + 1) /\ n - 1 \in 0..(k + 1) /\ n - 1 # k + 1
        BY <3>2
      <4>2. g[n] = f[n] /\ g[n - 1] = f[n - 1]
        BY <2>4, <4>1, <3>2
      <4> QED
        BY <2>1, <4>1, <4>2
    <3> QED
      BY <3>1, <3>2
  <2> QED
    BY <2>5, <2>6, <2>7
<1>3. \A k \in Nat : k \in Good => k + 1 \in Good
  BY <1>2
<1> HIDE DEF Upto
<1>4. Nat \subseteq Good
  <2> HIDE DEF Good
  <2> QED
    BY <1>1, <1>3, SetInduction
<1>5. Upto(N)
  BY <1>4
<1> QED
  BY <1>5 DEF Upto

(* Of the ids that a lookup finds, one is the oldest. *)
LEMMA OldestIs ==
  ASSUME NEW found, found # {}, \A i \in found : i[1] \in Nat
  PROVE  Oldest(found) \in found
<1> DEFINE T == {i[1] : i \in found}
<1>1. PICK n \in T : \A m \in T : n <= m
  <2>1. T \subseteq Nat /\ T # {}
    OBVIOUS
  <2> HIDE DEF T
  <2> QED
    BY <2>1, LeastOf
<1>2. \E i \in found : \A j \in found : i[1] <= j[1]
  BY <1>1
<1> QED
  BY <1>2 DEF Oldest
-----------------------------------------------------------------------------
(* What the greedy pairing takes of a view, one listed row after another.  *)

Taking(V, new, o, n, T) ==
  LET C == Partners(V, new, o[n]) \ UNION T
  IN IF V[o[n]].side = "credit" \/ C = {} THEN T ELSE T \cup {{o[n], Closest(V, o[n], C, o)}}

Takes(f, V, new, o, N) == f[0] = {} /\ \A n \in 1..N : f[n] = Taking(V, new, o, n, f[n - 1])

LEMMA PairingIs ==
  ASSUME NEW V, NEW new, NEW o, NEW N \in Nat, N = Cardinality(DOMAIN o)
  PROVE  \E f : Takes(f, V, new, o, N) /\ f[N] = Pairing(V, new, o)
<1> DEFINE Step(f, n) == IF n = 0 THEN {}
                         ELSE IF V[o[n]].side = "credit" THEN f[n - 1]
                         ELSE LET C == Partners(V, new, o[n]) \ UNION f[n - 1]
                              IN IF C = {} THEN f[n - 1]
                                 ELSE f[n - 1] \cup {{o[n], Closest(V, o[n], C, o)}}
           Told == CHOOSE f : f = [n \in 0..N |-> Step(f, n)]
<1>1. Pairing(V, new, o) = Told[N]
  BY DEF Pairing
<1>2. \A f, n : n # 0 => Step(f, n) = Taking(V, new, o, n, f[n - 1])
  BY DEF Taking
<1>3. \A f : Step(f, 0) = {}
  OBVIOUS
<1> DEFINE Mate(n, S) == Closest(V, o[n], Partners(V, new, o[n]) \ S, o)
<1>4. PICK All : All = {o[n] : n \in 1..N} \cup {Mate(x[1], x[2]) : x \in (1..N) \X SUBSET DOMAIN V}
  OBVIOUS
<1> DEFINE Sets == SUBSET SUBSET All
<1>5. PICK G : G = [x \in (1..N) \X Sets |-> Taking(V, new, o, x[1], x[2])]
  OBVIOUS
<1>6. ASSUME NEW n \in 1..N, NEW T \in Sets PROVE Taking(V, new, o, n, T) \in Sets
  <2>1. Partners(V, new, o[n]) \ UNION T = Partners(V, new, o[n]) \ ((UNION T) \cap DOMAIN V)
    BY DEF Partners
  <2>2. (UNION T) \cap DOMAIN V \in SUBSET DOMAIN V
    OBVIOUS
  <2>3. o[n] \in All /\ Closest(V, o[n], Partners(V, new, o[n]) \ UNION T, o) \in All
    <3>1. PICK U \in SUBSET DOMAIN V : Mate(n, UNION T) = Mate(n, U)
      BY <2>1, <2>2
    <3>2. <<n, U>> \in (1..N) \X SUBSET DOMAIN V
      OBVIOUS
    <3> HIDE DEF Mate
    <3>3. Mate(n, U) \in All /\ o[n] \in All
      BY <1>4, <3>2
    <3>4. Mate(n, UNION T) \in All /\ o[n] \in All
      BY <3>1, <3>3
    <3> QED
      BY <3>4 DEF Mate
  <2>4. {o[n], Closest(V, o[n], Partners(V, new, o[n]) \ UNION T, o)} \in SUBSET All
    BY <2>3
  <2>5. PICK P \in SUBSET All : P = {o[n], Closest(V, o[n], Partners(V, new, o[n]) \ UNION T, o)}
    BY <2>4
  <2>6. Taking(V, new, o, n, T) = T \/ Taking(V, new, o, n, T) = T \cup {P}
    BY <2>5 DEF Taking
  <2> QED
    BY <2>6
<1> HIDE DEF Step
<1>7. {} \in Sets
  OBVIOUS
<1> HIDE DEF Sets
<1>8. ASSUME NEW n \in 1..N, NEW T \in Sets PROVE G[<<n, T>>] = Taking(V, new, o, n, T)
  <2>1. PICK x : x = <<n, T>>
    OBVIOUS
  <2>2. x \in (1..N) \X Sets /\ x[1] = n /\ x[2] = T
    BY <2>1
  <2>3. G[x] = Taking(V, new, o, x[1], x[2])
    BY <1>5, <2>2
  <2> QED
    BY <2>1, <2>2, <2>3
<1>9. PICK f \in [0..N -> Sets] : f[0] = {} /\ \A n \in 1..N : f[n] = G[<<n, f[n - 1]>>]
  <2>1. StaysIn(G, N, Sets)
    BY <1>6, <1>8 DEF StaysIn
  <2>2. \E f \in [0..N -> Sets] : Iterates(f, {}, G, N)
    BY <1>7, <2>1, Recursion
  <2> QED
    BY <2>2 DEF Iterates
<1>10. \A n \in 1..N : f[n] = Taking(V, new, o, n, f[n - 1])
  <2> SUFFICES ASSUME NEW n \in 1..N PROVE f[n] = Taking(V, new, o, n, f[n - 1])
    OBVIOUS
  <2>1. n - 1 \in 0..N
    OBVIOUS
  <2> QED
    BY <1>8, <1>9, <2>1
<1>11. f = [n \in 0..N |-> Step(f, n)]
  <2>1. ASSUME NEW n \in 0..N PROVE f[n] = Step(f, n)
    <3>1. CASE n = 0
      BY <1>3, <1>9, <3>1
    <3>2. CASE n # 0
      <4>1. n \in 1..N
        BY <3>2
      <4> QED
        BY <1>2, <1>10, <3>2, <4>1
    <3> QED
      BY <3>1, <3>2
  <2>2. f = [n \in 0..N |-> f[n]]
    BY <1>9
  <2> QED
    BY <2>1, <2>2
<1>12. PICK g : g = Told /\ g = [n \in 0..N |-> Step(g, n)]
  BY <1>11
<1>13. \A n \in 0..N : g[n] = Step(g, n)
  BY <1>12
<1>14. g[0] = {} /\ \A n \in 1..N : g[n] = Taking(V, new, o, n, g[n - 1])
  BY <1>2, <1>3, <1>13
<1> QED
  BY <1>1, <1>12, <1>14 DEF Takes

Dated(V) == \A i \in DOMAIN V : V[i].day \in Int

(* Of the credits that are left, one is the closest. *)
LEMMA ClosestIs ==
  ASSUME NEW V, Dated(V), NEW d \in DOMAIN V, NEW N \in Nat, NEW o, DOMAIN o = 1..N,
         \A n \in 1..N : o[n] \in DOMAIN V,
         NEW C, C # {}, \A c \in C : \E n \in 1..N : o[n] = c
  PROVE  Closest(V, d, C, o) \in C
<1> DEFINE Dist(n) == Apart(V[o[n]].day, V[d].day)
           Listed == {n \in DOMAIN o : o[n] \in C}
           Best(n) == \A m \in Listed : Dist(n) < Dist(m) \/ (Dist(n) = Dist(m) /\ n <= m)
<1>1. Listed # {} /\ Listed \subseteq Nat
  OBVIOUS
<1>2. \A n \in Listed : Dist(n) \in Nat
  BY DEF Dated, Apart
<1> HIDE DEF Dist, Listed
<1>3. PICK k \in Listed : \A m \in Listed : Dist(k) <= Dist(m)
  <2> DEFINE T == {Dist(n) : n \in Listed}
  <2>1. T # {} /\ T \subseteq Nat
    BY <1>1, <1>2
  <2>2. PICK t \in T : \A u \in T : t <= u
    <3> HIDE DEF T
    <3> QED
      BY <2>1, LeastOf
  <2> QED
    BY <2>2
<1>4. PICK n \in Listed : Dist(n) = Dist(k) /\ \A m \in Listed : Dist(m) = Dist(k) => n <= m
  <2> DEFINE T == {n \in Listed : Dist(n) = Dist(k)}
  <2>1. T # {} /\ T \subseteq Nat
    BY <1>1
  <2>2. PICK t \in T : \A u \in T : t <= u
    <3> HIDE DEF T
    <3> QED
      BY <2>1, LeastOf
  <2> QED
    BY <2>2
<1>5. Best(n)
  <2> SUFFICES ASSUME NEW m \in Listed PROVE Dist(n) < Dist(m) \/ (Dist(n) = Dist(m) /\ n <= m)
    OBVIOUS
  <2>1. Dist(n) \in Nat /\ Dist(m) \in Nat /\ Dist(n) <= Dist(m)
    BY <1>2, <1>3, <1>4
  <2> QED
    BY <1>4, <2>1
<1>6. PICK b \in Listed : b = CHOOSE x \in Listed : Best(x)
  BY <1>5
<1>7. Closest(V, d, C, o) = o[b]
  BY <1>6 DEF Closest, Dist, Listed
<1> QED
  BY <1>7 DEF Listed

(* A pair: two unpaired rows of different accounts, a debit and a credit.  *)
IsPair(V, P) ==
  \E d, c \in DOMAIN V : /\ P = {d, c} /\ V[d].acct # V[c].acct
                         /\ V[d].side = "debit" /\ V[d].pair = {}
                         /\ V[c].side = "credit" /\ V[c].pair = {}
PairsFit(V, pairs) ==
  /\ \A P \in pairs : IsPair(V, P)
  /\ \A P, Q \in pairs : P \cap Q # {} => P = Q

(* An order lists each of its rows. *)
LEMMA OrderLists ==
  ASSUME NEW D, IsFiniteSet(D), NEW o \in Orders(D)
  PROVE  /\ Cardinality(D) \in Nat /\ DOMAIN o = 1..Cardinality(D)
         /\ Cardinality(DOMAIN o) = Cardinality(D)
         /\ \A n \in DOMAIN o : o[n] \in D
         /\ \A d \in D : \E n \in DOMAIN o : o[n] = d
         /\ \A m, n \in DOMAIN o : o[m] = o[n] => m = n
<1>1. PICK N : N = Cardinality(D)
  OBVIOUS
<1>2. N \in Nat
  BY <1>1, FS_CardinalityType
<1>3. o \in [1..N -> D] /\ \A m, n \in 1..N : o[m] = o[n] => m = n
  BY <1>1 DEF Orders
<1>4. IsFiniteSet(1..N) /\ Cardinality(1..N) = N
  BY <1>2, FS_Interval
<1>5. o \in Injection(1..N, D)
  BY <1>3 DEF Injection, IsInjective
<1>6. o \in Surjection(1..N, D)
  BY <1>1, <1>4, <1>5, FS_Injection
<1> QED
  BY <1>1, <1>2, <1>3, <1>4, <1>6 DEF Surjection

(* No debit is in a pair before its turn. *)
Reached(V, o, n, pairs) ==
  \A P \in pairs : \A i \in P : V[i].side = "debit" => \E m \in 1..n : o[m] = i

LEMMA TakingFits ==
  ASSUME NEW V, IsFiniteSet(DOMAIN V), Dated(V), \A i \in DOMAIN V : V[i].side \in {"debit", "credit"},
         NEW new, NEW o \in Orders(Unpaired(V, "debit") \cup Unpaired(V, "credit")),
         NEW n \in DOMAIN o, NEW T, PairsFit(V, T), Reached(V, o, n - 1, T)
  PROVE  PairsFit(V, Taking(V, new, o, n, T)) /\ Reached(V, o, n, Taking(V, new, o, n, T))
<1>1. PICK D : D = Unpaired(V, "debit") \cup Unpaired(V, "credit")
  OBVIOUS
<1>2. D \subseteq DOMAIN V /\ \A i \in D : V[i].pair = {}
  BY <1>1 DEF Unpaired
<1>3. IsFiniteSet(D)
  BY <1>2, FS_Subset
<1>4. PICK N \in Nat : /\ DOMAIN o = 1..N /\ \A m \in 1..N : o[m] \in D
                       /\ \A d \in D : \E m \in 1..N : o[m] = d
                       /\ \A l, m \in 1..N : o[l] = o[m] => l = m
  <2>1. o \in Orders(D)
    BY <1>1
  <2> QED
    BY <1>3, <2>1, OrderLists
<1>5. PICK d : d = o[n] /\ d \in D /\ n \in 1..N
  BY <1>4
<1>6. Reached(V, o, n, T)
  <2>1. n \in Nat /\ 1..(n - 1) \subseteq 1..n
    BY <1>5
  <2>2. Reached(V, o, n - 1, T)
    OBVIOUS
  <2> QED
    BY <2>1, <2>2 DEF Reached
<1>7. PICK C : C = Partners(V, new, d) \ UNION T
  OBVIOUS
<1>8. CASE V[d].side = "credit" \/ C = {}
  BY <1>5, <1>6, <1>7, <1>8 DEF Taking
<1>9. CASE V[d].side # "credit" /\ C # {}
  <2>1. V[d].side = "debit" /\ V[d].pair = {} /\ d \in DOMAIN V
    BY <1>2, <1>5, <1>9
  <2>2. \A c \in C : /\ c \in DOMAIN V /\ V[c].side = "credit" /\ V[c].pair = {}
                     /\ V[c].acct # V[d].acct /\ c \notin UNION T
    BY <1>7 DEF Partners
  <2>3. C \subseteq D
    BY <1>1, <2>2 DEF Unpaired
  <2>4. PICK c : c = Closest(V, d, C, o)
    OBVIOUS
  <2>5. c \in C
    BY <1>2, <1>4, <1>9, <2>1, <2>3, <2>4, ClosestIs
  <2>6. Taking(V, new, o, n, T) = T \cup {{d, c}}
    BY <1>5, <1>7, <1>9, <2>4 DEF Taking
  <2>7. IsPair(V, {d, c})
    BY <2>1, <2>2, <2>5 DEF IsPair
  <2>8. \A Q \in T : d \notin Q /\ c \notin Q
    <3>1. \A m \in 1..(n - 1) : o[m] # d
      BY <1>4, <1>5
    <3> QED
      BY <2>1, <2>2, <2>5, <3>1 DEF Reached
  <2>9. PairsFit(V, T \cup {{d, c}})
    <3>1. PICK P : P = {d, c}
      OBVIOUS
    <3>2. IsPair(V, P) /\ \A Q \in T : P \cap Q = {} /\ Q \cap P = {}
      BY <2>7, <2>8, <3>1
    <3>3. PairsFit(V, T \cup {P})
      BY <3>2 DEF PairsFit
    <3> QED
      BY <3>1, <3>3
  <2>10. Reached(V, o, n, T \cup {{d, c}})
    <3>1. \A i \in {d, c} : V[i].side = "debit" => \E m \in 1..n : o[m] = i
      BY <1>5, <2>2, <2>5
    <3> QED
      BY <1>6, <3>1 DEF Reached
  <2> QED
    BY <2>6, <2>9, <2>10
<1> QED
  BY <1>8, <1>9

(* Whatever the pairing takes, in whatever order the queries list the rows. *)
LEMMA PairingsFit ==
  ASSUME NEW V, IsFiniteSet(DOMAIN V), Dated(V), \A i \in DOMAIN V : V[i].side \in {"debit", "credit"},
         NEW new, NEW pairs \in Pairings(V, new)
  PROVE  PairsFit(V, pairs)
<1>1. CASE pairs = {}
  BY <1>1 DEF PairsFit
<1>2. PICK D : D = Unpaired(V, "debit") \cup Unpaired(V, "credit")
  OBVIOUS
<1>3. ASSUME NEW o \in Orders(D), pairs = Pairing(V, new, o) PROVE PairsFit(V, pairs)
  <2>1. D \subseteq DOMAIN V
    BY <1>2 DEF Unpaired
  <2>2. IsFiniteSet(D)
    BY <2>1, FS_Subset
  <2>3. PICK N \in Nat : N = Cardinality(DOMAIN o) /\ DOMAIN o = 1..N
    BY <2>2, OrderLists
  <2>4. PICK f : Takes(f, V, new, o, N) /\ f[N] = Pairing(V, new, o)
    BY <2>3, PairingIs
  <2> DEFINE Fits(n) == PairsFit(V, f[n]) /\ Reached(V, o, n, f[n])
             Good == {n \in Nat : n <= N => Fits(n)}
  <2>5. Fits(0)
    BY <2>4 DEF PairsFit, Reached, Takes
  <2>6. ASSUME NEW n \in Nat, n + 1 <= N, Fits(n) PROVE Fits(n + 1)
    <3>1. PICK m : m = n + 1 /\ m \in 1..N /\ m - 1 = n
      BY <2>6
    <3>2. PairsFit(V, Taking(V, new, o, m, f[n])) /\ Reached(V, o, m, Taking(V, new, o, m, f[n]))
      BY <1>2, <2>3, <2>6, <3>1, TakingFits
    <3>3. f[m] = Taking(V, new, o, m, f[n])
      BY <2>4, <3>1 DEF Takes
    <3> QED
      BY <3>1, <3>2, <3>3
  <2> HIDE DEF Fits
  <2>7. 0 \in Good /\ \A n \in Nat : n \in Good => n + 1 \in Good
    BY <2>5, <2>6
  <2>8. Nat \subseteq Good
    <3> HIDE DEF Good
    <3> QED
      BY <2>7, SetInduction
  <2>9. Fits(N)
    BY <2>8
  <2> QED
    BY <1>3, <2>4, <2>9 DEF Fits
<1>4. pairs = {} \/ \E o \in Orders(D) : pairs = Pairing(V, new, o)
  BY <1>2 DEF Pairings
<1> QED
  BY <1>1, <1>3, <1>4
-----------------------------------------------------------------------------
(* Types. A row keeps the account, the day and the direction of the report it *)
(* was created for, and only takes over ids that could be the same operation. *)

Matches(i, e) ==
  /\ e \in Exts /\ AcctOf[e] = AcctOf[i[2]] /\ SideOf[e] = SideOf[i[2]]
  /\ Within(DayOf[i[2]], DayOf[e], 3)

TrueRow(i, r) ==
  /\ i \in Ids /\ r \in Row
  /\ r.acct[1] = AcctOf[i[2]] /\ r.day = DayOf[i[2]] /\ r.side = SideOf[i[2]]
  /\ r.ext = NoExt => r.source = "manual" /\ r.op = OpOf[i[2]]
  /\ r.ext # NoExt => Matches(i, r.ext) /\ r.op = OpOf[r.ext]

TrueChange(i, u) ==
  /\ i \in Ids /\ DOMAIN u \subseteq Settable
  /\ "status" \in DOMAIN u => u.status \in {"pending", "posted"}
  /\ "ext" \in DOMAIN u => Matches(i, u.ext) /\ "op" \in DOMAIN u /\ u.op = OpOf[u.ext]
  /\ "op" \in DOMAIN u => "ext" \in DOMAIN u
  /\ "source" \in DOMAIN u => u.source = "sync" /\ "ext" \in DOMAIN u
  /\ "pair" \in DOMAIN u => u.pair \in SUBSET Ids

Reports == Exts \X {"pending", "posted"}

TrueReports(s) ==
  /\ s.pc \in {"idle", "account", "items", "reconcile", "ready"} /\ s.begin \in Times
  /\ s.items \subseteq Reports /\ (s.pc # "items" => s.items = {})
  /\ s.pc = "items" => s.home \in AcctRows /\ \A it \in s.items : AcctOf[it[1]] = s.home[1]
  /\ s.accts \subseteq AcctRows /\ s.openAdd \subseteq AcctRows \X Passes

TrueWrites(s) ==
  /\ IsFiniteSet(DOMAIN s.add)
  /\ \A i \in DOMAIN s.add : TrueRow(i, s.add[i])
  /\ \A i \in DOMAIN s.upd : TrueChange(i, s.upd[i])

TrueRows == IsFiniteSet(DOMAIN rows) /\ \A i \in DOMAIN rows : TrueRow(i, rows[i])

(* Each pass in flight began, and will commit once at most. *)
Flying == {p \in Passes : InFlight(pass[p])}
Counted ==
  /\ IsFiniteSet(Flying) /\ clock \in Nat /\ begun \in Nat /\ begun <= MaxPasses
  /\ clock + Cardinality(Flying) <= 2 * begun

TypeInv ==
  /\ feed \in [Exts -> {"unseen", "pending", "posted", "gone"}]
  /\ accts \subseteq AcctRows /\ openings \subseteq AcctRows \X (Passes \cup {"link"})
  /\ TrueRows /\ \A p \in Passes : TrueReports(pass[p]) /\ TrueWrites(pass[p])
  /\ Counted

LEMMA RowIs ==
  ASSUME NEW r, r = [c \in RowColumns |-> r[c]],
         r.ext \in Exts \cup {NoExt}, r.acct \in AcctRows, r.day \in Int,
         r.side \in {"debit", "credit"}, r.status \in {"pending", "posted"},
         r.source \in {"sync", "manual"}, r.ignored \in BOOLEAN, r.pair \in SUBSET Ids,
         r.op \in Ops, r.span \in Times \X Times
  PROVE  r \in Row
BY DEF Row, RowColumns

LEMMA RowHas ==
  ASSUME NEW r \in Row
  PROVE  /\ r = [c \in RowColumns |-> r[c]] /\ DOMAIN r = RowColumns
         /\ r.ext \in Exts \cup {NoExt} /\ r.acct \in AcctRows /\ r.day \in Int
         /\ r.side \in {"debit", "credit"} /\ r.status \in {"pending", "posted"}
         /\ r.source \in {"sync", "manual"} /\ r.ignored \in BOOLEAN /\ r.pair \in SUBSET Ids
         /\ r.op \in Ops /\ r.span \in Times \X Times
BY DEF Row, RowColumns

(* A row of which one column is set. *)
LEMMA StampIs ==
  ASSUME NEW r \in Row
  PROVE  /\ \A t \in Times \X Times : [r EXCEPT !.span = t] \in Row
         /\ \A b \in BOOLEAN : [r EXCEPT !.ignored = b] \in Row
         /\ \A m \in SUBSET Ids : [r EXCEPT !.pair = m] \in Row
BY DEF Row

(* A row that keeps what says where it came from. *)
LEMMA SameRow ==
  ASSUME NEW i, NEW r, TrueRow(i, r), NEW q \in Row, q.acct = r.acct, q.day = r.day, q.side = r.side,
         q.ext = r.ext, q.op = r.op, q.source = r.source
  PROVE  TrueRow(i, q)
BY DEF TrueRow

LEMMA OverlayTrue ==
  ASSUME NEW i, NEW r, TrueRow(i, r), NEW u, TrueChange(i, u)
  PROVE  TrueRow(i, Overlay(u, r))
<1>1. PICK q : q = Overlay(u, r)
  OBVIOUS
<1>2. r \in Row /\ DOMAIN u \subseteq Settable
  BY DEF TrueRow, TrueChange
<1>3. q = [c \in RowColumns |-> q[c]]
  BY <1>1, <1>2, RowHas DEF Overlay, RowColumns, Settable
<1>4. \A c \in RowColumns : q[c] = IF c \in DOMAIN u THEN u[c] ELSE r[c]
  BY <1>1, <1>2, RowHas DEF Overlay
<1>5. /\ q.acct = r.acct /\ q.day = r.day /\ q.side = r.side /\ q.ignored = r.ignored /\ q.span = r.span
      /\ q.ext = IF "ext" \in DOMAIN u THEN u.ext ELSE r.ext
      /\ q.op = IF "op" \in DOMAIN u THEN u.op ELSE r.op
      /\ q.source = IF "source" \in DOMAIN u THEN u.source ELSE r.source
      /\ q.status = IF "status" \in DOMAIN u THEN u.status ELSE r.status
      /\ q.pair = IF "pair" \in DOMAIN u THEN u.pair ELSE r.pair
  BY <1>2, <1>4 DEF RowColumns, Settable
<1>6. \A e \in Exts : OpOf[e] \in Ops /\ e # NoExt
  BY DataAssumption DEF Ops
<1>7. /\ "ext" \in DOMAIN u <=> "op" \in DOMAIN u
      /\ "ext" \in DOMAIN u => u.ext \in Exts /\ u.op = OpOf[u.ext]
  BY DEF TrueChange, Matches
<1>8. /\ q.ext \in Exts \cup {NoExt} /\ q.acct \in AcctRows /\ q.day \in Int
      /\ q.side \in {"debit", "credit"} /\ q.status \in {"pending", "posted"}
      /\ q.source \in {"sync", "manual"} /\ q.ignored \in BOOLEAN /\ q.pair \in SUBSET Ids
      /\ q.op \in Ops /\ q.span \in Times \X Times
  BY <1>2, <1>5, <1>6, <1>7, RowHas DEF TrueChange
<1>9. q \in Row
  BY <1>3, <1>8, RowIs
<1>10. CASE "ext" \in DOMAIN u
  <2>1. q.ext = u.ext /\ q.op = OpOf[u.ext] /\ u.ext # NoExt /\ Matches(i, u.ext)
    BY <1>5, <1>6, <1>7, <1>10 DEF TrueChange
  <2> QED
    BY <1>1, <1>5, <1>9, <2>1 DEF TrueRow
<1>11. CASE "ext" \notin DOMAIN u
  <2>1. q.ext = r.ext /\ q.op = r.op /\ q.source = r.source
    BY <1>5, <1>7, <1>11 DEF TrueChange
  <2> QED
    BY <1>1, <1>5, <1>9, <2>1, SameRow
<1> QED
  BY <1>10, <1>11

LEMMA ChangeTrue ==
  ASSUME NEW i, NEW u, TrueChange(i, u), NEW v, TrueChange(i, v) \/ v = <<>>
  PROVE  TrueChange(i, Overlay(u, v))
<1>1. DOMAIN <<>> = {}
  OBVIOUS
<1>2. PICK w : w = Overlay(u, v)
  OBVIOUS
<1>3. DOMAIN w = DOMAIN u \cup DOMAIN v /\ \A c \in DOMAIN w : w[c] = IF c \in DOMAIN u THEN u[c] ELSE v[c]
  BY <1>2 DEF Overlay
<1>4. TrueChange(i, v)
  BY <1>1 DEF TrueChange
<1>5. /\ "ext" \in DOMAIN w => /\ "op" \in DOMAIN w
                               /\ \/ w.ext = u.ext /\ w.op = u.op /\ "ext" \in DOMAIN u
                                  \/ w.ext = v.ext /\ w.op = v.op /\ "ext" \in DOMAIN v
      /\ "op" \in DOMAIN w => "ext" \in DOMAIN w
  BY <1>3, <1>4 DEF TrueChange
<1>6. /\ "status" \in DOMAIN w => w.status \in {"pending", "posted"}
      /\ "source" \in DOMAIN w => w.source = "sync" /\ "ext" \in DOMAIN w
      /\ "pair" \in DOMAIN w => w.pair \in SUBSET Ids
      /\ i \in Ids /\ DOMAIN w \subseteq Settable
  BY <1>3, <1>4 DEF TrueChange
<1>7. "ext" \in DOMAIN w => Matches(i, w.ext) /\ w.op = OpOf[w.ext]
  BY <1>4, <1>5 DEF TrueChange
<1> QED
  BY <1>2, <1>5, <1>6, <1>7 DEF TrueChange

LEMMA ViewTrue ==
  ASSUME TrueRows, NEW s, TrueWrites(s)
  PROVE  IsFiniteSet(DOMAIN View(s)) /\ \A i \in DOMAIN View(s) : TrueRow(i, View(s)[i])
<1>1. IsFiniteSet(DOMAIN rows \cup DOMAIN s.add)
  BY FS_Union DEF TrueRows, TrueWrites
<1>2. IsFiniteSet(DOMAIN View(s))
  BY <1>1, ViewIs, FS_Subset
<1>3. ASSUME NEW i \in DOMAIN View(s) PROVE TrueRow(i, View(s)[i])
  <2>1. CASE i \in DOMAIN s.add
    BY <1>3, <2>1, ViewIs DEF TrueWrites
  <2>2. CASE i \notin DOMAIN s.add
    <3>1. i \in DOMAIN rows /\ TrueRow(i, rows[i])
      BY <1>3, <2>2, ViewIs DEF TrueRows
    <3>2. CASE i \in DOMAIN s.upd
      <4>1. TrueChange(i, s.upd[i])
        BY <3>2 DEF TrueWrites
      <4>2. TrueRow(i, Overlay(s.upd[i], rows[i]))
        BY <3>1, <4>1, OverlayTrue
      <4>3. View(s)[i] = Overlay(s.upd[i], rows[i])
        BY <1>3, <2>2, <3>2, ViewIs
      <4> QED
        BY <4>2, <4>3
    <3>3. CASE i \notin DOMAIN s.upd
      BY <1>3, <2>2, <3>1, <3>3, ViewIs
    <3> QED
      BY <3>2, <3>3
  <2> QED
    BY <2>1, <2>2
<1> QED
  BY <1>2, <1>3

(* What a session needs of the rows, beside its own state. *)
Typed(s) == DOMAIN s = PassColumns /\ TrueRows /\ TrueReports(s) /\ TrueWrites(s)

(* A step of a session that changes its writes alone. *)
LEMMA WritesMove ==
  ASSUME NEW s, Typed(s), NEW t, DOMAIN t = PassColumns, TrueWrites(t),
         t.pc = s.pc, t.begin = s.begin, t.items = s.items, t.home = s.home,
         t.accts = s.accts, t.openAdd = s.openAdd
  PROVE  Typed(t)
BY DEF Typed, TrueReports

LEMMA PutTrue ==
  ASSUME NEW s, Typed(s), NEW i \in DOMAIN View(s), NEW columns, TrueChange(i, columns)
  PROVE  Typed(Put(s, i, columns)) /\ Put(s, i, columns).pc = s.pc
<1>1. CASE i \in DOMAIN s.add
  <2>1. PICK add : add = With(s.add, i, Overlay(columns, s.add[i]))
    OBVIOUS
  <2>2. PICK t : t = [s EXCEPT !.add = add]
    OBVIOUS
  <2>3. Put(s, i, columns) = t
    BY <1>1, <2>1, <2>2 DEF Put
  <2>4. /\ DOMAIN t = PassColumns /\ t.pc = s.pc /\ t.begin = s.begin /\ t.items = s.items
        /\ t.home = s.home /\ t.accts = s.accts /\ t.openAdd = s.openAdd /\ t.add = add /\ t.upd = s.upd
    BY <2>2 DEF Typed, PassColumns
  <2>5. TrueRow(i, Overlay(columns, s.add[i]))
    BY <1>1, OverlayTrue DEF Typed, TrueWrites
  <2>6. DOMAIN add = DOMAIN s.add /\ \A k \in DOMAIN add : TrueRow(k, add[k])
    BY <1>1, <2>1, <2>5 DEF With, Typed, TrueWrites
  <2>7. TrueWrites(t)
    BY <2>4, <2>6 DEF Typed, TrueWrites
  <2> QED
    BY <2>3, <2>4, <2>7, WritesMove
<1>2. CASE i \notin DOMAIN s.add
  <2>1. PICK old : old = IF i \in DOMAIN s.upd THEN s.upd[i] ELSE <<>>
    OBVIOUS
  <2>2. PICK upd : upd = With(s.upd, i, Overlay(columns, old))
    OBVIOUS
  <2>3. PICK t : t = [s EXCEPT !.upd = upd]
    OBVIOUS
  <2>4. Put(s, i, columns) = t
    BY <1>2, <2>1, <2>2, <2>3 DEF Put
  <2>5. /\ DOMAIN t = PassColumns /\ t.pc = s.pc /\ t.begin = s.begin /\ t.items = s.items
        /\ t.home = s.home /\ t.accts = s.accts /\ t.openAdd = s.openAdd /\ t.upd = upd /\ t.add = s.add
    BY <2>3 DEF Typed, PassColumns
  <2>6. TrueChange(i, old) \/ old = <<>>
    BY <2>1 DEF Typed, TrueWrites
  <2>7. TrueChange(i, Overlay(columns, old))
    BY <2>6, ChangeTrue
  <2>8. \A k \in DOMAIN upd : TrueChange(k, upd[k])
    BY <2>2, <2>7 DEF With, Typed, TrueWrites
  <2>9. TrueWrites(t)
    BY <2>5, <2>8 DEF Typed, TrueWrites
  <2> QED
    BY <2>4, <2>5, <2>9, WritesMove
<1> QED
  BY <1>1, <1>2

LEMMA InsertTrue ==
  ASSUME NEW s, Typed(s), NEW e \in Exts, NEW st \in {"pending", "posted"},
         s.home \in AcctRows, s.home[1] = AcctOf[e]
  PROVE  Typed(Insert(s, e, st)) /\ Insert(s, e, st).pc = s.pc
<1>1. PICK i : i = <<s.begin, e>>
  OBVIOUS
<1>2. PICK row : row = [ext |-> e, acct |-> s.home, day |-> DayOf[e], side |-> SideOf[e],
                        status |-> st, source |-> "sync", ignored |-> FALSE, pair |-> {},
                        op |-> OpOf[e], span |-> <<s.begin, s.begin>>]
  OBVIOUS
<1>3. PICK add : add = With(s.add, i, row)
  OBVIOUS
<1>4. PICK t : t = [s EXCEPT !.add = add]
  OBVIOUS
<1>5. Insert(s, e, st) = t
  BY <1>1, <1>2, <1>3, <1>4 DEF Insert
<1>6. /\ DOMAIN t = PassColumns /\ t.pc = s.pc /\ t.begin = s.begin /\ t.items = s.items
      /\ t.home = s.home /\ t.accts = s.accts /\ t.openAdd = s.openAdd /\ t.add = add /\ t.upd = s.upd
  BY <1>4 DEF Typed, PassColumns
<1>7. s.begin \in Times /\ DayOf[e] \in Int /\ SideOf[e] \in {"debit", "credit"} /\ e # NoExt
  BY DataAssumption DEF Typed, TrueReports
<1>8. i \in Ids /\ i[2] = e /\ row \in Row
  BY <1>1, <1>2, <1>7 DEF Ids, Row, Ops
<1>9. Within(DayOf[e], DayOf[e], 3)
  BY <1>7 DEF Within, Apart
<1>10. TrueRow(i, row)
  BY <1>2, <1>7, <1>8, <1>9 DEF TrueRow, Matches
<1>11. DOMAIN add = DOMAIN s.add \cup {i} /\ \A k \in DOMAIN add : TrueRow(k, add[k])
  BY <1>3, <1>10 DEF With, Typed, TrueWrites
<1>12. IsFiniteSet(DOMAIN add)
  BY <1>11, FS_AddElement DEF Typed, TrueWrites
<1>13. TrueWrites(t)
  BY <1>6, <1>11, <1>12 DEF Typed, TrueWrites
<1> QED
  BY <1>5, <1>6, <1>13, WritesMove

LEMMA InHomeTrue ==
  ASSUME NEW s, Typed(s), NEW i \in InHome(s), NEW e \in Exts, s.home[1] = AcctOf[e]
  PROVE  /\ i \in DOMAIN View(s) /\ TrueRow(i, View(s)[i]) /\ View(s)[i].acct = s.home
         /\ AcctOf[i[2]] = AcctOf[e] /\ i[1] \in Nat /\ i \in Ids
<1>1. i \in DOMAIN View(s) /\ View(s)[i].acct = s.home /\ TrueRow(i, View(s)[i])
  BY ViewTrue DEF InHome, Typed
<1>2. i \in Ids /\ AcctOf[i[2]] = AcctOf[e]
  BY <1>1 DEF TrueRow
<1>3. i[1] \in Nat
  BY <1>2 DEF Ids, Times
<1> QED
  BY <1>1, <1>2, <1>3

LEMMA MatchTrue ==
  ASSUME NEW s, Typed(s), NEW e \in Exts, NEW st \in {"pending", "posted"},
         s.home \in AcctRows, s.home[1] = AcctOf[e], NEW t,
         IF SameExt(s, e) # {} THEN t = ByExt(s, e, st)
         ELSE IF ManualMatches(s, e) # {} THEN \E i \in ManualMatches(s, e) : t = ByManual(s, i, e)
         ELSE IF SyncedTwins(s, e, st) # {} THEN \E i \in SyncedTwins(s, e, st) : t = ByTwin(s, i, e, st)
         ELSE t = Insert(s, e, st)
  PROVE  Typed(t) /\ t.pc = s.pc
<1>1. CASE SameExt(s, e) # {} /\ t = ByExt(s, e, st)
  <2>1. PICK i : i = Oldest(SameExt(s, e))
    OBVIOUS
  <2>2. \A k \in SameExt(s, e) : k \in InHome(s) /\ k[1] \in Nat
    BY InHomeTrue DEF SameExt
  <2>3. i \in InHome(s)
    BY <1>1, <2>1, <2>2, OldestIs
  <2>4. i \in DOMAIN View(s) /\ i \in Ids
    BY <2>3, InHomeTrue
  <2>5. TrueChange(i, [status |-> "posted"])
    BY <2>4 DEF TrueChange, Settable
  <2>6. t = s \/ t = Put(s, i, [status |-> "posted"])
    BY <1>1, <2>1 DEF ByExt
  <2> QED
    BY <2>4, <2>5, <2>6, PutTrue
<1>2. ASSUME NEW i \in ManualMatches(s, e), t = ByManual(s, i, e) PROVE Typed(t) /\ t.pc = s.pc
  <2>1. /\ i \in InHome(s) /\ View(s)[i].side = SideOf[e] /\ Within(View(s)[i].day, DayOf[e], 3)
    BY DEF ManualMatches
  <2>2. i \in DOMAIN View(s) /\ i \in Ids /\ Matches(i, e)
    BY <2>1, InHomeTrue DEF TrueRow, Matches
  <2>3. TrueChange(i, [ext |-> e, source |-> "sync", op |-> OpOf[e]])
    BY <2>2 DEF TrueChange, Settable
  <2>4. t = s \/ t = Put(s, i, [ext |-> e, source |-> "sync", op |-> OpOf[e]])
    BY <1>2 DEF ByManual
  <2> QED
    BY <2>2, <2>3, <2>4, PutTrue
<1>3. ASSUME NEW i \in SyncedTwins(s, e, st), t = ByTwin(s, i, e, st) PROVE Typed(t) /\ t.pc = s.pc
  <2>1. i \in InHome(s) /\ View(s)[i].side = SideOf[e] /\ View(s)[i].day = DayOf[e]
    BY DEF SyncedTwins
  <2>2. /\ i \in DOMAIN View(s) /\ i \in Ids /\ AcctOf[i[2]] = AcctOf[e]
        /\ SideOf[i[2]] = SideOf[e] /\ DayOf[i[2]] = DayOf[e]
    BY <2>1, InHomeTrue DEF TrueRow
  <2>3. Matches(i, e)
    BY <2>2, DataAssumption DEF Matches, Within, Apart
  <2>4. TrueChange(i, [status |-> "posted", ext |-> e, op |-> OpOf[e]])
    BY <2>2, <2>3 DEF TrueChange, Settable
  <2>5. t = s \/ t = Put(s, i, [status |-> "posted", ext |-> e, op |-> OpOf[e]])
    BY <1>3 DEF ByTwin
  <2> QED
    BY <2>2, <2>4, <2>5, PutTrue
<1>4. CASE t = Insert(s, e, st)
  BY <1>4, InsertTrue
<1> QED
  BY <1>1, <1>2, <1>3, <1>4

LEMMA TypedOf ==
  ASSUME IInv, TypeInv, NEW p \in Passes
  PROVE  Typed(pass[p])
BY DEF IInv, TypeInv, Typed, SessionFits

(* Nobody else begins or ends. *)
LEMMA CountedStays ==
  ASSUME TypeInv, UNCHANGED <<clock, begun>>, \A q \in Passes : InFlight(pass'[q]) => InFlight(pass[q])
  PROVE  Counted'
<1>1. Flying' \subseteq Flying
  BY DEF Flying
<1>2. PICK now, later : now = Flying /\ later = Flying'
  OBVIOUS
<1>3. IsFiniteSet(now) /\ clock \in Nat /\ begun \in Nat /\ begun <= MaxPasses
      /\ clock + Cardinality(now) <= 2 * begun
  BY <1>2 DEF TypeInv, Counted
<1>4. /\ IsFiniteSet(later) /\ Cardinality(later) <= Cardinality(now)
      /\ Cardinality(later) \in Nat /\ Cardinality(now) \in Nat
  BY <1>1, <1>2, <1>3, FS_Subset, FS_CardinalityType
<1>5. clock + Cardinality(later) <= 2 * begun
  BY <1>3, <1>4
<1>6. IsFiniteSet(Flying') /\ clock' + Cardinality(Flying') <= 2 * begun'
  BY <1>2, <1>4, <1>5
<1> QED
  BY <1>3, <1>6 DEF Counted

(* A step of one session. *)
LEMMA SessionStep ==
  ASSUME IInv, TypeInv, NEW p \in Passes, NEW t, Typed(t), InFlight(t) => InFlight(pass[p]),
         pass' = [pass EXCEPT ![p] = t], UNCHANGED <<feed, accts, openings, rows, clock, begun>>
  PROVE  TypeInv'
<1>1. DOMAIN pass = Passes
  BY DEF IInv
<1>2. pass'[p] = t /\ \A q \in Passes \ {p} : pass'[q] = pass[q]
  BY <1>1
<1>3. \A q \in Passes : InFlight(pass'[q]) => InFlight(pass[q])
  BY <1>2
<1>4. Counted'
  BY <1>3, CountedStays
<1>5. \A q \in Passes : TrueReports(pass'[q]) /\ TrueWrites(pass'[q])
  BY <1>2 DEF TypeInv, Typed
<1>6. TrueRows'
  BY DEF TypeInv, TrueRows
<1> QED
  BY <1>4, <1>5, <1>6 DEF TypeInv

(* Nothing moves but the feed and the users' counters. *)
LEMMA FeedStep ==
  ASSUME IInv, TypeInv, UNCHANGED <<accts, openings, rows, pass, clock, begun>>,
         feed' \in [Exts -> {"unseen", "pending", "posted", "gone"}]
  PROVE  TypeInv'
<1>1. Counted'
  BY CountedStays
<1> QED
  BY <1>1 DEF TypeInv, TrueRows

(* Rows change under the sessions in flight. *)
LEMMA RowsStep ==
  ASSUME IInv, TypeInv, TrueRows', pass' = Disturbed, UNCHANGED <<feed, accts, openings, clock, begun>>
  PROVE  TypeInv'
<1>1. ASSUME NEW q \in Passes
      PROVE  /\ TrueReports(pass'[q]) /\ TrueWrites(pass'[q]) /\ (InFlight(pass'[q]) => InFlight(pass[q]))
  <2>1. PICK s, t : s = pass[q] /\ t = pass'[q]
    OBVIOUS
  <2>2. t = s \/ t = [s EXCEPT !.calm = FALSE]
    BY <2>1 DEF Disturbed
  <2>3. DOMAIN s = PassColumns
    BY <2>1 DEF IInv, SessionFits
  <2>4. /\ t.pc = s.pc /\ t.begin = s.begin /\ t.items = s.items /\ t.home = s.home
        /\ t.accts = s.accts /\ t.openAdd = s.openAdd /\ t.add = s.add /\ t.upd = s.upd
    BY <2>2, <2>3 DEF PassColumns
  <2>5. TrueReports(s) /\ TrueWrites(s)
    BY <2>1 DEF TypeInv
  <2>6. TrueReports(t) /\ TrueWrites(t)
    BY <2>4, <2>5 DEF TrueReports, TrueWrites
  <2> QED
    BY <2>1, <2>4, <2>6 DEF InFlight
<1>2. Counted'
  BY <1>1, CountedStays
<1> QED
  BY <1>1, <1>2 DEF TypeInv

LEMMA BeginTyped ==
  ASSUME IInv, TypeInv, NEW p \in Passes, Begin(p)
  PROVE  TypeInv'
<1>1. PICK t : t = [PassIdle EXCEPT !.pc = "account", !.begin = clock + 1, !.todo = Accounts]
  OBVIOUS
<1>2. DOMAIN pass = Passes /\ pass' = [pass EXCEPT ![p] = t] /\ clock' = clock + 1 /\ begun' = begun + 1
  BY <1>1 DEF IInv, Begin
<1>3. pass'[p] = t /\ \A q \in Passes \ {p} : pass'[q] = pass[q]
  BY <1>2
<1>4. /\ t.pc = "account" /\ t.begin = clock + 1 /\ t.items = {} /\ t.accts = {} /\ t.openAdd = {}
      /\ t.add = <<>> /\ t.upd = <<>>
  BY <1>1 DEF PassIdle
<1>5. PICK now, later : now = Flying /\ later = Flying'
  OBVIOUS
<1>6. later = now \cup {p} /\ p \notin now
  BY <1>3, <1>4, <1>5 DEF Flying, InFlight, Begin
<1>7. /\ IsFiniteSet(now) /\ clock \in Nat /\ begun \in Nat /\ begun < MaxPasses
      /\ clock + Cardinality(now) <= 2 * begun
  BY <1>5 DEF TypeInv, Counted, Begin
<1>8. /\ IsFiniteSet(later) /\ Cardinality(later) = Cardinality(now) + 1 /\ Cardinality(now) \in Nat
  BY <1>6, <1>7, FS_AddElement, FS_CardinalityType
<1>9. MaxPasses \in Nat
  BY DataAssumption
<1>10. clock + 1 + Cardinality(later) <= 2 * (begun + 1) /\ begun + 1 <= MaxPasses /\ clock + 1 <= 2 * MaxPasses
  BY <1>7, <1>8, <1>9
<1>11. Counted'
  <2>1. clock' \in Nat /\ begun' \in Nat
    BY <1>2, <1>7
  <2> QED
    BY <1>2, <1>5, <1>8, <1>10, <2>1 DEF Counted
<1>12. DOMAIN <<>> = {} /\ IsFiniteSet({})
  BY FS_EmptySet
<1>13. TrueReports(t) /\ TrueWrites(t)
  BY <1>4, <1>7, <1>10, <1>12 DEF TrueReports, TrueWrites, Times
<1>14. \A q \in Passes : TrueReports(pass'[q]) /\ TrueWrites(pass'[q])
  BY <1>3, <1>13 DEF TypeInv
<1> QED
  BY <1>11, <1>14 DEF TypeInv, TrueRows, Begin

LEMMA FetchTyped ==
  ASSUME IInv, TypeInv, NEW p \in Passes, NEW a \in Accounts, Fetch(p, a)
  PROVE  TypeInv'
<1> DEFINE found == {r \in accts : r[1] = a}
           home == IF found = {} THEN <<a, p>> ELSE CHOOSE r \in found : TRUE
           items == {<<e, feed[e]>> : e \in
                       {x \in Exts : /\ AcctOf[x] = a
                                     /\ \/ feed[x] = "posted"
                                        \/ feed[x] = "pending" /\ ImportPending}}
           s == pass[p]
<1>1. home \in AcctRows /\ home[1] = a
  <2>1. CASE found = {}
    BY <2>1 DEF AcctRows
  <2>2. CASE found # {}
    <3>1. home \in found
      BY <2>2
    <3> QED
      BY <3>1 DEF TypeInv
  <2> QED
    BY <2>1, <2>2
<1>2. items \subseteq Reports /\ \A it \in items : AcctOf[it[1]] = a
  BY DEF Reports
<1> HIDE DEF items, home
<1>3. PICK t : t = [s EXCEPT !.pc = "items", !.home = home, !.items = items, !.todo = @ \ {a},
                             !.accts = IF found = {} THEN @ \cup {home} ELSE @,
                             !.seen = @ \cup {it[1] : it \in {x \in items : x[2] = "posted"}}]
  OBVIOUS
<1>4. pass' = [pass EXCEPT ![p] = t]
  BY <1>3 DEF Fetch, home, items
<1>5. Typed(s)
  BY TypedOf
<1>6. /\ DOMAIN t = PassColumns /\ t.pc = "items" /\ t.begin = s.begin /\ t.items = items
      /\ t.home = home /\ (t.accts = s.accts \/ t.accts = s.accts \cup {home})
      /\ t.openAdd = s.openAdd /\ t.add = s.add /\ t.upd = s.upd
  BY <1>3, <1>5 DEF Typed, PassColumns
<1>7. Typed(t)
  BY <1>1, <1>2, <1>5, <1>6 DEF Typed, TrueReports, TrueWrites
<1>8. InFlight(s)
  BY DEF Fetch, InFlight
<1> QED
  BY <1>4, <1>7, <1>8, SessionStep DEF Fetch

LEMMA ItemTyped ==
  ASSUME IInv, TypeInv, NEW p \in Passes, NEW e \in Exts, NEW st \in {"pending", "posted"}, Item(p, e, st)
  PROVE  TypeInv'
<1>1. PICK s : s = [pass[p] EXCEPT !.items = @ \ {<<e, st>>}]
  OBVIOUS
<1>2. PICK t : /\ Becomes(p, t)
               /\ IF SameExt(s, e) # {} THEN t = ByExt(s, e, st)
                  ELSE IF ManualMatches(s, e) # {} THEN \E i \in ManualMatches(s, e) : t = ByManual(s, i, e)
                  ELSE IF SyncedTwins(s, e, st) # {} THEN \E i \in SyncedTwins(s, e, st) : t = ByTwin(s, i, e, st)
                  ELSE t = Insert(s, e, st)
  BY <1>1 DEF Item
<1>3. Typed(pass[p])
  BY TypedOf
<1>4. /\ DOMAIN s = PassColumns /\ s.pc = pass[p].pc /\ s.begin = pass[p].begin
      /\ s.items = pass[p].items \ {<<e, st>>} /\ s.home = pass[p].home /\ s.accts = pass[p].accts
      /\ s.openAdd = pass[p].openAdd /\ s.add = pass[p].add /\ s.upd = pass[p].upd
  BY <1>1, <1>3 DEF Typed, PassColumns
<1>5. pass[p].pc = "items" /\ <<e, st>> \in pass[p].items
  BY DEF Item
<1>6. s.home \in AcctRows /\ s.home[1] = AcctOf[e]
  BY <1>3, <1>4, <1>5 DEF Typed, TrueReports
<1>7. Typed(s)
  BY <1>3, <1>4, <1>5 DEF Typed, TrueReports, TrueWrites
<1>8. Typed(t) /\ t.pc = s.pc
  BY <1>2, <1>6, <1>7, MatchTrue
<1>9. InFlight(pass[p])
  BY <1>5 DEF InFlight
<1>10. pass' = [pass EXCEPT ![p] = t] /\ UNCHANGED <<feed, accts, openings, rows, clock, begun>>
  BY <1>2 DEF Becomes
<1> QED
  BY <1>8, <1>9, <1>10, SessionStep

LEMMA OpeningTyped ==
  ASSUME IInv, TypeInv, NEW p \in Passes, Opening(p)
  PROVE  TypeInv'
<1> DEFINE s == pass[p]
           found == {o \in openings : o[1] = s.home}
<1>1. PICK gap \in Gaps :
        Becomes(p, [s EXCEPT !.pc = IF s.todo = {} THEN "reconcile" ELSE "account",
                             !.openAdd = IF gap /\ found = {} THEN @ \cup {<<s.home, p>>} ELSE @,
                             !.openDel = IF gap THEN @ ELSE @ \cup found])
  BY DEF Opening
<1>2. PICK t : t = [s EXCEPT !.pc = IF s.todo = {} THEN "reconcile" ELSE "account",
                             !.openAdd = IF gap /\ found = {} THEN @ \cup {<<s.home, p>>} ELSE @,
                             !.openDel = IF gap THEN @ ELSE @ \cup found]
  OBVIOUS
<1>3. Typed(s) /\ s.pc = "items" /\ s.items = {}
  BY TypedOf DEF Opening
<1>4. /\ DOMAIN t = PassColumns /\ t.pc \in {"reconcile", "account"} /\ t.begin = s.begin /\ t.items = s.items
      /\ t.accts = s.accts /\ (t.openAdd = s.openAdd \/ t.openAdd = s.openAdd \cup {<<s.home, p>>})
      /\ t.add = s.add /\ t.upd = s.upd
  BY <1>2, <1>3 DEF Typed, PassColumns
<1>5. Typed(t)
  BY <1>3, <1>4 DEF Typed, TrueReports, TrueWrites
<1>6. pass' = [pass EXCEPT ![p] = t] /\ UNCHANGED <<feed, accts, openings, rows, clock, begun>>
  BY <1>1, <1>2 DEF Becomes
<1>7. InFlight(s)
  BY <1>3 DEF InFlight
<1> QED
  BY <1>5, <1>6, <1>7, SessionStep

LEMMA AbortTyped ==
  ASSUME IInv, TypeInv, NEW p \in Passes, Abort(p)
  PROVE  TypeInv'
<1>1. DOMAIN <<>> = {} /\ IsFiniteSet({}) /\ 0 \in Times
  BY FS_EmptySet, DataAssumption DEF Times
<1>2. Typed(PassIdle) /\ ~InFlight(PassIdle)
  BY <1>1 DEF Typed, PassIdle, PassColumns, TrueReports, TrueWrites, TypeInv, InFlight
<1>3. pass' = [pass EXCEPT ![p] = PassIdle] /\ UNCHANGED <<feed, accts, openings, rows, clock, begun>>
  BY DEF Abort, Becomes
<1> QED
  BY <1>2, <1>3, SessionStep

(* The rows of a pair found among typed rows. *)
LEMMA PairsAreIds ==
  ASSUME NEW s, Typed(s), NEW new, NEW pairs \in Pairings(View(s), new)
  PROVE  PairsFit(View(s), pairs) /\ \A P \in pairs : P \subseteq Ids
<1>1. PICK V : V = View(s)
  OBVIOUS
<1>2. IsFiniteSet(DOMAIN V) /\ \A i \in DOMAIN V : TrueRow(i, V[i])
  BY <1>1, ViewTrue DEF Typed
<1>3. ASSUME NEW i \in DOMAIN V PROVE i \in Ids /\ V[i].day \in Int /\ V[i].side \in {"debit", "credit"}
  <2>1. i \in Ids /\ V[i] \in Row
    BY <1>2 DEF TrueRow
  <2> QED
    BY <2>1, RowHas
<1>4. PairsFit(V, pairs)
  BY <1>1, <1>2, <1>3, PairingsFit DEF Dated
<1>5. \A P \in pairs : P \subseteq Ids
  BY <1>3, <1>4 DEF PairsFit, IsPair
<1> QED
  BY <1>1, <1>4, <1>5

(* Rows marked with their pair. *)
LEMMA PairedTrue ==
  ASSUME NEW s, Typed(s), NEW pairs, \A P \in pairs : P \subseteq Ids, NEW t, t = Paired(s, pairs)
  PROVE  Typed(t) /\ t.pc = s.pc /\ t.items = s.items /\ DOMAIN t.add = DOMAIN s.add
<1> DEFINE Marked == UNION pairs
           IdOf(i) == CHOOSE m \in pairs : i \in m
<1>1. \A i \in Marked : IdOf(i) \in SUBSET Ids /\ i \in Ids
  OBVIOUS
<1>2. PICK add : add = [i \in DOMAIN s.add |-> IF i \in Marked THEN [s.add[i] EXCEPT !.pair = IdOf(i)]
                                               ELSE s.add[i]]
  OBVIOUS
<1>3. PICK upd : upd = [i \in (DOMAIN s.upd \cup Marked) \ DOMAIN s.add |->
                          Overlay(IF i \in Marked THEN [pair |-> IdOf(i)] ELSE <<>>,
                                  IF i \in DOMAIN s.upd THEN s.upd[i] ELSE <<>>)]
  OBVIOUS
<1>4. t = [s EXCEPT !.add = add, !.upd = upd]
  BY <1>2, <1>3 DEF Paired
<1>5. /\ DOMAIN t = PassColumns /\ t.pc = s.pc /\ t.begin = s.begin /\ t.items = s.items
      /\ t.home = s.home /\ t.accts = s.accts /\ t.openAdd = s.openAdd /\ t.add = add /\ t.upd = upd
  BY <1>4 DEF Typed, PassColumns
<1> HIDE DEF IdOf, Marked
<1>6. ASSUME NEW i \in DOMAIN s.add PROVE TrueRow(i, add[i])
  <2>1. PICK r : r = s.add[i] /\ TrueRow(i, r) /\ r \in Row
    BY DEF Typed, TrueWrites, TrueRow
  <2>2. CASE i \in Marked
    <3>1. PICK q : q = [r EXCEPT !.pair = IdOf(i)]
      OBVIOUS
    <3>2. q \in Row
      BY <1>1, <2>1, <2>2, <3>1, StampIs
    <3>3. /\ q.acct = r.acct /\ q.day = r.day /\ q.side = r.side
          /\ q.ext = r.ext /\ q.op = r.op /\ q.source = r.source
      BY <2>1, <3>1, RowHas DEF RowColumns
    <3>4. add[i] = q
      BY <1>2, <2>1, <2>2, <3>1
    <3> QED
      BY <2>1, <3>2, <3>3, <3>4, SameRow
  <2>3. CASE i \notin Marked
    BY <1>2, <2>1, <2>3
  <2> QED
    BY <2>2, <2>3
<1>7. DOMAIN <<>> = {}
  OBVIOUS
<1>8. ASSUME NEW i \in DOMAIN upd PROVE TrueChange(i, upd[i])
  <2>1. PICK m : m = IF i \in Marked THEN [pair |-> IdOf(i)] ELSE <<>>
    OBVIOUS
  <2>2. PICK old : old = IF i \in DOMAIN s.upd THEN s.upd[i] ELSE <<>>
    OBVIOUS
  <2>3. upd[i] = Overlay(m, old) /\ i \in DOMAIN s.upd \cup Marked
    BY <1>3, <2>1, <2>2
  <2>4. TrueChange(i, old) \/ old = <<>>
    BY <2>2 DEF Typed, TrueWrites
  <2>5. i \in Ids
    BY <1>1, <2>3 DEF Typed, TrueWrites, TrueChange
  <2>6. TrueChange(i, m)
    <3>1. CASE i \in Marked
      BY <1>1, <2>1, <2>5, <3>1 DEF TrueChange, Settable
    <3>2. CASE i \notin Marked
      BY <1>7, <2>1, <2>5, <3>2 DEF TrueChange
    <3> QED
      BY <3>1, <3>2
  <2> QED
    BY <2>3, <2>4, <2>6, ChangeTrue
<1>9. DOMAIN add = DOMAIN s.add
  BY <1>2
<1>10. TrueWrites(t)
  BY <1>5, <1>6, <1>8, <1>9 DEF TrueWrites, Typed
<1> QED
  BY <1>5, <1>9, <1>10, WritesMove

LEMMA ReconcileTyped ==
  ASSUME IInv, TypeInv, NEW p \in Passes, Reconcile(p)
  PROVE  TypeInv'
<1>1. PICK s : s = pass[p]
  OBVIOUS
<1>2. Typed(s) /\ s.pc = "reconcile"
  BY <1>1, TypedOf DEF Reconcile
<1>3. PICK pairs \in Pairings(View(s), DOMAIN s.add) :
        \E u, gone : /\ u = Paired(s, pairs)
                     /\ Becomes(p, [u EXCEPT !.pc = "ready", !.add = Without(@, gone), !.upd = Without(@, gone),
                                             !.del = gone \ DOMAIN u.add])
  BY <1>1 DEF Reconcile
<1>4. PICK u, gone : /\ u = Paired(s, pairs)
                     /\ Becomes(p, [u EXCEPT !.pc = "ready", !.add = Without(@, gone), !.upd = Without(@, gone),
                                             !.del = gone \ DOMAIN u.add])
  BY <1>3
<1>5. PICK t : t = [u EXCEPT !.pc = "ready", !.add = Without(@, gone), !.upd = Without(@, gone),
                             !.del = gone \ DOMAIN u.add]
  OBVIOUS
<1>6. Typed(u) /\ u.pc = s.pc
  BY <1>2, <1>4, PairsAreIds, PairedTrue
<1>7. /\ DOMAIN t = PassColumns /\ t.pc = "ready" /\ t.begin = u.begin /\ t.items = u.items
      /\ t.accts = u.accts /\ t.openAdd = u.openAdd
      /\ t.add = Without(u.add, gone) /\ t.upd = Without(u.upd, gone)
  BY <1>5, <1>6 DEF Typed, PassColumns
<1>8. /\ DOMAIN t.add \subseteq DOMAIN u.add /\ \A i \in DOMAIN t.add : t.add[i] = u.add[i]
      /\ DOMAIN t.upd \subseteq DOMAIN u.upd /\ \A i \in DOMAIN t.upd : t.upd[i] = u.upd[i]
  BY <1>7 DEF Without
<1>9. IsFiniteSet(DOMAIN t.add)
  BY <1>6, <1>8, FS_Subset DEF Typed, TrueWrites
<1>10. TrueWrites(t)
  BY <1>6, <1>8, <1>9 DEF TrueWrites, Typed
<1>11. TrueReports(t)
  BY <1>2, <1>6, <1>7 DEF TrueReports, Typed
<1>12. Typed(t)
  BY <1>6, <1>7, <1>10, <1>11 DEF Typed
<1>13. InFlight(pass[p])
  BY <1>1, <1>2 DEF InFlight
<1>14. pass' = [pass EXCEPT ![p] = t] /\ UNCHANGED <<feed, accts, openings, rows, clock, begun>>
  BY <1>4, <1>5 DEF Becomes
<1> QED
  BY <1>12, <1>13, <1>14, SessionStep

(* What a commit leaves of a row, in its types. *)
LEMMA CommittedTrue ==
  ASSUME IInv, TypeInv, NEW p \in Passes, Commit(p), clock + 1 \in Times
  PROVE  TrueRows'
<1> DEFINE s == pass[p]
           Stamp(r, fresh) == IF fresh THEN [r EXCEPT !.span = <<s.begin, clock + 1>>] ELSE r
           Kept == (DOMAIN rows \cup DOMAIN s.add) \ s.del
<1>1. rows' = [i \in Kept |->
                 IF i \in DOMAIN s.add THEN Stamp(s.add[i], TRUE)
                 ELSE IF i \in DOMAIN s.upd
                   THEN Stamp(Overlay(s.upd[i], rows[i]), "ext" \in DOMAIN s.upd[i])
                   ELSE rows[i]]
  BY DEF Commit
<1>2. Typed(s)
  BY TypedOf
<1>3. IsFiniteSet(DOMAIN rows')
  <2>1. IsFiniteSet(DOMAIN rows \cup DOMAIN s.add)
    BY <1>2, FS_Union DEF Typed, TrueRows, TrueWrites
  <2>2. DOMAIN rows' \subseteq DOMAIN rows \cup DOMAIN s.add
    BY <1>1
  <2> QED
    BY <2>1, <2>2, FS_Subset
<1>4. ASSUME NEW i, NEW r, TrueRow(i, r), NEW fresh \in BOOLEAN PROVE TrueRow(i, Stamp(r, fresh))
  <2>1. CASE fresh
    <3>1. PICK q : q = [r EXCEPT !.span = <<s.begin, clock + 1>>]
      OBVIOUS
    <3>2. <<s.begin, clock + 1>> \in Times \X Times /\ r \in Row
      BY <1>2, <1>4 DEF Typed, TrueReports, TrueRow
    <3>3. q \in Row
      BY <3>1, <3>2, StampIs
    <3>4. /\ q.acct = r.acct /\ q.day = r.day /\ q.side = r.side
          /\ q.ext = r.ext /\ q.op = r.op /\ q.source = r.source
      BY <3>1, <3>2, RowHas DEF RowColumns
    <3>5. Stamp(r, fresh) = q
      BY <2>1, <3>1
    <3> QED
      BY <1>4, <3>3, <3>4, <3>5, SameRow
  <2>2. CASE ~fresh
    BY <1>4, <2>2
  <2> QED
    BY <2>1, <2>2
<1> HIDE DEF Stamp
<1>5. ASSUME NEW i \in DOMAIN rows' PROVE TrueRow(i, rows'[i])
  <2>1. CASE i \in DOMAIN s.add
    <3>1. TrueRow(i, s.add[i])
      BY <1>2, <2>1 DEF Typed, TrueWrites
    <3>2. rows'[i] = Stamp(s.add[i], TRUE)
      BY <1>1, <1>5, <2>1
    <3> QED
      BY <1>4, <3>1, <3>2
  <2>2. CASE i \notin DOMAIN s.add
    <3>1. i \in DOMAIN rows /\ TrueRow(i, rows[i])
      BY <1>1, <1>2, <1>5, <2>2 DEF Typed, TrueRows
    <3>2. CASE i \in DOMAIN s.upd
      <4>1. rows'[i] = Stamp(Overlay(s.upd[i], rows[i]), "ext" \in DOMAIN s.upd[i])
        BY <1>1, <1>5, <2>2, <3>2
      <4>2. TrueChange(i, s.upd[i])
        BY <1>2, <3>2 DEF Typed, TrueWrites
      <4>3. TrueRow(i, Overlay(s.upd[i], rows[i]))
        BY <3>1, <4>2, OverlayTrue
      <4>4. ("ext" \in DOMAIN s.upd[i]) \in BOOLEAN
        OBVIOUS
      <4> QED
        BY <1>4, <4>1, <4>3, <4>4
    <3>3. CASE i \notin DOMAIN s.upd
      BY <1>1, <1>5, <2>2, <3>1, <3>3
    <3> QED
      BY <3>2, <3>3
  <2> QED
    BY <2>1, <2>2
<1> QED
  BY <1>3, <1>5 DEF TrueRows

LEMMA CommitTyped ==
  ASSUME IInv, TypeInv, NEW p \in Passes, Commit(p)
  PROVE  TypeInv'
<1>1. PICK s : s = pass[p]
  OBVIOUS
<1>2. DOMAIN pass = Passes /\ s.pc = "ready" /\ clock' = clock + 1 /\ begun' = begun
  BY <1>1 DEF IInv, Commit
<1>3. pass'[p] = PassIdle /\ \A q \in Passes \ {p} : pass'[q] = Disturbed[q]
  BY DEF Commit, Disturbed
<1>4. PICK now, later : now = Flying /\ later = Flying'
  OBVIOUS
<1>5. later = now \ {p} /\ p \in now
  <2>1. \A q \in Passes : InFlight(Disturbed[q]) <=> InFlight(pass[q])
    BY DisturbedIs DEF InFlight
  <2>2. ~InFlight(PassIdle) /\ InFlight(pass[p])
    BY <1>1, <1>2 DEF InFlight, PassIdle
  <2> QED
    BY <1>3, <1>4, <2>1, <2>2 DEF Flying
<1>6. /\ IsFiniteSet(now) /\ clock \in Nat /\ begun \in Nat /\ begun <= MaxPasses
      /\ clock + Cardinality(now) <= 2 * begun
  BY <1>4 DEF TypeInv, Counted
<1>7. IsFiniteSet(later) /\ Cardinality(later) = Cardinality(now) - 1 /\ Cardinality(later) \in Nat
  BY <1>5, <1>6, FS_RemoveElement, FS_CardinalityType
<1>8. clock + 1 + Cardinality(later) <= 2 * begun /\ clock + 1 <= 2 * MaxPasses
  <2>1. Cardinality(now) \in Nat /\ MaxPasses \in Nat
    BY <1>6, FS_CardinalityType, DataAssumption
  <2> QED
    BY <1>6, <1>7, <2>1
<1>9. Counted'
  <2>1. clock' \in Nat
    BY <1>2, <1>6
  <2> QED
    BY <1>2, <1>4, <1>6, <1>7, <1>8, <2>1 DEF Counted
<1>10. clock + 1 \in Times
  BY <1>6, <1>8, DataAssumption DEF Times
<1>11. TrueRows'
  BY <1>10, CommittedTrue
<1>12. \A q \in Passes : TrueReports(pass'[q]) /\ TrueWrites(pass'[q])
  <2>1. TrueReports(PassIdle) /\ TrueWrites(PassIdle)
    <3>1. DOMAIN <<>> = {} /\ IsFiniteSet({}) /\ 0 \in Times
      BY FS_EmptySet, DataAssumption DEF Times
    <3> QED
      BY <3>1 DEF PassIdle, TrueReports, TrueWrites
  <2>2. ASSUME NEW q \in Passes PROVE TrueReports(Disturbed[q]) /\ TrueWrites(Disturbed[q])
    <3>1. PICK u, t : u = pass[q] /\ t = Disturbed[q]
      OBVIOUS
    <3>2. (t = u \/ t = [u EXCEPT !.calm = FALSE]) /\ DOMAIN u = PassColumns
      BY <3>1 DEF Disturbed, IInv, SessionFits
    <3>3. /\ t.pc = u.pc /\ t.begin = u.begin /\ t.items = u.items /\ t.home = u.home
          /\ t.accts = u.accts /\ t.openAdd = u.openAdd /\ t.add = u.add /\ t.upd = u.upd
      BY <3>2 DEF PassColumns
    <3>4. TrueReports(u) /\ TrueWrites(u)
      BY <3>1 DEF TypeInv
    <3>5. TrueReports(t) /\ TrueWrites(t)
      BY <3>3, <3>4 DEF TrueReports, TrueWrites
    <3> QED
      BY <3>1, <3>5
  <2> QED
    BY <1>3, <2>1, <2>2
<1>13. accts' \subseteq AcctRows /\ openings' \subseteq AcctRows \X (Passes \cup {"link"}) /\ feed' = feed
  <2>1. s.accts \subseteq AcctRows /\ s.openAdd \subseteq AcctRows \X Passes
    BY <1>1 DEF TypeInv, TrueReports
  <2>2. accts' = accts \cup s.accts /\ openings' = (openings \ s.openDel) \cup s.openAdd /\ feed' = feed
    BY <1>1 DEF Commit
  <2>3. s.openAdd \subseteq AcctRows \X (Passes \cup {"link"})
    BY <2>1
  <2> QED
    BY <2>1, <2>2, <2>3 DEF TypeInv
<1> QED
  BY <1>9, <1>11, <1>12, <1>13 DEF TypeInv

LEMMA UserTyped ==
  ASSUME IInv, TypeInv, Changing
  PROVE  TypeInv'
<1>1. /\ TrueRows /\ pass' = Disturbed /\ UNCHANGED <<feed, accts, openings, clock, begun>>
  BY ChangingIs DEF TypeInv
<1>2. /\ DOMAIN rows' \subseteq DOMAIN rows
      /\ \A j \in DOMAIN rows' : \/ rows'[j] = rows[j]
                                 \/ \E b \in BOOLEAN : rows'[j] = [rows[j] EXCEPT !.ignored = b]
                                 \/ rows'[j] = [rows[j] EXCEPT !.pair = {}]
  BY ChangingIs
<1>3. ASSUME NEW j \in DOMAIN rows' PROVE TrueRow(j, rows'[j])
  <2>1. PICK r : r = rows[j] /\ TrueRow(j, r) /\ r \in Row
    BY <1>1, <1>2, <1>3 DEF TrueRows, TrueRow
  <2>2. PICK q : q = rows'[j]
    OBVIOUS
  <2>3. q = r \/ (\E b \in BOOLEAN : q = [r EXCEPT !.ignored = b]) \/ q = [r EXCEPT !.pair = {}]
    BY <1>2, <2>1, <2>2
  <2>4. q \in Row
    BY <2>1, <2>3, StampIs
  <2>5. /\ q.acct = r.acct /\ q.day = r.day /\ q.side = r.side
        /\ q.ext = r.ext /\ q.op = r.op /\ q.source = r.source
    BY <2>1, <2>3, RowHas DEF RowColumns
  <2> QED
    BY <2>1, <2>2, <2>4, <2>5, SameRow
<1>4. IsFiniteSet(DOMAIN rows')
  BY <1>1, <1>2, FS_Subset DEF TrueRows
<1>5. TrueRows'
  BY <1>3, <1>4 DEF TrueRows
<1> QED
  BY <1>1, <1>5, RowsStep

LEMMA AddManualTyped ==
  ASSUME IInv, TypeInv, NEW e \in Exts, AddManual(e)
  PROVE  TypeInv'
<1>1. PICK i, row : /\ i = <<0, e>>
                    /\ row = [ext |-> NoExt, acct |-> <<AcctOf[e], "link">>, day |-> DayOf[e],
                              side |-> SideOf[e], status |-> "posted", source |-> "manual",
                              ignored |-> FALSE, pair |-> {}, op |-> OpOf[e], span |-> <<0, 0>>]
  OBVIOUS
<1>2. rows' = With(rows, i, row)
  BY <1>1 DEF AddManual
<1>3. /\ DayOf[e] \in Int /\ SideOf[e] \in {"debit", "credit"} /\ AcctOf[e] \in Accounts
      /\ 0 \in Times
  BY DataAssumption DEF Times
<1>4. i \in Ids /\ i[2] = e /\ row \in Row
  BY <1>1, <1>3 DEF Ids, Row, Ops, AcctRows
<1>5. TrueRow(i, row)
  BY <1>1, <1>4 DEF TrueRow
<1>6. DOMAIN rows' = DOMAIN rows \cup {i} /\ \A j \in DOMAIN rows' : TrueRow(j, rows'[j])
  BY <1>2, <1>5 DEF With, TypeInv, TrueRows
<1>7. IsFiniteSet(DOMAIN rows')
  BY <1>6, FS_AddElement DEF TypeInv, TrueRows
<1>8. TrueRows'
  BY <1>6, <1>7 DEF TrueRows
<1>9. pass' = Disturbed /\ UNCHANGED <<feed, accts, openings, clock, begun>>
  BY DEF AddManual
<1> QED
  BY <1>8, <1>9, RowsStep

LEMMA InitTyped == Init => TypeInv
<1> SUFFICES ASSUME Init PROVE TypeInv
  OBVIOUS
<1>1. DOMAIN <<>> = {} /\ IsFiniteSet({}) /\ Cardinality({}) = 0 /\ 0 \in Times /\ MaxPasses \in Nat
  BY FS_EmptySet, DataAssumption DEF Times
<1>2. \A p \in Passes : pass[p] = PassIdle
  BY DEF Init
<1>3. Flying = {}
  BY <1>2 DEF Flying, InFlight, PassIdle
<1>4. Counted
  BY <1>1, <1>3 DEF Counted, Init
<1>5. TrueReports(PassIdle) /\ TrueWrites(PassIdle)
  BY <1>1 DEF PassIdle, TrueReports, TrueWrites
<1>6. accts \subseteq AcctRows
  BY DataAssumption DEF Init, AcctRows
<1>7. TrueRows
  BY <1>1 DEF Init, TrueRows
<1> QED
  BY <1>2, <1>4, <1>5, <1>6, <1>7 DEF TypeInv, Init

LEMMA NextTyped == IInv /\ TypeInv /\ [Next]_vars => TypeInv'
<1> SUFFICES ASSUME IInv, TypeInv, [Next]_vars PROVE TypeInv'
  OBVIOUS
<1>1. CASE UNCHANGED vars
  BY <1>1, FeedStep DEF vars, TypeInv
<1>2. ASSUME NEW e \in Exts, Settle(e) \/ \E st \in {"pending", "posted"} : Publish(e, st) PROVE TypeInv'
  <2>1. UNCHANGED <<accts, openings, rows, pass, clock, begun>>
    BY <1>2 DEF Settle, Publish
  <2>2. feed' \in [Exts -> {"unseen", "pending", "posted", "gone"}]
    BY <1>2 DEF Settle, Publish, TypeInv
  <2> QED
    BY <2>1, <2>2, FeedStep
<1>3. ASSUME NEW e \in Exts, AddManual(e) PROVE TypeInv'
  BY <1>3, AddManualTyped
<1>4. ASSUME NEW p \in Passes, Begin(p) \/ Opening(p) \/ Reconcile(p) \/ Commit(p) \/ Abort(p) PROVE TypeInv'
  BY <1>4, BeginTyped, OpeningTyped, ReconcileTyped, CommitTyped, AbortTyped
<1>5. ASSUME NEW p \in Passes, NEW a \in Accounts, Fetch(p, a) PROVE TypeInv'
  BY <1>5, FetchTyped
<1>6. ASSUME NEW p \in Passes, NEW e \in Exts, NEW st \in {"pending", "posted"}, Item(p, e, st) PROVE TypeInv'
  BY <1>6, ItemTyped
<1>7. CASE Changing
  BY <1>7, UserTyped
<1>8. CASE Reading
  BY <1>8, ReadingIs, FeedStep DEF TypeInv
<1> QED
  BY <1>1, <1>2, <1>3, <1>4, <1>5, <1>6, <1>7, <1>8 DEF Next, Changing, Reading

LEMMA TypeInvHolds == Spec => []TypeInv
BY IInvHolds, InitTyped, NextTyped, PTL DEF Spec

(* What a request has read is of rows. *)
AskedInv ==
  /\ asked \subseteq [do : {"delete", "unlink"}, rows : SUBSET Ids, pair : SUBSET Ids]
  /\ torn \subseteq SUBSET Ids

LEMMA NextAsked == TypeInv /\ AskedInv /\ [Next]_vars => AskedInv'
<1> SUFFICES ASSUME TypeInv, AskedInv, [Next]_vars PROVE AskedInv'
  OBVIOUS
<1>1. \A i \in DOMAIN rows : i \in Ids /\ rows[i].pair \in SUBSET Ids
  BY DEF TypeInv, TrueRows, TrueRow, Row
<1>2. ASSUME asked' \subseteq asked, torn' = torn PROVE AskedInv'
  BY <1>2 DEF AskedInv
<1>3. ASSUME NEW do \in {"delete", "unlink"}, NEW i \in DOMAIN rows, NEW found \in SUBSET (DOMAIN rows),
             Read(do, i, found)
      PROVE  AskedInv'
  <2>1. [do |-> do, rows |-> found, pair |-> rows[i].pair]
          \in [do : {"delete", "unlink"}, rows : SUBSET Ids, pair : SUBSET Ids]
    BY <1>1
  <2> QED
    BY <1>3, <2>1 DEF Read, Edits, AskedInv
<1>4. ASSUME NEW i \in DOMAIN rows, ToggleIgnore(i) \/ ReadRow(i) \/ ReadPair(i) PROVE AskedInv'
  <2>1. Legs(i) \in SUBSET (DOMAIN rows)
    BY DEF Legs
  <2> QED
    BY <1>2, <1>3, <1>4, <2>1 DEF ToggleIgnore, Edits, ReadRow, ReadPair
<1>5. ASSUME NEW r \in asked, DeleteRow(r) \/ UnlinkPair(r) \/ UnlinkRaises(r) PROVE AskedInv'
  <2>1. ASSUME Write(r) PROVE AskedInv'
    BY <1>1, <2>1 DEF Write, AskedInv
  <2> QED
    BY <1>2, <1>5, <2>1 DEF DeleteRow, UnlinkPair, UnlinkRaises
<1>6. CASE UNCHANGED vars
  BY <1>2, <1>6 DEF vars
<1>7. ASSUME NEW e \in Exts, Settle(e) \/ AddManual(e) \/ \E st \in {"pending", "posted"} : Publish(e, st)
      PROVE  AskedInv'
  BY <1>2, <1>7 DEF Settle, AddManual, Publish
<1>8. ASSUME NEW p \in Passes,
             \/ Begin(p) \/ Opening(p) \/ Reconcile(p) \/ Commit(p) \/ Abort(p)
             \/ \E a \in Accounts : Fetch(p, a)
             \/ \E e \in Exts, st \in {"pending", "posted"} : Item(p, e, st)
      PROVE  AskedInv'
  <2>1. asked' = asked /\ torn' = torn
    BY <1>8 DEF Begin, Opening, Reconcile, Commit, Abort, Fetch, Item, Becomes
  <2> QED
    BY <1>2, <2>1
<1> QED
  BY <1>4, <1>5, <1>6, <1>7, <1>8 DEF Next

LEMMA AskedInvHolds == Spec => []AskedInv
<1>1. Init => AskedInv
  BY DEF Init, AskedInv
<1> QED
  BY <1>1, NextAsked, TypeInvHolds, PTL DEF Spec

(* Rows, sessions and the clock keep their types, for any number of passes, *)
(* accounts, reports and edits; the pairing takes only rows that exist, and *)
(* no pass begins or commits after the last tick of the clock.              *)
THEOREM TypeCorrect == Spec => []TypeOK
<1>1. ASSUME TypeInv, IInv, AskedInv PROVE TypeOK
  <2>1. \A i \in DOMAIN rows : i \in Ids /\ rows[i] \in Row
    BY <1>1 DEF TypeInv, TrueRows, TrueRow
  <2>2. ASSUME NEW p \in Passes
        PROVE  /\ pass[p].pc \in {"idle", "account", "items", "reconcile", "ready"}
               /\ pass[p].begin \in Times
               /\ pass[p].items \subseteq Exts \X {"pending", "posted"}
               /\ \A i \in DOMAIN pass[p].add : i \in Ids /\ pass[p].add[i] \in Row
               /\ DOMAIN pass[p].upd \subseteq Ids
    <3>1. TrueReports(pass[p]) /\ TrueWrites(pass[p])
      BY <1>1 DEF TypeInv
    <3>2. \A i \in DOMAIN pass[p].add : i \in Ids /\ pass[p].add[i] \in Row
      BY <3>1 DEF TrueWrites, TrueRow
    <3>3. \A i \in DOMAIN pass[p].upd : i \in Ids
      BY <3>1 DEF TrueWrites, TrueChange
    <3> QED
      BY <3>1, <3>2, <3>3 DEF TrueReports, Reports
  <2>3. clock \in Times
    <3>1. PICK n : n = Cardinality(Flying) /\ n \in Nat
      BY <1>1, FS_CardinalityType DEF TypeInv, Counted
    <3>2. clock \in Nat /\ begun \in Nat /\ begun <= MaxPasses /\ clock + n <= 2 * begun /\ MaxPasses \in Nat
      BY <1>1, <3>1, DataAssumption DEF TypeInv, Counted
    <3>3. clock <= 2 * MaxPasses
      BY <3>1, <3>2
    <3> QED
      BY <3>2, <3>3 DEF Times
  <2>4. DOMAIN pass = Passes
    BY <1>1 DEF IInv
  <2>5. DOMAIN rows \subseteq Ids
    BY <2>1
  <2> QED
    BY <1>1, <2>1, <2>2, <2>3, <2>4, <2>5 DEF TypeOK, TypeInv, AskedInv
<1>2. TypeInv /\ IInv /\ AskedInv => TypeOK
  BY <1>1
<1> QED
  BY <1>2, IInvHolds, TypeInvHolds, AskedInvHolds, PTL
-----------------------------------------------------------------------------
(* Transfers, when one pass is in flight at a time. *)

(* Each row of a pair names the other, a row of another account and direction. *)
Mutual(rs, tn) ==
  \A i \in DOMAIN rs : rs[i].pair \notin tn \cup {{}} =>
     \E j \in DOMAIN rs : /\ rs[i].pair = {i, j} /\ rs[j].pair = {i, j}
                          /\ rs[i].acct # rs[j].acct /\ rs[i].side # rs[j].side

(* The account row that a row of the session's writes has, or would have. *)
Owner(s, i, a, rs) == IF i \in DOMAIN s.add THEN a = s.add[i].acct ELSE Home(i, a, rs)

Marks(s) == {i \in DOMAIN s.add : s.add[i].pair # {}} \cup {i \in DOMAIN s.upd : "pair" \in DOMAIN s.upd[i]}
MarkOf(s, i) == IF i \in DOMAIN s.add THEN s.add[i].pair ELSE s.upd[i].pair

(* What a session that is about to commit does to the pairs: it deletes and marks *)
(* unpaired rows alone, and marks both rows of a pair.                             *)
Mates(s, i, j, rs) ==
  /\ MarkOf(s, i) = {i, j} /\ MarkOf(s, j) = {i, j} /\ SideOf[i[2]] # SideOf[j[2]]
  /\ \A a, b : Owner(s, i, a, rs) /\ Owner(s, j, b, rs) => a # b
MarksFit(s, rs) ==
  IF s.pc # "ready" THEN Marks(s) = {}
  ELSE /\ s.del \cap (DOMAIN s.add \cup DOMAIN s.upd) = {} /\ DOMAIN s.add \cap DOMAIN s.upd = {}
       /\ \A i \in DOMAIN rs : i \in s.del \cup Marks(s) => rs[i].pair = {}
       /\ \A i \in Marks(s) : \E j \in Marks(s) : Mates(s, i, j, rs)

PairInv == Mutual(rows, torn) /\ \A p \in Passes : InFlight(pass[p]) => MarksFit(pass[p], rows)

(* A session sees an unpaired row where it marked none and none was paired. *)
LEMMA UnpairedSeen ==
  ASSUME NEW s, Typed(s), NEW i \in DOMAIN View(s), View(s)[i].pair = {}
  PROVE  /\ i \in DOMAIN s.add => s.add[i].pair = {} /\ View(s)[i].acct = s.add[i].acct
         /\ i \notin DOMAIN s.add => /\ i \in DOMAIN rows /\ View(s)[i].acct = rows[i].acct
                                     /\ i \in DOMAIN s.upd /\ "pair" \in DOMAIN s.upd[i] => s.upd[i].pair = {}
                                     /\ ~(i \in DOMAIN s.upd /\ "pair" \in DOMAIN s.upd[i]) => rows[i].pair = {}
<1>1. CASE i \in DOMAIN s.add
  BY <1>1, ViewIs
<1>2. CASE i \notin DOMAIN s.add /\ i \notin DOMAIN s.upd
  BY <1>2, ViewIs
<1>3. CASE i \notin DOMAIN s.add /\ i \in DOMAIN s.upd
  <2>1. View(s)[i] = Overlay(s.upd[i], rows[i]) /\ i \in DOMAIN rows
    BY <1>3, ViewIs
  <2>2. DOMAIN rows[i] = RowColumns /\ DOMAIN s.upd[i] \subseteq Settable
    BY <1>3, <2>1, RowHas DEF Typed, TrueRows, TrueRow, TrueWrites, TrueChange
  <2>3. PICK q : q = Overlay(s.upd[i], rows[i])
    OBVIOUS
  <2>4. \A c \in RowColumns : q[c] = IF c \in DOMAIN s.upd[i] THEN s.upd[i][c] ELSE rows[i][c]
    BY <2>2, <2>3 DEF Overlay
  <2>5. q.acct = rows[i].acct /\ q.pair = IF "pair" \in DOMAIN s.upd[i] THEN s.upd[i].pair ELSE rows[i].pair
    BY <2>2, <2>4 DEF RowColumns, Settable
  <2> QED
    BY <1>3, <2>1, <2>3, <2>5
<1> QED
  BY <1>1, <1>2, <1>3

(* The matching marks nothing. *)
LEMMA PutUnmarked ==
  ASSUME NEW s, Typed(s), Marks(s) = {}, NEW i, NEW columns, "pair" \notin DOMAIN columns
  PROVE  Marks(Put(s, i, columns)) = {}
<1>1. /\ \A k \in DOMAIN s.add : s.add[k].pair = {} /\ DOMAIN s.add[k] = RowColumns
      /\ \A k \in DOMAIN s.upd : "pair" \notin DOMAIN s.upd[k]
  <2>1. \A k \in DOMAIN s.add : s.add[k] \in Row
    BY DEF Typed, TrueWrites, TrueRow
  <2> QED
    BY <2>1, RowHas DEF Marks
<1>2. CASE i \in DOMAIN s.add
  <2>1. PICK row, add, t : /\ row = Overlay(columns, s.add[i]) /\ add = With(s.add, i, row)
                           /\ t = [s EXCEPT !.add = add]
    OBVIOUS
  <2>2. t.add = add /\ t.upd = s.upd /\ Put(s, i, columns) = t
    BY <1>2, <2>1 DEF Put, Typed, PassColumns
  <2>3. row.pair = {}
    BY <1>1, <1>2, <2>1 DEF Overlay, RowColumns
  <2>4. \A k \in DOMAIN add : add[k].pair = {}
    BY <1>1, <2>1, <2>3 DEF With
  <2> QED
    BY <1>1, <2>2, <2>4 DEF Marks
<1>3. CASE i \notin DOMAIN s.add
  <2>1. PICK old : old = IF i \in DOMAIN s.upd THEN s.upd[i] ELSE <<>>
    OBVIOUS
  <2>2. PICK set, upd, t : set = Overlay(columns, old) /\ upd = With(s.upd, i, set) /\ t = [s EXCEPT !.upd = upd]
    OBVIOUS
  <2>3. t.add = s.add /\ t.upd = upd /\ Put(s, i, columns) = t
    BY <1>3, <2>1, <2>2 DEF Put, Typed, PassColumns
  <2>4. DOMAIN <<>> = {}
    OBVIOUS
  <2>5. "pair" \notin DOMAIN set
    BY <1>1, <2>1, <2>2, <2>4 DEF Overlay
  <2>6. \A k \in DOMAIN upd : "pair" \notin DOMAIN upd[k]
    BY <1>1, <2>2, <2>5 DEF With
  <2> QED
    BY <1>1, <2>3, <2>6 DEF Marks
<1> QED
  BY <1>2, <1>3

LEMMA InsertUnmarked ==
  ASSUME NEW s, Typed(s), Marks(s) = {}, NEW e, NEW st
  PROVE  Marks(Insert(s, e, st)) = {}
<1>1. PICK row : row = [ext |-> e, acct |-> s.home, day |-> DayOf[e], side |-> SideOf[e],
                        status |-> st, source |-> "sync", ignored |-> FALSE, pair |-> {},
                        op |-> OpOf[e], span |-> <<s.begin, s.begin>>]
  OBVIOUS
<1>2. PICK add, t : add = With(s.add, <<s.begin, e>>, row) /\ t = [s EXCEPT !.add = add]
  OBVIOUS
<1>3. t.add = add /\ t.upd = s.upd /\ Insert(s, e, st) = t
  BY <1>1, <1>2 DEF Insert, Typed, PassColumns
<1>4. row.pair = {}
  BY <1>1
<1>5. \A k \in DOMAIN add : add[k].pair = {}
  BY <1>2, <1>4 DEF With, Marks
<1> QED
  BY <1>3, <1>5 DEF Marks

LEMMA MatchUnmarked ==
  ASSUME NEW s, Typed(s), Marks(s) = {}, NEW e, NEW st, NEW t,
         IF SameExt(s, e) # {} THEN t = ByExt(s, e, st)
         ELSE IF ManualMatches(s, e) # {} THEN \E i \in ManualMatches(s, e) : t = ByManual(s, i, e)
         ELSE IF SyncedTwins(s, e, st) # {} THEN \E i \in SyncedTwins(s, e, st) : t = ByTwin(s, i, e, st)
         ELSE t = Insert(s, e, st)
  PROVE  Marks(t) = {}
<1>1. CASE t = ByExt(s, e, st)
  <2>1. t = s \/ t = Put(s, Oldest(SameExt(s, e)), [status |-> "posted"])
    BY <1>1 DEF ByExt
  <2> QED
    BY <2>1, PutUnmarked
<1>2. ASSUME NEW i \in ManualMatches(s, e), t = ByManual(s, i, e) PROVE Marks(t) = {}
  <2>1. t = s \/ t = Put(s, i, [ext |-> e, source |-> "sync", op |-> OpOf[e]])
    BY <1>2 DEF ByManual
  <2> QED
    BY <2>1, PutUnmarked
<1>3. ASSUME NEW i \in SyncedTwins(s, e, st), t = ByTwin(s, i, e, st) PROVE Marks(t) = {}
  <2>1. t = s \/ t = Put(s, i, [status |-> "posted", ext |-> e, op |-> OpOf[e]])
    BY <1>3 DEF ByTwin
  <2> QED
    BY <2>1, PutUnmarked
<1>4. CASE t = Insert(s, e, st)
  BY <1>4, InsertUnmarked
<1> QED
  BY <1>1, <1>2, <1>3, <1>4

(* The session in which the pairs are marked marks just the rows of the pairs. *)
LEMMA PairedMarks ==
  ASSUME NEW s, Typed(s), Marks(s) = {}, NEW pairs, NEW u, u = Paired(s, pairs)
  PROVE  /\ Marks(u) = UNION pairs
         /\ \A i \in UNION pairs : MarkOf(u, i) \in pairs /\ i \in MarkOf(u, i)
         /\ DOMAIN u.add = DOMAIN s.add /\ \A i \in DOMAIN s.add : u.add[i].acct = s.add[i].acct
         /\ DOMAIN u.add \cap DOMAIN u.upd = {}
<1> DEFINE Marked == UNION pairs
           IdOf(i) == CHOOSE m \in pairs : i \in m
<1>1. \A i \in Marked : IdOf(i) \in pairs /\ i \in IdOf(i)
  OBVIOUS
<1>2. PICK add : add = [i \in DOMAIN s.add |-> IF i \in Marked THEN [s.add[i] EXCEPT !.pair = IdOf(i)]
                                               ELSE s.add[i]]
  OBVIOUS
<1>3. PICK upd : upd = [i \in (DOMAIN s.upd \cup Marked) \ DOMAIN s.add |->
                          Overlay(IF i \in Marked THEN [pair |-> IdOf(i)] ELSE <<>>,
                                  IF i \in DOMAIN s.upd THEN s.upd[i] ELSE <<>>)]
  OBVIOUS
<1>4. u = [s EXCEPT !.add = add, !.upd = upd]
  BY <1>2, <1>3 DEF Paired
<1>5. u.add = add /\ u.upd = upd
  BY <1>4 DEF Typed, PassColumns
<1> HIDE DEF IdOf, Marked
<1>6. /\ \A k \in DOMAIN s.add : s.add[k].pair = {} /\ DOMAIN s.add[k] = RowColumns
      /\ \A k \in DOMAIN s.upd : "pair" \notin DOMAIN s.upd[k]
  <2>1. \A k \in DOMAIN s.add : s.add[k] \in Row
    BY DEF Typed, TrueWrites, TrueRow
  <2> QED
    BY <2>1, RowHas DEF Marks
<1>7. ASSUME NEW i \in DOMAIN s.add
      PROVE  /\ add[i].acct = s.add[i].acct
             /\ add[i].pair = IF i \in Marked THEN IdOf(i) ELSE {}
  BY <1>2, <1>6 DEF RowColumns
<1>8. DOMAIN <<>> = {}
  OBVIOUS
<1>9. ASSUME NEW i \in DOMAIN upd
      PROVE  /\ "pair" \in DOMAIN upd[i] <=> i \in Marked
             /\ i \in Marked => upd[i].pair = IdOf(i)
  <2>1. PICK m : m = IF i \in Marked THEN [pair |-> IdOf(i)] ELSE <<>>
    OBVIOUS
  <2>2. PICK old : old = IF i \in DOMAIN s.upd THEN s.upd[i] ELSE <<>>
    OBVIOUS
  <2>3. upd[i] = Overlay(m, old) /\ "pair" \notin DOMAIN old
    BY <1>3, <1>6, <1>8, <2>1, <2>2
  <2>4. "pair" \in DOMAIN m <=> i \in Marked
    BY <1>8, <2>1
  <2>5. i \in Marked => m.pair = IdOf(i)
    BY <2>1
  <2>6. DOMAIN upd[i] = DOMAIN m \cup DOMAIN old /\ \A c \in DOMAIN m : upd[i][c] = m[c]
    BY <2>3 DEF Overlay
  <2> QED
    BY <2>3, <2>4, <2>5, <2>6
<1>10. DOMAIN add = DOMAIN s.add /\ DOMAIN upd = (DOMAIN s.upd \cup Marked) \ DOMAIN s.add
  BY <1>2, <1>3
<1>11. Marks(u) = Marked
  BY <1>1, <1>5, <1>7, <1>9, <1>10 DEF Marks
<1>12. \A i \in Marked : MarkOf(u, i) = IdOf(i)
  BY <1>5, <1>7, <1>9, <1>10 DEF MarkOf
<1> QED
  BY <1>1, <1>5, <1>7, <1>10, <1>11, <1>12 DEF Marked

(* A row's owner is the account it is seen under. *)
LEMMA OwnerSeen ==
  ASSUME NEW s, Facts(s), NEW i \in DOMAIN View(s), View(s)[i].pair = {}, Typed(s), NEW a, Owner(s, i, a, rows)
  PROVE  a = View(s)[i].acct
<1>1. CASE i \in DOMAIN s.add
  BY <1>1, UnpairedSeen DEF Owner
<1>2. CASE i \notin DOMAIN s.add
  <2>1. i \in DOMAIN rows /\ View(s)[i].acct = rows[i].acct /\ RowFits(i, rows[i], clock)
    BY <1>2, UnpairedSeen DEF Facts
  <2> QED
    BY <1>2, <2>1 DEF Owner, Home, RowFits
<1> QED
  BY <1>1, <1>2

LEMMA ReconcileFits ==
  ASSUME NEW s, Facts(s), Typed(s), Marks(s) = {}, NEW pairs \in Pairings(View(s), DOMAIN s.add),
         NEW u, u = Paired(s, pairs), NEW gone, gone = PhantomRows(View(u)), NEW t,
         t = [u EXCEPT !.pc = "ready", !.add = Without(@, gone), !.upd = Without(@, gone),
                       !.del = gone \ DOMAIN u.add]
  PROVE  MarksFit(t, rows)
<1>1. PICK V : V = View(s)
  OBVIOUS
<1>2. PairsFit(V, pairs) /\ \A P \in pairs : P \subseteq Ids
  BY <1>1, PairsAreIds
<1>3. Typed(u)
  BY <1>2, PairedTrue
<1>4. /\ Marks(u) = UNION pairs
      /\ \A i \in UNION pairs : MarkOf(u, i) \in pairs /\ i \in MarkOf(u, i)
      /\ DOMAIN u.add = DOMAIN s.add /\ \A i \in DOMAIN s.add : u.add[i].acct = s.add[i].acct
      /\ DOMAIN u.add \cap DOMAIN u.upd = {}
  BY PairedMarks
<1>5. ASSUME NEW i \in gone
      PROVE  /\ i \notin Marks(u)
             /\ i \in DOMAIN rows => rows[i].pair = {}
  <2>1. i \in DOMAIN View(u) /\ View(u)[i].pair = {}
    BY <1>5 DEF PhantomRows
  <2>2. i \in Marks(u) => i \in MarkOf(u, i)
    BY <1>4
  <2>3. i \notin Marks(u)
    BY <1>4, <2>1, <2>2, <1>3, UnpairedSeen DEF Marks, MarkOf
  <2>4. i \notin DOMAIN s.add => rows[i].pair = {}
    BY <1>3, <1>4, <2>1, <2>3, UnpairedSeen DEF Marks
  <2>5. i \in DOMAIN s.add => i \notin DOMAIN rows
    BY DEF Facts, SessionFits, AddFits
  <2> QED
    BY <2>3, <2>4, <2>5
<1>6. /\ t.pc = "ready" /\ t.add = Without(u.add, gone) /\ t.upd = Without(u.upd, gone)
      /\ t.del = gone \ DOMAIN u.add
  BY <1>3 DEF Typed, PassColumns
<1>7. /\ DOMAIN t.add = DOMAIN u.add \ gone /\ \A i \in DOMAIN t.add : t.add[i] = u.add[i]
      /\ DOMAIN t.upd = DOMAIN u.upd \ gone /\ \A i \in DOMAIN t.upd : t.upd[i] = u.upd[i]
  BY <1>6 DEF Without
<1>8. Marks(t) = Marks(u) /\ \A i \in Marks(u) : MarkOf(t, i) = MarkOf(u, i)
  BY <1>5, <1>7 DEF Marks, MarkOf
<1>9. t.del \cap (DOMAIN t.add \cup DOMAIN t.upd) = {} /\ DOMAIN t.add \cap DOMAIN t.upd = {}
  BY <1>4, <1>6, <1>7
<1>10. ASSUME NEW P \in pairs
       PROVE  \E d, c \in DOMAIN V :
                /\ P = {d, c} /\ V[d].acct # V[c].acct /\ SideOf[d[2]] # SideOf[c[2]]
                /\ V[d].pair = {} /\ V[c].pair = {}
  <2>1. PICK d, c \in DOMAIN V : /\ P = {d, c} /\ V[d].acct # V[c].acct
                                 /\ V[d].side = "debit" /\ V[d].pair = {}
                                 /\ V[c].side = "credit" /\ V[c].pair = {}
    BY <1>2, <1>10 DEF PairsFit, IsPair
  <2>2. TrueRow(d, V[d]) /\ TrueRow(c, V[c])
    BY <1>1, ViewTrue DEF Typed
  <2> QED
    BY <2>1, <2>2 DEF TrueRow
<1>11. ASSUME NEW i \in DOMAIN rows, i \in t.del \cup Marks(t) PROVE rows[i].pair = {}
  <2>1. CASE i \in t.del
    BY <1>5, <1>6, <2>1
  <2>2. CASE i \in Marks(t)
    <3>1. i \in DOMAIN V /\ V[i].pair = {}
      BY <1>4, <1>8, <1>10, <2>2
    <3>2. i \notin DOMAIN s.add
      BY DEF Facts, SessionFits, AddFits
    <3>3. ~(i \in DOMAIN s.upd /\ "pair" \in DOMAIN s.upd[i])
      BY DEF Marks
    <3> QED
      BY <1>1, <3>1, <3>2, <3>3, UnpairedSeen
  <2> QED
    BY <1>11, <2>1, <2>2
<1>12. ASSUME NEW i \in Marks(t) PROVE \E j \in Marks(t) : Mates(t, i, j, rows)
  <2>1. PICK P \in pairs : P = MarkOf(u, i) /\ i \in P
    BY <1>4, <1>8
  <2>2. PICK j : /\ P = {i, j} /\ i \in DOMAIN V /\ j \in DOMAIN V /\ V[i].acct # V[j].acct
                 /\ SideOf[i[2]] # SideOf[j[2]] /\ V[i].pair = {} /\ V[j].pair = {}
    BY <1>10, <2>1
  <2>3. j \in Marks(t) /\ MarkOf(u, j) \in pairs /\ j \in MarkOf(u, j)
    BY <1>4, <1>8, <2>2
  <2>4. MarkOf(u, j) = P
    BY <1>2, <2>2, <2>3 DEF PairsFit
  <2>5. MarkOf(t, i) = {i, j} /\ MarkOf(t, j) = {i, j}
    BY <1>8, <2>1, <2>2, <2>3, <2>4
  <2>6. ASSUME NEW k \in {i, j}, NEW a, Owner(t, k, a, rows) PROVE a = V[k].acct
    <3>1. k \in Marks(u) /\ k \notin gone
      BY <1>5, <1>8, <2>3
    <3>2. Owner(s, k, a, rows)
      BY <1>4, <1>7, <2>6, <3>1 DEF Owner
    <3>3. k \in DOMAIN V /\ V[k].pair = {}
      BY <2>2
    <3> QED
      BY <1>1, <3>2, <3>3, OwnerSeen
  <2>7. \A a, b : Owner(t, i, a, rows) /\ Owner(t, j, b, rows) => a # b
    BY <2>2, <2>6
  <2>8. Mates(t, i, j, rows)
    BY <2>2, <2>5, <2>7 DEF Mates
  <2> QED
    BY <2>3, <2>8
<1> QED
  BY <1>6, <1>9, <1>11, <1>12 DEF MarksFit

(* A step of one session. *)
LEMMA SessionPairs ==
  ASSUME IInv, PairInv, NEW p \in Passes, NEW t, InFlight(t) => MarksFit(t, rows),
         pass' = [pass EXCEPT ![p] = t], rows' = rows, torn' = torn
  PROVE  PairInv'
<1>1. DOMAIN pass = Passes
  BY DEF IInv
<1>2. pass'[p] = t /\ \A q \in Passes \ {p} : pass'[q] = pass[q]
  BY <1>1
<1> QED
  BY <1>2 DEF PairInv

(* Somebody's change of the rows leaves what a session means to do as it is. *)
LEMMA MarksStay ==
  ASSUME NEW s, NEW rs, NEW qs, MarksFit(s, rs), NEW t,
         t.pc = s.pc, t.add = s.add, t.upd = s.upd, t.del = s.del,
         \A i \in DOMAIN qs : \/ i \in DOMAIN rs /\ qs[i].acct = rs[i].acct /\ qs[i].pair \in {rs[i].pair, {}}
                              \/ i[1] = 0 /\ qs[i].pair = {}
  PROVE  MarksFit(t, qs)
<1>1. Marks(t) = Marks(s) /\ \A i : MarkOf(t, i) = MarkOf(s, i)
  BY DEF Marks, MarkOf
<1>2. \A i, a : Owner(t, i, a, qs) => Owner(s, i, a, rs)
  BY DEF Owner, Home
<1>3. \A i, j : Mates(s, i, j, rs) => Mates(t, i, j, qs)
  BY <1>1, <1>2 DEF Mates
<1>4. CASE s.pc # "ready"
  BY <1>1, <1>4 DEF MarksFit
<1>5. CASE s.pc = "ready"
  <2>1. \A i \in DOMAIN qs : i \in t.del \cup Marks(t) => qs[i].pair = {}
    BY <1>1, <1>5 DEF MarksFit
  <2> QED
    BY <1>1, <1>3, <1>5, <2>1 DEF MarksFit
<1> QED
  BY <1>4, <1>5

LEMMA EditPairs ==
  ASSUME IInv, PairInv, Mutual(rows', torn'), pass' = Disturbed,
         \A i \in DOMAIN rows' :
            \/ i \in DOMAIN rows /\ rows'[i].acct = rows[i].acct /\ rows'[i].pair \in {rows[i].pair, {}}
            \/ i[1] = 0 /\ rows'[i].pair = {}
  PROVE  PairInv'
<1>1. ASSUME NEW q \in Passes, InFlight(pass'[q]) PROVE MarksFit(pass'[q], rows')
  <2>1. PICK s, t : s = pass[q] /\ t = Disturbed[q]
    OBVIOUS
  <2>2. t.pc = s.pc /\ t.add = s.add /\ t.upd = s.upd /\ t.del = s.del /\ pass'[q] = t
    BY <2>1, DisturbedIs
  <2>3. MarksFit(s, rows)
    BY <1>1, <2>1, <2>2 DEF PairInv, InFlight
  <2>4. MarksFit(t, rows')
    BY <2>2, <2>3, MarksStay
  <2> QED
    BY <2>2, <2>4
<1> QED
  BY <1>1 DEF PairInv

(* What a request has read of a pair is the whole of it, or the pair is torn. *)
ReadWhole(r) == r.pair \notin torn \cup {{}} => r.pair \subseteq r.rows
ReadInv == \A r \in asked : ReadWhole(r)

LEMMA ReadMakesWhole ==
  ASSUME PairInv, NEW i \in DOMAIN rows, rows[i].pair \notin torn \cup {{}}
  PROVE  rows[i].pair \subseteq Legs(i)
<1>1. PICK j \in DOMAIN rows : rows[i].pair = {i, j} /\ rows[j].pair = {i, j}
  BY DEF PairInv, Mutual
<1> QED
  BY <1>1 DEF Legs

LEMMA NextRead == PairInv /\ ReadInv /\ [Next]_vars => ReadInv'
<1> SUFFICES ASSUME PairInv, ReadInv, [Next]_vars PROVE ReadInv'
  OBVIOUS
<1>1. ASSUME asked' \subseteq asked, torn \subseteq torn' PROVE ReadInv'
  BY <1>1 DEF ReadInv, ReadWhole
<1>2. ASSUME NEW do, NEW i \in DOMAIN rows, NEW found, Legs(i) \subseteq found, Read(do, i, found) PROVE ReadInv'
  <2>1. PICK r : r = [do |-> do, rows |-> found, pair |-> rows[i].pair]
    OBVIOUS
  <2>2. asked' = asked \cup {r} /\ torn' = torn /\ r.rows = found /\ r.pair = rows[i].pair
    BY <1>2, <2>1 DEF Read, Edits
  <2>3. ReadWhole(r)
    BY <1>2, <2>2, ReadMakesWhole DEF ReadWhole
  <2> QED
    BY <2>2, <2>3 DEF ReadInv, ReadWhole
<1>3. ASSUME NEW i \in DOMAIN rows, ToggleIgnore(i) \/ ReadRow(i) \/ ReadPair(i) PROVE ReadInv'
  BY <1>1, <1>2, <1>3 DEF ToggleIgnore, Edits, ReadRow, ReadPair
<1>4. ASSUME NEW r \in asked, DeleteRow(r) \/ UnlinkPair(r) \/ UnlinkRaises(r) PROVE ReadInv'
  BY <1>1, <1>4 DEF DeleteRow, UnlinkPair, UnlinkRaises, Write
<1>5. CASE UNCHANGED vars
  BY <1>1, <1>5 DEF vars
<1>6. ASSUME NEW e \in Exts, Settle(e) \/ AddManual(e) \/ \E st \in {"pending", "posted"} : Publish(e, st)
      PROVE  ReadInv'
  BY <1>1, <1>6 DEF Settle, AddManual, Publish
<1>7. ASSUME NEW p \in Passes,
             \/ Begin(p) \/ Opening(p) \/ Reconcile(p) \/ Commit(p) \/ Abort(p)
             \/ \E a \in Accounts : Fetch(p, a)
             \/ \E e \in Exts, st \in {"pending", "posted"} : Item(p, e, st)
      PROVE  ReadInv'
  <2>1. asked' = asked /\ torn' = torn
    BY <1>7 DEF Begin, Opening, Reconcile, Commit, Abort, Fetch, Item, Becomes
  <2> QED
    BY <1>1, <2>1
<1> QED
  BY <1>3, <1>4, <1>5, <1>6, <1>7 DEF Next

(* A request that writes the rows it read leaves the other pairs alone: those it *)
(* takes one row from, it tears.                                                 *)
LEMMA WriteSpares ==
  ASSUME PairInv, NEW r \in asked, ReadWhole(r), Write(r), NEW k \in DOMAIN rows,
         rows[k].pair \notin torn' \cup {{}}, k \notin r.rows
  PROVE  \E j \in DOMAIN rows \ r.rows : /\ rows[k].pair = {k, j} /\ rows[j].pair = {k, j}
                                         /\ rows[k].acct # rows[j].acct /\ rows[k].side # rows[j].side
<1>1. torn' = torn \cup ({rows[j].pair : j \in r.rows \cap DOMAIN rows} \ {{}, r.pair})
  BY DEF Write
<1>2. PICK j \in DOMAIN rows : /\ rows[k].pair = {k, j} /\ rows[j].pair = {k, j}
                               /\ rows[k].acct # rows[j].acct /\ rows[k].side # rows[j].side
  BY <1>1 DEF PairInv, Mutual
<1>3. ASSUME j \in r.rows PROVE FALSE
  <2>1. rows[j].pair = r.pair
    BY <1>1, <1>2, <1>3
  <2> QED
    BY <1>1, <1>2, <2>1 DEF ReadWhole
<1> QED
  BY <1>2, <1>3

LEMMA UserPairs ==
  ASSUME IInv, TypeInv, PairInv, ReadInv, Changing
  PROVE  PairInv'
<1>1. \A j \in DOMAIN rows : DOMAIN rows[j] = RowColumns
  BY DEF IInv, RowFits
<1>2. Mutual(rows, torn) /\ pass' = Disturbed
  BY ChangingIs DEF PairInv
<1>3. ASSUME NEW i \in DOMAIN rows, ToggleIgnore(i) PROVE PairInv'
  <2>1. rows' = [rows EXCEPT ![i].ignored = ~@] /\ torn' = torn
    BY <1>3 DEF ToggleIgnore, Edits
  <2>2. DOMAIN rows' = DOMAIN rows
    BY <2>1
  <2>3. \A j \in DOMAIN rows : /\ rows'[j].acct = rows[j].acct /\ rows'[j].pair = rows[j].pair
                               /\ rows'[j].side = rows[j].side
    BY <1>1, <2>1 DEF RowColumns
  <2>4. Mutual(rows', torn')
    BY <1>2, <2>1, <2>2, <2>3 DEF Mutual
  <2> QED
    BY <1>2, <2>2, <2>3, <2>4, EditPairs
<1>4. ASSUME NEW r \in asked, DeleteRow(r) PROVE PairInv'
  <2>1. DOMAIN rows' = DOMAIN rows \ r.rows /\ \A j \in DOMAIN rows' : rows'[j] = rows[j]
    BY <1>4 DEF DeleteRow, Without
  <2>2. Write(r) /\ ReadWhole(r)
    BY <1>4 DEF DeleteRow, ReadInv
  <2>3. ASSUME NEW k \in DOMAIN rows', rows'[k].pair \notin torn' \cup {{}}
        PROVE  \E j \in DOMAIN rows' : /\ rows'[k].pair = {k, j} /\ rows'[j].pair = {k, j}
                                       /\ rows'[k].acct # rows'[j].acct /\ rows'[k].side # rows'[j].side
    <3>1. PICK j \in DOMAIN rows \ r.rows : /\ rows[k].pair = {k, j} /\ rows[j].pair = {k, j}
                                            /\ rows[k].acct # rows[j].acct /\ rows[k].side # rows[j].side
      BY <2>1, <2>2, <2>3, WriteSpares
    <3> QED
      BY <2>1, <3>1
  <2>4. Mutual(rows', torn')
    BY <2>3 DEF Mutual
  <2> QED
    BY <1>2, <2>1, <2>4, EditPairs
<1>5. ASSUME NEW r \in asked, UnlinkPair(r) PROVE PairInv'
  <2>1. /\ DOMAIN rows' = DOMAIN rows
        /\ \A j \in DOMAIN rows : rows'[j] = IF j \in r.rows THEN [rows[j] EXCEPT !.pair = {}] ELSE rows[j]
    BY <1>5 DEF UnlinkPair
  <2>2. \A j \in DOMAIN rows : /\ rows'[j].acct = rows[j].acct /\ rows'[j].side = rows[j].side
                               /\ rows'[j].pair = IF j \in r.rows THEN {} ELSE rows[j].pair
    BY <1>1, <2>1 DEF RowColumns
  <2>3. Write(r) /\ ReadWhole(r)
    BY <1>5 DEF UnlinkPair, ReadInv
  <2>4. ASSUME NEW k \in DOMAIN rows, rows'[k].pair \notin torn' \cup {{}}
        PROVE  \E j \in DOMAIN rows : /\ rows'[k].pair = {k, j} /\ rows'[j].pair = {k, j}
                                      /\ rows'[k].acct # rows'[j].acct /\ rows'[k].side # rows'[j].side
    <3>1. k \notin r.rows /\ rows'[k].pair = rows[k].pair
      BY <2>2, <2>4
    <3>2. PICK j \in DOMAIN rows \ r.rows : /\ rows[k].pair = {k, j} /\ rows[j].pair = {k, j}
                                            /\ rows[k].acct # rows[j].acct /\ rows[k].side # rows[j].side
      BY <2>3, <2>4, <3>1, WriteSpares
    <3> QED
      BY <2>2, <3>1, <3>2
  <2>5. Mutual(rows', torn')
    BY <2>1, <2>4 DEF Mutual
  <2>6. \A j \in DOMAIN rows' : j \in DOMAIN rows /\ rows'[j].acct = rows[j].acct /\ rows'[j].pair \in {rows[j].pair, {}}
    BY <2>1, <2>2
  <2> QED
    BY <1>2, <2>5, <2>6, EditPairs
<1> QED
  BY <1>3, <1>4, <1>5 DEF Changing

LEMMA AddManualPairs ==
  ASSUME IInv, PairInv, NEW e \in Exts, AddManual(e)
  PROVE  PairInv'
<1>1. PICK i, row : /\ i = <<0, e>>
                    /\ row = [ext |-> NoExt, acct |-> <<AcctOf[e], "link">>, day |-> DayOf[e],
                              side |-> SideOf[e], status |-> "posted", source |-> "manual",
                              ignored |-> FALSE, pair |-> {}, op |-> OpOf[e], span |-> <<0, 0>>]
  OBVIOUS
<1>2. rows' = With(rows, i, row) /\ i \notin DOMAIN rows /\ pass' = Disturbed /\ torn' = torn
  BY <1>1 DEF AddManual
<1>3. /\ DOMAIN rows' = DOMAIN rows \cup {i} /\ rows'[i] = row
      /\ \A j \in DOMAIN rows : rows'[j] = rows[j]
  BY <1>2 DEF With
<1>4. i[1] = 0 /\ row.pair = {}
  BY <1>1
<1>5. Mutual(rows', torn')
  BY <1>2, <1>3, <1>4 DEF PairInv, Mutual
<1> QED
  BY <1>2, <1>3, <1>4, <1>5, EditPairs

(* The commit of the one pass in flight. *)
LEMMA CommitPairs ==
  ASSUME IInv, TypeInv, PairInv, NEW p, Passes = {p}, Commit(p)
  PROVE  PairInv'
<1>1. PICK s : s = pass[p]
  OBVIOUS
<1>2. /\ s.pc = "ready" /\ InFlight(s) /\ DOMAIN s.upd \subseteq DOMAIN rows /\ p \in Passes
  BY <1>1 DEF Commit, InFlight
<1>3. Facts(s) /\ Typed(s)
  BY <1>1, <1>2, FactsOf, TypedOf
<1>4. MarksFit(s, rows) /\ Mutual(rows, torn) /\ torn' = torn
  BY <1>1, <1>2 DEF PairInv, Commit
<1> DEFINE Stamp(r, fresh) == IF fresh THEN [r EXCEPT !.span = <<s.begin, clock + 1>>] ELSE r
           Kept == (DOMAIN rows \cup DOMAIN s.add) \ s.del
<1>5. rows' = [i \in Kept |->
                 IF i \in DOMAIN s.add THEN Stamp(s.add[i], TRUE)
                 ELSE IF i \in DOMAIN s.upd
                   THEN Stamp(Overlay(s.upd[i], rows[i]), "ext" \in DOMAIN s.upd[i])
                   ELSE rows[i]]
  BY <1>1 DEF Commit
<1>6. ASSUME NEW i \in Kept
      PROVE  /\ rows'[i].acct = IF i \in DOMAIN s.add THEN s.add[i].acct ELSE rows[i].acct
             /\ rows'[i].pair = IF i \in Marks(s) THEN MarkOf(s, i)
                                ELSE IF i \in DOMAIN s.add THEN {} ELSE rows[i].pair
             /\ rows'[i].side = SideOf[i[2]]
  <2>1. CASE i \in DOMAIN s.add
    <3>1. rows'[i] = [s.add[i] EXCEPT !.span = <<s.begin, clock + 1>>]
      BY <1>5, <1>6, <2>1
    <3>2. TrueRow(i, s.add[i]) /\ DOMAIN s.add[i] = RowColumns
      BY <1>3, <2>1 DEF Typed, TrueWrites, Facts, SessionFits, AddFits
    <3>3. /\ rows'[i].acct = s.add[i].acct /\ rows'[i].pair = s.add[i].pair
          /\ rows'[i].side = s.add[i].side
      BY <3>1, <3>2 DEF RowColumns
    <3>4. /\ i \in Marks(s) => MarkOf(s, i) = s.add[i].pair
          /\ i \notin Marks(s) => s.add[i].pair = {}
      BY <2>1 DEF Marks, MarkOf
    <3> QED
      BY <2>1, <3>2, <3>3, <3>4 DEF TrueRow
  <2>2. CASE i \notin DOMAIN s.add /\ i \in DOMAIN s.upd
    <3>1. PICK r : r = Overlay(s.upd[i], rows[i])
      OBVIOUS
    <3>2. rows'[i] = IF "ext" \in DOMAIN s.upd[i] THEN [r EXCEPT !.span = <<s.begin, clock + 1>>] ELSE r
      BY <1>5, <1>6, <2>2, <3>1
    <3>3. DOMAIN s.upd[i] \subseteq Settable /\ TrueRow(i, rows[i]) /\ DOMAIN rows[i] = RowColumns
      BY <1>3, <1>6, <2>2 DEF Facts, SessionFits, UpdFits, Typed, TrueRows, RowFits
    <3>4. /\ DOMAIN r = DOMAIN s.upd[i] \cup DOMAIN rows[i]
          /\ \A c \in DOMAIN r : r[c] = IF c \in DOMAIN s.upd[i] THEN s.upd[i][c] ELSE rows[i][c]
      BY <3>1 DEF Overlay
    <3>5. /\ DOMAIN r = RowColumns /\ r.acct = rows[i].acct /\ r.side = rows[i].side
          /\ r.pair = IF "pair" \in DOMAIN s.upd[i] THEN s.upd[i].pair ELSE rows[i].pair
      BY <3>3, <3>4 DEF Settable, RowColumns
    <3>6. rows'[i].acct = r.acct /\ rows'[i].side = r.side /\ rows'[i].pair = r.pair
      BY <3>2, <3>5 DEF RowColumns
    <3>7. /\ i \in Marks(s) <=> "pair" \in DOMAIN s.upd[i]
          /\ MarkOf(s, i) = s.upd[i].pair
      BY <2>2 DEF Marks, MarkOf
    <3> QED
      BY <2>2, <3>3, <3>5, <3>6, <3>7 DEF TrueRow
  <2>3. CASE i \notin DOMAIN s.add /\ i \notin DOMAIN s.upd
    <3>1. rows'[i] = rows[i] /\ TrueRow(i, rows[i])
      BY <1>3, <1>5, <1>6, <2>3 DEF Typed, TrueRows
    <3>2. i \notin Marks(s)
      BY <2>3 DEF Marks
    <3> QED
      BY <2>3, <3>1, <3>2 DEF TrueRow
  <2> QED
    BY <2>1, <2>2, <2>3
<1> HIDE DEF Stamp
<1>7. DOMAIN rows' = Kept
  BY <1>5
<1>8. Marks(s) \subseteq Kept
  BY <1>2, <1>4 DEF Marks, MarksFit
<1>9. ASSUME NEW i \in Kept PROVE Owner(s, i, rows'[i].acct, rows)
  <2>1. i \notin DOMAIN s.add => i \in DOMAIN rows /\ RowFits(i, rows[i], clock)
    BY <1>3, <1>9 DEF Facts
  <2> QED
    BY <1>6, <1>9, <2>1 DEF Owner, Home, RowFits
<1>10. ASSUME NEW i \in Kept, rows'[i].pair \notin torn \cup {{}}
       PROVE  \E j \in Kept : /\ rows'[i].pair = {i, j} /\ rows'[j].pair = {i, j}
                              /\ rows'[i].acct # rows'[j].acct /\ rows'[i].side # rows'[j].side
  <2>1. CASE i \in Marks(s)
    <3>1. PICK j \in Marks(s) : Mates(s, i, j, rows)
      BY <1>2, <1>4, <2>1 DEF MarksFit
    <3>2. j \in Kept /\ rows'[i].pair = MarkOf(s, i) /\ rows'[j].pair = MarkOf(s, j)
      BY <1>6, <1>8, <2>1, <3>1
    <3>3. rows'[i].acct # rows'[j].acct
      BY <1>9, <1>10, <3>1, <3>2 DEF Mates
    <3>4. rows'[i].side # rows'[j].side
      BY <1>6, <1>10, <3>1, <3>2 DEF Mates
    <3> QED
      BY <3>1, <3>2, <3>3, <3>4 DEF Mates
  <2>2. CASE i \notin Marks(s)
    <3>1. i \in DOMAIN rows /\ i \notin DOMAIN s.add /\ rows'[i].pair = rows[i].pair
      BY <1>6, <1>10, <2>2
    <3>2. PICK j \in DOMAIN rows : /\ rows[i].pair = {i, j} /\ rows[j].pair = {i, j}
                                   /\ rows[i].acct # rows[j].acct /\ rows[i].side # rows[j].side
      BY <1>4, <1>10, <3>1 DEF Mutual
    <3>3. j \notin s.del /\ j \notin Marks(s)
      BY <1>2, <1>4, <3>2 DEF MarksFit
    <3>4. j \notin DOMAIN s.add
      BY <1>3 DEF Facts, SessionFits, AddFits
    <3>5. j \in Kept
      BY <3>3
    <3>6. TrueRow(i, rows[i]) /\ TrueRow(j, rows[j])
      BY <1>3, <3>1 DEF Typed, TrueRows
    <3>7. rows'[j].pair = rows[j].pair /\ rows'[j].acct = rows[j].acct /\ rows'[i].acct = rows[i].acct
      BY <1>6, <1>10, <3>1, <3>3, <3>4, <3>5
    <3>8. rows'[i].side # rows'[j].side
      BY <1>6, <1>10, <3>2, <3>5, <3>6 DEF TrueRow
    <3> QED
      BY <3>1, <3>2, <3>5, <3>7, <3>8
  <2> QED
    BY <2>1, <2>2
<1> HIDE DEF Kept
<1>11. Mutual(rows', torn')
  BY <1>4, <1>7, <1>10 DEF Mutual
<1>12. ~InFlight(pass'[p])
  <2>1. DOMAIN Disturbed = Passes /\ pass' = [Disturbed EXCEPT ![p] = PassIdle]
    BY DEF Disturbed, Commit
  <2>2. pass'[p] = PassIdle
    BY <1>2, <2>1
  <2> QED
    BY <2>2 DEF InFlight, PassIdle
<1> QED
  BY <1>11, <1>12 DEF PairInv

LEMMA ItemPairs ==
  ASSUME IInv, TypeInv, PairInv, NEW p \in Passes, NEW e \in Exts, NEW st \in {"pending", "posted"}, Item(p, e, st)
  PROVE  PairInv'
<1>1. PICK s : s = [pass[p] EXCEPT !.items = @ \ {<<e, st>>}]
  OBVIOUS
<1>2. PICK t : /\ Becomes(p, t)
               /\ IF SameExt(s, e) # {} THEN t = ByExt(s, e, st)
                  ELSE IF ManualMatches(s, e) # {} THEN \E i \in ManualMatches(s, e) : t = ByManual(s, i, e)
                  ELSE IF SyncedTwins(s, e, st) # {} THEN \E i \in SyncedTwins(s, e, st) : t = ByTwin(s, i, e, st)
                  ELSE t = Insert(s, e, st)
  BY <1>1 DEF Item
<1>3. Typed(pass[p]) /\ pass[p].pc = "items" /\ <<e, st>> \in pass[p].items /\ InFlight(pass[p])
  BY TypedOf DEF Item, InFlight
<1>4. /\ DOMAIN s = PassColumns /\ s.pc = pass[p].pc /\ s.begin = pass[p].begin
      /\ s.items = pass[p].items \ {<<e, st>>} /\ s.home = pass[p].home /\ s.accts = pass[p].accts
      /\ s.openAdd = pass[p].openAdd /\ s.add = pass[p].add /\ s.upd = pass[p].upd
  BY <1>1, <1>3 DEF Typed, PassColumns
<1>5. Typed(s) /\ s.home \in AcctRows /\ s.home[1] = AcctOf[e]
  BY <1>3, <1>4 DEF Typed, TrueReports, TrueWrites
<1>6. Marks(s) = {}
  BY <1>3, <1>4 DEF PairInv, MarksFit, Marks
<1>7. t.pc = "items"
  BY <1>2, <1>3, <1>4, <1>5, MatchTrue
<1>8. Marks(t) = {}
  BY <1>2, <1>5, <1>6, MatchUnmarked
<1>9. MarksFit(t, rows)
  BY <1>7, <1>8 DEF MarksFit
<1>10. pass' = [pass EXCEPT ![p] = t] /\ rows' = rows /\ torn' = torn
  BY <1>2 DEF Becomes
<1> QED
  BY <1>9, <1>10, SessionPairs

(* A session that neither looked nor is about to commit. *)
LEMMA UnmarkedMoves ==
  ASSUME IInv, PairInv, NEW p \in Passes, NEW t, InFlight(pass[p]), pass[p].pc # "ready", t.pc # "ready",
         t.add = pass[p].add, t.upd = pass[p].upd, pass' = [pass EXCEPT ![p] = t], rows' = rows, torn' = torn
  PROVE  PairInv'
<1>1. Marks(pass[p]) = {}
  BY DEF PairInv, MarksFit
<1>2. MarksFit(t, rows)
  BY <1>1 DEF MarksFit, Marks
<1> QED
  BY <1>2, SessionPairs

LEMMA FetchPairs ==
  ASSUME IInv, PairInv, NEW p \in Passes, NEW a \in Accounts, Fetch(p, a)
  PROVE  PairInv'
<1>1. \E home, items, found, seen :
        pass' = [pass EXCEPT ![p].pc = "items", ![p].home = home, ![p].items = items, ![p].todo = @ \ {a},
                             ![p].accts = IF found = {} THEN @ \cup {home} ELSE @, ![p].seen = @ \cup seen]
  BY DEF Fetch
<1>2. PICK home, items, found, seen :
        pass' = [pass EXCEPT ![p].pc = "items", ![p].home = home, ![p].items = items, ![p].todo = @ \ {a},
                             ![p].accts = IF found = {} THEN @ \cup {home} ELSE @, ![p].seen = @ \cup seen]
  BY <1>1
<1>3. PICK t : t = [pass[p] EXCEPT !.pc = "items", !.home = home, !.items = items, !.todo = @ \ {a},
                                   !.accts = IF found = {} THEN @ \cup {home} ELSE @, !.seen = @ \cup seen]
  OBVIOUS
<1>4. pass' = [pass EXCEPT ![p] = t]
  BY <1>2, <1>3
<1>5. DOMAIN pass[p] = PassColumns
  BY DEF IInv, SessionFits
<1>6. t.pc = "items" /\ t.add = pass[p].add /\ t.upd = pass[p].upd
  BY <1>3, <1>5 DEF PassColumns
<1>7. InFlight(pass[p]) /\ pass[p].pc # "ready" /\ rows' = rows /\ torn' = torn
  BY DEF Fetch, InFlight
<1> QED
  BY <1>4, <1>6, <1>7, UnmarkedMoves

LEMMA OpeningPairs ==
  ASSUME IInv, PairInv, NEW p \in Passes, Opening(p)
  PROVE  PairInv'
<1> DEFINE s == pass[p]
           found == {o \in openings : o[1] = s.home}
<1>1. PICK gap \in Gaps :
        Becomes(p, [s EXCEPT !.pc = IF s.todo = {} THEN "reconcile" ELSE "account",
                             !.openAdd = IF gap /\ found = {} THEN @ \cup {<<s.home, p>>} ELSE @,
                             !.openDel = IF gap THEN @ ELSE @ \cup found])
  BY DEF Opening
<1>2. PICK t : t = [s EXCEPT !.pc = IF s.todo = {} THEN "reconcile" ELSE "account",
                             !.openAdd = IF gap /\ found = {} THEN @ \cup {<<s.home, p>>} ELSE @,
                             !.openDel = IF gap THEN @ ELSE @ \cup found]
  OBVIOUS
<1>3. DOMAIN s = PassColumns
  BY DEF IInv, SessionFits
<1>4. t.pc # "ready" /\ t.add = s.add /\ t.upd = s.upd
  BY <1>2, <1>3 DEF PassColumns
<1>5. pass' = [pass EXCEPT ![p] = t] /\ rows' = rows /\ torn' = torn /\ InFlight(s) /\ s.pc # "ready"
  BY <1>1, <1>2 DEF Becomes, Opening, InFlight
<1> QED
  BY <1>4, <1>5, UnmarkedMoves

LEMMA ReconcilePairs ==
  ASSUME IInv, TypeInv, PairInv, NEW p \in Passes, Reconcile(p)
  PROVE  PairInv'
<1>1. PICK s : s = pass[p]
  OBVIOUS
<1>2. Typed(s) /\ Facts(s) /\ s.pc = "reconcile" /\ InFlight(s) /\ Marks(s) = {}
  BY <1>1, TypedOf, FactsOf DEF Reconcile, InFlight, PairInv, MarksFit
<1>3. PICK pairs \in Pairings(View(s), DOMAIN s.add) :
        \E u, gone : /\ u = Paired(s, pairs) /\ gone = PhantomRows(View(u))
                     /\ Becomes(p, [u EXCEPT !.pc = "ready", !.add = Without(@, gone), !.upd = Without(@, gone),
                                             !.del = gone \ DOMAIN u.add])
  BY <1>1 DEF Reconcile
<1>4. PICK u, gone : /\ u = Paired(s, pairs) /\ gone = PhantomRows(View(u))
                     /\ Becomes(p, [u EXCEPT !.pc = "ready", !.add = Without(@, gone), !.upd = Without(@, gone),
                                             !.del = gone \ DOMAIN u.add])
  BY <1>3
<1>6. PICK t : t = [u EXCEPT !.pc = "ready", !.add = Without(@, gone), !.upd = Without(@, gone),
                             !.del = gone \ DOMAIN u.add]
  OBVIOUS
<1>7. MarksFit(t, rows)
  BY <1>2, <1>4, <1>6, ReconcileFits
<1>8. pass' = [pass EXCEPT ![p] = t] /\ rows' = rows /\ torn' = torn
  BY <1>4, <1>6 DEF Becomes
<1> QED
  BY <1>7, <1>8, SessionPairs

LEMMA NextPairs ==
  ASSUME NEW p, Passes = {p}
  PROVE  IInv /\ TypeInv /\ PairInv /\ ReadInv /\ [Next]_vars => PairInv'
<1> SUFFICES ASSUME IInv, TypeInv, PairInv, ReadInv, [Next]_vars PROVE PairInv'
  OBVIOUS
<1>1. ASSUME UNCHANGED <<rows, pass, torn>> PROVE PairInv'
  BY <1>1 DEF PairInv
<1>2. CASE UNCHANGED vars
  BY <1>1, <1>2 DEF vars
<1>3. ASSUME NEW e \in Exts, Settle(e) \/ \E st \in {"pending", "posted"} : Publish(e, st) PROVE PairInv'
  BY <1>1, <1>3 DEF Settle, Publish
<1>4. ASSUME NEW e \in Exts, AddManual(e) PROVE PairInv'
  BY <1>4, AddManualPairs
<1>5. ASSUME NEW q \in Passes, Begin(q) PROVE PairInv'
  <2>1. PICK t : t = [PassIdle EXCEPT !.pc = "account", !.begin = clock', !.todo = Accounts]
    OBVIOUS
  <2>2. t.pc = "account" /\ t.add = <<>> /\ t.upd = <<>> /\ DOMAIN <<>> = {}
    BY <2>1 DEF PassIdle
  <2>3. MarksFit(t, rows)
    BY <2>2 DEF MarksFit, Marks
  <2>4. pass' = [pass EXCEPT ![q] = t] /\ rows' = rows /\ torn' = torn
    BY <1>5, <2>1 DEF Begin
  <2> QED
    BY <2>3, <2>4, SessionPairs
<1>6. ASSUME NEW q \in Passes, Abort(q) PROVE PairInv'
  <2>1. ~InFlight(PassIdle)
    BY DEF InFlight, PassIdle
  <2>2. pass' = [pass EXCEPT ![q] = PassIdle] /\ rows' = rows /\ torn' = torn
    BY <1>6 DEF Abort, Becomes
  <2> QED
    BY <2>1, <2>2, SessionPairs
<1>7. ASSUME NEW q \in Passes, Opening(q) \/ Reconcile(q) \/ Commit(q) PROVE PairInv'
  <2>1. q = p
    OBVIOUS
  <2> QED
    BY <1>7, <2>1, OpeningPairs, ReconcilePairs, CommitPairs
<1>8. ASSUME NEW q \in Passes, NEW a \in Accounts, Fetch(q, a) PROVE PairInv'
  BY <1>8, FetchPairs
<1>9. ASSUME NEW q \in Passes, NEW e \in Exts, NEW st \in {"pending", "posted"}, Item(q, e, st) PROVE PairInv'
  BY <1>9, ItemPairs
<1>10. CASE Changing
  BY <1>10, UserPairs
<1>11. CASE Reading
  BY <1>1, <1>11, ReadingIs
<1> QED
  BY <1>2, <1>3, <1>4, <1>5, <1>6, <1>7, <1>8, <1>9, <1>10, <1>11 DEF Next, Changing, Reading

(* With one pass in flight at a time, a transfer id sits on exactly two rows, of *)
(* different accounts and opposite directions, for any accounts, reports, passes *)
(* and requests: though users unlink, delete or enter rows between the pairing   *)
(* and the commit, each reading long before it writes, and though the cleanup    *)
(* deletes rows in the same transaction. Not so a pair that a request tore: one  *)
(* committed after the request read a row of it and before it wrote that row.    *)
THEOREM TransfersStayMutual ==
  ASSUME NEW p, Passes = {p}
  PROVE  Spec => []PairsAreMutual
<1>1. Init => PairInv /\ ReadInv
  <2> SUFFICES ASSUME Init PROVE PairInv /\ ReadInv
    OBVIOUS
  <2>1. DOMAIN rows = {} /\ asked = {} /\ \A q \in Passes : ~InFlight(pass[q])
    BY DEF Init, InFlight, PassIdle
  <2> QED
    BY <2>1 DEF PairInv, Mutual, ReadInv
<1>2. IInv /\ TypeInv /\ PairInv /\ ReadInv /\ [Next]_vars => PairInv' /\ ReadInv'
  BY NextPairs, NextRead
<1>3. PairInv => PairsAreMutual
  <2> SUFFICES ASSUME Mutual(rows, torn), NEW i \in DOMAIN rows, rows[i].pair \notin torn \cup {{}}
               PROVE  \E j \in DOMAIN rows :
                         /\ {k \in DOMAIN rows : rows[k].pair = rows[i].pair} = {i, j}
                         /\ rows[i].acct # rows[j].acct /\ rows[i].side # rows[j].side
    BY DEF PairInv, PairsAreMutual
  <2>1. PICK j \in DOMAIN rows : /\ rows[i].pair = {i, j} /\ rows[j].pair = {i, j}
                                 /\ rows[i].acct # rows[j].acct /\ rows[i].side # rows[j].side
    BY DEF Mutual
  <2>2. ASSUME NEW k \in DOMAIN rows, rows[k].pair = rows[i].pair PROVE k \in {i, j}
    <3>1. k \in rows[k].pair
      BY <2>2 DEF Mutual
    <3> QED
      BY <2>1, <2>2, <3>1
  <2>3. {k \in DOMAIN rows : rows[k].pair = rows[i].pair} = {i, j}
    BY <2>1, <2>2
  <2> QED
    BY <2>1, <2>3
<1> QED
  BY <1>1, <1>2, <1>3, IInvHolds, TypeInvHolds, PTL DEF Spec
-----------------------------------------------------------------------------
(* What a pass that nobody disturbed reads is kept. *)

(* Reports that the matching cannot tell apart are of one operation: it knows two *)
(* of them by account, direction and the days between them alone.                 *)
OpsApart ==
  \A e, f \in Exts : AcctOf[e] = AcctOf[f] /\ SideOf[e] = SideOf[f] /\ Within(DayOf[e], DayOf[f], 3)
                     => OpOf[e] = OpOf[f]

Stands(ids, e) == \E i \in ids : AcctOf[i[2]] = AcctOf[e] /\ OpOf[i[2]] = OpOf[e]

(* The rows there will be when the session commits. *)
Outcome(s, rs) == (DOMAIN rs \cup DOMAIN s.add) \ s.del

Keeps(s, rs) ==
  InFlight(s) /\ s.calm =>
    \A e \in s.seen : e \in Exts /\ (<<e, "posted">> \in s.items \/ Stands(Outcome(s, rs), e))

KeptInv == \A p \in Passes : Keeps(pass[p], rows)

(* A row stands for the operation of the report it was created for. *)
LEMMA RowOp ==
  ASSUME OpsApart, NEW i, NEW r, TrueRow(i, r)
  PROVE  r.op = OpOf[i[2]] /\ (r.ext # NoExt => OpOf[r.ext] = OpOf[i[2]]) /\ i[2] \in Exts
<1>1. i[2] \in Exts
  BY DEF TrueRow, Ids
<1>2. CASE r.ext = NoExt
  BY <1>1, <1>2 DEF TrueRow
<1>3. CASE r.ext # NoExt
  <2>1. Matches(i, r.ext) /\ r.op = OpOf[r.ext]
    BY <1>3 DEF TrueRow
  <2>2. OpOf[i[2]] = OpOf[r.ext]
    BY <1>1, <2>1 DEF OpsApart, Matches
  <2> QED
    BY <1>1, <2>1, <2>2
<1> QED
  BY <1>2, <1>3

LEMMA PutOutcome ==
  ASSUME NEW s, DOMAIN s = PassColumns, NEW i, NEW columns
  PROVE  LET t == Put(s, i, columns)
         IN /\ DOMAIN t.add = DOMAIN s.add /\ t.del = s.del /\ t.seen = s.seen /\ t.calm = s.calm
            /\ t.items = s.items /\ t.pc = s.pc
<1>1. CASE i \in DOMAIN s.add
  <2>1. PICK add, t : add = With(s.add, i, Overlay(columns, s.add[i])) /\ t = [s EXCEPT !.add = add]
    OBVIOUS
  <2>2. Put(s, i, columns) = t
    BY <1>1, <2>1 DEF Put
  <2>3. DOMAIN add = DOMAIN s.add
    BY <1>1, <2>1 DEF With
  <2>4. /\ t.add = add /\ t.del = s.del /\ t.seen = s.seen /\ t.calm = s.calm
        /\ t.items = s.items /\ t.pc = s.pc
    BY <2>1 DEF PassColumns
  <2> QED
    BY <2>2, <2>3, <2>4
<1>2. CASE i \notin DOMAIN s.add
  <2>1. PICK upd, t : /\ upd = With(s.upd, i, Overlay(columns, IF i \in DOMAIN s.upd THEN s.upd[i] ELSE <<>>))
                      /\ t = [s EXCEPT !.upd = upd]
    OBVIOUS
  <2>2. Put(s, i, columns) = t
    BY <1>2, <2>1 DEF Put
  <2>3. /\ t.add = s.add /\ t.del = s.del /\ t.seen = s.seen /\ t.calm = s.calm
        /\ t.items = s.items /\ t.pc = s.pc
    BY <2>1 DEF PassColumns
  <2> QED
    BY <2>2, <2>3
<1> QED
  BY <1>1, <1>2

(* The report that was matched has a row. *)
LEMMA MatchKeeps ==
  ASSUME OpsApart, NEW s, Typed(s), s.del = {}, NEW e \in Exts, NEW st \in {"pending", "posted"},
         s.home \in AcctRows, s.home[1] = AcctOf[e], NEW t,
         IF SameExt(s, e) # {} THEN t = ByExt(s, e, st)
         ELSE IF ManualMatches(s, e) # {} THEN \E i \in ManualMatches(s, e) : t = ByManual(s, i, e)
         ELSE IF SyncedTwins(s, e, st) # {} THEN \E i \in SyncedTwins(s, e, st) : t = ByTwin(s, i, e, st)
         ELSE t = Insert(s, e, st)
  PROVE  /\ Outcome(s, rows) \subseteq Outcome(t, rows) /\ Stands(Outcome(t, rows), e)
         /\ t.seen = s.seen /\ t.calm = s.calm /\ t.items = s.items /\ t.pc = s.pc
<1> DEFINE Like(u) == /\ DOMAIN u.add = DOMAIN s.add /\ u.del = s.del /\ u.seen = s.seen
                      /\ u.calm = s.calm /\ u.items = s.items /\ u.pc = s.pc
<1>1. DOMAIN s = PassColumns /\ Outcome(s, rows) = DOMAIN View(s)
  BY ViewIs DEF Typed, Outcome
<1>2. ASSUME NEW i \in InHome(s), Matches(i, e), Like(t)
      PROVE  /\ Outcome(s, rows) \subseteq Outcome(t, rows) /\ Stands(Outcome(t, rows), e)
             /\ t.seen = s.seen /\ t.calm = s.calm /\ t.items = s.items /\ t.pc = s.pc
  <2>1. i \in DOMAIN View(s) /\ TrueRow(i, View(s)[i])
    BY InHomeTrue
  <2>2. i[2] \in Exts
    BY <2>1, RowOp
  <2>3. OpOf[i[2]] = OpOf[e] /\ AcctOf[i[2]] = AcctOf[e]
    BY <1>2, <2>2 DEF OpsApart, Matches
  <2>4. Outcome(t, rows) = Outcome(s, rows)
    BY <1>2 DEF Outcome
  <2> QED
    BY <1>1, <1>2, <2>1, <2>3, <2>4 DEF Stands
<1>3. \A i, columns : Like(Put(s, i, columns))
  BY <1>1, PutOutcome
<1>4. ASSUME NEW i \in InHome(s)
      PROVE  /\ View(s)[i].ext = e => Matches(i, e)
             /\ View(s)[i].side = SideOf[e] /\ Within(View(s)[i].day, DayOf[e], 3) => Matches(i, e)
  <2>1. TrueRow(i, View(s)[i]) /\ AcctOf[i[2]] = AcctOf[e] /\ e # NoExt
    BY InHomeTrue, DataAssumption
  <2> QED
    BY <2>1 DEF TrueRow, Matches
<1> HIDE DEF Like
<1>5. CASE SameExt(s, e) # {} /\ t = ByExt(s, e, st)
  <2>1. PICK i : i \in SameExt(s, e)
    BY <1>5
  <2>2. i \in InHome(s) /\ Matches(i, e)
    BY <1>4, <2>1 DEF SameExt
  <2>3. t = s \/ t = Put(s, Oldest(SameExt(s, e)), [status |-> "posted"])
    BY <1>5 DEF ByExt
  <2>4. Like(t)
    BY <1>3, <2>3 DEF Like
  <2> QED
    BY <1>2, <2>2, <2>4
<1>6. ASSUME NEW i \in ManualMatches(s, e), t = ByManual(s, i, e)
      PROVE  i \in InHome(s) /\ Matches(i, e) /\ Like(t)
  <2>1. i \in InHome(s) /\ Matches(i, e)
    BY <1>4 DEF ManualMatches
  <2>2. t = s \/ t = Put(s, i, [ext |-> e, source |-> "sync", op |-> OpOf[e]])
    BY <1>6 DEF ByManual
  <2>3. Like(t)
    BY <1>3, <2>2 DEF Like
  <2> QED
    BY <2>1, <2>3
<1>7. ASSUME NEW i \in SyncedTwins(s, e, st), t = ByTwin(s, i, e, st)
      PROVE  i \in InHome(s) /\ Matches(i, e) /\ Like(t)
  <2>1. i \in InHome(s) /\ View(s)[i].side = SideOf[e] /\ View(s)[i].day = DayOf[e]
    BY DEF SyncedTwins
  <2>2. Within(View(s)[i].day, DayOf[e], 3)
    BY <2>1, DataAssumption DEF Within, Apart
  <2>3. Matches(i, e)
    BY <1>4, <2>1, <2>2
  <2>4. t = s \/ t = Put(s, i, [status |-> "posted", ext |-> e, op |-> OpOf[e]])
    BY <1>7 DEF ByTwin
  <2>5. Like(t)
    BY <1>3, <2>4 DEF Like
  <2> QED
    BY <2>1, <2>3, <2>5
<1>8. CASE t = Insert(s, e, st)
  <2>1. PICK row : row = [ext |-> e, acct |-> s.home, day |-> DayOf[e], side |-> SideOf[e],
                          status |-> st, source |-> "sync", ignored |-> FALSE, pair |-> {},
                          op |-> OpOf[e], span |-> <<s.begin, s.begin>>]
    OBVIOUS
  <2>2. PICK add : add = With(s.add, <<s.begin, e>>, row)
    OBVIOUS
  <2>3. t = [s EXCEPT !.add = add]
    BY <1>8, <2>1, <2>2 DEF Insert
  <2>4. /\ t.add = add /\ t.del = s.del /\ t.seen = s.seen /\ t.calm = s.calm
        /\ t.items = s.items /\ t.pc = s.pc
    BY <1>1, <2>3 DEF PassColumns
  <2>5. DOMAIN add = DOMAIN s.add \cup {<<s.begin, e>>}
    BY <2>2 DEF With
  <2>6. Outcome(s, rows) \subseteq Outcome(t, rows) /\ <<s.begin, e>> \in Outcome(t, rows)
    BY <2>4, <2>5 DEF Outcome
  <2> QED
    BY <2>4, <2>6 DEF Stands
<1> QED
  BY <1>2, <1>5, <1>6, <1>7, <1>8

LEMMA SessionKeeps ==
  ASSUME IInv, KeptInv, NEW p \in Passes, NEW t, Keeps(t, rows),
         pass' = [pass EXCEPT ![p] = t], rows' = rows
  PROVE  KeptInv'
<1>1. DOMAIN pass = Passes
  BY DEF IInv
<1>2. pass'[p] = t /\ \A q \in Passes \ {p} : pass'[q] = pass[q]
  BY <1>1
<1> QED
  BY <1>2 DEF KeptInv

(* Nobody in flight is calm once somebody else changed the rows. *)
LEMMA DisturbedKeeps ==
  ASSUME IInv, NEW q \in Passes, NEW rs
  PROVE  Keeps(Disturbed[q], rs)
<1>1. PICK s, t : s = pass[q] /\ t = Disturbed[q]
  OBVIOUS
<1>2. (s.pc = "idle" /\ t = s) \/ t = [s EXCEPT !.calm = FALSE]
  BY <1>1 DEF Disturbed
<1>3. DOMAIN s = PassColumns
  BY <1>1 DEF IInv, SessionFits
<1>4. t.pc = "idle" \/ t.calm = FALSE
  BY <1>2, <1>3 DEF PassColumns
<1> QED
  BY <1>1, <1>4 DEF Keeps, InFlight

LEMMA ItemKept ==
  ASSUME OpsApart, IInv, TypeInv, KeptInv, NEW p \in Passes, NEW e \in Exts, NEW st \in {"pending", "posted"},
         Item(p, e, st)
  PROVE  KeptInv'
<1>1. PICK s : s = [pass[p] EXCEPT !.items = @ \ {<<e, st>>}]
  OBVIOUS
<1>2. PICK t : /\ Becomes(p, t)
               /\ IF SameExt(s, e) # {} THEN t = ByExt(s, e, st)
                  ELSE IF ManualMatches(s, e) # {} THEN \E i \in ManualMatches(s, e) : t = ByManual(s, i, e)
                  ELSE IF SyncedTwins(s, e, st) # {} THEN \E i \in SyncedTwins(s, e, st) : t = ByTwin(s, i, e, st)
                  ELSE t = Insert(s, e, st)
  BY <1>1 DEF Item
<1>3. /\ Typed(pass[p]) /\ pass[p].pc = "items" /\ <<e, st>> \in pass[p].items /\ InFlight(pass[p])
      /\ pass[p].del = {}
  BY TypedOf DEF Item, InFlight, IInv, SessionFits
<1>4. /\ DOMAIN s = PassColumns /\ s.pc = pass[p].pc /\ s.begin = pass[p].begin
      /\ s.items = pass[p].items \ {<<e, st>>} /\ s.home = pass[p].home /\ s.accts = pass[p].accts
      /\ s.openAdd = pass[p].openAdd /\ s.add = pass[p].add /\ s.upd = pass[p].upd
      /\ s.del = pass[p].del /\ s.seen = pass[p].seen /\ s.calm = pass[p].calm
  BY <1>1, <1>3 DEF Typed, PassColumns
<1>5. Typed(s) /\ s.home \in AcctRows /\ s.home[1] = AcctOf[e]
  BY <1>3, <1>4 DEF Typed, TrueReports, TrueWrites
<1>6. /\ Outcome(s, rows) \subseteq Outcome(t, rows) /\ Stands(Outcome(t, rows), e)
      /\ t.seen = s.seen /\ t.calm = s.calm /\ t.items = s.items /\ t.pc = s.pc
  BY <1>2, <1>3, <1>4, <1>5, MatchKeeps
<1>7. Outcome(s, rows) = Outcome(pass[p], rows)
  BY <1>4 DEF Outcome
<1>8. Keeps(t, rows)
  <2> SUFFICES ASSUME t.calm, NEW f \in t.seen
               PROVE  f \in Exts /\ (<<f, "posted">> \in t.items \/ Stands(Outcome(t, rows), f))
    BY DEF Keeps
  <2>1. f \in Exts /\ (<<f, "posted">> \in pass[p].items \/ Stands(Outcome(pass[p], rows), f))
    BY <1>3, <1>4, <1>6 DEF KeptInv, Keeps
  <2>2. CASE Stands(Outcome(pass[p], rows), f)
    BY <1>6, <1>7, <2>1, <2>2 DEF Stands
  <2>3. CASE <<f, "posted">> \in pass[p].items
    <3>1. CASE <<f, "posted">> = <<e, st>>
      BY <1>6, <2>1, <3>1
    <3>2. CASE <<f, "posted">> # <<e, st>>
      BY <1>4, <1>6, <2>1, <2>3, <3>2
    <3> QED
      BY <3>1, <3>2
  <2> QED
    BY <2>1, <2>2, <2>3
<1>9. pass' = [pass EXCEPT ![p] = t] /\ rows' = rows
  BY <1>2 DEF Becomes
<1> QED
  BY <1>8, <1>9, SessionKeeps

LEMMA FetchKept ==
  ASSUME IInv, TypeInv, KeptInv, NEW p \in Passes, NEW a \in Accounts, Fetch(p, a)
  PROVE  KeptInv'
<1> DEFINE s == pass[p]
           found == {r \in accts : r[1] = a}
           home == IF found = {} THEN <<a, p>> ELSE CHOOSE r \in found : TRUE
           items == {<<e, feed[e]>> : e \in
                       {x \in Exts : /\ AcctOf[x] = a
                                     /\ \/ feed[x] = "posted"
                                        \/ feed[x] = "pending" /\ ImportPending}}
           seen == {it[1] : it \in {x \in items : x[2] = "posted"}}
<1>1. PICK t : t = [s EXCEPT !.pc = "items", !.home = home, !.items = items, !.todo = @ \ {a},
                             !.accts = IF found = {} THEN @ \cup {home} ELSE @, !.seen = @ \cup seen]
  OBVIOUS
<1>2. pass' = [pass EXCEPT ![p] = t] /\ rows' = rows /\ s.pc = "account"
  BY <1>1 DEF Fetch
<1>3. \A e \in seen : e \in Exts /\ <<e, "posted">> \in items
  <2> SUFFICES ASSUME NEW it \in items, it[2] = "posted" PROVE it[1] \in Exts /\ <<it[1], "posted">> \in items
    OBVIOUS
  <2>1. PICK e \in Exts : it = <<e, feed[e]>>
    OBVIOUS
  <2>2. it = <<it[1], "posted">> /\ it[1] = e
    BY <2>1
  <2> QED
    BY <2>2
<1> HIDE DEF items, home, seen
<1>4. DOMAIN s = PassColumns /\ s.items = {} /\ InFlight(s)
  BY <1>2 DEF IInv, SessionFits, TypeInv, TrueReports, InFlight
<1>5. /\ t.items = items /\ t.seen = s.seen \cup seen /\ t.add = s.add /\ t.del = s.del /\ t.calm = s.calm
  BY <1>1, <1>4 DEF PassColumns
<1>6. Outcome(t, rows) = Outcome(s, rows)
  BY <1>5 DEF Outcome
<1>7. Keeps(t, rows)
  BY <1>3, <1>4, <1>5, <1>6 DEF KeptInv, Keeps
<1> QED
  BY <1>2, <1>7, SessionKeeps

LEMMA OpeningKept ==
  ASSUME IInv, TypeInv, KeptInv, NEW p \in Passes, Opening(p)
  PROVE  KeptInv'
<1> DEFINE s == pass[p]
           found == {o \in openings : o[1] = s.home}
<1>1. PICK gap \in Gaps :
        Becomes(p, [s EXCEPT !.pc = IF s.todo = {} THEN "reconcile" ELSE "account",
                             !.openAdd = IF gap /\ found = {} THEN @ \cup {<<s.home, p>>} ELSE @,
                             !.openDel = IF gap THEN @ ELSE @ \cup found])
  BY DEF Opening
<1>2. PICK t : t = [s EXCEPT !.pc = IF s.todo = {} THEN "reconcile" ELSE "account",
                             !.openAdd = IF gap /\ found = {} THEN @ \cup {<<s.home, p>>} ELSE @,
                             !.openDel = IF gap THEN @ ELSE @ \cup found]
  OBVIOUS
<1>3. DOMAIN s = PassColumns /\ InFlight(s)
  BY DEF IInv, SessionFits, Opening, InFlight
<1>4. t.items = s.items /\ t.seen = s.seen /\ t.add = s.add /\ t.del = s.del /\ t.calm = s.calm
  BY <1>2, <1>3 DEF PassColumns
<1>5. Outcome(t, rows) = Outcome(s, rows)
  BY <1>4 DEF Outcome
<1>6. Keeps(t, rows)
  BY <1>3, <1>4, <1>5 DEF KeptInv, Keeps
<1>7. pass' = [pass EXCEPT ![p] = t] /\ rows' = rows
  BY <1>1, <1>2 DEF Becomes
<1> QED
  BY <1>6, <1>7, SessionKeeps

(* A row that the cleanup deletes has a sibling that stays. *)
LEMMA ReconcileKept ==
  ASSUME OpsApart, IInv, TypeInv, KeptInv, NEW p \in Passes, Reconcile(p)
  PROVE  KeptInv'
<1>1. PICK s : s = pass[p]
  OBVIOUS
<1>2. Typed(s) /\ Facts(s) /\ s.pc = "reconcile" /\ InFlight(s) /\ s.del = {} /\ s.items = {}
  BY <1>1, TypedOf, FactsOf DEF Reconcile, InFlight, Facts, SessionFits, Typed, TrueReports
<1>3. PICK pairs \in Pairings(View(s), DOMAIN s.add) :
        \E u, gone : /\ u = Paired(s, pairs) /\ gone = PhantomRows(View(u))
                     /\ Becomes(p, [u EXCEPT !.pc = "ready", !.add = Without(@, gone), !.upd = Without(@, gone),
                                             !.del = gone \ DOMAIN u.add])
  BY <1>1 DEF Reconcile
<1>4. PICK u, gone : /\ u = Paired(s, pairs) /\ gone = PhantomRows(View(u))
                     /\ Becomes(p, [u EXCEPT !.pc = "ready", !.add = Without(@, gone), !.upd = Without(@, gone),
                                             !.del = gone \ DOMAIN u.add])
  BY <1>3
<1>5. PICK t : t = [u EXCEPT !.pc = "ready", !.add = Without(@, gone), !.upd = Without(@, gone),
                             !.del = gone \ DOMAIN u.add]
  OBVIOUS
<1>6. Typed(u) /\ DOMAIN u.add = DOMAIN s.add
  BY <1>2, <1>4, PairsAreIds, PairedTrue
<1>7. u.del = s.del /\ u.seen = s.seen /\ u.calm = s.calm
  BY <1>2, <1>4 DEF Paired, Typed, PassColumns
<1>8. /\ t.pc = "ready" /\ t.add = Without(u.add, gone) /\ t.del = gone \ DOMAIN u.add
      /\ t.seen = u.seen /\ t.calm = u.calm
  BY <1>5, <1>6 DEF Typed, PassColumns
<1>9. DOMAIN View(u) = Outcome(s, rows)
  BY <1>6, <1>7, ViewIs DEF Outcome
<1>10. \A i \in Outcome(s, rows) : i \notin gone => i \in Outcome(t, rows)
  BY <1>2, <1>6, <1>8 DEF Outcome, Without
<1>11. ASSUME NEW i \in gone
       PROVE  \E j \in Outcome(t, rows) : AcctOf[j[2]] = AcctOf[i[2]] /\ OpOf[j[2]] = OpOf[i[2]]
  <2>1. PICK V : V = View(u)
    OBVIOUS
  <2>2. i \in DOMAIN V
    BY <1>4, <2>1 DEF PhantomRows
  <2>3. PICK j \in DOMAIN V : /\ V[j].pair # {} /\ V[j].acct = V[i].acct /\ V[j].side = V[i].side
                              /\ Within(V[j].day, V[i].day, 1)
    BY <1>4, <2>1 DEF PhantomRows
  <2>4. j \notin gone
    BY <1>4, <2>1, <2>3 DEF PhantomRows
  <2>5. TrueRow(i, V[i]) /\ TrueRow(j, V[j])
    BY <1>6, <2>1, <2>2, ViewTrue DEF Typed
  <2>6. /\ AcctOf[j[2]] = AcctOf[i[2]] /\ SideOf[j[2]] = SideOf[i[2]]
        /\ Within(DayOf[j[2]], DayOf[i[2]], 1) /\ i[2] \in Exts /\ j[2] \in Exts
    BY <2>3, <2>5 DEF TrueRow, Ids
  <2>7. Within(DayOf[j[2]], DayOf[i[2]], 3)
    BY <2>6, DataAssumption DEF Within, Apart
  <2>8. OpOf[j[2]] = OpOf[i[2]]
    BY <2>6, <2>7 DEF OpsApart
  <2>9. j \in Outcome(t, rows)
    BY <1>9, <1>10, <2>1, <2>3, <2>4
  <2> QED
    BY <2>6, <2>8, <2>9
<1>12. \A e : Stands(Outcome(s, rows), e) => Stands(Outcome(t, rows), e)
  <2> SUFFICES ASSUME NEW e, NEW i \in Outcome(s, rows), AcctOf[i[2]] = AcctOf[e], OpOf[i[2]] = OpOf[e]
               PROVE  \E j \in Outcome(t, rows) : AcctOf[j[2]] = AcctOf[e] /\ OpOf[j[2]] = OpOf[e]
    BY DEF Stands
  <2>1. CASE i \in gone
    BY <1>11, <2>1
  <2>2. CASE i \notin gone
    BY <1>10, <2>2
  <2> QED
    BY <2>1, <2>2
<1>13. Keeps(t, rows)
  <2>1. t.calm => \A e \in t.seen : e \in Exts /\ Stands(Outcome(s, rows), e)
    BY <1>1, <1>2, <1>7, <1>8 DEF KeptInv, Keeps
  <2> QED
    BY <1>12, <2>1 DEF Keeps
<1>14. pass' = [pass EXCEPT ![p] = t] /\ rows' = rows
  BY <1>4, <1>5 DEF Becomes
<1> QED
  BY <1>13, <1>14, SessionKeeps

LEMMA NextKept ==
  ASSUME OpsApart
  PROVE  IInv /\ TypeInv /\ KeptInv /\ [Next]_vars => KeptInv'
<1> SUFFICES ASSUME IInv, TypeInv, KeptInv, [Next]_vars PROVE KeptInv'
  OBVIOUS
<1>1. ASSUME UNCHANGED <<rows, pass>> PROVE KeptInv'
  BY <1>1 DEF KeptInv
<1>2. CASE UNCHANGED vars
  BY <1>1, <1>2 DEF vars
<1>3. ASSUME NEW e \in Exts, Settle(e) \/ \E st \in {"pending", "posted"} : Publish(e, st) PROVE KeptInv'
  BY <1>1, <1>3 DEF Settle, Publish
<1>4. ~InFlight(PassIdle)
  BY DEF InFlight, PassIdle
<1>5. ASSUME pass' = Disturbed PROVE KeptInv'
  BY <1>5, DisturbedKeeps DEF KeptInv
<1>6. ASSUME NEW e \in Exts, AddManual(e) PROVE KeptInv'
  BY <1>5, <1>6 DEF AddManual
<1>7. CASE Changing \/ Reading
  BY <1>1, <1>5, <1>7, ChangingIs, ReadingIs
<1>8. ASSUME NEW p \in Passes, Begin(p) PROVE KeptInv'
  <2>1. PICK t : t = [PassIdle EXCEPT !.pc = "account", !.begin = clock', !.todo = Accounts]
    OBVIOUS
  <2>2. t.seen = {}
    BY <2>1 DEF PassIdle
  <2>3. Keeps(t, rows)
    BY <2>2 DEF Keeps
  <2>4. pass' = [pass EXCEPT ![p] = t] /\ rows' = rows
    BY <1>8, <2>1 DEF Begin
  <2> QED
    BY <2>3, <2>4, SessionKeeps
<1>9. ASSUME NEW p \in Passes, Abort(p) PROVE KeptInv'
  <2>1. Keeps(PassIdle, rows)
    BY <1>4 DEF Keeps
  <2>2. pass' = [pass EXCEPT ![p] = PassIdle] /\ rows' = rows
    BY <1>9 DEF Abort, Becomes
  <2> QED
    BY <2>1, <2>2, SessionKeeps
<1>10. ASSUME NEW p \in Passes, Commit(p) PROVE KeptInv'
  <2>1. pass' = [Disturbed EXCEPT ![p] = PassIdle] /\ DOMAIN Disturbed = Passes
    BY <1>10 DEF Commit, Disturbed
  <2>2. pass'[p] = PassIdle /\ \A q \in Passes \ {p} : pass'[q] = Disturbed[q]
    BY <2>1
  <2>3. \A q \in Passes : Keeps(pass'[q], rows')
    BY <1>4, <2>2, DisturbedKeeps DEF Keeps
  <2> QED
    BY <2>3 DEF KeptInv
<1>11. ASSUME NEW p \in Passes, Opening(p) \/ Reconcile(p) PROVE KeptInv'
  BY <1>11, OpeningKept, ReconcileKept
<1>12. ASSUME NEW p \in Passes, NEW a \in Accounts, Fetch(p, a) PROVE KeptInv'
  BY <1>12, FetchKept
<1>13. ASSUME NEW p \in Passes, NEW e \in Exts, NEW st \in {"pending", "posted"}, Item(p, e, st) PROVE KeptInv'
  BY <1>13, ItemKept
<1> QED
  BY <1>2, <1>3, <1>6, <1>7, <1>8, <1>9, <1>10, <1>11, <1>12, <1>13 DEF Next, Changing, Reading

(* Where reports the matching cannot tell apart are of one operation, an *)
(* undisturbed pass leaves a row for every posted operation it read: for *)
(* any number of passes and accounts, whatever rows it renames, pairs or *)
(* deletes, and whatever other passes did before it began.               *)
THEOREM NoOperationIsLost ==
  ASSUME OpsApart
  PROVE  Spec => PostedAreKept
<1> DEFINE Kept == \A p \in Passes : Commit(p) /\ pass[p].calm =>
                     \A e \in pass[p].seen : \E i \in DOMAIN rows' : /\ rows'[i].op = OpOf[e]
                                                                     /\ rows'[i].acct[1] = AcctOf[e]
<1>1. Init => KeptInv
  BY DEF Init, KeptInv, Keeps, InFlight, PassIdle
<1>2. IInv /\ TypeInv /\ KeptInv /\ [Next]_vars => KeptInv'
  BY NextKept
<1>3. IInv /\ TypeInv /\ KeptInv /\ TypeInv' => Kept
  <2> SUFFICES ASSUME IInv, TypeInv, KeptInv, TypeInv', NEW p \in Passes, Commit(p), pass[p].calm,
                      NEW e \in pass[p].seen
               PROVE  \E i \in DOMAIN rows' : rows'[i].op = OpOf[e] /\ rows'[i].acct[1] = AcctOf[e]
    OBVIOUS
  <2>1. pass[p].pc = "ready" /\ InFlight(pass[p]) /\ pass[p].items = {}
    BY DEF Commit, InFlight, TypeInv, TrueReports
  <2>2. Stands(Outcome(pass[p], rows), e)
    BY <2>1 DEF KeptInv, Keeps
  <2>3. DOMAIN rows' = Outcome(pass[p], rows)
    BY DEF Commit, Outcome
  <2>4. PICK i \in DOMAIN rows' : AcctOf[i[2]] = AcctOf[e] /\ OpOf[i[2]] = OpOf[e]
    BY <2>2, <2>3 DEF Stands
  <2>5. TrueRow(i, rows'[i])
    BY <2>4 DEF TypeInv, TrueRows
  <2>6. rows'[i].op = OpOf[i[2]] /\ rows'[i].acct[1] = AcctOf[i[2]]
    BY <2>5, RowOp DEF TrueRow
  <2> QED
    BY <2>4, <2>6
<1> HIDE DEF Kept
<1>4. Spec => [][Kept]_vars
  BY <1>1, <1>2, <1>3, IInvHolds, TypeInvHolds, PTL DEF Spec
<1> QED
  BY <1>4 DEF PostedAreKept, Kept
-----------------------------------------------------------------------------
(* One operation has one row, when one pass is in flight at a time and nobody *)
(* enters rows by hand.                                                       *)

(* The bank reports an operation under each of its ids alike, but for phantoms. *)
TwinsAlike ==
  \A e, f \in Exts \ Phantoms : OpOf[e] = OpOf[f] =>
     AcctOf[e] = AcctOf[f] /\ SideOf[e] = SideOf[f] /\ DayOf[e] = DayOf[f]

(* The provider posted the operation twice. *)
Twice(fd, o) ==
  \E e, f \in Exts : e # f /\ OpOf[e] = o /\ OpOf[f] = o /\ fd[e] = "posted" /\ fd[f] = "posted"

(* What holds of an id that was reported pending: if the operation is reported under another id *)
(* as well, it was not under this one that it posted.                                           *)
WasPending(fd, e) ==
  fd[e] # "unseen" /\ \A f \in Twins(e) : fd[f] # "unseen" => fd[e] # "posted" \/ Twice(fd, OpOf[e])

Told(fd, e, st) == IF st = "posted" THEN fd[e] = "posted" ELSE WasPending(fd, e)

FeedFits(fd) ==
  /\ \A e \in Phantoms : fd[e] # "unseen" => Twice(fd, OpOf[e])
  /\ \A e, f \in Exts : e # f /\ OpOf[e] = OpOf[f] /\ fd[e] # "unseen" /\ fd[f] # "unseen"
                        => (fd[e] = "posted" \/ fd[f] = "posted")

(* The rows of a table: each is the bank's, says what the provider said, and has an account row of its own. *)
Fair(fd, V, acs) ==
  /\ \A i \in DOMAIN V : /\ V[i].source = "sync" /\ fd[i[2]] # "unseen" /\ V[i].acct \in acs
                         /\ Told(fd, V[i].ext, V[i].status)
  /\ \A i, j \in DOMAIN V : i # j /\ OpOf[i[2]] = OpOf[j[2]] => Twice(fd, OpOf[i[2]])

OneEach(acs) == \A a, b \in acs : a[1] = b[1] => a = b

(* What a query of the session sees among these rows. *)
SeenIn(s, rs) ==
  [i \in Outcome(s, rs) |-> IF i \in DOMAIN s.add THEN s.add[i]
                            ELSE IF i \in DOMAIN s.upd THEN Overlay(s.upd[i], rs[i]) ELSE rs[i]]

SessionFair(s, fd, rs, acs) ==
  /\ \A it \in s.items : Told(fd, it[1], it[2])
  /\ Fair(fd, SeenIn(s, rs), acs \cup s.accts)
  /\ OneEach(acs \cup s.accts)
  /\ s.pc = "items" => s.home \in acs \cup s.accts
  /\ \A a \in s.accts : a[1] \notin s.todo

OneInv ==
  /\ FeedFits(feed) /\ Fair(feed, rows, accts) /\ OneEach(accts) /\ manuals = 0
  /\ \A p \in Passes : SessionFair(pass[p], feed, rows, accts)

(* Rows of which some are gone, and others changed in what is nobody's report. *)
Thins(W, V) ==
  DOMAIN V \subseteq DOMAIN W /\ \A i \in DOMAIN V : /\ V[i].ext = W[i].ext /\ V[i].acct = W[i].acct
                                                     /\ V[i].source = W[i].source /\ V[i].status = W[i].status

LEMMA ThinnedIsFair ==
  ASSUME NEW fd, NEW W, NEW acs, Fair(fd, W, acs), NEW V, Thins(W, V), NEW bcs, acs \subseteq bcs
  PROVE  Fair(fd, V, bcs)
BY DEF Fair, Thins

LEMMA SeenIsView ==
  ASSUME NEW s
  PROVE  SeenIn(s, rows) = View(s)
BY DEF SeenIn, View, Outcome
-----------------------------------------------------------------------------
(* What the feed may do takes nothing back. *)
Flows(fd, fe) ==
  /\ \A e \in Exts : (fd[e] = "posted" => fe[e] = "posted") /\ (fd[e] # "unseen" => fe[e] # "unseen")
  /\ \A e \in Exts : WasPending(fd, e) => WasPending(fe, e)
  /\ \A o : Twice(fd, o) => Twice(fe, o)

LEMMA TwiceStays ==
  ASSUME NEW fd, NEW fe, \A e \in Exts : fd[e] = "posted" => fe[e] = "posted", NEW o, Twice(fd, o)
  PROVE  Twice(fe, o)
BY DEF Twice

LEMMA PublishFlows ==
  ASSUME TypeInv, FeedFits(feed), NEW e \in Exts, NEW st \in {"pending", "posted"}, Publish(e, st)
  PROVE  Flows(feed, feed') /\ FeedFits(feed')
<1>1. PICK fd, fe : fd = feed /\ fe = feed'
  OBVIOUS
<1>2. fe[e] = st /\ fd[e] = "unseen" /\ \A f \in Exts \ {e} : fe[f] = fd[f]
  BY <1>1 DEF Publish, TypeInv
<1>3. \A f \in Exts : fd[f] = "posted" => fe[f] = "posted"
  BY <1>2
<1>4. \A o : Twice(fd, o) => Twice(fe, o)
  BY <1>3, TwiceStays
<1>5. FeedFits(fd)
  BY <1>1
<1>6. \/ e \notin Phantoms /\ \A f \in Twins(e) : fd[f] = "unseen"
      \/ /\ st = "posted" /\ e \notin Phantoms
         /\ \A f \in Twins(e) : fd[f] # "posted"
      \/ st = "posted" /\ Twice(fe, OpOf[e])
  <2>1. CASE st = "posted" /\ \E f \in Twins(e) : fd[f] = "posted"
    <3>1. PICK f \in Exts : f # e /\ OpOf[f] = OpOf[e] /\ fd[f] = "posted"
      BY <2>1 DEF Twins
    <3>2. Twice(fe, OpOf[e])
      BY <1>2, <2>1, <3>1 DEF Twice
    <3> QED
      BY <2>1, <3>2
  <2>2. CASE ~(st = "posted" /\ \E f \in Twins(e) : fd[f] = "posted")
    BY <1>1, <2>2 DEF Publish
  <2> QED
    BY <2>1, <2>2
<1>7. ASSUME NEW g \in Exts, WasPending(fd, g) PROVE WasPending(fe, g)
  <2>1. fd[g] # "unseen" /\ g # e /\ fe[g] = fd[g]
    BY <1>2, <1>7 DEF WasPending
  <2>2. ASSUME NEW f \in Twins(g), fe[f] # "unseen", fe[g] = "posted" PROVE Twice(fe, OpOf[g])
    <3>1. CASE f # e
      <4>1. f \in Exts /\ fd[f] # "unseen"
        BY <1>2, <2>2, <3>1 DEF Twins
      <4> QED
        BY <1>4, <1>7, <2>1, <2>2, <4>1 DEF WasPending
    <3>2. CASE f = e
      <4>1. g \in Twins(e) /\ OpOf[g] = OpOf[e] /\ fd[g] = "posted"
        BY <2>1, <2>2, <3>2 DEF Twins
      <4> QED
        BY <1>6, <4>1
    <3> QED
      BY <3>1, <3>2
  <2> QED
    BY <2>1, <2>2 DEF WasPending
<1>8. Flows(fd, fe)
  BY <1>2, <1>3, <1>4, <1>7 DEF Flows
<1>9. \A f \in Phantoms : fe[f] # "unseen" => Twice(fe, OpOf[f])
  <2> SUFFICES ASSUME NEW f \in Phantoms, fe[f] # "unseen" PROVE Twice(fe, OpOf[f])
    OBVIOUS
  <2>1. f \in Exts
    BY DataAssumption
  <2>2. CASE f = e
    BY <1>6, <2>2
  <2>3. CASE f # e
    BY <1>2, <1>4, <1>5, <2>1, <2>3 DEF FeedFits
  <2> QED
    BY <2>2, <2>3
<1>10. ASSUME NEW f \in Exts, NEW g \in Exts, f # g, OpOf[f] = OpOf[g], fe[f] # "unseen", fe[g] # "unseen"
       PROVE  fe[f] = "posted" \/ fe[g] = "posted"
  <2>1. CASE f # e /\ g # e
    <3>1. fe[f] = fd[f] /\ fe[g] = fd[g]
      BY <1>2, <2>1
    <3> QED
      BY <1>5, <1>10, <3>1 DEF FeedFits
  <2>2. CASE st = "posted"
    BY <1>2, <1>10, <2>1, <2>2
  <2>3. CASE st # "posted" /\ (f = e \/ g = e)
    <3>1. \A h \in Twins(e) : fd[h] = "unseen"
      BY <1>6, <2>3
    <3>2. PICK h \in {f, g} : h # e
      BY <1>10, <2>3
    <3>3. h \in Twins(e) /\ fe[h] = fd[h]
      BY <1>2, <1>10, <2>3, <3>2 DEF Twins
    <3> QED
      BY <1>10, <3>1, <3>2, <3>3
  <2> QED
    BY <2>1, <2>2, <2>3
<1>11. FeedFits(fe)
  BY <1>9, <1>10 DEF FeedFits
<1> QED
  BY <1>1, <1>8, <1>11

LEMMA SettleFlows ==
  ASSUME TypeInv, FeedFits(feed), NEW e \in Exts, Settle(e)
  PROVE  Flows(feed, feed') /\ FeedFits(feed')
<1>1. PICK fd, fe : fd = feed /\ fe = feed'
  OBVIOUS
<1>2. /\ fd[e] = "pending" /\ \A f \in Exts \ {e} : fe[f] = fd[f]
      /\ \/ fe[e] = "posted" /\ \A f \in Twins(e) : fd[f] # "posted"
         \/ fe[e] = "gone"
  BY <1>1 DEF Settle, TypeInv
<1>3. \A f \in Exts : fd[f] = "posted" => fe[f] = "posted"
  BY <1>2
<1>4. \A o : Twice(fd, o) => Twice(fe, o)
  BY <1>3, TwiceStays
<1>5. FeedFits(fd)
  BY <1>1
<1>6. \A f \in Exts : fd[f] # "unseen" <=> fe[f] # "unseen"
  BY <1>2
<1>7. \A f \in Twins(e) : f \in Exts /\ f # e /\ OpOf[f] = OpOf[e]
  BY DEF Twins
<1>8. \A f \in Twins(e) : fe[f] # "unseen" => fd[f] = "posted" /\ fe[f] = "posted"
  BY <1>2, <1>5, <1>6, <1>7 DEF FeedFits
<1>9. ASSUME NEW g \in Exts, WasPending(fd, g) PROVE WasPending(fe, g)
  <2>1. fe[g] # "unseen"
    BY <1>6, <1>9 DEF WasPending
  <2>2. ASSUME NEW f \in Twins(g), fe[f] # "unseen", fe[g] = "posted" PROVE Twice(fe, OpOf[g])
    <3>1. f \in Exts /\ fd[f] # "unseen"
      BY <1>6, <2>2 DEF Twins
    <3>2. CASE g = e
      BY <1>2, <1>8, <2>2, <3>2
    <3>3. CASE g # e
      BY <1>2, <1>4, <1>9, <2>2, <3>1, <3>3 DEF WasPending
    <3> QED
      BY <3>2, <3>3
  <2> QED
    BY <2>1, <2>2 DEF WasPending
<1>10. Flows(fd, fe)
  BY <1>3, <1>4, <1>6, <1>9 DEF Flows
<1>11. \A f \in Phantoms : fe[f] # "unseen" => Twice(fe, OpOf[f])
  BY <1>4, <1>5, <1>6, DataAssumption DEF FeedFits
<1>12. ASSUME NEW f \in Exts, NEW g \in Exts, f # g, OpOf[f] = OpOf[g], fe[f] # "unseen", fe[g] # "unseen"
       PROVE  fe[f] = "posted" \/ fe[g] = "posted"
  <2>1. CASE f # e /\ g # e
    <3>1. fe[f] = fd[f] /\ fe[g] = fd[g]
      BY <1>2, <2>1
    <3> QED
      BY <1>5, <1>12, <3>1 DEF FeedFits
  <2>2. CASE f = e
    BY <1>8, <1>12, <2>2 DEF Twins
  <2>3. CASE g = e
    BY <1>8, <1>12, <2>3 DEF Twins
  <2> QED
    BY <2>1, <2>2, <2>3
<1>13. FeedFits(fe)
  BY <1>11, <1>12 DEF FeedFits
<1> QED
  BY <1>1, <1>10, <1>13

(* What the queries of a session see, column by column. *)
Sees(V, s) ==
  /\ DOMAIN V = (DOMAIN rows \cup DOMAIN s.add) \ s.del
  /\ \A i \in DOMAIN V : \/ i \in DOMAIN s.add /\ V[i] = s.add[i]
                         \/ i \notin DOMAIN s.add /\ i \in DOMAIN s.upd /\ V[i] = Overlay(s.upd[i], rows[i])
                         \/ i \notin DOMAIN s.add /\ i \notin DOMAIN s.upd /\ V[i] = rows[i]

LEMMA ViewSees ==
  ASSUME NEW s
  PROVE  Sees(View(s), s)
<1>1. PICK V : V = View(s)
  OBVIOUS
<1>2. /\ DOMAIN V = (DOMAIN rows \cup DOMAIN s.add) \ s.del
      /\ \A i \in DOMAIN V :
            /\ i \in DOMAIN s.add => V[i] = s.add[i]
            /\ i \notin DOMAIN s.add /\ i \in DOMAIN s.upd => V[i] = Overlay(s.upd[i], rows[i])
            /\ i \notin DOMAIN s.add /\ i \notin DOMAIN s.upd => V[i] = rows[i]
  BY <1>1, ViewIs
<1>3. Sees(V, s)
  BY <1>2 DEF Sees
<1> QED
  BY <1>1, <1>3

(* Columns that a session sets are seen by its queries at once. *)
LEMMA PutSeen ==
  ASSUME NEW s, DOMAIN s = PassColumns, NEW i \in DOMAIN View(s), NEW columns, NEW t, t = Put(s, i, columns)
  PROVE  /\ DOMAIN View(t) = DOMAIN View(s)
         /\ View(t)[i] = Overlay(columns, View(s)[i])
         /\ \A j \in DOMAIN View(s) : j # i => View(t)[j] = View(s)[j]
<1>1. PICK V, W : V = View(s) /\ W = View(t)
  OBVIOUS
<1>2. Sees(V, s) /\ Sees(W, t) /\ i \in DOMAIN V
  BY <1>1, ViewSees
<1>3. DOMAIN t.add = DOMAIN s.add /\ t.del = s.del
  BY PutOutcome
<1>4. DOMAIN W = DOMAIN V
  BY <1>2, <1>3 DEF Sees
<1>5. W[i] = Overlay(columns, V[i]) /\ \A j \in DOMAIN V : j # i => W[j] = V[j]
  <2>1. CASE i \in DOMAIN s.add
    <3>1. PICK add, u : add = With(s.add, i, Overlay(columns, s.add[i])) /\ u = [s EXCEPT !.add = add]
      OBVIOUS
    <3>2. t = u
      BY <2>1, <3>1 DEF Put
    <3>3. t.add = add /\ t.upd = s.upd
      BY <3>1, <3>2 DEF PassColumns
    <3>4. /\ DOMAIN add = DOMAIN s.add /\ add[i] = Overlay(columns, s.add[i])
          /\ \A j \in DOMAIN s.add : j # i => add[j] = s.add[j]
      BY <2>1, <3>1 DEF With
    <3>5. W[i] = add[i] /\ V[i] = s.add[i]
      BY <1>2, <1>4, <2>1, <3>3, <3>4 DEF Sees
    <3>6. ASSUME NEW j \in DOMAIN V, j # i PROVE W[j] = V[j]
      BY <1>2, <1>4, <3>3, <3>4, <3>6 DEF Sees
    <3> QED
      BY <3>4, <3>5, <3>6
  <2>2. CASE i \notin DOMAIN s.add
    <3>1. PICK old : old = IF i \in DOMAIN s.upd THEN s.upd[i] ELSE <<>>
      OBVIOUS
    <3>2. PICK set, upd, u : /\ set = Overlay(columns, old) /\ upd = With(s.upd, i, set)
                             /\ u = [s EXCEPT !.upd = upd]
      OBVIOUS
    <3>3. t = u
      BY <2>2, <3>1, <3>2 DEF Put
    <3>4. t.add = s.add /\ t.upd = upd
      BY <3>2, <3>3 DEF PassColumns
    <3>5. /\ DOMAIN upd = DOMAIN s.upd \cup {i} /\ upd[i] = set
          /\ \A j \in DOMAIN s.upd : j # i => upd[j] = s.upd[j]
      BY <3>2 DEF With
    <3>6. W[i] = Overlay(set, rows[i])
      BY <1>2, <1>4, <2>2, <3>4, <3>5 DEF Sees
    <3>7. Overlay(set, rows[i]) = Overlay(columns, V[i])
      <4>1. CASE i \in DOMAIN s.upd
        <5>1. V[i] = Overlay(old, rows[i])
          BY <1>2, <2>2, <3>1, <4>1 DEF Sees
        <5>2. Overlay(Overlay(columns, old), rows[i]) = Overlay(columns, Overlay(old, rows[i]))
          BY DEF Overlay
        <5> QED
          BY <3>2, <5>1, <5>2
      <4>2. CASE i \notin DOMAIN s.upd
        <5>1. V[i] = rows[i]
          BY <1>2, <2>2, <4>2 DEF Sees
        <5>2. old = <<>> /\ DOMAIN <<>> = {}
          BY <3>1, <4>2
        <5>3. DOMAIN set = DOMAIN columns /\ \A c \in DOMAIN columns : set[c] = columns[c]
          BY <3>2, <5>2 DEF Overlay
        <5>4. Overlay(set, rows[i]) = Overlay(columns, rows[i])
          BY <5>3 DEF Overlay
        <5> QED
          BY <5>1, <5>4
      <4> QED
        BY <4>1, <4>2
    <3>8. ASSUME NEW j \in DOMAIN V, j # i PROVE W[j] = V[j]
      BY <1>2, <1>4, <3>4, <3>5, <3>8 DEF Sees
    <3> QED
      BY <3>6, <3>7, <3>8
  <2> QED
    BY <2>1, <2>2
<1> QED
  BY <1>1, <1>4, <1>5

(* The row a report gets of its own. *)
Reported(s, e, st) ==
  [ext |-> e, acct |-> s.home, day |-> DayOf[e], side |-> SideOf[e],
   status |-> st, source |-> "sync", ignored |-> FALSE, pair |-> {},
   op |-> OpOf[e], span |-> <<s.begin, s.begin>>]

LEMMA InsertSeen ==
  ASSUME NEW s, DOMAIN s = PassColumns, s.del = {}, NEW e, NEW st, NEW t, t = Insert(s, e, st),
         NEW i, i = <<s.begin, e>>, NEW row, row = Reported(s, e, st)
  PROVE  /\ DOMAIN View(t) = DOMAIN View(s) \cup {i} /\ View(t)[i] = row
         /\ \A j \in DOMAIN View(s) : j # i => View(t)[j] = View(s)[j]
<1>2. PICK add : add = With(s.add, i, row)
  OBVIOUS
<1>3. t = [s EXCEPT !.add = add]
  BY <1>2 DEF Insert, Reported
<1>4. t.add = add /\ t.upd = s.upd /\ t.del = {}
  BY <1>3 DEF PassColumns
<1>5. /\ DOMAIN add = DOMAIN s.add \cup {i} /\ add[i] = row
      /\ \A j \in DOMAIN s.add : j # i => add[j] = s.add[j]
  BY <1>2 DEF With
<1>6. PICK V, W : V = View(s) /\ W = View(t)
  OBVIOUS
<1>7. Sees(V, s) /\ Sees(W, t)
  BY <1>6, ViewSees
<1>8. DOMAIN W = DOMAIN V \cup {i}
  BY <1>4, <1>5, <1>7 DEF Sees
<1>9. W[i] = row
  BY <1>4, <1>5, <1>7, <1>8 DEF Sees
<1>10. ASSUME NEW j \in DOMAIN V, j # i PROVE W[j] = V[j]
  BY <1>4, <1>5, <1>7, <1>8, <1>10 DEF Sees
<1>11. DOMAIN View(t) = DOMAIN View(s) \cup {i} /\ View(t)[i] = row
  BY <1>6, <1>8, <1>9
<1>12. \A j \in DOMAIN View(s) : j # i => View(t)[j] = View(s)[j]
  BY <1>6, <1>10
<1> QED
  BY <1>11, <1>12

(* Columns that say what the provider said of an id. *)
LEMMA PutFair ==
  ASSUME NEW s, Typed(s), NEW acs, Fair(feed, View(s), acs), NEW i \in DOMAIN View(s), NEW columns,
         TrueChange(i, columns), NEW e \in Exts, feed[e] = "posted",
         "status" \in DOMAIN columns, columns.status = "posted",
         "ext" \in DOMAIN columns => columns.ext = e,
         "ext" \notin DOMAIN columns => View(s)[i].ext = e
  PROVE  Fair(feed, View(Put(s, i, columns)), acs)
<1>1. PICK t : t = Put(s, i, columns)
  OBVIOUS
<1>2. PICK V, W : V = View(s) /\ W = View(t)
  OBVIOUS
<1>3. DOMAIN s = PassColumns
  BY DEF Typed
<1>4. DOMAIN W = DOMAIN V /\ W[i] = Overlay(columns, V[i]) /\ \A j \in DOMAIN V : j # i => W[j] = V[j]
  BY <1>1, <1>2, <1>3, PutSeen
<1>5. TrueRow(i, V[i]) /\ DOMAIN V[i] = RowColumns
  <2>1. TrueRow(i, V[i])
    BY <1>2, ViewTrue DEF Typed
  <2> QED
    BY <2>1, RowHas DEF TrueRow
<1>6. PICK q : q = Overlay(columns, V[i])
  OBVIOUS
<1>7. \A c \in RowColumns : q[c] = IF c \in DOMAIN columns THEN columns[c] ELSE V[i][c]
  BY <1>5, <1>6 DEF Overlay
<1>8. /\ q.ext = e /\ q.status = "posted" /\ q.acct = V[i].acct
      /\ q.source = V[i].source \/ q.source = "sync"
  BY <1>2, <1>7 DEF RowColumns, TrueChange, Settable
<1>9. Told(feed, e, "posted")
  BY DEF Told
<1>10. Fair(feed, W, acs)
  BY <1>2, <1>4, <1>6, <1>8, <1>9 DEF Fair
<1> QED
  BY <1>1, <1>2, <1>10

(* What a step of a session leaves of what is not its writes. *)
SameRest(s, t) ==
  /\ t.items = s.items /\ t.pc = s.pc /\ t.home = s.home /\ t.accts = s.accts /\ t.todo = s.todo
  /\ t.del = s.del

LEMMA PutRest ==
  ASSUME NEW s, DOMAIN s = PassColumns, NEW i, NEW columns
  PROVE  SameRest(s, Put(s, i, columns))
<1>1. PICK add, upd : add = With(s.add, i, Overlay(columns, s.add[i]))
                      /\ upd = With(s.upd, i, Overlay(columns, IF i \in DOMAIN s.upd THEN s.upd[i] ELSE <<>>))
  OBVIOUS
<1>2. Put(s, i, columns) = [s EXCEPT !.add = add] \/ Put(s, i, columns) = [s EXCEPT !.upd = upd]
  BY <1>1 DEF Put
<1> QED
  BY <1>2 DEF SameRest, PassColumns

(* A report that the matching finds no row for has none. *)
LEMMA UnmatchedIsNew ==
  ASSUME OpsApart, TwinsAlike, FeedFits(feed), NEW s, Typed(s), NEW acs, OneEach(acs),
         Fair(feed, View(s), acs), s.home \in acs, NEW e \in Exts, s.home[1] = AcctOf[e],
         NEW st \in {"pending", "posted"}, Told(feed, e, st),
         SameExt(s, e) = {}, SyncedTwins(s, e, st) = {},
         NEW j \in DOMAIN View(s), OpOf[j[2]] = OpOf[e]
  PROVE  Twice(feed, OpOf[e])
<1>1. PICK V : V = View(s)
  OBVIOUS
<1>2. TrueRow(j, V[j]) /\ j \in DOMAIN V
  BY <1>1, ViewTrue DEF Typed
<1>3. V[j].source = "sync" /\ feed[j[2]] # "unseen" /\ V[j].acct \in acs /\ Told(feed, V[j].ext, V[j].status)
  BY <1>1 DEF Fair
<1>4. PICK f : f = V[j].ext
  OBVIOUS
<1>5. f # NoExt
  BY <1>2, <1>3, <1>4 DEF TrueRow
<1>6. j[2] \in Exts /\ OpOf[f] = OpOf[e]
  BY <1>2, <1>4, <1>5, RowOp
<1>7. f \in Exts
  BY <1>2, <1>4, <1>5 DEF TrueRow, Matches
<1>8. feed[e] # "unseen" /\ feed[f] # "unseen"
  BY <1>3, <1>4 DEF Told, WasPending
<1>9. CASE e \in Phantoms \/ j[2] \in Phantoms
  BY <1>3, <1>8, <1>9 DEF FeedFits
<1>10. CASE e \notin Phantoms /\ j[2] \notin Phantoms
  <2>1. AcctOf[j[2]] = AcctOf[e] /\ SideOf[j[2]] = SideOf[e] /\ DayOf[j[2]] = DayOf[e]
    BY <1>6, <1>10 DEF TwinsAlike
  <2>2. V[j].acct[1] = s.home[1] /\ V[j].day = DayOf[e] /\ V[j].side = SideOf[e]
    BY <1>2, <2>1 DEF TrueRow
  <2>3. V[j].acct = s.home
    BY <1>3, <2>2 DEF OneEach
  <2>4. j \in InHome(s)
    BY <1>1, <2>3 DEF InHome
  <2>5. f # e
    BY <1>1, <1>4, <2>4 DEF SameExt
  <2>6. V[j].status = st
    BY <1>1, <1>3, <1>4, <2>2, <2>4, <2>5 DEF SyncedTwins
  <2>7. f \in Twins(e) /\ e \in Twins(f)
    BY <1>6, <1>7, <2>5 DEF Twins
  <2>8. CASE st = "posted"
    <3>1. feed[e] = "posted" /\ feed[f] = "posted"
      BY <1>3, <1>4, <2>6, <2>8 DEF Told
    <3> QED
      BY <1>6, <1>7, <2>5, <3>1 DEF Twice
  <2>9. CASE st = "pending"
    <3>1. WasPending(feed, e) /\ WasPending(feed, f)
      BY <1>3, <1>4, <2>6, <2>9 DEF Told
    <3>2. feed[e] = "posted" \/ feed[f] = "posted"
      BY <1>6, <1>7, <1>8, <2>5 DEF FeedFits
    <3> QED
      BY <1>6, <1>8, <2>7, <3>1, <3>2 DEF WasPending
  <2> QED
    BY <2>8, <2>9
<1> QED
  BY <1>9, <1>10

(* A report, matched or not, leaves the rows fair. *)
LEMMA MatchFair ==
  ASSUME OpsApart, TwinsAlike, FeedFits(feed), NEW s, Typed(s), s.del = {}, NEW acs, OneEach(acs),
         Fair(feed, View(s), acs), s.home \in acs, NEW e \in Exts, s.home[1] = AcctOf[e],
         NEW st \in {"pending", "posted"}, Told(feed, e, st), NEW t,
         IF SameExt(s, e) # {} THEN t = ByExt(s, e, st)
         ELSE IF ManualMatches(s, e) # {} THEN \E i \in ManualMatches(s, e) : t = ByManual(s, i, e)
         ELSE IF SyncedTwins(s, e, st) # {} THEN \E i \in SyncedTwins(s, e, st) : t = ByTwin(s, i, e, st)
         ELSE t = Insert(s, e, st)
  PROVE  Fair(feed, View(t), acs) /\ SameRest(s, t)
<1>1. DOMAIN s = PassColumns
  BY DEF Typed
<1>2. SameRest(s, s)
  BY DEF SameRest
<1>3. CASE SameExt(s, e) # {} /\ t = ByExt(s, e, st)
  <2>1. PICK i : i = Oldest(SameExt(s, e))
    OBVIOUS
  <2>2. \A k \in SameExt(s, e) : k \in InHome(s) /\ k[1] \in Nat
    BY InHomeTrue DEF SameExt
  <2>3. i \in SameExt(s, e)
    BY <1>3, <2>1, <2>2, OldestIs
  <2>4. i \in DOMAIN View(s) /\ i \in Ids /\ View(s)[i].ext = e
    BY <2>2, <2>3, InHomeTrue DEF SameExt
  <2>5. TrueChange(i, [status |-> "posted"])
    BY <2>4 DEF TrueChange, Settable
  <2>6. t = s \/ (st = "posted" /\ t = Put(s, i, [status |-> "posted"]))
    BY <1>3, <2>1 DEF ByExt
  <2>7. CASE st = "posted" /\ t = Put(s, i, [status |-> "posted"])
    <3>1. feed[e] = "posted"
      BY <2>7 DEF Told
    <3>2. Fair(feed, View(Put(s, i, [status |-> "posted"])), acs)
      BY <2>4, <2>5, <3>1, PutFair
    <3> QED
      BY <1>1, <2>7, <3>2, PutRest
  <2> QED
    BY <1>2, <2>6, <2>7
<1>4. ManualMatches(s, e) = {}
  <2>1. \A i \in InHome(s) : View(s)[i].source = "sync"
    BY DEF InHome, Fair
  <2> QED
    BY <2>1 DEF ManualMatches
<1>5. ASSUME NEW i \in SyncedTwins(s, e, st), t = ByTwin(s, i, e, st)
      PROVE  Fair(feed, View(t), acs) /\ SameRest(s, t)
  <2>1. i \in InHome(s) /\ View(s)[i].side = SideOf[e] /\ View(s)[i].day = DayOf[e]
    BY DEF SyncedTwins
  <2>2. /\ i \in DOMAIN View(s) /\ i \in Ids /\ AcctOf[i[2]] = AcctOf[e]
        /\ SideOf[i[2]] = SideOf[e] /\ DayOf[i[2]] = DayOf[e]
    BY <2>1, InHomeTrue DEF TrueRow
  <2>3. Matches(i, e)
    BY <2>2, DataAssumption DEF Matches, Within, Apart
  <2>4. PICK columns : columns = [status |-> "posted", ext |-> e, op |-> OpOf[e]]
    OBVIOUS
  <2>5. TrueChange(i, columns)
    BY <2>2, <2>3, <2>4 DEF TrueChange, Settable
  <2>6. t = s \/ (st = "posted" /\ t = Put(s, i, columns))
    BY <1>5, <2>4 DEF ByTwin
  <2>7. CASE st = "posted" /\ t = Put(s, i, columns)
    <3>1. feed[e] = "posted"
      BY <2>7 DEF Told
    <3>2. Fair(feed, View(Put(s, i, columns)), acs)
      BY <2>2, <2>4, <2>5, <3>1, PutFair
    <3> QED
      BY <1>1, <2>7, <3>2, PutRest
  <2> QED
    BY <1>2, <2>6, <2>7
<1>6. CASE SameExt(s, e) = {} /\ SyncedTwins(s, e, st) = {} /\ t = Insert(s, e, st)
  <2>1. PICK i, row : i = <<s.begin, e>> /\ row = Reported(s, e, st)
    OBVIOUS
  <2>2. PICK V, W : V = View(s) /\ W = View(t)
    OBVIOUS
  <2>3. i[2] = e /\ DOMAIN W = DOMAIN V \cup {i} /\ W[i] = row /\ \A j \in DOMAIN V : j # i => W[j] = V[j]
    BY <1>1, <1>6, <2>1, <2>2, InsertSeen
  <2>4. \A j \in DOMAIN V : OpOf[j[2]] = OpOf[e] => Twice(feed, OpOf[e])
    BY <1>6, <2>2, UnmatchedIsNew
  <2>5. feed[e] # "unseen"
    BY DEF Told, WasPending
  <2>6. row.source = "sync" /\ row.ext = e /\ row.status = st /\ row.acct = s.home
    BY <2>1 DEF Reported
  <2>7. \A k \in DOMAIN W : /\ W[k].source = "sync" /\ feed[k[2]] # "unseen" /\ W[k].acct \in acs
                            /\ Told(feed, W[k].ext, W[k].status)
    BY <2>2, <2>3, <2>5, <2>6 DEF Fair
  <2>8. ASSUME NEW k \in DOMAIN W, NEW l \in DOMAIN W, k # l, OpOf[k[2]] = OpOf[l[2]]
        PROVE  Twice(feed, OpOf[k[2]])
    <3>1. CASE k \in DOMAIN V /\ l \in DOMAIN V
      BY <2>2, <2>8, <3>1 DEF Fair
    <3>2. CASE ~(k \in DOMAIN V /\ l \in DOMAIN V)
      BY <2>3, <2>4, <2>8, <3>2
    <3> QED
      BY <3>1, <3>2
  <2>9. Fair(feed, W, acs)
    BY <2>7, <2>8 DEF Fair
  <2>10. PICK add : add = With(s.add, i, row)
    OBVIOUS
  <2>11. t = [s EXCEPT !.add = add]
    BY <1>6, <2>1, <2>10 DEF Insert, Reported
  <2>12. SameRest(s, t)
    BY <1>1, <2>11 DEF SameRest, PassColumns
  <2> QED
    BY <2>2, <2>9, <2>12
<1> QED
  BY <1>3, <1>4, <1>5, <1>6

(* A step of a session that leaves the rows, the accounts and the feed alone. *)
LEMMA SessionOne ==
  ASSUME IInv, OneInv, NEW p \in Passes, NEW t, SessionFair(t, feed, rows, accts),
         pass' = [pass EXCEPT ![p] = t], UNCHANGED <<feed, rows, accts, manuals>>
  PROVE  OneInv'
<1>1. DOMAIN pass = Passes
  BY DEF IInv
<1>2. pass'[p] = t /\ \A q \in Passes \ {p} : pass'[q] = pass[q]
  BY <1>1
<1> QED
  BY <1>2 DEF OneInv

(* A session that has written nothing. *)
LEMMA FreshFair ==
  ASSUME NEW fd, NEW rs, NEW acs, Fair(fd, rs, acs), OneEach(acs), NEW s,
         s.add = <<>>, s.upd = <<>>, s.del = {}, s.accts = {}, s.items = {}, s.pc # "items"
  PROVE  SessionFair(s, fd, rs, acs)
<1>1. DOMAIN <<>> = {}
  OBVIOUS
<1>2. PICK V : V = SeenIn(s, rs)
  OBVIOUS
<1>3. DOMAIN V = DOMAIN rs /\ \A i \in DOMAIN V : V[i] = rs[i]
  BY <1>1, <1>2 DEF SeenIn, Outcome
<1>4. Fair(fd, V, acs)
  BY <1>3 DEF Fair
<1>5. acs \cup s.accts = acs
  OBVIOUS
<1> QED
  BY <1>2, <1>4, <1>5 DEF SessionFair

LEMMA ItemOne ==
  ASSUME OpsApart, TwinsAlike, IInv, TypeInv, OneInv, NEW p \in Passes, NEW e \in Exts,
         NEW st \in {"pending", "posted"}, Item(p, e, st)
  PROVE  OneInv'
<1>1. PICK s : s = [pass[p] EXCEPT !.items = @ \ {<<e, st>>}]
  OBVIOUS
<1>2. PICK t : /\ Becomes(p, t)
               /\ IF SameExt(s, e) # {} THEN t = ByExt(s, e, st)
                  ELSE IF ManualMatches(s, e) # {} THEN \E i \in ManualMatches(s, e) : t = ByManual(s, i, e)
                  ELSE IF SyncedTwins(s, e, st) # {} THEN \E i \in SyncedTwins(s, e, st) : t = ByTwin(s, i, e, st)
                  ELSE t = Insert(s, e, st)
  BY <1>1 DEF Item
<1>3. /\ Typed(pass[p]) /\ pass[p].pc = "items" /\ <<e, st>> \in pass[p].items
      /\ pass[p].del = {} /\ SessionFair(pass[p], feed, rows, accts) /\ FeedFits(feed)
  BY TypedOf DEF Item, InFlight, IInv, SessionFits, OneInv
<1>4. /\ DOMAIN s = PassColumns /\ s.pc = pass[p].pc /\ s.begin = pass[p].begin
      /\ s.items = pass[p].items \ {<<e, st>>} /\ s.home = pass[p].home /\ s.accts = pass[p].accts
      /\ s.openAdd = pass[p].openAdd /\ s.add = pass[p].add /\ s.upd = pass[p].upd
      /\ s.del = pass[p].del /\ s.todo = pass[p].todo
  BY <1>1, <1>3 DEF Typed, PassColumns
<1>5. Typed(s) /\ s.home \in AcctRows /\ s.home[1] = AcctOf[e]
  BY <1>3, <1>4 DEF Typed, TrueReports, TrueWrites
<1>6. PICK acs : acs = accts \cup s.accts
  OBVIOUS
<1>7. SeenIn(s, rows) = SeenIn(pass[p], rows)
  BY <1>4 DEF SeenIn, Outcome
<1>8. Fair(feed, SeenIn(pass[p], rows), acs)
  BY <1>3, <1>4, <1>6 DEF SessionFair
<1>9. Fair(feed, View(s), acs)
  BY <1>7, <1>8, SeenIsView
<1>10. OneEach(acs) /\ s.home \in acs /\ Told(feed, e, st)
  BY <1>3, <1>4, <1>6 DEF SessionFair
<1>11. Fair(feed, View(t), acs) /\ SameRest(s, t)
  BY <1>2, <1>3, <1>4, <1>5, <1>9, <1>10, MatchFair
<1>12. Fair(feed, SeenIn(t, rows), acs)
  BY <1>11, SeenIsView
<1>13. t.items \subseteq pass[p].items /\ t.accts = pass[p].accts /\ t.todo = pass[p].todo /\ t.home = s.home
       /\ acs = accts \cup t.accts
  BY <1>4, <1>6, <1>11 DEF SameRest
<1>14. SessionFair(t, feed, rows, accts)
  BY <1>3, <1>10, <1>12, <1>13 DEF SessionFair
<1>15. pass' = [pass EXCEPT ![p] = t] /\ UNCHANGED <<feed, rows, accts, manuals>>
  BY <1>2 DEF Becomes
<1> QED
  BY <1>14, <1>15, SessionOne

LEMMA FetchOne ==
  ASSUME IInv, TypeInv, OneInv, NEW p \in Passes, NEW a \in Accounts, Fetch(p, a)
  PROVE  OneInv'
<1> DEFINE s == pass[p]
           found == {r \in accts : r[1] = a}
           home == IF found = {} THEN <<a, p>> ELSE CHOOSE r \in found : TRUE
           items == {<<e, feed[e]>> : e \in
                       {x \in Exts : /\ AcctOf[x] = a
                                     /\ \/ feed[x] = "posted"
                                        \/ feed[x] = "pending" /\ ImportPending}}
           new == IF found = {} THEN s.accts \cup {home} ELSE s.accts
           seen == {it[1] : it \in {x \in items : x[2] = "posted"}}
<1>1. home[1] = a /\ home \in accts \cup new
  <2>1. CASE found = {}
    BY <2>1
  <2>2. CASE found # {}
    <3>1. home \in found
      BY <2>2
    <3> QED
      BY <3>1
  <2> QED
    BY <2>1, <2>2
<1>2. \A it \in items : Told(feed, it[1], it[2])
  <2> SUFFICES ASSUME NEW x \in Exts, feed[x] \in {"posted", "pending"} PROVE Told(feed, x, feed[x])
    OBVIOUS
  <2> QED
    BY DEF Told, WasPending
<1>3. s.pc = "account" /\ a \in s.todo /\ DOMAIN s = PassColumns /\ SessionFair(s, feed, rows, accts)
  BY DEF Fetch, IInv, SessionFits, OneInv
<1>4. OneEach(accts \cup new)
  <2>1. CASE found # {}
    BY <1>3, <2>1 DEF SessionFair
  <2>2. CASE found = {}
    <3>1. \A b \in accts \cup s.accts : b[1] # a
      BY <1>3, <2>2 DEF SessionFair
    <3>2. OneEach(accts \cup s.accts) /\ accts \cup new = accts \cup s.accts \cup {home}
      BY <1>3, <2>2 DEF SessionFair
    <3> HIDE DEF home, new
    <3> QED
      BY <1>1, <3>1, <3>2 DEF OneEach
  <2> QED
    BY <2>1, <2>2
<1>5. \A b \in new : b[1] \notin s.todo \ {a}
  <2>1. \A b \in s.accts : b[1] \notin s.todo
    BY <1>3 DEF SessionFair
  <2> HIDE DEF home
  <2> QED
    BY <1>1, <2>1
<1> HIDE DEF items, home, seen
<1>6. PICK t : t = [s EXCEPT !.pc = "items", !.home = home, !.items = items, !.todo = @ \ {a},
                             !.accts = new, !.seen = @ \cup seen]
  OBVIOUS
<1>7. pass' = [pass EXCEPT ![p] = t] /\ UNCHANGED <<feed, rows, accts, manuals>>
  BY <1>6 DEF Fetch, items, home, seen
<1> HIDE DEF new
<1>8. /\ t.items = items /\ t.add = s.add /\ t.upd = s.upd /\ t.del = s.del /\ t.pc = "items"
      /\ t.home = home /\ t.todo = s.todo \ {a} /\ t.accts = new
  BY <1>3, <1>6 DEF PassColumns
<1>9. SeenIn(t, rows) = SeenIn(s, rows)
  BY <1>8 DEF SeenIn, Outcome
<1>10. s.accts \subseteq new
  BY DEF new
<1>11. Fair(feed, SeenIn(s, rows), accts \cup s.accts)
  BY <1>3 DEF SessionFair
<1>12. Fair(feed, SeenIn(t, rows), accts \cup t.accts)
  <2>1. accts \cup s.accts \subseteq accts \cup t.accts
    BY <1>8, <1>10
  <2> QED
    BY <1>9, <1>11, <2>1 DEF Fair
<1>13. SessionFair(t, feed, rows, accts)
  BY <1>1, <1>2, <1>4, <1>5, <1>8, <1>12 DEF SessionFair
<1> QED
  BY <1>7, <1>13, SessionOne

LEMMA OpeningOne ==
  ASSUME IInv, TypeInv, OneInv, NEW p \in Passes, Opening(p)
  PROVE  OneInv'
<1> DEFINE s == pass[p]
           found == {o \in openings : o[1] = s.home}
<1>1. PICK gap \in Gaps :
        Becomes(p, [s EXCEPT !.pc = IF s.todo = {} THEN "reconcile" ELSE "account",
                             !.openAdd = IF gap /\ found = {} THEN @ \cup {<<s.home, p>>} ELSE @,
                             !.openDel = IF gap THEN @ ELSE @ \cup found])
  BY DEF Opening
<1>2. PICK t : t = [s EXCEPT !.pc = IF s.todo = {} THEN "reconcile" ELSE "account",
                             !.openAdd = IF gap /\ found = {} THEN @ \cup {<<s.home, p>>} ELSE @,
                             !.openDel = IF gap THEN @ ELSE @ \cup found]
  OBVIOUS
<1>3. DOMAIN s = PassColumns /\ SessionFair(s, feed, rows, accts)
  BY DEF IInv, SessionFits, OneInv
<1>4. /\ t.items = s.items /\ t.add = s.add /\ t.upd = s.upd /\ t.del = s.del /\ t.accts = s.accts
      /\ t.todo = s.todo /\ t.pc # "items"
  BY <1>2, <1>3 DEF PassColumns
<1>5. SeenIn(t, rows) = SeenIn(s, rows)
  BY <1>4 DEF SeenIn, Outcome
<1>6. SessionFair(t, feed, rows, accts)
  BY <1>3, <1>4, <1>5 DEF SessionFair
<1>7. pass' = [pass EXCEPT ![p] = t] /\ UNCHANGED <<feed, rows, accts, manuals>>
  BY <1>1, <1>2 DEF Becomes
<1> QED
  BY <1>6, <1>7, SessionOne

(* The pairing and the cleanup report nothing. *)
LEMMA ReconcileThins ==
  ASSUME NEW s, Facts(s), Typed(s), NEW pairs, \A P \in pairs : P \subseteq Ids,
         NEW u, u = Paired(s, pairs), NEW gone, NEW t,
         t.add = Without(u.add, gone), t.upd = Without(u.upd, gone), t.del = gone \ DOMAIN u.add, s.del = {}
  PROVE  /\ Thins(SeenIn(s, rows), SeenIn(t, rows))
         /\ u.items = s.items /\ u.accts = s.accts /\ u.todo = s.todo
<1> DEFINE Marked == UNION pairs
           IdOf(i) == CHOOSE m \in pairs : i \in m
<1>1. PICK add : add = [i \in DOMAIN s.add |-> IF i \in Marked THEN [s.add[i] EXCEPT !.pair = IdOf(i)]
                                               ELSE s.add[i]]
  OBVIOUS
<1>2. PICK upd : upd = [i \in (DOMAIN s.upd \cup Marked) \ DOMAIN s.add |->
                          Overlay(IF i \in Marked THEN [pair |-> IdOf(i)] ELSE <<>>,
                                  IF i \in DOMAIN s.upd THEN s.upd[i] ELSE <<>>)]
  OBVIOUS
<1>3. u = [s EXCEPT !.add = add, !.upd = upd]
  BY <1>1, <1>2 DEF Paired
<1>4. /\ DOMAIN u = PassColumns /\ u.add = add /\ u.upd = upd /\ u.items = s.items
      /\ u.accts = s.accts /\ u.todo = s.todo
  BY <1>3 DEF Typed, PassColumns
<1>5. t.add = Without(add, gone) /\ t.upd = Without(upd, gone) /\ t.del = gone \ DOMAIN add
  BY <1>4
<1> HIDE DEF IdOf, Marked
<1>6. /\ DOMAIN t.add = DOMAIN s.add \ gone /\ \A i \in DOMAIN t.add : t.add[i] = add[i]
      /\ DOMAIN t.upd = DOMAIN upd \ gone /\ \A i \in DOMAIN t.upd : t.upd[i] = upd[i]
      /\ DOMAIN add = DOMAIN s.add
  BY <1>1, <1>5 DEF Without
<1>7. PICK V, W : W = SeenIn(s, rows) /\ V = SeenIn(t, rows)
  OBVIOUS
<1>8. /\ DOMAIN W = DOMAIN rows \cup DOMAIN s.add
      /\ \A i \in DOMAIN W : W[i] = IF i \in DOMAIN s.add THEN s.add[i]
                                    ELSE IF i \in DOMAIN s.upd THEN Overlay(s.upd[i], rows[i]) ELSE rows[i]
  BY <1>7 DEF SeenIn, Outcome
<1>9. /\ DOMAIN V = (DOMAIN rows \cup DOMAIN t.add) \ t.del
      /\ \A i \in DOMAIN V : V[i] = IF i \in DOMAIN t.add THEN t.add[i]
                                    ELSE IF i \in DOMAIN t.upd THEN Overlay(t.upd[i], rows[i]) ELSE rows[i]
  BY <1>7 DEF SeenIn, Outcome
<1>10. DOMAIN V \subseteq DOMAIN W
  BY <1>6, <1>8, <1>9
<1>11. ASSUME NEW i \in DOMAIN V
       PROVE  /\ V[i].ext = W[i].ext /\ V[i].acct = W[i].acct
              /\ V[i].source = W[i].source /\ V[i].status = W[i].status
  <2>1. CASE i \in DOMAIN t.add
    <3>1. V[i] = add[i] /\ W[i] = s.add[i] /\ i \in DOMAIN s.add
      BY <1>6, <1>8, <1>9, <1>10, <2>1
    <3>2. DOMAIN s.add[i] = RowColumns
      BY <3>1 DEF Facts, SessionFits, AddFits
    <3>3. /\ add[i].ext = s.add[i].ext /\ add[i].acct = s.add[i].acct
          /\ add[i].source = s.add[i].source /\ add[i].status = s.add[i].status
      BY <1>1, <3>1, <3>2 DEF RowColumns
    <3> QED
      BY <3>1, <3>3
  <2>2. CASE i \notin DOMAIN t.add
    <3>1. i \in DOMAIN rows
      BY <1>9, <2>2
    <3>2. i \notin DOMAIN s.add
      BY <3>1 DEF Facts, SessionFits, AddFits
    <3>3. i \notin gone
      BY <1>5, <1>6, <1>9, <3>2
    <3>4. DOMAIN rows[i] = RowColumns
      BY <3>1 DEF Facts, RowFits
    <3>5. CASE i \notin DOMAIN upd
      <4>1. i \notin DOMAIN s.upd /\ i \notin DOMAIN t.upd
        BY <1>2, <1>6, <3>2, <3>5
      <4> QED
        BY <1>8, <1>9, <1>10, <2>2, <3>2, <4>1
    <3>6. CASE i \in DOMAIN upd
      <4>1. PICK m, old : /\ m = IF i \in Marked THEN [pair |-> IdOf(i)] ELSE <<>>
                          /\ old = IF i \in DOMAIN s.upd THEN s.upd[i] ELSE <<>>
        OBVIOUS
      <4>2. V[i] = Overlay(Overlay(m, old), rows[i])
        <5>1. upd[i] = Overlay(m, old)
          BY <1>2, <3>6, <4>1
        <5>2. i \in DOMAIN t.upd /\ t.upd[i] = upd[i]
          BY <1>6, <3>3, <3>6
        <5>3. V[i] = Overlay(t.upd[i], rows[i])
          BY <1>9, <2>2, <5>2
        <5> QED
          BY <5>1, <5>2, <5>3
      <4>3. DOMAIN <<>> = {} /\ DOMAIN m \subseteq {"pair"}
        BY <4>1
      <4>4. ASSUME NEW c \in {"ext", "acct", "source", "status"}
            PROVE  V[i][c] = IF c \in DOMAIN old THEN old[c] ELSE rows[i][c]
        BY <3>4, <4>2, <4>3 DEF Overlay, RowColumns
      <4>5. ASSUME NEW c \in {"ext", "acct", "source", "status"}
            PROVE  W[i][c] = IF c \in DOMAIN old THEN old[c] ELSE rows[i][c]
        <5>1. CASE i \in DOMAIN s.upd
          <6>1. W[i] = Overlay(old, rows[i])
            BY <1>8, <1>10, <3>2, <4>1, <5>1
          <6>2. c \in DOMAIN rows[i]
            BY <3>4 DEF RowColumns
          <6> QED
            BY <6>1, <6>2 DEF Overlay
        <5>2. CASE i \notin DOMAIN s.upd
          <6>1. W[i] = rows[i] /\ DOMAIN old = {}
            BY <1>8, <1>10, <3>2, <4>1, <4>3, <5>2
          <6> QED
            BY <6>1
        <5> QED
          BY <5>1, <5>2
      <4> QED
        BY <4>4, <4>5
    <3> QED
      BY <3>5, <3>6
  <2> QED
    BY <2>1, <2>2
<1>12. Thins(W, V)
  BY <1>10, <1>11 DEF Thins
<1> QED
  BY <1>4, <1>7, <1>12

LEMMA ReconcileOne ==
  ASSUME IInv, TypeInv, OneInv, NEW p \in Passes, Reconcile(p)
  PROVE  OneInv'
<1>1. PICK s : s = pass[p]
  OBVIOUS
<1>2. /\ Typed(s) /\ Facts(s) /\ s.pc = "reconcile" /\ s.del = {} /\ s.items = {}
      /\ SessionFair(s, feed, rows, accts)
  <2>1. s.pc = "reconcile" /\ InFlight(s) /\ SessionFair(s, feed, rows, accts)
    BY <1>1 DEF Reconcile, InFlight, OneInv
  <2>2. Typed(s) /\ Facts(s)
    BY <1>1, <2>1, TypedOf, FactsOf
  <2>3. s.del = {} /\ s.items = {}
    BY <2>1, <2>2 DEF Facts, SessionFits, Typed, TrueReports
  <2> QED
    BY <2>1, <2>2, <2>3
<1>3. PICK pairs \in Pairings(View(s), DOMAIN s.add) :
        \E u, gone : /\ u = Paired(s, pairs)
                     /\ Becomes(p, [u EXCEPT !.pc = "ready", !.add = Without(@, gone), !.upd = Without(@, gone),
                                             !.del = gone \ DOMAIN u.add])
  BY <1>1 DEF Reconcile
<1>4. PICK u, gone : /\ u = Paired(s, pairs)
                     /\ Becomes(p, [u EXCEPT !.pc = "ready", !.add = Without(@, gone), !.upd = Without(@, gone),
                                             !.del = gone \ DOMAIN u.add])
  BY <1>3
<1>5. PICK t : t = [u EXCEPT !.pc = "ready", !.add = Without(@, gone), !.upd = Without(@, gone),
                             !.del = gone \ DOMAIN u.add]
  OBVIOUS
<1>6. \A P \in pairs : P \subseteq Ids
  BY <1>2, PairsAreIds
<1>7. /\ Thins(SeenIn(s, rows), SeenIn(t, rows))
      /\ t.pc = "ready" /\ t.items = s.items /\ t.accts = s.accts /\ t.todo = s.todo
  <2>1. Typed(u)
    BY <1>2, <1>4, <1>6, PairedTrue
  <2>2. /\ t.pc = "ready" /\ t.add = Without(u.add, gone) /\ t.upd = Without(u.upd, gone)
        /\ t.del = gone \ DOMAIN u.add /\ t.items = u.items /\ t.accts = u.accts /\ t.todo = u.todo
    BY <1>5, <2>1 DEF Typed, PassColumns
  <2>3. /\ Thins(SeenIn(s, rows), SeenIn(t, rows))
        /\ u.items = s.items /\ u.accts = s.accts /\ u.todo = s.todo
    BY <1>2, <1>4, <1>6, <2>2, ReconcileThins
  <2> QED
    BY <2>2, <2>3
<1>8. Fair(feed, SeenIn(t, rows), accts \cup t.accts)
  <2>1. Fair(feed, SeenIn(s, rows), accts \cup s.accts) /\ accts \cup s.accts \subseteq accts \cup t.accts
    BY <1>2, <1>7 DEF SessionFair
  <2> QED
    BY <1>7, <2>1, ThinnedIsFair
<1>9. SessionFair(t, feed, rows, accts)
  BY <1>2, <1>7, <1>8 DEF SessionFair
<1>10. pass' = [pass EXCEPT ![p] = t] /\ UNCHANGED <<feed, rows, accts, manuals>>
  BY <1>4, <1>5 DEF Becomes
<1> QED
  BY <1>9, <1>10, SessionOne

(* The commit of the one pass in flight keeps what the pass saw. *)
LEMMA CommitOne ==
  ASSUME IInv, TypeInv, OneInv, NEW p, Passes = {p}, Commit(p)
  PROVE  OneInv'
<1>1. PICK s : s = pass[p]
  OBVIOUS
<1>2. p \in Passes /\ Typed(s) /\ SessionFair(s, feed, rows, accts)
  BY <1>1, TypedOf DEF OneInv
<1> DEFINE Stamp(r, fresh) == IF fresh THEN [r EXCEPT !.span = <<s.begin, clock + 1>>] ELSE r
           Kept == (DOMAIN rows \cup DOMAIN s.add) \ s.del
<1>3. rows' = [i \in Kept |->
                 IF i \in DOMAIN s.add THEN Stamp(s.add[i], TRUE)
                 ELSE IF i \in DOMAIN s.upd
                   THEN Stamp(Overlay(s.upd[i], rows[i]), "ext" \in DOMAIN s.upd[i])
                   ELSE rows[i]]
  BY <1>1 DEF Commit
<1>4. PICK W : W = SeenIn(s, rows)
  OBVIOUS
<1>5. /\ DOMAIN W = Kept
      /\ \A i \in Kept : W[i] = IF i \in DOMAIN s.add THEN s.add[i]
                                ELSE IF i \in DOMAIN s.upd THEN Overlay(s.upd[i], rows[i]) ELSE rows[i]
  BY <1>4 DEF SeenIn, Outcome
<1>6. \A i \in DOMAIN W : DOMAIN W[i] = RowColumns
  <2>1. \A i \in DOMAIN W : W[i] \in Row
    BY <1>2, <1>4, SeenIsView, ViewTrue DEF Typed, TrueRow
  <2> QED
    BY <2>1, RowHas
<1>7. \A i \in Kept : rows'[i] = W[i] \/ rows'[i] = [W[i] EXCEPT !.span = <<s.begin, clock + 1>>]
  BY <1>3, <1>5
<1>8. DOMAIN rows' = Kept
  BY <1>3
<1> HIDE DEF Kept, Stamp
<1>9. Thins(W, rows')
  BY <1>5, <1>6, <1>7, <1>8 DEF Thins, RowColumns
<1>10. accts' = accts \cup s.accts /\ feed' = feed /\ manuals' = manuals
  BY <1>1 DEF Commit
<1>11. Fair(feed', rows', accts') /\ OneEach(accts')
  <2>1. Fair(feed, W, accts \cup s.accts) /\ OneEach(accts \cup s.accts)
    BY <1>2, <1>4 DEF SessionFair
  <2>2. Fair(feed, rows', accts \cup s.accts)
    BY <1>9, <2>1, ThinnedIsFair
  <2> QED
    BY <1>10, <2>1, <2>2
<1>12. pass'[p] = PassIdle
  <2>1. DOMAIN Disturbed = Passes /\ pass' = [Disturbed EXCEPT ![p] = PassIdle]
    BY DEF Disturbed, Commit
  <2> QED
    BY <1>2, <2>1
<1>13. SessionFair(PassIdle, feed', rows', accts')
  <2>1. /\ PassIdle.add = <<>> /\ PassIdle.upd = <<>> /\ PassIdle.del = {} /\ PassIdle.accts = {}
        /\ PassIdle.items = {} /\ PassIdle.pc # "items"
    BY DEF PassIdle
  <2> QED
    BY <1>11, <2>1, FreshFair
<1> QED
  BY <1>10, <1>11, <1>12, <1>13 DEF OneInv

(* Rows that thin out thin out under the writes of a session. *)
LEMMA ThinsThrough ==
  ASSUME NEW rs, NEW qs, Thins(rs, qs), \A i \in DOMAIN rs : DOMAIN rs[i] = RowColumns,
         \A i \in DOMAIN qs : DOMAIN qs[i] = RowColumns,
         NEW s, NEW t, t.add = s.add, t.upd = s.upd, t.del = s.del
  PROVE  Thins(SeenIn(s, rs), SeenIn(t, qs))
<1>1. PICK V, W : W = SeenIn(s, rs) /\ V = SeenIn(t, qs)
  OBVIOUS
<1>2. /\ DOMAIN W = (DOMAIN rs \cup DOMAIN s.add) \ s.del
      /\ \A i \in DOMAIN W : W[i] = IF i \in DOMAIN s.add THEN s.add[i]
                                    ELSE IF i \in DOMAIN s.upd THEN Overlay(s.upd[i], rs[i]) ELSE rs[i]
  BY <1>1 DEF SeenIn, Outcome
<1>3. /\ DOMAIN V = (DOMAIN qs \cup DOMAIN s.add) \ s.del
      /\ \A i \in DOMAIN V : V[i] = IF i \in DOMAIN s.add THEN s.add[i]
                                    ELSE IF i \in DOMAIN s.upd THEN Overlay(s.upd[i], qs[i]) ELSE qs[i]
  BY <1>1 DEF SeenIn, Outcome
<1>4. DOMAIN V \subseteq DOMAIN W
  BY <1>2, <1>3 DEF Thins
<1>5. ASSUME NEW i \in DOMAIN V
      PROVE  /\ V[i].ext = W[i].ext /\ V[i].acct = W[i].acct
             /\ V[i].source = W[i].source /\ V[i].status = W[i].status
  <2>1. CASE i \in DOMAIN s.add
    <3>1. V[i] = s.add[i] /\ W[i] = s.add[i]
      BY <1>2, <1>3, <1>4, <2>1
    <3> QED
      BY <3>1
  <2>2. CASE i \notin DOMAIN s.add
    <3>1. /\ i \in DOMAIN qs /\ i \in DOMAIN rs /\ qs[i].ext = rs[i].ext /\ qs[i].acct = rs[i].acct
          /\ qs[i].source = rs[i].source /\ qs[i].status = rs[i].status
          /\ DOMAIN qs[i] = RowColumns /\ DOMAIN rs[i] = RowColumns
      BY <1>3, <2>2 DEF Thins
    <3>2. CASE i \notin DOMAIN s.upd
      <4>1. V[i] = qs[i] /\ W[i] = rs[i]
        BY <1>2, <1>3, <1>4, <2>2, <3>2
      <4> QED
        BY <3>1, <4>1
    <3>3. CASE i \in DOMAIN s.upd
      <4>1. PICK u : u = s.upd[i]
        OBVIOUS
      <4>2. V[i] = Overlay(u, qs[i]) /\ W[i] = Overlay(u, rs[i])
        BY <1>2, <1>3, <1>4, <2>2, <3>3, <4>1
      <4>3. ASSUME NEW c \in {"ext", "acct", "source", "status"} PROVE V[i][c] = W[i][c]
        <5>1. c \in DOMAIN qs[i] /\ c \in DOMAIN rs[i] /\ qs[i][c] = rs[i][c]
          BY <3>1 DEF RowColumns
        <5> QED
          BY <4>2, <5>1 DEF Overlay
      <4> QED
        BY <4>3
    <3> QED
      BY <3>2, <3>3
  <2> QED
    BY <2>1, <2>2
<1>6. Thins(W, V)
  BY <1>4, <1>5 DEF Thins
<1> QED
  BY <1>1, <1>6

LEMMA UserOne ==
  ASSUME IInv, TypeInv, OneInv, Changing
  PROVE  OneInv'
<1>1. pass' = Disturbed /\ feed' = feed /\ accts' = accts /\ manuals' = manuals
  BY ChangingIs
<1>2. \A j \in DOMAIN rows : DOMAIN rows[j] = RowColumns
  BY DEF IInv, RowFits
<1>3. /\ DOMAIN rows' \subseteq DOMAIN rows
      /\ \A j \in DOMAIN rows' : \/ rows'[j] = rows[j]
                                 \/ \E b : rows'[j] = [rows[j] EXCEPT !.ignored = b]
                                 \/ rows'[j] = [rows[j] EXCEPT !.pair = {}]
  BY ChangingIs
<1>4. \A j \in DOMAIN rows' :
        /\ rows'[j].ext = rows[j].ext /\ rows'[j].acct = rows[j].acct /\ rows'[j].source = rows[j].source
        /\ rows'[j].status = rows[j].status /\ DOMAIN rows'[j] = RowColumns
  <2> SUFFICES ASSUME NEW j \in DOMAIN rows'
               PROVE  /\ rows'[j].ext = rows[j].ext /\ rows'[j].acct = rows[j].acct
                      /\ rows'[j].source = rows[j].source /\ rows'[j].status = rows[j].status
                      /\ DOMAIN rows'[j] = RowColumns
    OBVIOUS
  <2>1. PICK r, q : r = rows[j] /\ q = rows'[j]
    OBVIOUS
  <2>2. DOMAIN r = RowColumns
    BY <1>2, <1>3, <2>1
  <2>3. q = r \/ (\E b : q = [r EXCEPT !.ignored = b]) \/ q = [r EXCEPT !.pair = {}]
    BY <1>3, <2>1
  <2>4. q.ext = r.ext /\ q.acct = r.acct /\ q.source = r.source /\ q.status = r.status /\ DOMAIN q = RowColumns
    BY <2>2, <2>3 DEF RowColumns
  <2> QED
    BY <2>1, <2>4
<1>5. PICK qs : qs = rows'
  OBVIOUS
<1>6. Thins(rows, qs)
  BY <1>3, <1>4, <1>5 DEF Thins
<1>7. \A j \in DOMAIN qs : DOMAIN qs[j] = RowColumns
  BY <1>4, <1>5
<1>8. Fair(feed, qs, accts)
  BY <1>6, ThinnedIsFair DEF OneInv
<1>9. ASSUME NEW p \in Passes PROVE SessionFair(pass'[p], feed, qs, accts)
  <2>1. PICK s, t : s = pass[p] /\ t = Disturbed[p]
    OBVIOUS
  <2>2. (t = s \/ t = [s EXCEPT !.calm = FALSE]) /\ DOMAIN s = PassColumns
    BY <2>1 DEF Disturbed, IInv, SessionFits
  <2>3. /\ t.pc = s.pc /\ t.items = s.items /\ t.home = s.home /\ t.accts = s.accts /\ t.todo = s.todo
        /\ t.add = s.add /\ t.upd = s.upd /\ t.del = s.del
    BY <2>2 DEF PassColumns
  <2>4. SessionFair(s, feed, rows, accts)
    BY <2>1 DEF OneInv
  <2>5. Thins(SeenIn(s, rows), SeenIn(t, qs))
    BY <1>2, <1>6, <1>7, <2>3, ThinsThrough
  <2>6. Fair(feed, SeenIn(t, qs), accts \cup t.accts)
    <3>1. Fair(feed, SeenIn(s, rows), accts \cup s.accts) /\ accts \cup s.accts \subseteq accts \cup t.accts
      BY <2>3, <2>4 DEF SessionFair
    <3> QED
      BY <2>5, <3>1, ThinnedIsFair
  <2>7. SessionFair(t, feed, qs, accts)
    BY <2>3, <2>4, <2>6 DEF SessionFair
  <2> QED
    BY <1>1, <2>1, <2>7
<1> QED
  BY <1>1, <1>5, <1>8, <1>9 DEF OneInv

(* What was told stays told. *)
LEMMA ToldStays ==
  ASSUME NEW fd, NEW fe, Flows(fd, fe), NEW e \in Exts, NEW st, Told(fd, e, st)
  PROVE  Told(fe, e, st)
BY DEF Told, Flows

LEMMA FlowsFair ==
  ASSUME NEW fd, NEW fe, Flows(fd, fe), NEW V, \A i \in DOMAIN V : TrueRow(i, V[i]), NEW acs, Fair(fd, V, acs)
  PROVE  Fair(fe, V, acs)
<1>1. ASSUME NEW i \in DOMAIN V
      PROVE  /\ V[i].source = "sync" /\ fe[i[2]] # "unseen" /\ V[i].acct \in acs
             /\ Told(fe, V[i].ext, V[i].status)
  <2>1. /\ V[i].source = "sync" /\ fd[i[2]] # "unseen" /\ V[i].acct \in acs
        /\ Told(fd, V[i].ext, V[i].status)
    BY DEF Fair
  <2>2. i[2] \in Exts
    BY DEF TrueRow, Ids
  <2>3. V[i].ext \in Exts
    BY <2>1 DEF TrueRow, Matches
  <2> QED
    BY <2>1, <2>2, <2>3, ToldStays DEF Flows
<1>2. \A o : Twice(fd, o) => Twice(fe, o)
  BY DEF Flows
<1> QED
  BY <1>1, <1>2 DEF Fair

LEMMA FeedOne ==
  ASSUME IInv, TypeInv, OneInv, Flows(feed, feed'), FeedFits(feed'), UNCHANGED <<accts, rows, pass, manuals>>
  PROVE  OneInv'
<1>1. PICK fe : fe = feed'
  OBVIOUS
<1>2. Flows(feed, fe) /\ FeedFits(fe)
  BY <1>1
<1>3. Fair(fe, rows, accts)
  BY <1>2, FlowsFair DEF OneInv, TypeInv, TrueRows
<1>4. ASSUME NEW p \in Passes PROVE SessionFair(pass[p], fe, rows, accts)
  <2>1. PICK s : s = pass[p]
    OBVIOUS
  <2>2. Typed(s) /\ SessionFair(s, feed, rows, accts)
    BY <2>1, TypedOf DEF OneInv
  <2>3. \A it \in s.items : Told(fe, it[1], it[2])
    <3>1. \A it \in s.items : it[1] \in Exts /\ Told(feed, it[1], it[2])
      BY <2>2 DEF Typed, TrueReports, Reports, SessionFair
    <3> QED
      BY <1>2, <3>1, ToldStays
  <2>4. Fair(fe, SeenIn(s, rows), accts \cup s.accts)
    <3>1. \A i \in DOMAIN View(s) : TrueRow(i, View(s)[i])
      BY <2>2, ViewTrue DEF Typed
    <3>2. Fair(feed, View(s), accts \cup s.accts)
      BY <2>2, SeenIsView DEF SessionFair
    <3>3. Fair(fe, View(s), accts \cup s.accts)
      BY <1>2, <3>1, <3>2, FlowsFair
    <3> QED
      BY <3>3, SeenIsView
  <2> QED
    BY <2>1, <2>2, <2>3, <2>4 DEF SessionFair
<1>5. OneEach(accts) /\ manuals = 0
  BY DEF OneInv
<1> QED
  BY <1>1, <1>2, <1>3, <1>4, <1>5 DEF OneInv

LEMMA NextOne ==
  ASSUME NEW p, Passes = {p}, MaxManual = 0, OpsApart, TwinsAlike
  PROVE  IInv /\ TypeInv /\ OneInv /\ [Next]_vars => OneInv'
<1> SUFFICES ASSUME IInv, TypeInv, OneInv, [Next]_vars PROVE OneInv'
  OBVIOUS
<1>1. CASE UNCHANGED vars
  BY <1>1 DEF vars, OneInv
<1>2. FeedFits(feed) /\ manuals = 0
  BY DEF OneInv
<1>3. ASSUME NEW e \in Exts, Settle(e) \/ \E st \in {"pending", "posted"} : Publish(e, st) PROVE OneInv'
  <2>1. Flows(feed, feed') /\ FeedFits(feed')
    BY <1>2, <1>3, PublishFlows, SettleFlows
  <2>2. UNCHANGED <<accts, rows, pass, manuals>>
    BY <1>3 DEF Settle, Publish
  <2> QED
    BY <2>1, <2>2, FeedOne
<1>4. ASSUME NEW e \in Exts, AddManual(e) PROVE OneInv'
  BY <1>2, <1>4 DEF AddManual
<1>5. ASSUME NEW q \in Passes, Begin(q) PROVE OneInv'
  <2>1. PICK t : t = [PassIdle EXCEPT !.pc = "account", !.begin = clock', !.todo = Accounts]
    OBVIOUS
  <2>2. /\ t.add = <<>> /\ t.upd = <<>> /\ t.del = {} /\ t.accts = {} /\ t.items = {} /\ t.pc # "items"
    BY <2>1 DEF PassIdle
  <2>3. SessionFair(t, feed, rows, accts)
    BY <2>2, FreshFair DEF OneInv
  <2>4. pass' = [pass EXCEPT ![q] = t] /\ UNCHANGED <<feed, rows, accts, manuals>>
    BY <1>5, <2>1 DEF Begin
  <2> QED
    BY <2>3, <2>4, SessionOne
<1>6. ASSUME NEW q \in Passes, Abort(q) PROVE OneInv'
  <2>1. /\ PassIdle.add = <<>> /\ PassIdle.upd = <<>> /\ PassIdle.del = {} /\ PassIdle.accts = {}
        /\ PassIdle.items = {} /\ PassIdle.pc # "items"
    BY DEF PassIdle
  <2>2. SessionFair(PassIdle, feed, rows, accts)
    BY <2>1, FreshFair DEF OneInv
  <2>3. pass' = [pass EXCEPT ![q] = PassIdle] /\ UNCHANGED <<feed, rows, accts, manuals>>
    BY <1>6 DEF Abort, Becomes
  <2> QED
    BY <2>2, <2>3, SessionOne
<1>7. ASSUME NEW q \in Passes, Opening(q) \/ Reconcile(q) \/ Commit(q) PROVE OneInv'
  <2>1. q = p
    OBVIOUS
  <2> QED
    BY <1>7, <2>1, OpeningOne, ReconcileOne, CommitOne
<1>8. ASSUME NEW q \in Passes, NEW a \in Accounts, Fetch(q, a) PROVE OneInv'
  BY <1>8, FetchOne
<1>9. ASSUME NEW q \in Passes, NEW e \in Exts, NEW st \in {"pending", "posted"}, Item(q, e, st) PROVE OneInv'
  BY <1>9, ItemOne
<1>10. CASE Changing
  BY <1>10, UserOne
<1>11. CASE Reading
  BY <1>11, ReadingIs DEF OneInv
<1> QED
  BY <1>1, <1>3, <1>4, <1>5, <1>6, <1>7, <1>8, <1>9, <1>10, <1>11 DEF Next, Changing, Reading

(* With one pass in flight at a time and no rows entered by hand, an operation *)
(* has two synced rows only if the provider posted it twice: for any accounts, *)
(* any number of ids for one operation, any phantoms, whether pending reports  *)
(* are imported or not, and though a pending report posts under a new id       *)
(* between two passes or between the fetch and the matching of one.            *)
THEOREM OneRowEach ==
  ASSUME NEW p, Passes = {p}, MaxManual = 0, OpsApart, TwinsAlike
  PROVE  Spec => []OneRowPerOperation
<1>1. Init => OneInv
  <2> SUFFICES ASSUME Init PROVE OneInv
    OBVIOUS
  <2>1. /\ rows = <<>> /\ DOMAIN rows = {} /\ manuals = 0 /\ \A e \in Exts : feed[e] = "unseen"
        /\ \A q \in Passes : pass[q] = PassIdle
    BY DEF Init
  <2>2. FeedFits(feed)
    BY <2>1, DataAssumption DEF FeedFits
  <2>3. Fair(feed, rows, accts)
    BY <2>1 DEF Fair
  <2>4. OneEach(accts)
    BY DEF Init, OneEach
  <2>5. /\ PassIdle.add = <<>> /\ PassIdle.upd = <<>> /\ PassIdle.del = {} /\ PassIdle.accts = {}
        /\ PassIdle.items = {} /\ PassIdle.pc # "items"
    BY DEF PassIdle
  <2>6. SessionFair(PassIdle, feed, rows, accts)
    BY <2>3, <2>4, <2>5, FreshFair
  <2> QED
    BY <2>1, <2>2, <2>3, <2>4, <2>6 DEF OneInv
<1>2. IInv /\ TypeInv /\ OneInv /\ [Next]_vars => OneInv'
  BY NextOne
<1>3. TypeInv /\ OneInv => OneRowPerOperation
  <2> SUFFICES ASSUME TypeInv, OneInv, NEW i \in DOMAIN rows, NEW j \in DOMAIN rows, i # j,
                      rows[i].op = rows[j].op
               PROVE  \E e, f \in Exts : /\ e # f /\ OpOf[e] = OpOf[f] /\ OpOf[e] = rows[i].op
                                         /\ feed[e] = "posted" /\ feed[f] = "posted"
    BY DEF OneRowPerOperation
  <2>1. rows[i].op = OpOf[i[2]] /\ rows[j].op = OpOf[j[2]]
    BY RowOp DEF TypeInv, TrueRows
  <2>2. Twice(feed, OpOf[i[2]])
    BY <2>1 DEF OneInv, Fair
  <2> QED
    BY <2>1, <2>2 DEF Twice
<1> QED
  BY <1>1, <1>2, <1>3, IInvHolds, TypeInvHolds, PTL DEF Spec
=============================================================================
