------------------------------ MODULE LedgerSync ------------------------------
(*****************************************************************************)
(* What overlapping sync passes make of the transaction rows: duplicate      *)
(* detection, transfer pairing, the phantom cleanup and the opening          *)
(* balance, while users ignore, delete, unlink and enter rows.               *)
(*                                                                           *)
(* A pass is one database transaction at READ COMMITTED.  Every query sees   *)
(* the committed rows overlaid with the pass's own flushed writes; the       *)
(* commit writes the columns it changed into the rows as they are by then.   *)
(* A request of a user is one too: it reads the rows it is about, and writes *)
(* them later, if only because a pass holds their locks until it commits.    *)
(* The locks themselves are left out, which only adds interleavings.         *)
(* Nothing in the schema makes (account_id, external_id) unique, nor an      *)
(* account's external id, nor an account's opening_balance row.              *)
(*                                                                           *)
(* The operations of an instance share amount, currency and wording, so      *)
(* every similarity test passes: account, day, direction and status are      *)
(* all that tells two of them apart.  They carry no bill or installment      *)
(* data and meet no recurring definition.                                    *)
(*****************************************************************************)
EXTENDS Integers, FiniteSets, Columns

CONSTANTS
    Accounts,     \* accounts the bank serves on the connection
    Known,        \* those that have a row when the model starts
    Exts,         \* external ids the provider hands out
    AcctOf,       \* the account of an external id
    OpOf,         \* the operation at the bank it reports
    DayOf,        \* its date
    SideOf,       \* "debit" or "credit"
    Phantoms,     \* ids that report an already posted operation once more
    ImportPending,\* settings.import_pending
    Gaps,         \* whether SUM(rows) may differ from the provider's balance
    Passes,       \* passes that can be in flight at once
    MaxPasses,    \* bound: passes begun
    MaxUser,      \* bound: user edits
    MaxManual     \* bound: rows entered by hand

NoExt == "none"                  \* external_id is NULL

ASSUME DataAssumption ==
    /\ Known \subseteq Accounts
    /\ NoExt \notin Exts
    /\ Phantoms \subseteq Exts
    /\ \A e \in Exts : /\ AcctOf[e] \in Accounts
                       /\ DayOf[e] \in Int
                       /\ SideOf[e] \in {"debit", "credit"}
    /\ ImportPending \in BOOLEAN
    /\ Gaps \subseteq BOOLEAN
    /\ MaxPasses \in Nat /\ MaxUser \in Nat /\ MaxManual \in Nat

VARIABLES
    feed,      \* what the provider says of each external id
    accts,     \* rows of accounts: <<account, who created it>>
    openings,  \* opening_balance rows: <<account row, who created it>>
    rows,      \* rows of transactions: id -> columns
    pass,      \* the passes
    clock,     \* begins and commits so far
    asked,     \* deletions and unlinks that have read and not written
    torn,      \* history: pairs a request took a row from, made since it read
    begun, edits, manuals        \* counters for the bounds

vars == <<feed, accts, openings, rows, pass, clock, asked, torn, begun, edits, manuals>>

Ops == {OpOf[e] : e \in Exts}
AcctRows == Accounts \X (Passes \cup {"link"})
Times == 0..(2 * MaxPasses)
Ids == Times \X Exts             \* created_at and what the row was created for

(* op and span are history: the operation the row stands for, and when the *)
(* pass that gave it its external id began and committed.                  *)
Row == [ext : Exts \cup {NoExt}, acct : AcctRows, day : Int,
        side : {"debit", "credit"}, status : {"pending", "posted"},
        source : {"sync", "manual"}, ignored : BOOLEAN, pair : SUBSET Ids,
        op : Ops, span : Times \X Times]

PassIdle == [pc |-> "idle", begin |-> 0, todo |-> {}, home |-> <<>>,
             items |-> {}, add |-> <<>>, upd |-> <<>>, del |-> {},
             accts |-> {}, openAdd |-> {}, openDel |-> {},
             seen |-> {}, calm |-> TRUE]

Apart(d1, d2) == IF d1 < d2 THEN d2 - d1 ELSE d1 - d2

Within(d1, d2, n) == Apart(d1, d2) <= n

TypeOK ==
    /\ feed \in [Exts -> {"unseen", "pending", "posted", "gone"}]
    /\ accts \subseteq AcctRows
    /\ openings \subseteq AcctRows \X (Passes \cup {"link"})
    /\ DOMAIN rows \subseteq Ids
    /\ \A i \in DOMAIN rows : rows[i] \in Row
    /\ DOMAIN pass = Passes
    /\ \A p \in Passes :
          /\ pass[p].pc \in {"idle", "account", "items", "reconcile", "ready"}
          /\ pass[p].begin \in Times
          /\ pass[p].items \subseteq Exts \X {"pending", "posted"}
          /\ \A i \in DOMAIN pass[p].add : i \in Ids /\ pass[p].add[i] \in Row
          /\ DOMAIN pass[p].upd \subseteq Ids
    /\ clock \in Times
    /\ asked \subseteq [do : {"delete", "unlink"}, rows : SUBSET Ids, pair : SUBSET Ids]
    /\ torn \subseteq SUBSET Ids

Init ==
    /\ feed = [e \in Exts |-> "unseen"]
    /\ accts = Known \X {"link"}
    /\ openings = {}
    /\ rows = <<>>
    /\ pass = [p \in Passes |-> PassIdle]
    /\ clock = 0
    /\ asked = {} /\ torn = {}
    /\ begun = 0 /\ edits = 0 /\ manuals = 0

-----------------------------------------------------------------------------
(* The provider.                                                           *)

Twins(e) == {f \in Exts \ {e} : OpOf[f] = OpOf[e]}

(* A first report; or the operation posted under a new id, the pending *)
(* report staying in the feed or not; or a phantom of a posted one.    *)
Publish(e, st) ==
    /\ feed[e] = "unseen"
    /\ \/ e \notin Phantoms /\ \A f \in Twins(e) : feed[f] = "unseen"
       \/ /\ st = "posted"
          /\ e \notin Phantoms
          /\ \E f \in Twins(e) : feed[f] = "pending"
          /\ \A f \in Twins(e) : feed[f] # "posted"
       \/ /\ st = "posted"
          /\ e \in Phantoms
          /\ \E f \in Twins(e) : feed[f] = "posted"
    /\ feed' = [feed EXCEPT ![e] = st]
    /\ UNCHANGED <<accts, openings, rows, pass, clock, begun, asked, torn, edits, manuals>>

(* A pending report posts under its own id, or leaves the feed.            *)
Settle(e) ==
    /\ feed[e] = "pending"
    /\ \/ /\ \A f \in Twins(e) : feed[f] # "posted"
          /\ feed' = [feed EXCEPT ![e] = "posted"]
       \/ feed' = [feed EXCEPT ![e] = "gone"]
    /\ UNCHANGED <<accts, openings, rows, pass, clock, begun, asked, torn, edits, manuals>>

-----------------------------------------------------------------------------
(* The session of a pass.                                                  *)

(* The rows as a query of the pass sees them.                              *)
View(s) ==
    LET Seen == (DOMAIN rows \cup DOMAIN s.add) \ s.del
    IN [i \in Seen |-> IF i \in DOMAIN s.add THEN s.add[i]
                       ELSE IF i \in DOMAIN s.upd THEN Overlay(s.upd[i], rows[i])
                       ELSE rows[i]]

(* Columns set on a row the session holds.                                 *)
Put(s, i, columns) ==
    IF i \in DOMAIN s.add
      THEN [s EXCEPT !.add = With(@, i, Overlay(columns, @[i]))]
      ELSE [s EXCEPT !.upd = With(@, i, Overlay(columns, IF i \in DOMAIN @ THEN @[i] ELSE <<>>))]

Oldest(found) == CHOOSE i \in found : \A j \in found : i[1] <= j[1]

InHome(s) == {i \in DOMAIN View(s) : View(s)[i].acct = s.home}

(* Broken variant: the lookup leaves out what the user hid.                *)
SameExtVisible(s, e) ==
    {i \in InHome(s) : View(s)[i].ext = e /\ ~View(s)[i].ignored}

(* Pass 1: the rows that carry the external id already.                    *)
SameExt(s, e) == {i \in InHome(s) : View(s)[i].ext = e}

(* Pass 2, _fuzzy_match_manual.                                            *)
ManualMatches(s, e) ==
    {i \in InHome(s) : LET r == View(s)[i] IN
        /\ r.ext = NoExt
        /\ r.source = "manual"
        /\ r.side = SideOf[e]
        /\ Within(r.day, DayOf[e], 3)}

(* Broken variant: the comparison of the statuses is the wrong way round.  *)
SyncedTwinsSameStatus(s, e, st) ==
    {i \in InHome(s) : LET r == View(s)[i] IN
        /\ r.source = "sync"
        /\ r.day = DayOf[e]
        /\ r.side = SideOf[e]
        /\ r.status = st
        /\ r.ext # e}

(* Pass 3, path 2 of _find_synced_duplicate.                               *)
SyncedTwins(s, e, st) ==
    {i \in InHome(s) : LET r == View(s)[i] IN
        /\ r.source = "sync"
        /\ r.day = DayOf[e]
        /\ r.side = SideOf[e]
        /\ r.status # st
        /\ r.ext # e}

(* The session after one report of the feed.                               *)
ByExt(s, e, st) ==
    LET i == Oldest(SameExt(s, e))
        r == View(s)[i]
    IN IF ~r.ignored /\ r.status = "pending" /\ st = "posted"
         THEN Put(s, i, [status |-> "posted"])
         ELSE s

ByManual(s, i, e) ==
    IF View(s)[i].ignored
      THEN s
      ELSE Put(s, i, [ext |-> e, source |-> "sync", op |-> OpOf[e]])

ByTwin(s, i, e, st) ==
    IF View(s)[i].status = "pending" /\ st = "posted"
      THEN Put(s, i, [status |-> "posted", ext |-> e, op |-> OpOf[e]])
      ELSE s

(* Broken variant: the provider's own word for the status is kept.         *)
InsertRawStatus(s, e, st) ==
    [s EXCEPT !.add = With(@, <<s.begin, e>>,
        [ext |-> e, acct |-> s.home, day |-> DayOf[e], side |-> SideOf[e],
         status |-> "booked", source |-> "sync", ignored |-> FALSE, pair |-> {},
         op |-> OpOf[e], span |-> <<s.begin, s.begin>>])]

(* A row of its own.                                                       *)
Insert(s, e, st) ==
    [s EXCEPT !.add = With(@, <<s.begin, e>>,
        [ext |-> e, acct |-> s.home, day |-> DayOf[e], side |-> SideOf[e],
         status |-> st, source |-> "sync", ignored |-> FALSE, pair |-> {},
         op |-> OpOf[e], span |-> <<s.begin, s.begin>>])]

-----------------------------------------------------------------------------
(* sync_connection.                                                        *)

Begin(p) ==
    /\ pass[p].pc = "idle"
    /\ begun < MaxPasses
    /\ begun' = begun + 1
    /\ clock' = clock + 1
    /\ pass' = [pass EXCEPT ![p] = [PassIdle EXCEPT !.pc = "account",
                                        !.begin = clock', !.todo = Accounts]]
    /\ UNCHANGED <<feed, accts, openings, rows, asked, torn, edits, manuals>>

(* The next account of the provider's list: find its row or create it, *)
(* then fetch.  scalar_one_or_none() raises when it finds two.         *)
Fetch(p, a) ==
    LET found == {r \in accts : r[1] = a}
        home == IF found = {} THEN <<a, p>> ELSE CHOOSE r \in found : TRUE
        items == {<<e, feed[e]>> : e \in
                    {x \in Exts : /\ AcctOf[x] = a
                                  /\ \/ feed[x] = "posted"
                                     \/ feed[x] = "pending" /\ ImportPending}}
    IN /\ pass[p].pc = "account"
       /\ a \in pass[p].todo
       /\ Cardinality(found) <= 1
       /\ pass' = [pass EXCEPT
              ![p].pc = "items", ![p].home = home, ![p].items = items,
              ![p].todo = @ \ {a},
              ![p].accts = IF found = {} THEN @ \cup {home} ELSE @,
              ![p].seen = @ \cup {it[1] : it \in {x \in items : x[2] = "posted"}}]
       /\ UNCHANGED <<feed, accts, openings, rows, clock, begun, asked, torn, edits, manuals>>

Becomes(p, s) ==
    /\ pass' = [pass EXCEPT ![p] = s]
    /\ UNCHANGED <<feed, accts, openings, rows, clock, begun, asked, torn, edits, manuals>>

(* One transaction of the feed, through the three passes of the matching.  *)
Item(p, e, st) ==
    LET s == [pass[p] EXCEPT !.items = @ \ {<<e, st>>}]
    IN /\ pass[p].pc = "items"
       /\ <<e, st>> \in pass[p].items
       /\ IF SameExt(s, e) # {} THEN Becomes(p, ByExt(s, e, st))
          ELSE IF ManualMatches(s, e) # {}
            THEN \E i \in ManualMatches(s, e) : Becomes(p, ByManual(s, i, e))
          ELSE IF SyncedTwins(s, e, st) # {}
            THEN \E i \in SyncedTwins(s, e, st) : Becomes(p, ByTwin(s, i, e, st))
          ELSE Becomes(p, Insert(s, e, st))

(* sync_opening_balance_for_connected_account, after the account's items. *)
(* scalar_one_or_none() again.                                            *)
Opening(p) ==
    LET s == pass[p]
        found == {o \in openings : o[1] = s.home}
    IN /\ s.pc = "items"
       /\ s.items = {}
       /\ Cardinality(found) <= 1
       /\ \E gap \in Gaps :
            Becomes(p, [s EXCEPT
                !.pc = IF s.todo = {} THEN "reconcile" ELSE "account",
                !.openAdd = IF gap /\ found = {} THEN @ \cup {<<s.home, p>>} ELSE @,
                !.openDel = IF gap THEN @ ELSE @ \cup found])

(* detect_transfer_pairs: the debits in the order the query gives them,    *)
(* new ones first, each taking the closest credit left; of two that are as *)
(* close, the one the query lists first.                                   *)
Orders(D) == {o \in [1..Cardinality(D) -> D] :
                 \A m, n \in 1..Cardinality(D) : o[m] = o[n] => m = n}

Partners(V, new, d) ==
    {c \in DOMAIN V :
        /\ V[c].side = "credit" /\ V[c].pair = {}
        /\ V[c].acct # V[d].acct
        /\ Within(V[c].day, V[d].day, 2)
        /\ d \notin new => c \in new}

Closest(V, d, C, o) ==
    LET Dist(n) == Apart(V[o[n]].day, V[d].day)
        Listed == {n \in DOMAIN o : o[n] \in C}
    IN o[CHOOSE n \in Listed : \A m \in Listed :
            Dist(n) < Dist(m) \/ (Dist(n) = Dist(m) /\ n <= m)]

Pairing(V, new, o) ==
    LET taken[n \in 0..Cardinality(DOMAIN o)] ==
            IF n = 0 THEN {}
            ELSE IF V[o[n]].side = "credit" THEN taken[n - 1]
            ELSE LET C == Partners(V, new, o[n]) \ UNION taken[n - 1]
                 IN IF C = {} THEN taken[n - 1]
                    ELSE taken[n - 1] \cup {{o[n], Closest(V, o[n], C, o)}}
    IN taken[Cardinality(DOMAIN o)]

Unpaired(V, side) == {i \in DOMAIN V : V[i].side = side /\ V[i].pair = {}}

Pairings(V, new) ==
    IF new = {} \/ Unpaired(V, "debit") = {} \/ Unpaired(V, "credit") = {} THEN {{}}
    ELSE {Pairing(V, new, o) : o \in
            {x \in Orders(Unpaired(V, "debit") \cup Unpaired(V, "credit")) :
                \A m, n \in DOMAIN x :
                    /\ V[x[m]].side = "debit" /\ V[x[n]].side = "debit"
                    /\ x[m] \in new /\ x[n] \notin new
                    => m < n}}

(* Broken variant: the sibling need not be paired.                         *)
PhantomRowsAnySibling(V) ==
    {i \in DOMAIN V :
        /\ V[i].source = "sync" /\ V[i].pair = {}
        /\ \E j \in DOMAIN V \ {i} :
              /\ V[j].source = "sync"
              /\ V[j].acct = V[i].acct /\ V[j].side = V[i].side
              /\ Within(V[j].day, V[i].day, 1)}

(* _cleanup_phantom_duplicates: unpaired rows with a paired sibling.       *)
PhantomRows(V) ==
    {i \in DOMAIN V :
        /\ V[i].source = "sync" /\ V[i].pair = {}
        /\ \E j \in DOMAIN V \ {i} :
              /\ V[j].source = "sync" /\ V[j].pair # {}
              /\ V[j].acct = V[i].acct /\ V[j].side = V[i].side
              /\ Within(V[j].day, V[i].day, 1)}

(* A session in which the rows of each pair carry the pair's id.           *)
Paired(s, pairs) ==
    LET Marked == UNION pairs
        IdOf(i) == CHOOSE m \in pairs : i \in m
    IN [s EXCEPT
          !.add = [i \in DOMAIN @ |-> IF i \in Marked
                       THEN [@[i] EXCEPT !.pair = IdOf(i)] ELSE @[i]],
          !.upd = [i \in (DOMAIN @ \cup Marked) \ DOMAIN s.add |->
                       Overlay(IF i \in Marked THEN [pair |-> IdOf(i)] ELSE <<>>,
                               IF i \in DOMAIN @ THEN @[i] ELSE <<>>)]]

Reconcile(p) ==
    /\ pass[p].pc = "reconcile"
    /\ \E pairs \in Pairings(View(pass[p]), DOMAIN pass[p].add) :
          LET s == Paired(pass[p], pairs)
              gone == PhantomRows(View(s))
          IN Becomes(p, [s EXCEPT !.pc = "ready",
                            !.add = Without(@, gone),
                            !.upd = Without(@, gone),
                            !.del = gone \ DOMAIN s.add])

(* Somebody else's commit disturbs a pass that is still in flight.         *)
Disturbed == [p \in Passes |-> IF pass[p].pc = "idle" THEN pass[p]
                               ELSE [pass[p] EXCEPT !.calm = FALSE]]

(* The commit.  An UPDATE of a row that is gone matches nothing, and the *)
(* session raises: such a pass can only abort.                           *)
Commit(p) ==
    LET s == pass[p]
        Stamp(r, fresh) == IF fresh THEN [r EXCEPT !.span = <<s.begin, clock + 1>>] ELSE r
        Kept == (DOMAIN rows \cup DOMAIN s.add) \ s.del
    IN /\ s.pc = "ready"
       /\ DOMAIN s.upd \subseteq DOMAIN rows
       /\ clock' = clock + 1
       /\ rows' = [i \in Kept |->
             IF i \in DOMAIN s.add THEN Stamp(s.add[i], TRUE)
             ELSE IF i \in DOMAIN s.upd
               THEN Stamp(Overlay(s.upd[i], rows[i]), "ext" \in DOMAIN s.upd[i])
               ELSE rows[i]]
       /\ accts' = accts \cup s.accts
       /\ openings' = (openings \ s.openDel) \cup s.openAdd
       /\ pass' = [Disturbed EXCEPT ![p] = PassIdle]
       /\ UNCHANGED <<feed, begun, asked, torn, edits, manuals>>

(* Any exception rolls the pass back.                                      *)
Abort(p) ==
    /\ pass[p].pc # "idle"
    /\ Becomes(p, PassIdle)

-----------------------------------------------------------------------------
(* The user.                                                               *)

Edits ==
    /\ edits < MaxUser
    /\ edits' = edits + 1
    /\ UNCHANGED <<feed, accts, openings, clock, begun, torn, manuals>>

ToggleIgnore(i) ==
    /\ Edits
    /\ rows' = [rows EXCEPT ![i].ignored = ~@]
    /\ pass' = Disturbed
    /\ UNCHANGED asked

(* A request reads the rows it is about. *)
Read(do, i, found) ==
    /\ Edits
    /\ asked' = asked \cup {[do |-> do, rows |-> found, pair |-> rows[i].pair]}
    /\ UNCHANGED <<rows, pass>>

(* Broken variant: the other leg of a transfer stays.                      *)
ReadRowAlone(i) == Read("delete", i, {i})

(* delete_transaction takes the other leg of a transfer along.             *)
Legs(i) == {j \in DOMAIN rows : rows[i].pair # {} /\ rows[j].pair = rows[i].pair}
ReadRow(i) == Cardinality(Legs(i)) <= 2 /\ Read("delete", i, {i} \cup Legs(i))
ReadPair(i) == rows[i].pair # {} /\ Read("unlink", i, Legs(i))

(* It writes those rows, whatever they are by now.                         *)
Write(r) ==
    /\ asked' = asked \ {r}
    /\ torn' = torn \cup ({rows[j].pair : j \in r.rows \cap DOMAIN rows} \ {{}, r.pair})
    /\ pass' = Disturbed
    /\ UNCHANGED <<feed, accts, openings, clock, begun, edits, manuals>>

(* To delete a row that is gone is no error, to update it is. *)
DeleteRow(r) == r.do = "delete" /\ rows' = Without(rows, r.rows) /\ Write(r)

UnlinkPair(r) ==
    /\ r.do = "unlink" /\ r.rows \subseteq DOMAIN rows
    /\ rows' = [j \in DOMAIN rows |->
                  IF j \in r.rows THEN [rows[j] EXCEPT !.pair = {}] ELSE rows[j]]
    /\ Write(r)

UnlinkRaises(r) ==
    /\ r.do = "unlink" /\ ~(r.rows \subseteq DOMAIN rows)
    /\ asked' = asked \ {r}
    /\ UNCHANGED <<feed, accts, openings, rows, pass, clock, torn, begun, edits, manuals>>

(* An operation entered by hand before the bank shows it.                  *)
AddManual(e) ==
    /\ manuals < MaxManual
    /\ \A f \in Twins(e) \cup {e} : feed[f] = "unseen"
    /\ <<AcctOf[e], "link">> \in accts
    /\ <<0, e>> \notin DOMAIN rows
    /\ rows' = With(rows, <<0, e>>,
         [ext |-> NoExt, acct |-> <<AcctOf[e], "link">>, day |-> DayOf[e],
          side |-> SideOf[e], status |-> "posted", source |-> "manual",
          ignored |-> FALSE, pair |-> {}, op |-> OpOf[e], span |-> <<0, 0>>])
    /\ manuals' = manuals + 1
    /\ pass' = Disturbed
    /\ UNCHANGED <<feed, accts, openings, clock, asked, torn, begun, edits>>

-----------------------------------------------------------------------------
Next ==
    \/ \E e \in Exts : Settle(e) \/ AddManual(e)
                       \/ \E st \in {"pending", "posted"} : Publish(e, st)
    \/ \E p \in Passes :
          \/ Begin(p) \/ Opening(p) \/ Reconcile(p) \/ Commit(p) \/ Abort(p)
          \/ \E a \in Accounts : Fetch(p, a)
          \/ \E e \in Exts, st \in {"pending", "posted"} : Item(p, e, st)
    \/ \E i \in DOMAIN rows : ToggleIgnore(i) \/ ReadRow(i) \/ ReadPair(i)
    \/ \E r \in asked : DeleteRow(r) \/ UnlinkPair(r) \/ UnlinkRaises(r)

Spec == Init /\ [][Next]_vars

-----------------------------------------------------------------------------
(* Properties.                                                             *)

Overlap(s, t) == s[1] < t[2] /\ t[1] < s[2]

(* Two rows share an account and an external id only if the passes that     *)
(* gave it to them were in flight at the same time: a stray duplicate never *)
(* grows.  About Pass 1 of sync_connection and its comment on the race.     *)
DuplicatesOnlyByOverlap ==
    \A i, j \in DOMAIN rows :
        i # j /\ rows[i].acct = rows[j].acct /\ rows[i].ext = rows[j].ext
              /\ rows[i].ext # NoExt
            => Overlap(rows[i].span, rows[j].span)

(* After an undisturbed pass every posted operation it read has a row: *)
(* neither the three matching passes nor the cleanup lose one.  About  *)
(* sync_connection and _cleanup_phantom_duplicates.                    *)
PostedAreKept ==
    [][\A p \in Passes : Commit(p) /\ pass[p].calm =>
         \A e \in pass[p].seen :
            \E i \in DOMAIN rows' : /\ rows'[i].op = OpOf[e]
                                    /\ rows'[i].acct[1] = AcctOf[e]]_vars

(* One operation never has two synced rows, whatever ids and states the *)
(* provider reported it under, unless it posted it twice (a phantom).   *)
(* About Pass 3 of sync_connection (serial passes).                     *)
OneRowPerOperation ==
    \A i, j \in DOMAIN rows :
        i # j /\ rows[i].source = "sync" /\ rows[j].source = "sync"
              /\ rows[i].op = rows[j].op
            => \E e, f \in Exts : /\ e # f /\ OpOf[e] = OpOf[f]
                                  /\ OpOf[e] = rows[i].op
                                  /\ feed[e] = "posted" /\ feed[f] = "posted"

(* A transfer id sits on exactly two rows, one debit and one credit of      *)
(* different accounts, unless a request tore the pair: it read one of the   *)
(* rows before the pair was committed, and deleted or unlinked it after.    *)
(* About detect_transfer_pairs, the cleanup, unlinking and the cascading    *)
(* delete (serial passes).                                                  *)
PairsAreMutual ==
    \A i \in DOMAIN rows : rows[i].pair \notin torn \cup {{}} =>
        \E j \in DOMAIN rows :
            /\ {k \in DOMAIN rows : rows[k].pair = rows[i].pair} = {i, j}
            /\ rows[i].acct # rows[j].acct
            /\ rows[i].side # rows[j].side

(* No interleaving leaves a state in which every later pass must fail:     *)
(* overlapping passes never leave two rows where the code asks for at most *)
(* one.  About the account lookup of sync_connection and the opening       *)
(* balance lookup.                                                         *)
SyncSurvivesOverlap ==
    /\ \A r, q \in accts : r[1] = q[1] => r = q
    /\ \A o, q \in openings : o[1] = q[1] => o = q
=============================================================================
