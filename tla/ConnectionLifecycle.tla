------------------------- MODULE ConnectionLifecycle -------------------------
(*****************************************************************************)
(* The life of one bank connection: the first link, the hourly scheduler,    *)
(* overlapping sync passes, the failures a pass maps to a status, the        *)
(* reconnect callback and the deletion of the connection.                    *)
(*                                                                           *)
(* The row of bank_connections is status, lastSync and creds.  A request     *)
(* or a task holds a session: it loads the row once, when it begins, and     *)
(* keeps working on that copy while the provider is awaited.  A column is    *)
(* written at the commit only when the value assigned differs from the       *)
(* value LOADED (the unit of work compares the two), so a stale copy can     *)
(* leave a column alone that somebody else has changed since.                *)
(*                                                                           *)
(* Operations at the bank are told apart by the date the provider filters    *)
(* on.  What the rows imported for them look like is LedgerSync's subject.   *)
(*****************************************************************************)
EXTENDS Integers

CONSTANTS
    Passes,      \* sync passes that can be in flight at once (API workers, Celery)
    Rewind,      \* days a pass looks back behind last_sync_at (14 in the code)
    Flight,      \* days a request or task can stay in flight (HTTP timeouts bound it)
    Lag,         \* days by which a provider backdates what it ingests late
    MaxDay,      \* bound: last day of the clock
    MaxConsents, \* bound: consents the user grants
    MaxFaults    \* bound: failures that a pass with a valid consent meets

ASSUME ConstantsAssumption ==
    /\ Rewind \in Nat /\ Flight \in Nat /\ Lag \in Nat
    /\ MaxDay \in Nat /\ MaxConsents \in Nat /\ MaxFaults \in Nat

(* The rewind covers the longest pass plus the longest backdating.         *)
ASSUME RewindAssumption == Flight + Lag <= Rewind

Never == -1                       \* last_sync_at is NULL
Live == {"active", "expired", "error"}
Statuses == Live \cup {"none", "gone"}     \* no row yet, row deleted
Due == {"active", "error"}                 \* what the scheduler picks

VARIABLES
    now,         \* the current day
    status,      \* bank_connections.status
    lastSync,    \* bank_connections.last_sync_at
    creds,       \* bank_connections.credentials: the consent they carry, 0 for none
    closed,      \* accounts.is_closed of the connection's account
    picked,      \* the scheduler read this connection into its list
    pass,        \* the sync passes
    callback,    \* the browser's OAuth or token callback request
    granted,     \* number of consents granted so far
    valid,       \* consents the bank honours
    posted,      \* dates of the operations the provider serves
    imported,    \* dates of the operations that have a row
    skipped,     \* dates passed over because the account was closed
    faults       \* failures so far (bounded by MaxFaults)

row == <<status, lastSync, creds>>
bank == <<granted, valid, posted>>
books == <<imported, skipped>>
vars == <<now, row, closed, picked, pass, callback, bank, books, faults>>

Days == 0..MaxDay
Consents == 0..MaxConsents

PassIdle == [pc |-> "idle", creds |-> 0, status |-> "none", since |-> 0,
             from |-> 0, got |-> {}, missed |-> {}]

PassState ==
    [pc : {"idle", "reading", "read"}, creds : Consents, status : Statuses,
     since : Int, from : Days, got : SUBSET Days, missed : SUBSET Days]

CallbackIdle == [pc |-> "idle", creds |-> 0, status |-> "none",
                 last |-> Never, from |-> 0, got |-> {}]

CallbackState ==
    [pc : {"idle", "linking", "linked", "reconnecting"}, creds : Consents,
     status : Statuses, last : Days \cup {Never}, from : Days,
     got : SUBSET Days]

TypeOK ==
    /\ now \in Days
    /\ status \in Statuses
    /\ lastSync \in Days \cup {Never}
    /\ creds \in Consents
    /\ closed \in BOOLEAN
    /\ picked \in BOOLEAN
    /\ pass \in [Passes -> PassState]
    /\ callback \in CallbackState
    /\ granted \in Consents
    /\ valid \subseteq Consents
    /\ posted \subseteq Days
    /\ imported \subseteq Days
    /\ skipped \subseteq Days
    /\ faults \in 0..MaxFaults

Init ==
    /\ now = 0
    /\ status = "none" /\ lastSync = Never /\ creds = 0
    /\ closed = FALSE
    /\ picked = FALSE
    /\ pass = [p \in Passes |-> PassIdle]
    /\ callback = CallbackIdle
    /\ granted = 0 /\ valid = {} /\ posted = {}
    /\ imported = {} /\ skipped = {}
    /\ faults = 0

-----------------------------------------------------------------------------
(* The bank and the clock.                                                 *)

(* A day passes.  Nothing stays in flight longer than Flight days.         *)
Day ==
    /\ now < MaxDay
    /\ \A p \in Passes : pass[p].pc # "idle" => now - pass[p].from < Flight
    /\ callback.pc # "idle" => now - callback.from < Flight
    /\ now' = now + 1
    /\ UNCHANGED <<row, closed, picked, pass, callback, bank, books, faults>>

(* The provider starts to serve an operation, backdated by Lag days at  *)
(* most.  The last days are quiet, so that the bounded clock leaves the *)
(* scheduler a later day on which the connection is stale.              *)
Post ==
    /\ now + Flight < MaxDay
    /\ \E d \in Days \ posted :
          /\ d <= now
          /\ d >= now - Lag
          /\ posted' = posted \cup {d}
    /\ UNCHANGED <<now, row, closed, picked, pass, callback, granted, valid,
                   books, faults>>

(* A consent lapses at the bank (valid_until, a revoked item or token).    *)
Lapse ==
    /\ \E c \in valid : valid' = valid \ {c}
    /\ UNCHANGED <<now, row, closed, picked, pass, callback, granted, posted,
                   books, faults>>

-----------------------------------------------------------------------------
(* sync_connection.                                                        *)

(* Broken variant: the 14-day rewind is forgotten.                         *)
SinceNoRewind(last) == IF last = Never THEN 0 ELSE last

(* The first date asked of the provider: NULL asks for the whole history.  *)
Since(last) == IF last = Never THEN 0 ELSE last - Rewind

(* The pass loads the row; since is computed from this copy of *)
(* last_sync_at even when the column changes before the fetch. *)
Load(p) ==
    pass' = [pass EXCEPT ![p] =
                [PassIdle EXCEPT !.pc = "reading", !.creds = creds,
                                 !.status = status, !.since = Since(lastSync),
                                 !.from = now]]

Finish(p) == pass' = [pass EXCEPT ![p] = PassIdle]

(* POST /connections/{id}/sync: no look at the status.                     *)
ManualSync(p) ==
    /\ pass[p].pc = "idle"
    /\ status \in Live
    /\ Load(p)
    /\ UNCHANGED <<now, row, closed, picked, callback, bank, books, faults>>

(* Broken variant: the scheduler does not retry a connection in error.     *)
StaleActiveOnly == status = "active" /\ (lastSync = Never \/ lastSync < now)

(* The hourly task reads the list of stale connections.                    *)
Stale == status \in Due /\ (lastSync = Never \/ lastSync < now)

Beat ==
    /\ ~picked
    /\ Stale
    /\ picked' = TRUE
    /\ UNCHANGED <<now, row, closed, pass, callback, bank, books, faults>>

(* ... and later syncs what it listed, whatever became of it meanwhile; a *)
(* connection deleted since then has no workspace and is skipped.         *)
ScheduledSync(p) ==
    /\ picked
    /\ pass[p].pc = "idle"
    /\ picked' = FALSE
    /\ IF status \in Live THEN Load(p) ELSE UNCHANGED pass
    /\ UNCHANGED <<now, row, closed, callback, bank, books, faults>>

(* The provider answers.  A closed account is passed over.                 *)
Read(p) ==
    /\ pass[p].pc = "reading"
    /\ pass[p].creds \in valid
    /\ LET served == {d \in posted : d >= pass[p].since}
       IN pass' = [pass EXCEPT ![p].pc = "read",
                               ![p].got = IF closed THEN {} ELSE served,
                               ![p].missed = IF closed THEN served ELSE {}]
    /\ UNCHANGED <<now, row, closed, picked, callback, bank, books, faults>>

(* The end of a pass: rows, cursor and status in one commit.               *)
Commit(p) ==
    /\ pass[p].pc = "read"
    /\ status \in Live
    /\ imported' = imported \cup pass[p].got
    /\ skipped' = skipped \cup pass[p].missed
    /\ lastSync' = now
    /\ status' = IF pass[p].status = "active" THEN status ELSE "active"
    /\ Finish(p)
    /\ UNCHANGED <<now, creds, closed, picked, callback, bank, faults>>

(* Broken variant: throttling gets a status of its own, unknown elsewhere. *)
OutcomeThrottled(kind, old) ==
    CASE kind = "session_expired" -> "expired"
      [] kind = "rate_limited"    -> "throttled"
      [] OTHER                    -> "error"

(* What the except clauses leave in the status of a row that still exists. *)
Outcome(kind, old) ==
    CASE kind = "session_expired" -> "expired"
      [] kind = "user_action"     -> "error"
      [] kind = "rate_limited"    -> IF old = "expired" THEN old ELSE "active"
      [] kind = "other"           -> "error"

(* The rollback loses the pass; only the status is written, from a fresh   *)
(* read.  A lapsed consent is answered with an expired session or a demand *)
(* for user action; the rest can strike any pass, MaxFaults times.         *)
Fail(p, kind) ==
    /\ pass[p].pc # "idle"
    /\ status' = IF status \in Live THEN Outcome(kind, status) ELSE status
    /\ IF kind \in {"session_expired", "user_action"}
         THEN /\ pass[p].pc = "reading"
              /\ pass[p].creds \notin valid
              /\ UNCHANGED faults
         ELSE /\ faults < MaxFaults
              /\ faults' = faults + 1
    /\ Finish(p)
    /\ UNCHANGED <<now, lastSync, creds, closed, picked, callback, bank, books>>

(* The row was deleted while the pass ran: the UPDATE finds no row, and *)
(* the error handler finds none to mark.                                *)
CommitGone(p) ==
    /\ pass[p].pc = "read"
    /\ status = "gone"
    /\ Finish(p)
    /\ UNCHANGED <<now, row, closed, picked, callback, bank, books, faults>>

-----------------------------------------------------------------------------
(* handle_oauth_callback, delete_connection and the account's closing.     *)

(* The callback exchanges its code for a consent.  A first link goes on to *)
(* fetch the whole history; its row is not visible before its commit.      *)
LinkBegin ==
    /\ callback.pc = "idle"
    /\ status = "none"
    /\ granted < MaxConsents
    /\ granted' = granted + 1
    /\ valid' = valid \cup {granted'}
    /\ callback' = [CallbackIdle EXCEPT !.pc = "linking", !.creds = granted',
                                        !.from = now]
    /\ UNCHANGED <<now, row, closed, picked, pass, posted, books, faults>>

LinkRead ==
    /\ callback.pc = "linking"
    /\ callback.creds \in valid
    /\ callback' = [callback EXCEPT !.pc = "linked", !.got = posted]
    /\ UNCHANGED <<now, row, closed, picked, pass, bank, books, faults>>

LinkCommit ==
    /\ callback.pc = "linked"
    /\ status' = "active"
    /\ lastSync' = now
    /\ creds' = callback.creds
    /\ imported' = callback.got
    /\ callback' = CallbackIdle
    /\ UNCHANGED <<now, closed, picked, pass, bank, skipped, faults>>

(* A reconnect loads the row, then awaits the provider.                    *)
ReconnectBegin ==
    /\ callback.pc = "idle"
    /\ status \in Live
    /\ granted < MaxConsents
    /\ granted' = granted + 1
    /\ valid' = valid \cup {granted'}
    /\ callback' = [CallbackIdle EXCEPT !.pc = "reconnecting",
                                        !.creds = granted', !.status = status,
                                        !.last = lastSync, !.from = now]
    /\ UNCHANGED <<now, row, closed, picked, pass, posted, books, faults>>

ReconnectCommit ==
    /\ callback.pc = "reconnecting"
    /\ status \in Live
    /\ creds' = callback.creds
    /\ status' = IF callback.status = "active" THEN status ELSE "active"
    /\ lastSync' = IF callback.last = Never THEN lastSync ELSE Never
    /\ callback' = CallbackIdle
    /\ UNCHANGED <<now, closed, picked, pass, bank, books, faults>>

(* The provider, or the commit on a deleted row, fails the callback.       *)
CallbackFail ==
    /\ \/ callback.pc = "linking" /\ callback.creds \notin valid
       \/ callback.pc = "reconnecting" /\ status = "gone"
    /\ callback' = CallbackIdle
    /\ UNCHANGED <<now, row, closed, picked, pass, bank, books, faults>>

Delete ==
    /\ status \in Live
    /\ status' = "gone"
    /\ UNCHANGED <<now, lastSync, creds, closed, picked, pass, callback, bank,
                   books, faults>>

(* close_account and reopen_account: the account keeps its connection.     *)
CloseAccount ==
    /\ status \in Live
    /\ ~closed
    /\ closed' = TRUE
    /\ UNCHANGED <<now, row, picked, pass, callback, bank, books, faults>>

ReopenAccount ==
    /\ status \in Live
    /\ closed
    /\ closed' = FALSE
    /\ UNCHANGED <<now, row, picked, pass, callback, bank, books, faults>>

-----------------------------------------------------------------------------
Kinds == {"session_expired", "user_action", "rate_limited", "other"}

Running(p) == Read(p) \/ Commit(p) \/ CommitGone(p) \/ \E k \in Kinds : Fail(p, k)

Callback == LinkRead \/ LinkCommit \/ ReconnectCommit \/ CallbackFail

Next ==
    \/ Day \/ Post \/ Lapse
    \/ Beat
    \/ \E p \in Passes : ManualSync(p) \/ ScheduledSync(p) \/ Running(p)
    \/ LinkBegin \/ ReconnectBegin \/ Callback
    \/ Delete \/ CloseAccount \/ ReopenAccount

(* The clock runs, the beat ticks, the worker works off its list, and a *)
(* request or task that has begun runs to its end.  Users and banks owe *)
(* nothing.                                                             *)
Fairness ==
    /\ WF_vars(Day)
    /\ WF_vars(Beat)
    /\ WF_vars(\E p \in Passes : ScheduledSync(p))
    /\ \A p \in Passes : WF_vars(Running(p))
    /\ WF_vars(Callback)

Spec == Init /\ [][Next]_vars
FairSpec == Spec /\ Fairness

-----------------------------------------------------------------------------
(* Properties.                                                             *)

Missing == posted \ (imported \cup skipped)

(* An operation that has no row is never older than the next pass will     *)
(* look: last_sync_at may move on only over what the 14-day rewind gets    *)
(* back.  About sync_connection, its failure handlers and both branches of *)
(* handle_oauth_callback, overlapping in any order.                        *)
NoGap ==
    status \in Live /\ lastSync # Never =>
        \A d \in Missing : d >= lastSync - Rewind

(* "expired" tells the user to reauthorize: the credentials on the row are *)
(* then no longer honoured by the bank.  About the SessionExpiredError     *)
(* handler and the reconnect branch, which is meant to end that state.     *)
ExpiredMeansLapsed == status = "expired" => creds \notin valid

(* While the consent is honoured and the connection is not parked as       *)
(* expired or deleted, the ledger catches up with the bank again and again *)
(* without any user: the scheduler also retries what failed.  About        *)
(* _sync_all and sync_connection.                                          *)
CaughtUp ==
    <>[](status \in Due /\ creds \in valid) => []<>(Missing = {})
=============================================================================
