# A verification of Securo in TLA+

Securo is a self-hosted personal finance manager: a FastAPI backend with a
PostgreSQL database (`src/backend/app`), Celery workers for scheduled tasks,
Redis, and a React client (`src/frontend/src`). Its hard parts are of two kinds.

* In the backend several API workers and Celery tasks change the same rows, each
  with its own database session, and await bank providers in the middle of a
  transaction. Nothing is locked and few uniqueness constraints help.
* In the client a page is a handful of separate pieces of state (dialogs, forms,
  selections, a cache of queries, `localStorage`) that answers in any order
  write to, whatever the user has opened by then. Almost nothing is cancelled.

This directory has TLA+ models of both, TLC configurations that check small
instances, and TLAPS proofs of what holds for every value of the constants.

## Running

    tlc -workers 2 -config pages.cfg Pages
    tlc -workers 2 -config lifecycle.cfg ConnectionLifecycle
    tlapm PagesProofs.tla

`PROJECT.json` has the runs and what each is expected to show, the source lines
that every definition stands for, the hazards of the code with the properties
about them, the theorems, and for each property a broken variant of a definition
(beside it in its module, with "broken" in its comment) with which TLC finds the
property violated.

## Inventory

Backend (a row of transactions is "a row"):

| Component | State | Operations | What is hard | Modelled in |
|---|---|---|---|---|
| Bank connection lifecycle (`connection_service`, `sync_tasks`, `api/connections`) | `status`, `last_sync_at`, `credentials`; the scheduler's list; sessions in flight | first link, hourly and manual sync, reconnect, delete, close and reopen an account | sessions work on a stale row; failures; throttling; lapsed consents | ConnectionLifecycle |
| Ledger sync (`connection_service`) | rows, account rows, opening balances | three matching passes, insert, phantom cleanup | overlapping passes; ids re-issued on posting; user edits in between | LedgerSync |
| Transfer detection | `transfer_pair_id` | greedy pairing, unlinking | order of candidates; cascading delete | LedgerSync |
| Recurring bills (`recurring_*_service`) | `next_occurrence`, `is_active`, placeholders, links | generation, backfill, claim, fulfilment | rewinds, early and late charges, stale pointers | RecurringBills |
| Asset positions, groups, workspaces, rules, imports, credit cards, rates, authentication, backup, agents | rows | create, edit, compute | check, then act; rounding; replay | not, or as their page sees them |

Client:

| Component | State | What is hard | Correct when | Modelled in |
|---|---|---|---|---|
| Session and workspace scope (`auth-context`, `workspace-context`, `lib/api`, `login`, route guards) | token and workspace id in `localStorage`, contexts that mirror them, cached rows, requests | every request reads the storage, tabs share it, no answer is cancelled | rows, requests and verdicts are of the workspace shown; nobody waits for ever | Session, WorkspaceScope |
| Query cache (React Query) | an answer per key, fetches, mutations | a write during a fetch | what is shown ends up as the server's | QueryCache |
| Assets (`assets.tsx`) | form, asset edited, quote, lists | a late answer rebinds the form; a write makes other lists old | the form saves what it shows; lists end up fresh | AssetForm, AssetLists |
| Import (`import.tsx`, panel, history) | file, options, preview | previews out of order; lists left old | the counts are of the import that would run | ImportPage |
| Transactions (`transactions.tsx`, filter bar) | filters, page, selection | the selection outlives its rows | bulk writes name rows on screen | TransactionsList |
| Transaction dialog | row, form, draft, prompts | another row comes under the prompts | fields reach their row | TransactionDialog, TransactionForm |
| Account detail | window of dates, bills | late data against the user's pick; month ends | the pick stays; arrows move | CardWindow |
| Accounts and connect dialogs | dialog, step, country, banks | uncancelled lists; leaving for the bank and back | banks are the country's | AccountsPage |
| Groups | balances, settlement form | a stale balance settled again | a debt is paid once | GroupPages |
| Payees | filter, selection | the selection outlives its rows | what is merged is listed | PayeesPage |
| Rules | draft, preview | previews of another draft | saved as previewed | RulesPage |
| Categories | hide after a look for rules | two requests | hidden only if asked | CategoriesPage |
| Agent chat | stream, bubble, history, cards | a turn's end wipes the next; a card has two names | bubble on screen; applied once | AssistantChat |
| Attachments | uploads, preview pane | files out of order | the pane shows the last click | Attachments |
| Bills, goals, budgets, collections | list, dialog, form in two places | fields of two rows mixed | fields reach their row | PlanningPages |
| Workspace settings | form, dialogs, active workspace | the list moves the page | writes reach their workspace | WorkspaceSettings |
| Dashboard, reports, simulation, guidance, administration, setup | queries | – | – | not modelled |

Interaction. The scheduler and the API enter `sync_connection`, which calls the
provider, the duplicate search, the recurring matcher, transfer detection, the
phantom cleanup and the opening balance in one database transaction; generation
of bills writes rows that ingestion later claims; users edit the same rows at any
time. In the client the session decides what every request carries, a switch of
the workspace drops the cache that all pages read, and the pages otherwise share
nothing: each has its own state and asks for its queries when it is opened.

## Modules of the backend

### ConnectionLifecycle

One connection. `status`, `lastSync` and `creds` are the columns; `pass` holds
the sync passes in flight, `callback` the browser's callback, `picked` the
scheduler's list. `ManualSync` and `ScheduledSync` begin a pass (`Load`), `Read`
is the provider's answer, `Commit` the one commit at the end, `Fail` the four
`except` clauses, `CommitGone` the commit that finds the connection deleted.
`LinkBegin/Read/Commit` and `ReconnectBegin/Commit` are the two branches of
`handle_oauth_callback`.

* A session loads the row once. SQLAlchemy writes a column at the commit only
  if the value assigned differs from the value loaded: `Commit` and
  `ReconnectCommit` leave `status` as somebody else has set it when the copy
  was already active, and `ReconnectCommit` leaves `last_sync_at` when its copy
  was NULL.
* `refresh_credentials` of the bundled providers returns the credentials it was
  given, so a pass does not write them.
* Dates have the granularity of a day because the provider filters on dates.
  `Flight` bounds how long a request stays in flight (HTTP timeouts), `Lag` how
  far a provider backdates. The code's rewind is 14 days.
* An account closed while a pass reads is passed over; those dates go to
  `skipped` and are exempt from the properties.

Left out: connection settings, and more than one account per connection.

### LedgerSync

Several passes over the accounts of one connection, one row at a time. A pass
is a session at READ COMMITTED: `View` overlays the committed rows with the
pass's own (`add`, `upd`, `del`), `Commit` writes what it changed. `Begin`,
`Fetch` (an account of the provider's list), `Item` (one report through
`SameExt`, `ManualMatches`, `SyncedTwins`, else `Insert`), `Opening`,
`Reconcile` (pairing and cleanup), `Commit`, `Abort`. The provider publishes
and settles reports; users hide, delete, unlink and enter rows. An UPDATE of a
deleted row raises, so such a pass can only abort.

A deletion or an unlink is a request with a session of its own, in two steps. It reads
its rows (`ReadRow`: the row and the other leg of its transfer; `ReadPair`), waits in
`asked`, and writes those rows whatever they have become (`DeleteRow`, `UnlinkPair`, or
`UnlinkRaises` when one is gone). Any number of commits may lie between; the bulk
deletion has the same shape. A pairing that is committed in between, of a row that was
read unpaired, leaves the other leg with an id that nothing shares. This needs one pass
only: its flush holds the locks of the two rows, so the request that has read waits and
writes after the commit. The history variable `torn` has these pairs, and
`PairsAreMutual` speaks of all others.

The reports of an instance share amount, currency and wording, so the
similarity tests pass and account, day, direction and status decide. This is the
case in which the matching can err in either direction. `op` (the operation at the
bank a row stands for) and `span` (begin and commit of the pass that gave the
row its id) are history variables for the properties. The order in which a query
returns rows with equal sort keys is any (`Orders`); `Oldest` needs none since
`created_at` orders the rows of different passes. The row locks that a flush takes
until the commit are left out, here and in RecurringBills. A lock makes a session wait
between two of its steps, and every step of a session that can wait is one of its own
here; without the locks there are more interleavings, and the counterexample of
`ledger_wedge` needs none of them.

Left out: installments (path 1 of `_find_synced_duplicate`), closed accounts (see
ConnectionLifecycle), bills, recurring matches (the next module), rules, exchange
rates, holdings, rows that the session keeps from an earlier query of the same pass.

`Columns` holds what this module and the next share: a row with some of its columns set,
and a table with a row more or less.

### RecurringBills

One bill, its pointer `next` and the rows that stand for its occurrences.
`GenerateBegin` and `BackfillBegin` start a session that makes one `Occurrence`
step per turn of `_materialize_due`: covered, linked to a real row, or a
placeholder. `ChargeBegin` claims a placeholder; `ChargeBill` looks for the bill
and moves the pointer (`AdvancePast`). A query flushes what was changed before
it, so a pointer a session has `moved` is written even if it ends where it was
loaded: a backfill overwrites what a charge committed meanwhile. Claim and
fulfilment are shared by bank sync and file import. `DeleteRow`, `ToggleIgnore`,
`Unlink` and `Pause` are the user's. `due`, `span` and `edited` are history.

Left out: editing a bill's dates, amount or text, deleting it, the shift of
weekend dates, months of different lengths, a session that runs past two midnights.

## Modules of the client

### Session and WorkspaceScope

One tab. `storage` is `localStorage`, `auth` and `scope` are the state of
`AuthProvider` and `WorkspaceProvider`, `page` the route and the login form,
`cache` whose rows are cached, `net` the requests, `member` the server's
memberships. `Call` is the interceptor: it takes the token and the workspace out
of `storage` when a request is sent. `AuthEffect` and `ScopeEffect` are the two
contexts' effects, part of every action that changes what they depend on (React runs
them before anything else can happen). Answers are `Me`, `List`, `Rows`,
`Created` and their failures, and `Unauthorized` for the 401 of any request, a sign-in's
too. `Logout` is there before the user or the list is known.
`OtherSignsIn`, `OtherSignsOut` and `OtherChooses` are another tab's writes to the
storage; only the token has a listener.

`WorkspaceScope` is the abstract promise: rows on screen are never rows of
another workspace than the one named. `Session` implements it under the mapping
`active <- scope.ws` once it is in the list, `shown <- cache` (`ImplementsScope`).

### QueryCache and the pages

`QueryCache` is what the pages use of React Query. The keys of a page do not
depend on each other, so a behaviour follows one key, any of them: `old` when
the page shows for it what the server does not hold any more, `fetch` none, clean,
or dirty when something was written since it was sent (its answer may then be from
before or after). To ask again drops the fetch under way. A fetch can fail
(`FetchFails`), and a list that is stale is asked for when the page is looked at again
(`Revisit`). A mutation is `Sent`, `Served` by the server at some later time, and
answered at another.

Each page module has four variables. `ui` is the page's React state; `net` its
requests; `q` the part of the server it depends on, or the cached key; `log` what
the properties' exceptions speak of, and the number of writes. The actions are the
buttons, fields and effects of the page (each with the condition under which it is
enabled or shown), the server (`Serve`), answers (`Answer`, `Fail` and their like),
and where it matters another user. Where the properties tell the two apart, a request
fails before or after it was served: its answer can be lost. The module then
records what this leaves (`left`, `old`, `partial`). Every answer is handled as the mutation's handlers do, on
the state it finds.

| Module | Follows | Property |
|---|---|---|
| AssetForm | one form, two assets, quotes and price refreshes | `FormIsOfItsAsset` |
| AssetLists | the lists, wallets, trades and values | `ListsFreshWhenQuiet` |
| ImportPage | two files, two wallets, previews, imports, undos | `CountsDescribeTheImport` (violated), `ListsFreshWhenQuiet` |
| TransactionsList | filters that the effect watches and others, pages, a selection, rows written one by one | `SelectionIsOnThePage` (violated) |
| TransactionDialog | two rows, new rows and drafts, prompts of a series, calendar | `EditsReachTheirRow`, `DraftsAreAskedFor` |
| TransactionForm | an entry with its chain of requests, or a row with its toggle and split | `StoredOnce`, `SaveChangesNothingElse` |
| CardWindow | days of six months, closing and due days, the bank's bills | `ChosenWindowStays`, `OpensOnTheBillDue`, `StepsGoTheirWay` |
| AccountsPage | two countries, connect, reconnect, callback | `BanksAreOfTheCountry` |
| GroupPages | one debt and its line, a settlement, a linked transaction | `NothingOverpaid`, `LinkedAmountsAgree` |
| PayeesPage | one payee among others | `SelectedAreListed` |
| RulesPage | the draft and its preview in windows | `SavedAsPreviewed` |
| CategoriesPage | one category and a rule that assigns it | `HidesAreAsked` |
| AssistantChat | turns, two conversations, the two cards of one proposal | `AnswerIsShown`, `AppliedOnce` |
| Attachments | two files among others | `PreviewIsLastAsked` |
| PlanningPages | two rows, a form in the page's state and one that is keyed | `PlansReachTheirRow`, `ListsFreshWhenQuiet` |
| WorkspaceSettings | three workspaces, a form, dialogs, the list | `WritesReachTheirWorkspace` |

Most of these properties have exceptions ("unless ..."), named in the comment of
the property and recorded by the module in `log`: they are what the code
does let happen; see Observations. Two have none: the code's comments state them
without one, and the code breaks them (`import_counts`, `transactions_selection`).

`Pages` composes them: a behaviour is of one page, and `Pages` states their
properties under one name each.

## Runs

| Run | Result | What it shows |
|---|---|---|
| `lifecycle` | holds | one pass and the callback, two consents, a failure, four days, fair scheduler: `NoGap`, `CaughtUp` |
| `lifecycle_expired` | violated | the pass on the old consent marks the row expired, then the reconnect, which had loaded it active, commits its new consent without the status |
| `ledger_overlap` | holds | two passes overlapping, three in all, one purchase under two ids, a manual row, a user edit: `DuplicatesOnlyByOverlap` |
| `ledger_serial` | holds | three passes in turn over a transfer with a re-issued id and a phantom, two user edits that read first and write later: one row per operation, mutual pairs, nothing lost |
| `ledger_twin` | violated | manual row, pending report, posted report: two rows |
| `ledger_wedge` | violated | two opening balances, after which each sync raises |
| `recurring_month` | holds | two sessions overlapping, four in all, two occurrences, a late and an early charge, a user edit |
| `recurring_week` | violated | a weekly charge two days early claims last week's placeholder |
| `session_tab` | holds | one tab, two workspaces of which one has the module, another tab that signs in and out: rows, requests and verdicts are of the workspace shown, sign-in settles, the tab implements `WorkspaceScope` |
| `pages` | holds | all sixteen page modules, two writes each: their types and 20 properties |
| `import_counts` | violated | three previews of a file of orders, the last for a wallet just picked, the second answered last: counts of the wallet before |
| `transactions_selection` | violated | a row selected, then a filter changed that the effect does not watch (or the row deleted on its own) |

The violated runs are disagreements of the code with its own comments, quoted in
`PROJECT.json` under `findings`.

Bounds of the backend runs. Two passes are enough for the overlaps the code can
meet pairwise (a manual and a scheduled sync, two tasks); a third pass in sequence
shows whether what an overlap left grows. The clock of the `lifecycle` runs outruns
`Rewind` (1 day there), so a gap would leave the window; `Rewind = Flight + Lag`
makes the assumption tight. They set `Lag = 0`, and have one pass, which overlaps the
callback: with two the temporal check does not end in reasonable time. That `NoGap`
holds however passes overlap, and for any `Lag`, is proved (`NothingLeftBehind`). In `recurring_month` the period is 4 and every window 1: the
windows of neighbouring occurrences stay apart as 28 days and the code's 3, 5 and
5 do; `recurring_week` has the code's own 7, 2, 2, 5. The last days of the clock
are quiet (`Post`), so that a bounded clock leaves the scheduler a day on which
the connection is stale. Deadlock checking is off where a bound ends the model.

Bounds of the session runs. `MaxCalls = 2` requests in flight of each state, so
that an old and a new answer of any kind can pass each other; two workspaces, one
joined at the start and one that is created. They have **one account**. With two
accounts in one browser `RowsOfTheActiveWorkspace` and
`RequestsCarryTheActiveWorkspace` do not hold: a sign-in by another tab does not
clear the cache, and late answers of the previous user still land.

Bounds of `pages`. `MaxWrites = 2` lets two writes of any kinds overlap, be
answered in either order, and one be lost; in the pages whose fetches or previews
race, two are in flight. An import page asks for three previews (`MaxAsked`), the fewest
that can be answered out of order around a change of the wallet. Of the transactions
there are five rows, one of them yet to be entered and one of another user, on pages of
three (`Rows`, `Size`). The proofs need no bound on the writes.

Fairness. In `lifecycle`: the clock, the beat, the worker taking up its list,
every pass running to its end, the callback; Celery's beat and worker and the HTTP
timeouts justify them. A consent lapsing, a user and the bank are under none.
`CaughtUp` is conditional on the connection being listed (`active` or `error`) and
the consent honoured from some time on; an expired connection waits for the user.
`MaxFaults` says that failures with a valid consent stop at some time. In
`session_tab`: the answers to `me()` and to the list (any answer, a failure too; the
browser ends every request in one) and the redirect of a route guard. The user and
the other tab are under none.

## Proofs

Eight modules hold theorems. The results are in `ConnectionLifecycleProofs`,
`LedgerSyncProofs`, `RecurringBillsProofs`, `SessionProofs`, `PagesProofs` and
`PageTypesProofs`, which adds the types to `PagesProofs`. Two pages with long proofs
have modules of their own, `TransactionDialogProofs` and `GroupPagesProofs`, which `Pages`
instantiates so that `PagesProofs` can cite their lemmas.

### ConnectionLifecycle

For every number of passes and all constants under the module's assumptions:
`TypeCorrect` (`Spec => []TypeOK`) and `NothingLeftBehind` (`Spec => []NoGap`).
`NoGap` is not inductive: it speaks of the committed row, and a commit is as good
as the session behind it. The invariant `IInv` adds:

* `Clocked`: whatever is in flight began at most `Flight` days ago, and cursors
  are not in the future;
* `LinkFirst`: before the first link's commit no pass runs, and a callback that
  links finds no row yet;
* `WillAsk`: a pass that has not read yet will ask for every date that has no
  row, or the date is at most `Lag` older than the pass;
* `HasRead`: what a pass (or the linking callback) that has read did not get is at
  most `Lag` older than its beginning, and so lies within `Flight + Lag` of any
  commit it can still make.

The step that matters is `Commit`: the cursor moves to `now`, what is missing was
posted since the pass read, so it is no older than `now - Flight - Lag`, and
`RewindAssumption` (`Flight + Lag <= Rewind`) closes it. This is the condition on
the 14 days of the code: pass and backdating together must not exceed them.

### LedgerSync

`StrayDuplicatesNeedOverlap` (`Spec => []DuplicatesOnlyByOverlap`) for all constants and
without a hypothesis: any number of passes, accounts, reports and edits, and whatever the
pairing and the cleanup choose to do. The property speaks of committed rows; what
endangers it are the rows that open sessions hold back. `IInv` therefore says of
every session in flight (`AddFits`, `UpdFits`): for each row that it adds, and for each
committed row to which it gives another external id (`Renamed`), every committed row of
that account and that id is `Settled`: the session itself deletes it or gives it
another id, or the row got its id after the session began. The last case
is the overlap that the property excuses, and the reason why an `Abort` or a
conflicting `Commit` of another pass cannot break it. The rest of `IInv` is what
this needs: the beginnings of passes differ and mark the ids of their rows
(`BeginsApart`), and a pass deletes only in its last step before the commit.
`SameExt` empty gives `Settled` for a new row (`FreeIsClear`); the merge of a manual or of
a pending row gives it for a renamed one.

`TypeCorrect` (`Spec => []TypeOK`), without a hypothesis either. It needs what `Pairing`
returns for every list of rows: pairs of two different listed rows, of different
accounts and opposite directions, no row in two of them. `Pairing` is a recursive function
along the list, and the library's theorems about induction and recursive functions take
operators. The proof module therefore tells them of sets: the induction over the
naturals holds for every set that has 0 and the successors of its members
(`SetInduction`, from the well-foundedness of `<`); by it a function that is told value by
value exists (`Recursion`), `Pairing` is such a function's last value (`PairingIs`), and its
values are pairs at every position of the list (`PairingsFit`). The invariant `TypeInv` adds
that a row keeps the account, day and direction of the report it was created for and only
takes over ids that could be the same operation (`TrueRow`, `TrueChange`).

`TransfersStayMutual` (`PairsAreMutual`) with one pass in flight at a time
(`Passes = {p}`). The invariant `PairInv` compares the marks that a session is about to
write with the rows as they are and not as they were read (`MarksFit`): it marks and deletes
only rows that are still unpaired, marks both rows of a pair, and deletes none that it
marks. Only an overlapping pass could pair one of them in between; with two passes a row
can end in two pairs, and the hypothesis leaves this out. The users' requests read before
they write, too: `ReadInv` says of each that has read a pair that it has read both rows of
it, or the pair is in `torn`. So what it writes takes a pair as a whole, but for the pairs
that were made after it read, and these its write puts in `torn` (`WriteSpares`).

`NoOperationIsLost` (`PostedAreKept`), for any number of passes, overlapping ones too (the
property itself speaks of passes that nobody disturbed), under `OpsApart`: reports of one
account and direction within three days are of one operation. The matching knows no more of
two reports than this (all amounts in the module are equal), so it merges a repetition of the
same amount on the next day into the first one; that is the code's behaviour and among the
hazards. `KeptInv` says of each posted report that a pass has read: it is still to be
processed, or among the rows there would be at a commit now (`Outcome`) one stands for its
operation. Merges, renames and the cleanup keep it: what the cleanup deletes has a
sibling that stands for the same operation.

`OneRowEach` (`OneRowPerOperation`) with one pass in flight at a time, `OpsApart`, no rows
entered by hand (`MaxManual = 0`) and `TwinsAlike`: the ids of an operation are reported with
the same account, direction and day, but for phantoms. Manual rows are excluded because with
one the property fails (`ledger_twin`), overlapping passes because they make two rows
(and two rows of one external id only they do, `StrayDuplicatesNeedOverlap`). The invariant `OneInv` relates
the rows that a session will leave (`SeenIn`) to what the provider has said up to now (`Fair`,
`Told`): an id that was reported pending, and has a twin that was reported, did not post
itself unless the provider posted the operation twice (`WasPending`). So a pending row meets
the posted report and is renamed.

The hypotheses of the last three hold in the instance of `ledger_serial`. TLC checked each of
the invariants on the instances before it was proved. All use the assumption that the
mark of a row without an external id is not an external id (`DataAssumption`).

### RecurringBills

`ChargesKeepTheirOccurrence` (`OwnOccurrence`), `NoOccurrenceIsLost` (`NoOccurrenceLost`) and
`CountedOnce` (`OnceUnlessOverlapped`), for any number of sessions, days and edits, any
period and any windows under two hypotheses:

* `WindowsApart`: `Before` and `After` are at most `Claim`, and two of the three that
  belong to neighbouring occurrences do not add up to a period. The code's 3, 5 and 5
  satisfy this for a month of at least 28 days and all longer periods; its 2, 2 and 5 for a
  week do not (5 + 2 = 7), and `recurring_week` shows what then happens.
* `OneChargeEach`: an occurrence is charged once. With two charges for it the second one
  claims or passes over a neighbour.

Both hold in the instance of `recurring_month`. The invariant `IInv` tells from a row's id
which occurrence it stands for (`Stands`), so that no later change of the row can hide it:

* `Stood`: every occurrence before a pointer has a row, or an edit gave it up. It holds of
  the committed pointer with the committed rows, and of a session's pointer with these and
  the session's own: whichever of the two pointers a commit leaves, nothing is lost;
* `Late`: whatever else stands for an occurrence that a session adds a row for was
  committed after the session began, so that two rows come of overlapping sessions only;
* `RowFits`, `ChangeFits`: a row's date, charge and link agree with its id. This is where
  `WindowsApart` enters: a window or a claim that reaches a row of the grid reaches only
  the row of its own occurrence (`GridApart`).

### Session

For any number of accounts, workspaces and requests, under `SessionAssumption` (whoever is
registered has a personal workspace; workspaces are numbered by age): `TypeCorrect`
(`TypeOK`) and `NoHastyVerdict` (`NoVerdictBeforeTheList`). Their invariant `IInv` says what
each context holds by: while a module's page waits for neither context the list has been
heard, and without a token nothing but the login page is left.

With one account and other tabs that pick no workspace of their own
(`Users = {u}`, `"switch" \notin OtherTab`): `RowsAreOfTheActive`, `RequestsCarryTheActive`
and `TabImplementsScope`, the refinement of `WorkspaceScope`. These hypotheses are not for
the prover's sake: with `"switch"` in `OtherTab`, another tab that picks a workspace, TLC
violates `RequestsCarryTheActiveWorkspace` (see Observations), and with two accounts it
fails as said under Runs. The invariant `ScopeInv` compares
everything with one value, `Target`: the workspace in storage if the user sees it, else the
oldest. Rows on screen, rows that a request will bring and the named workspace (once in the
list) are all `Target`'s; a switch changes it and drops the first two in the same step; a
list or a new workspace that is answered late may change what the user sees but not
`Target`. For the refinement each step is a step of `WorkspaceScope` or leaves what the shell
shows; the steps that only send or fail are settled together (`Quiet`).

### Pages

All properties that hold of `Pages` are proved, for every `MaxWrites`; only `TypeOK`, which bounds the
counts by it, needs that it is a number (`MaxWritesAssumption`). For each page
an inductive invariant is proved (`Init` gives it, every action keeps it), and the
theorem composes it: a step of `Pages` on a page is a step of that page's module.
What the properties lack to be inductive, page by page:

* lists (`AssetsInv`, `ImportFresh`, `PlanListsInv`): a list that is old, and not known to be
  left so (a lost answer, a failed fetch), is being fetched cleanly or has an answer coming
  that asks for it;
* transaction's form (`StoredInv`, `ToggleInv`, `SplitInv`): one creation at a time, and an entry
  whose first request is still to come has no row; every save under way carries the
  server's own flag, unless a toggle is on its way or its answer was lost; a clearing save
  was asked for;
* dialog (`TransactionDialogProofs`): what the prompts and the calls hold is the row the
  form was filled from, and a draft is flagged as long as it is kept;
* chat (`ChatInv`, `AppliedInv`): the bubble is the last turn's and every live call's turn
  is known; at most one call of a proposal is live, its card busy, and once it is
  made the card is marked in the browser;
* groups (`GroupPagesProofs!Ledger`): the line, the debt and what is being paid balance as
  long as nothing on the list of excuses has happened;
* payees, accounts, rules, assets: the selected, the banks, the rows of the preview and
  the asset of the form agree with what was asked for, or an answer is known to be late;
* settings, planning, card, categories, attachments: each field, dialog, window, look and
  file is tied to the row, workspace or click that it was filled from;
* card's calendar (`OpensInv`, `DaysInv`): a window that nobody picked is the default one of
  the settings that have landed, and that cycle closes before the due date shown for
  it; windows stay in the calendar. The lemmas about the calendar (`DueOfTheCycle`,
  `CycleHolds`, `MonthsMove`, `BillDays`) are proved month by month, as the model's
  months are literal;
* types (`PageTypesProofs!TypeCorrect`): the shapes are in the invariants above; the counts
  take one of their own, page by page (`AssetTyped` to `SettingsTyped`). As many uploads wait on screen as are
  under way (`FileTypes`), so no answer finds none to take away. A row of which a creation
  is still to come is stored less often than was written (`FormTypes`). What is owed
  and what is paid in a group make up one debt (`Owes`).

### Only model-checked

Liveness: `CaughtUp` and `SignInSettles`.

`RecurringBills!TypeOK` documents the state and is in no run; the proofs use the types in `IInv`.

## Observations

What the exceptions and the bounds of the properties say about the code.

* Another tab that picks a workspace changes the header of this tab's requests
  (`api.ts:92`), while this page still shows the old one, its state having no listener
  (`workspace-context.tsx:36`). With `OtherTab = {"switch"}` and `Joined = {1, 2}` TLC
  finds it in five states.
* A deletion that reads a row before a pass pairs it, and deletes it after, leaves the
  other leg marked as a transfer. The docstring of `delete_transaction` says that paired
  legs are deleted along.
* After a write whose answer is lost, or a list that could not be read again, a page shows
  the old list until it is looked at again (`assets.tsx:359`, `import.tsx:162`); a toggle
  whose answer is lost is undone by the next save (`transaction-dialog.tsx:579`).
* A statement that cannot be previewed leaves the rows of the file before it on screen
  (`import.tsx:98`); an import of them stores those rows.
* `OpensOnTheBillDue` leaves out the pairs of a closing and a due day that are equal or
  that a month cuts to the same day, (16, 16) and (31, 30) among them: there
  `dueDateForCycle` (`account-detail.tsx:111`) strays from its own comment. They are
  excluded, not covered.
* The create chain of a transaction stores the row again when a later step failed or the
  answer was lost and the form is saved again.
* A price refresh or a quote answered late rebinds the asset form; a calendar row answered
  late replaces the row under an open prompt; a list answered late moves the
  workspace settings under an open dialog.
* A balance line settled again before the balances are back is paid twice.
* A proposal has one card in the bubble and another in the history: both can be applied.
* The end of a turn that is still being read back takes the next turn's bubble away.

Seen and not modelled: the export of the transactions ignores the group and amount filters;
clearing the filter of an account shows its default cycle and not the bill; budgets keep the
dismissed insights of another month; the preference toggles send the whole stale object; an
import's success drops a file chosen meanwhile.

## Not modelled

* Asset positions, settlements and splits on the server, the checks of owners and members,
  exchange rates, Drive backup, one-shot challenges: each would be a module of its own kind
  (arithmetic over a ledger, or two requests that check and then act); their hazards are listed.
* Reports, dashboards, simulation, guidance, search: queries and drawing.
* Provider clients, file storage, the bank's widget, push of the agent's model: I/O.
* Administration and setup: forms of one request each, of the shape of those modelled.
* In the client: layout, wording, formatting, the length of stale times (a list may grow
  stale at any time instead, `Revisit`), object URLs, export.
