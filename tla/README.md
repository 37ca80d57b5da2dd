# Gold Queen API in TLA+

This directory holds a formal model of the Gold Queen API, a FastAPI service that
links bank accounts through Pluggy (Open Finance), stores their transactions in
Postgres (or SQLite for the quick-start), has a Gemini model label them, and lets the
user ask "the Queen" a limited number of questions a day. The models are translated
from the code under `src/app`, `src/alembic` and `src/scripts`, checked with TLC on
small instances, and every safety and action property that a passing run checks is
proved with TLAPS for every instance, some of them for Postgres or for one worker only.

Contents: [the system](#the-system), [modules](#modules),
[how the models follow the code](#how-the-models-follow-the-code), [runs](#runs),
[fairness](#fairness), [findings](#findings), [proofs](#proofs),
[what is not modelled](#what-is-not-modelled), [plan](#plan).

## The system

Handlers are plain `def` functions, so FastAPI runs each on a thread of its pool, with
its own SQLAlchemy session, Pluggy client and AI engine. The threads share nothing but
the database and the login throttle. Everything that is hard here follows from
this: a request reads, waits for Pluggy or Gemini for seconds, commits, reads again, and
any other request may run in each gap; the process can be restarted at any of them.

| component | state it keeps | operations | who it talks to | hard behaviour | what makes it correct |
|---|---|---|---|---|---|
| Bank sync and unlink (`services/sync.py`, `routers/connections.py`) | `bank_connections`, `accounts`, `transactions` | `sync_item`, `delete_connection`, list | Pluggy, AI engine, database | several commits per request; another sync or an unlink between any two; a request that stops half way | one row per Pluggy id, nothing left of an unlinked bank, only the owner links an item, the plan limit, a category that never moves, a retry that completes what was begun |
| Transaction merge (`sync_item` inner loop) | one account's rows, `known`, `seen_movements` | dedupe, refresh, insert | the feed | repeated ids, fresh ids for old movements, rows that change while a repeat arrives | everything fetched is stored, nothing is counted twice, repeated syncs settle |
| Daily quota (`services/rate_limit.py`) | `chat_usage`, `demo_usage` | `consume_request`, `refund_request`, `remaining_requests` | chat, tips | concurrent last unit, midnight between charge and refund, crash after charge | at most the limit per day; every unit is accounted for |
| Chat and Queen's Tips (`routers/chat.py`, `routers/advisor.py`) | `chat_cache` | query, tips | quota, treasury, grounding, AI engine | racing misses, outages, rows of an older format, treasury moving under a request | an outage is never cached, an answer matches the request, a bounded number of copies |
| AI engine and providers (`services/ai.py`, `providers/`) | none | categorize, chat, queen_tips, with retries | Gemini | retries, Retry-After of any form, odd output | bounded attempts and sleep; callers see an answer with an honest flag, never an error |
| Pluggy client (`services/pluggy.py`) | API key of one request | connect token, items, accounts, transactions by cursor | Pluggy over HTTP | key expiry, overlapping or endless pages | a walk is whole or cut at the page bound; a key outlasts a call |
| Treasury, grounding, dashboard (`services/treasury.py`, `grounding.py`) | none, read-only | sums, rankings, paging | database | reads of one answer straddle a sync; pages without a tie-break | the figures of one answer agree, paging loses only rows of one day |
| Login throttle (`core/login_rate_limit.py`) | attempts per caller, in memory | check and record | login | clock read outside the lock | attempts per window, a `Retry-After` that can be relied on |
| Registration, login, tokens (`routers/auth.py`, `core/security.py`) | `users` | register, login, current user | throttle, demo refresh | two registrations of one email, or one and the seed | the first row of an email stands, with its password |
| Demo account (`services/demo_access.py`, `demo_refresh.py`) | visitor counters, shifted dates | quota subject, date shift | quota, transactions | visitors share one account and one cache | visitors have separate counters; the shift keeps order |
| Migrations (`alembic/versions`) | the schema | `upgrade`, `downgrade` | database | duplicates before the unique key, the old release and syncs still running | quota units add up, only copies are deleted |
| Demo seeding (`seed.py`, `scripts/seed_demo_connection.py`) | an item at Pluggy, the demo users | seed users; create an item, poll it, sync it | Pluggy, the API | polls and timeouts, a request left behind, a second run, a movement under two ids | "Done" means stored, once; every run ends |
| Chat scope, locale, configuration, errors | none | pure checks and wiring | all | none | unit tests cover them |

Interactions: `sync_item` is the only writer of movements, and the treasury, grounding
and cache keys of the Queen are computed from what it wrote. Chat and tips meet in the
quota row of their subject and in the cache of their account. The demo account is one
user row with many subjects.

## Modules

    Movements      the merge of one feed into one account's rows, as sets
      |-- MovementMerge   the loop itself, folded over a feed --\
      |                                    Migrations -----------+-- MCMovementMerge
      |                                                          `-- MergeProofs
      `-- Sync            connections, accounts, transactions and the workers; MCSync
            `-- SyncProofs        any number of workers
                  `-- SyncSerial  one worker, on Postgres and on SQLite
    Allowance      what the daily counter promises
      `-- Queen           counter, cache, chat and tips, refining Allowance; MCQueen
            `-- QueenProofs
    PluggyClient   keys, calls and cursor pages
      `-- Seeding         the demo script and its sync, over the client --\
    Oracle         what callers may rely on                               +-- MCUpstream
      `-- Engine          one question to Gemini, refining Oracle --------+-- UpstreamProofs
    Access         throttle, login, register, seed, the demo's dates; MCAccess
      `-- AccessProofs
    Treasury       totals, series, grounding, pages; MCTreasury
      `-- TreasuryProofs
    FoldFacts      sums over finite sets, first and last elements, smallest
                   counterexamples; extended by the proof modules but those of Sync

A proof module extends the modules it proves theorems about.

| module | models |
|---|---|
| `Movements` | `_dedupe_remote_transactions`, `_movement_key`, `_apply_remote_fields` and the decision what to insert, as the two sets a fetch leaves in the session |
| `MovementMerge` | the loop of `sync_item` statement by statement, run again and again over any stored rows and any feed |
| `Migrations` | revisions `c7a1b5e0d942` and `d4e7a2b81c05` statement by statement, the release before them and syncs going on |
| `Sync` | every request of `POST /sync` and `DELETE /connections/{id}`, crashes, and the bank moving its data |
| `Allowance` | the abstract counter: spend, give back, midnight |
| `Queen` | `POST /chat/query`, `GET /queen-tips`, `consume_request`, `refund_request`, the cache, midnight and crashes |
| `PluggyClient` | `_authenticate`, `fetch_item`, `fetch_accounts`, `fetch_transactions`, and the offline simulator |
| `Seeding` | `scripts/seed_demo_connection.py`, run once or twice, and the sync it posts, composed with `PluggyClient` |
| `Oracle` | the abstract AI engine: a question, an answer, a flag |
| `Engine` | `AIEngine._generate`, `categorize`, `queen_tips`, `chat`, the retry rules, the guardrail on output, the canned answers |
| `Access` | `enforce_login_rate_limit`, `login`, `refresh_demo_transaction_dates`, `register`, `seed_demo_users` |
| `Treasury` | totals, categories, series, balances, `select_grounding_sources`, the paged list, and each GET as its list of statements |

Each bug operator (`SelectNoAccount`, `NeverConflict`, `MayConsumeOneMore`, ...) stands
before the definition it would replace. They are not used by the specifications; putting
one in the place of its definition makes the run that names it fail, which shows that
the property depends on that piece of code.

## How the models follow the code

**Sync.** A worker slot `req[r]` is a thread with its locals: `pc`, the user and item of
the request, the ids it carries (`conn`, `acct`), the accounts still to visit (`todo`),
the rows read before the fetch (`known`), column writes not yet flushed (`dirty`), the
list `new_transactions` (`new`) and, for an unlink, the account ids it read (`doomed`).
A slot serves any number of requests, so two slots already give every pair of overlaps.

| action | code (`services/sync.py`) |
|---|---|
| `StartSync` | `_connection_for_sync`: the user's row, none, or 404 |
| `CheckQuota` | `ensure_connection_quota`; its count and the insert are in different steps, as in the code |
| `RefuseItem`, `ClaimItem` | `fetch_item`, `_ensure_pluggy_item_owner`, insert and commit of the connection |
| `FetchAccounts` | `fetch_accounts`; the balances are as of this call |
| `SelectAccount`, `LeaveLoop` | head of the account loop: the select, or the end of the list |
| `UpsertAccount` | insert or refresh of the account; its commit takes the earlier account's column writes along |
| `ReadRows` | `stored_rows`, from which `known` and `seen_movements` are made |
| `FetchTransactions` | `fetch_transactions` and the merge against the rows read before it |
| `Persist` | `categorize`, the flush, one savepoint per new row, the commit |
| `Finish` | `last_synced_at`, `status`, the last commit |
| `StartDelete`, `CommitDelete` | the two selects; the statements, child first, in one transaction |
| `DatabaseError` | a foreign key, or an UPDATE that matches no row, ends the request: nothing of the open transaction is kept |
| `Fail` | Pluggy answers an error, the connection drops or the process dies, at any step |
| `BankMoves` | outside: the next fetch sees other data |

What lies inside one action is either one committed transaction or code that touches
nothing shared. `Persist` is atomic although it flushes row by row: a concurrent insert
of the same key waits for the commit, so the outcomes are those of some order, and the
deadlock error Postgres may raise when two batches insert the same keys in opposite
orders is a `Fail`. The category of a row is `model` when the model labelled it and
`keyword` otherwise. Labels are any subset of the batch, because `categorize` may answer
for any of the ids. Amounts are exact cents. Money, names and dates are abstracted to a movement, a
function of a few fields to two values.

`Postgres` selects the engine. With `FALSE` no foreign key is enforced
(`core/database.py` sets no pragma) and an id is one more than the highest stored one,
so ids of deleted rows come back; with `TRUE` ids come from a sequence.

**MovementMerge.** `LoopBody` is one iteration of the loop, `Loop` folds it over the
feed, `Resync` is one whole sync of the account by one worker. `Sync` uses the sets of
`Movements`; `LoopIsTheSets` shows that they are what the loop computes.

**Queen.** Chat and tips are one program with small differences: `AskChat` reads the day
first, `AskTips` reads the summary and then the movements (`ReadSummary`,
`SelectGrounding`) and the day last. `Lookup` serves a hit, or sends a miss and a row of
the old tips format to `Consume`. `Consume` is the single upsert of `consume_request`:
the insert of a day's first row ignores the limit, the update does not exceed it.
`Answer` stores the row; `RefundChat` gives the unit back *on the day it runs*;
`FallbackTips` answers the fixed text and keeps the unit; `Fail` loses a unit already
taken. A subject is an account, or one visitor of the demo account, and `UserOf` says
whose cache it reads. The treasury is a version per account, which `TreasuryMoves`
(a sync) advances: the cache keys depend on nothing else. `answered`, `spoiled` and
`credited` are history: they count what happened to each day's units and no action
reads them.

**PluggyClient and Seeding.** A call is `auth`, `post`, `get`, then `done` or `failed`.
`ReadClock` compares the clock with the expiry the client remembers; `MintKey` sets that
expiry from the reading *before* the request, while Pluggy's own two hours start when it
mints. `ReadPage` is one round of the cursor loop: the page holds the next `PageSize`
transactions from the cursor, the `next` link goes on behind the page or, malformed,
points back into it, and the loop ends with no link or after `MaxPages`. The bank may add
a transaction at any moment; the first page starts with the newest. A key Pluggy no
longer honours is answered with an error, which is `FailCall`, and there is no retry.
Without credentials `SimulateCall` answers at once.
In `Seeding` the script goes through `auth`, `item`, `await`, `login`, `quota`, `sync`,
`waiting`, as the functions of `seed_demo_connection.py` follow each other; `GiveUp` is
any failed call of the script and the 300 s timeout of its sync, after which the request
goes on at the server. The request is the part of `sync_item` that calls Pluggy (an
`item` call, an `accounts` call, a walk), with its plan check and its writes; what
interleaves with other requests is `Sync`'s matter.
A transaction is its place in the bank's list, which stands for its id; `listed`, a walk's
`got` and the stored `rows` give each place the movement it shows. The bank may add a
transaction, change the movement of a listed one, and show one movement at two places. Of a
place a walk meets twice the first copy counts (`WithPage`), and `Merged` is the merge of one
account: a stored place is refreshed; another is skipped when its movement is on a stored row
or on one served before it, and added otherwise. So a listed transaction need not become a row
of its own; what "Done" promises is that its movement is on exactly one row (`HoldsOnce`).
An item of the script is synced for the first time when the script waits for it, which is why the
[lost purchase](#findings) cannot happen to it.

**Engine.** `Ask` goes to the provider or, with Gemini off or an empty batch, straight to
the canned answer. `ProviderFails` is every exception of `complete` by its kind: only a
transient one before the last attempt leads to `Sleep`, with the delay of `RetryDelay`.
`Headers` has what Gemini may send: nothing, seconds, a date in the past (negative), junk,
`nan`, which passes `min` and makes `time.sleep` raise inside the loop's `except` path, so
that the question falls back. `CompleteLabels` validates the batch: one unknown category
rejects all of it, unknown ids are dropped, the last label of an id counts. `asked`,
`said` and `answer` are also `Oracle`'s variables, so the mapping is the identity on them
and hides `job`. `Sync` and `Queen` use of the engine exactly what `Oracle` says: labels for
any ids of the batch with a flag, and a text that is the model's or the fallback.

**Access.** `AskLogin` reads the monotonic clock, `Admit` or `Refuse` is what happens under
the lock, with the reading taken before: readings reach the window out of order.
`bucket` is the deque of a key, `Pruned` the `popleft` loop, which stops at the first
young entry. Time is in ticks, and `Second` and `Grain` give the rounding of
`int(x + 0.999)`. `CheckPassword` reads the users; for a demo user `ReadDates`,
`TakeDay` and `CommitShift` are `refresh_demo_transaction_dates`, whose rows, day and
commit are three moments. `AskRegister` and `InsertUser` are the select and the insert of
`register`; `StartSeed` and `CommitSeed` those of the start-up seed. `Restart` forgets
the window. `admitted` and `promise` are history. A user is an email with the password it was
given, so `FirstUserStands` speaks of both.

**Treasury.** A GET is a list of statements (`Plans`); each reads the committed rows of
its moment, in the order the code issues them: tips read the summary and then the movements,
chat the movements and then the summary. `SyncInserts`, `RowsChange` and `Midnight`
fall between them. The arithmetic is that of `treasury.py`: card bill settlements are
left out, categories by `DisplayCategory`, the series one point per day up to today.
`held` is the connections and the accounts, two tables: a bank whose first sync failed after
its claim has no account, and an account without a bank is what an unlink can leave on
SQLite. `UserAccounts` is the join that drops the latter, `BankCards` the card of
every connection, 0 for one without accounts. `Ranked` is the cut of the prompt's categories to
the largest `CategoryLimit` (8 in the code), ties in any order.
`SelectGroundingSources` has its three branches (largest expenses, words of the question,
largest amounts), each under a total order: `Place` is the rank of a row, `Firsts` the list
that `LIMIT` keeps. A page is any set of rows that `ORDER BY date DESC` with `OFFSET` and
`LIMIT` allows, since rows of one day may come in any order, another one at every call.

**Migrations.** `alembic upgrade` runs in one transaction at READ COMMITTED: its own writes
(`gone`, `sums`) show to itself only, each SELECT sees what is committed when it runs.
`ReadUsage`, `MergeGroup`, `UniqueUsage` are revision c7, `ReadTransactions` and
`DeleteExtras` (twice: by Pluggy id, then by movement) and `UniqueTransactions` are d4,
`Commit` ends either. `OldReleaseTakes` is the release before, which had no upsert and may
insert a second row; `ReadKnown`, `Refresh`, `InsertNovel`, `SyncEnds` are a sync, cut down
to one entry. `UniqueTransactions` waits for the syncs that hold the table; a deadlock or a
duplicate ends in `RollBack`.

## Runs

`merge` and `upstream` each put two models that share nothing into one state space, with
behaviours that step only one of them. `queen` and `sync_overlap` have two kinds of behaviour
in one state space, kept apart by a conjunct on every step (`OneVisitor`, `OneDay`, `Apart` in the MC
modules): the wide instance of one question is small in the other. `Apart` of `MCUpstream` lets
the clock run and the list grow beyond two only while all transactions show one movement.
These conjuncts are bounds, as are the following
constants: `LinkBudget` limits how many connections are ever inserted,
`LastVersion` how often the bank changes its data, `LastDay` the days, `LastTreasury` the
syncs seen by the Queen, `MaxFeed` and `MaxRounds` the feed and the repeated syncs,
`LastTick`, `LastMinute`, `LastListed` clocks and lists, `Units` and `Inserts` what happens
during upgrades, `Workloads` which requests of `Access` one behaviour mixes. The sync,
merge and upstream runs set `CHECK_DEADLOCK FALSE` because these bounds let the model run
dry; the others check deadlock.

| run | instance | shows |
|---|---|---|
| `sync_race` | 2 slots, 1 item, 1 account, 2 transactions, 2 versions | two syncs, unlinks and crashes on one bank: one row per Pluggy id (`OneRowPerPluggyId`), no category moves (`CategoryStays`), everything a 200 reports is stored (`ReportedRowsAreStored`) |
| `sync_relink` | 2 slots, 2 users, 2 items with one account each, 2 links | unlink and relink under a running sync: `NoOrphans`, no row under another bank (`RowsHangUnderTheirBank`), `OnlyOwnersAreLinked` |
| `sync_serial` | 1 slot, SQLite, 2 users, 3 items (one with 2 accounts), limit 2, 3 versions, 3 links | without overlap, but with failures anywhere and retries: `OneConnectionPerItem`, `OneAccountPerRemote`, `InsertedRowsAreNovel`, `FinishedSyncIsFresh` (a movement is stored twice only if the bank listed the second id before the stored row came to have it) |
| `sync_overlap` | 2 slots, simulator, 1 user, 3 items of which one has an account, limit 2; either one link of that one or 4 links of the others; fairness | overlapping first syncs: the plan limit is overrun by the other slot at most (`OverrunIsBounded`), an item has at most one connection per slot and a connection one row of an account per slot (`OneCopyPerSlot`); every sync and unlink ends, also when its rows vanish (`RequestsEnd`) |
| `merge` | every table over 3 ids and 4 movements, every feed of up to 3 records, 3 rounds; every table of up to 3 transactions of 2 accounts, 2 ids and 2 movements, and two of quota rows, under upgrades | `LoopIsTheSets`; two syncs store everything fetched (`TwoSyncsCoverTheFeed`); the third writes nothing (`ThirdSyncIsQuiet`); over upgrades, failures and downgrades the quota units add up (`UsageIsAccounted`) and only copies are deleted (`OnlyCopiesGo`) |
| `queen` | limit 2, a legacy row, 2 visitors of the demo account; either 3 slots, 1 visitor and 2 days, or 2 slots, 2 visitors, 1 day and 2 treasury versions | every unit of the counter is explained (`CountIsExplained`), a day sells at most two answers above the limit (`AnswersAreBounded`), the table implements `Allowance` (`KeepsThePromise`), no outage is cached (`OutagesAreNotCached`), one copy per racing miss (`CopiesAreBounded`) |
| `access` | 3 slots, 1 throttle key reached by 2 kinds of caller, 2 attempts per 3 ticks, 7 ticks, 2 emails, 2 demo rows, months of 3 days, 6 days | at most one attempt above the limit per other slot in any window (`BurstIsBounded`); who waits as told is let in (`RetryAfterIsHonest`); the first row of an email stands with its password (`FirstUserStands`); demo logins never turn the order of dates round (`DatesKeepTheirOrder`) |
| `upstream` | 2 items, pages of 1, page bound 3, lists of up to 4, 2 movements, 2 polls, keys of 1 minute; batches of 2 lines, 3 attempts, 5 kinds of Retry-After; fairness | a walk is whole or cut (`FeedIsWholeOrCut`), `KeyDiesOnlyOnSlowCalls`, "Done" means that all that was listed, up to the page bound, was fetched and each movement is on one row (`DoneMeansStored`), the engine holds a worker for a bounded time (`HoldIsBounded`) and implements `Oracle` (`AnswersAsOracle`), everything ends (`QuestionsEnd`, `ScriptEnds`, `SyncEnds`) |
| `treasury` | any subset of 5 rows in 2 months of 4 days; 3 sets of banks: with one bank without accounts, with an account each, with an account without bank; pages of 2, 3 sources, 1 category in the prompts | the three cards agree (`TotalsAgree`), an answer nothing cut through adds up (`AnswersAddUp`), reading on loses only rows of one day (`PagesLoseOnlyTies`) |
| `bug_lost_purchase` | 1 slot, 1 item, 2 versions | a purchase skipped ([finding](#findings)) |
| `bug_tips_language` | 1 slot, 2 locales, 1 day | tips in another language than asked for ([finding](#findings)) |
| `bug_partial_batch` | the instance of `upstream` | labels of an incomplete batch kept ([finding](#findings)) |

Why these bounds are enough to be worth something. Every race in the code is between two
requests over one row: two slots give all of them, and each slot can start another
request while the other one is stopped anywhere, so an unlink *and* a relink fit inside
one running sync. What more slots would add are more copies and a larger overrun, and
`OverrunAlwaysBounded`, `CopiesAlwaysFew`, `AnswersAlwaysBounded` and `CopiesAlwaysBounded` prove
these bounds for any number of them. Two items are needed to hang a row under the wrong bank, two versions
for a refresh, two accounts for column writes left to a later commit, three ids for a
fresh id that repeats a movement in a table that also refreshes. Three slots around
midnight are needed for two foreign refunds in one day. The proofs below remove the
bounds for most of these properties.

In `access` the burst needs a reading held back while later ones fill and prune the
window, so the clock runs two windows; three slots give two readings held back. In
`upstream` the bound of three pages is below the four listed, so walks are whole, cut and
pointed back; keys live one minute here and two at Pluggy, so they expire inside walks. In
`treasury` the five rows have two of one day on either side of a page of two, a settlement
and a row of the next month, and there are three categories, so that the cut to one drops some. In `merge` three transactions give a copy of a copy, and a
sync's write may fall between any SELECT and its DELETE.

Symmetry over the slots is used in runs without liveness; slots are interchangeable in
every action and property. `merge` uses symmetry over transaction ids, which the code
only compares for equality, and over ids and movements of the upgrade.

## Fairness

`MCUpstream` assumes weak fairness of the script's steps, of the request's steps and of
the engine's steps: a script that does not fail executes its next statement, a thread
keeps running, `time.sleep` returns, and httpx answers or times out. Nothing is assumed
about Pluggy finishing an item (it may update for ever, the polls end), about `GiveUp`,
`RunAgain`, the bank or the clock.

`Fairness` of `Sync`, used by `sync_overlap`, is weak fairness of `Proceed(r)` for each worker:
a thread that holds a request keeps executing it. The code justifies it: the pool's
threads are preemptively scheduled, Pluggy calls carry an HTTP timeout and the AI engine
makes a bounded number of attempts, after which each answers or raises, and no handler
takes a lock another handler holds while it waits. Nothing is assumed about `Fail`,
about the arrival of requests or about `BankMoves`. A failing call is an outcome of the step
and not a missing one, so `RequestsEnd` does not depend on Pluggy or Gemini being up. Chat and
tips run straight through, without a loop, a wait or a lock, so no liveness is stated of `Queen`.

## Findings

Three runs check what a document says and find a behaviour of the code that differs.

`bug_lost_purchase`: `seen_movements` keeps the
movement a stored row had *before* the same fetch changed it. When a pending purchase
settles under another text and a new purchase carries the old one, the new one is skipped.
The next sync inserts it (`TwoSyncsCoverTheFeed`), unless the bank has meanwhile stopped
serving it. `docs/requirements.md:23` says that a new id with a new movement is inserted.

`bug_tips_language`: the cache key of the tips leaves out the locale, so a visitor who asks in one
language gets the text somebody asked for in the other on the same day. `docs/requirements.md:66`
says that the language is the `locale` query when set.

`bug_partial_batch`: when Gemini labels some ids of a batch, `categorize` (`services/ai.py:187`)
keeps these labels and takes only the others from the keyword map. `docs/requirements.md:34-35`
says that a batch that does not cover every id is rejected, and that a rejected result uses the
keyword map. `docs/adr/0006-gemini-guardrails-quota.md:14` describes what the code does, and so
does `Oracle`.

Other behaviours of the code that the same models reproduce, with another instance or
another property, and which are worth knowing:

* Overlapping first syncs of different items all pass the plan limit, which is counted
  before the call to Pluggy (`WithinPlan` with two slots; `OverrunAlwaysBounded` proves by
  how many).
* Two syncs of one connection may both insert the same remote account, since no unique key
  stops the second, and later syncs refresh only one of the two, so its balance and
  transactions count twice (`OneAccountPerRemote` with two slots); two overlapping first
  syncs of *one* item insert two connections (`OneConnectionPerItem` with two slots); two
  overlapping syncs may both insert a movement the bank serves under two ids
  (`InsertedRowsAreNovel` with two slots). `OneCopyPerSlot` bounds the first two.
* On SQLite an unlink that races a sync leaves an orphaned account (`NoOrphans` with
  `Postgres = FALSE` and two slots). On the offline simulator, which knows no owner, two
  users can both claim an item in a race.
* A chat call charged before midnight and refunded after it gives the unit to the new day
  (`AnswersWithinLimit`; `AnswersAreBounded` says how far this goes). With
  `CHAT_DAILY_LIMIT=0` one answer a day is sold (`Ceiling`).
* A login whose clock reading was held up gets in above the limit: the window it looks at
  has been pruned by a later reading.
* An upgrade loses quota units the old release adds to a duplicate between the SELECT and
  the merge (`lost`), and may delete a transaction a sync changed after the SELECT
  (`touched`).
* A script refused for the plan limit has already created its item at Pluggy, and the next
  run creates another.
* An overview or a prompt that a sync or the end of a month cuts through may name one month and
  sum another, or list movements that are not in its totals; tips made of such a prompt are
  cached under a key nobody asks for again.
* Rows inserted between the count and the page of one request push others past what the count
  calls the last page.
* The series of the dashboard stops at today while the totals have rows dated later.
* `docs/demo-operations.md:52` says the demo dates shift when the dashboard is read; the
  code shifts them at login.

## Proofs

The theorems hold for every number of slots, users, items, accounts, feeds, visitors,
questions, days, limits, pages, lifetimes, attempts, windows, stored tables, quota rows and
pools of rows. The only assumptions are those each module states about its constants
(`SyncAssumption`, `QueenAssumption`, `TreasuryAssumption`, ...), which TLC evaluates in the
runs of those modules, and those named in the table. "One worker" is `Solo`: all requests
use the same slot, so they follow one another, each complete, failed or cut short.

| theorem | statement | assumes |
|---|---|---|
| `SyncProofs!TypeCorrect` | `Spec => []TypeOK` | |
| `OwnersAlways` | `Spec => []OnlyOwnersAreLinked` | |
| `NoOrphansAlways` | `Spec => []NoOrphans` | `Postgres` |
| `OneRowAlways` | `Spec => []OneRowPerPluggyId` | |
| `CategoryAlwaysStays` | `Spec => CategoryStays` | |
| `OverrunAlwaysBounded` | `Spec => []OverrunIsBounded` | |
| `OneWorkerKeepsThePlan` | `Spec => []WithinPlan` | one slot |
| `CopiesAlwaysFew` | `Spec => []OneCopyPerSlot` | |
| `RowsAlwaysHang` | `Spec => []RowsHangUnderTheirBank` | `Postgres` |
| `ReportAlwaysTrue` | `Spec => ReportedRowsAreStored` | `Postgres` |
| `SyncSerial!OneConnectionAlways` | `Spec => []OneConnectionPerItem` | one worker |
| `OneAccountAlways` | `Spec => []OneAccountPerRemote` | one worker |
| `OneWorkerLeavesNoOrphans` | `Spec => []NoOrphans`, on SQLite too | one worker |
| `FreshAlways` | `Spec => FinishedSyncIsFresh` | one worker |
| `NovelAlways` | `Spec => InsertedRowsAreNovel` | one worker |
| `MergeProofs!LoopAlwaysTheSets` | `Spec => []LoopIsTheSets` | |
| `TwoSyncsAlwaysCover` | `Spec => []TwoSyncsCoverTheFeed` | |
| `ThirdSyncAlwaysQuiet` | `Spec => ThirdSyncIsQuiet` | |
| `OnlyCopiesEverGo` | `UpgradeSpec => OnlyCopiesGo` | |
| `UsageAlwaysAccounted` | `UpgradeSpec => []UsageIsAccounted` | |
| `QueenProofs!TypeCorrect` | `Spec => []TypeOK` | |
| `CountAlwaysExplained` | `Spec => []CountIsExplained` | |
| `AnswersAlwaysBounded` | `Spec => []AnswersAreBounded` | |
| `PromiseIsKept` | `Spec => KeepsThePromise` | `Limit # 0` |
| `OutagesNeverCached` | `Spec => []OutagesAreNotCached` | |
| `CopiesAlwaysBounded` | `Spec => []CopiesAreBounded` | |
| `UpstreamProofs!KeyOutlastsCalls` | `PluggySpec` and `SeedSpec` `=> []KeyDiesOnlyOnSlowCalls` | |
| `FeedAlwaysWholeOrCut` | `PluggySpec` and `SeedSpec` `=> []FeedIsWholeOrCut` | |
| `DoneAlwaysMeansStored` | `SeedSpec => DoneMeansStored` | |
| `HoldAlwaysBounded` | `EngineSpec => []HoldIsBounded` | |
| `EngineIsAnOracle` | `EngineSpec => AnswersAsOracle` | |
| `AccessProofs!FirstUserAlwaysStands` | `Spec => FirstUserStands` | |
| `OrderAlwaysKept` | `Spec => DatesKeepTheirOrder` | |
| `RetryAfterAlwaysHonest` | `Spec => RetryAfterIsHonest` | |
| `BurstAlwaysBounded` | `Spec => []BurstIsBounded` | |
| `TreasuryProofs!TotalsAlwaysAgree` | `Spec => []TotalsAgree` | |
| `AnswersAlwaysAddUp` | `Spec => []AnswersAddUp` | |
| `PagesAlwaysLoseOnlyTies` | `Spec => []PagesLoseOnlyTies` | |

The argument for `Sync`.

* *Types.* `TypeOK` is not inductive: a step uses locals that only some steps have set.
  `TypeInv` adds `SlotShape`, which says for each program counter which locals hold a
  real value (an item from `quota` on, a connection id after `claim`, a non-empty
  `todo` inside the loop). One lemma per action shows that it keeps the tables and the
  slots well typed; `SlotUpdate` reduces the latter to the slot that moved.
* *Owners.* Only `ClaimItem` inserts a connection and `Finish` rewrites one; the first is
  guarded by `OwnerConfirmed`, the second keeps user and item.
* *Orphans.* The invariant is inductive with `TypeInv`: `UpsertLands` and `PersistLands`
  are what the foreign keys check at insert time, `UnlinkLands` at delete time, and
  refreshed or overwritten rows keep their account.
* *One row.* Inductive only together with `UniqueInv`: the rows a sync is about to insert
  are unique among themselves, which `Accumulate` keeps and which fails if a fetch
  that repeats an id is not deduplicated. `Persist` then inserts only keys the
  ledger does not hold.
* *Category.* With one row per key before and after a step, every action that touches the
  ledger refreshes (category kept), overwrites (kept), inserts (the key was not stored)
  or deletes.
* *Plan.* `PlanInv`: the connections of a user plus the slots of that user between check
  and insert are at most the limit less one plus the number of slots. `CheckQuota` is
  the step that needs an argument: it passes only below the limit, and at most all slots
  are claiming after it. With one slot this is the limit itself.
* *Copies.* Inductive once the slots still on the way to an insert are counted with the rows:
  for each item, its connections and the slots that found none and will insert one
  are together at most the slots, and likewise for the accounts of a connection. A slot joins
  the count only when its select finds nothing, when all that counts are slots; an insert
  turns a slot into a row.
* *Bank.* A handler carries ids across commits, so the invariant `HangInv` is about ids: on
  Postgres none is handed out twice (`IdsHang`), and an id in a slot stands for a row of
  the slot's own item, remote account or feed, or for a row that is gone (`SlotHangs`).
  `Grown` says what any step may do to the tables, rows keep their owner or get an id
  nobody has, and `SlotStaysHung` turns that into one fact for all slots that did not move.
* *Report.* `StoredInv`: from `Persist` on, the rows a sync will report are stored as long
  as its connection is. Only an unlink takes rows, it takes those of the accounts it read,
  and these hang under the connection it deletes; `Finish` needs the connection.

The argument for one worker. None of the five properties is inductive, and with two slots
none of them holds on every engine.

* *Tables.* `SoloInv` has two parts. `SoloTables` is what holds between two steps: ids name
  one row, an item has one connection whoever owns it, a connection has one account per
  remote one, everything hangs somewhere. It needs no foreign key: `CommitDelete`
  removes the accounts the handler read, and with one slot these are all of them. On SQLite
  an id may be handed out again, but only above every stored one.
* *The slot.* `SoloSlot` says that what the request carries is what the tables hold: the
  select of `UpsertAccount` finds the account if there is one, `known` is the account's rows,
  the rows to insert have keys that are not stored. Two slots break each of these lines.
* *Fresh.* `FilledInv` keeps, account by account of those already visited, that the rows with
  the column writes not yet flushed are as the bank serves them, as long as the bank has
  not moved since the balances were read. `ToVisit` ties the accounts visited to the list
  the bank gave; a refresh of a later account keeps the earlier ones.
* *Novel.* The other half of `FilledInv` is history about each row waiting to be inserted: a
  version of the feed listed it (`Heard`), and any row that by now has its movement got it
  from a later entry (`Took`). That is exactly the lost-and-found purchase of the
  [finding](#findings), so the property states the one exception instead of forbidding it.

The argument for `MovementMerge`. The loop is a fold and cannot be handled by induction over
the feed, so its invariant is stated without a loop: `After` gives, for any set of positions
already handled, the two sets it should have left in the session, in terms of `Firsts`,
`WritesIn` and `NewAt` of those positions. A smallest position at which fold and sets
disagree is then refuted by one iteration. `MergeInv` adds what repetition gives: after one
sync the stored rows agree with the feed (`Settled`), after two every movement of it is
on a row (`Covered`), and a sync of a settled and covered table writes what is there.

The argument for `Migrations`.

* *Copies.* `SeenInv`: of what the SELECT returned, every row is still stored under its id and
  account, and unchanged unless a sync has touched it. The DELETE goes by groups of what was
  read, keeps the lowest id of each, and so whatever goes has a kept row with the same
  id at Pluggy or the same movement, or one of the two was touched.
* *Units.* `PlanInv` says that a row is summed or deleted and not both, and that groups still
  to be merged are untouched. `BooksInv` is an account book for each key: the rows hold what
  was taken less what was lost; what the upgrade would leave is that, for a group
  already merged, less what the old release added to it since (`late`), which `Commit` turns
  into `lost` and a rollback forgives. A group still to be merged holds what was read and
  what came late.

The argument for `Queen`.

* *Types.* As for `Sync`: `SlotOK` says which locals each step has set. `LastPosition`,
  from the well-foundedness of the naturals, shows that the newest row of a hit exists.
* *Every unit explained.* Inductive with `TypeInv`. A step of one request changes the set
  of waiting calls by at most its own slot (`PendingChange`); each action moves one unit
  from one column of the sum to another.
* *Answers.* `QuotaInv` bounds what `CountIsExplained` leaves open, the foreign refunds.
  A day has no row before it begins and gets no credit before its row exists. The slot
  that creates the row was free to do it, so at most the *other* slots hold calls of
  earlier days; from then on credits plus such calls only go down or move from one to
  the other. With a count of at most `Ceiling` this gives the bound.
* *Refinement.* `Consume` maps to `Spend`, a refund that finds a count to `GiveBack`,
  `Midnight` to itself, everything else to a stutter. A limit of zero is excluded because
  the insert of a day's first row does not look at it.
* *Cache.* `CopyInv` counts, for each user, key and day, the stored copies together with
  the slots that have missed the answer and will add one: never more than the slots. A
  lookup misses only when there is no copy, a stored answer takes its slot's place in the
  sum, and a legacy row that is rewritten keeps its key.

The argument for `PluggyClient`. `KeyInv` says that the key in use was minted no earlier
than its expiry less `Ttl`, so at a reading below the expiry it has `Life - Ttl` minutes
left. `WalkInv` says of a walk in progress that what it holds of the list known at its
start is everything newer than the cursor (`HeldFrom`); a page moves that border down, and
a link that points back only repeats. `Seeding` steps the client by the same actions or
puts a fresh one in its place, so both invariants hold there too.

The argument for `Seeding`. `SeedInv` ties three parties: a script past its polls has an item
that is updated and stays so (`ScriptInv`); a script that waits waits for a request for that
item, and a request that answered 200 has linked the item and stored what its walk got
(`ServerInv`). A request left behind by an earlier run cannot be taken for it, since the
post needs an idle server. With `FeedIsWholeOrCut` what the walk got is all that
was listed when it began, or was cut at `MaxPages`. `RowsInv` says that an item no request has
got to is without rows, and that no earlier request is for the item of the script ahead of its
post; so the one merge behind a "Done" starts from an empty table, where `MergedOnce` says that
each movement fetched is on one row. On a table with rows it need not be, by the lost purchase.

The argument for `Engine`. Attempts and sleep are bounded together: before attempt `n` at
most `n` waits of at most `MaxDelay` have passed. For the refinement the invariant says what
`job` must be for the question asked; `Ask` maps to `Ask`, the three answering steps to
`Label` or `Speak`, failures and waits to stutters. The flag needs a counting argument: a
map with as many ids as the batch has lines names every id, and no id twice.

The argument for `Access`. *Users:* the insert checks the unique key, the seed
adds what it finds missing and does nothing if somebody else took an email first; no step
rewrites a row. *Dates:* a shift by a
constant, capped at today and held at the month's first day, is monotone; the invariant is
about pairs: the readings of all slots and the stored dates never disagree about an order
(`OrderInv`), so a commit of an old reading cannot turn one round. *Retry-After:* between a
refusal and the next attempt a key gets in, its window only loses entries, so the head the
promise was computed from is still the bound (`WindowInv`); a reading at or after the
promise, less the rounding, then finds the head old. *Burst:* for each window of clock
readings one of two things holds (`BurstInv`). Either every attempt it admitted is still in
the deque, of which there are at most `LoginMax` (`StillInWindow`). Or a later reading has
pruned some, and from then on only slots that had already read the clock can add to that
window; each does so once, and what was admitted plus the slots still holding such a reading
stays within the bound (`OnlyLateOnes`). The slot that pruned is not one of them, which is
where "one less than the slots" comes from.

The argument for `Treasury`. *Totals* follow from the types: spending, income and net are
sums over one finite set of rows, which `SumByLabel` takes apart by category and by day.
*Answers:* `GetInv` says that every statement of a plan is answered or still to run, and that
an answer given is what the statement would read now, as long as nothing was committed and
the month has not turned; an answer nothing cut through therefore consists of
functions of the same tables. The cards of the connections then sum to the joined balance,
since a connection without accounts adds 0 and an account without a connection is in neither
(`CardsSum`), and the labels that are listed sum to no more than all of them, because no label's
total is negative (`ListedSum`). For the grounding list the ranks have to be distinct, so that every
place up to the size of the set belongs to one row and `Firsts` lists rows without
repetition. *Pages:* `PageInv` bounds, for every row of the start, how often its day was
shown: up to the offset read, at least as often as that day had rows (`ShownAbove`). Rows
inserted meanwhile only push others down, to be shown again, and the choice within a day is
free, so a day's rows may be swapped for one another but never be too few.

Sums and folds. The library's induction theorems cannot be instantiated here, so facts about
all finite sets are proved by a smallest counterexample: `SmallestSet` and `LeastNumber` of
`FoldFacts` give one, and one element taken out of it refutes it. `SumsUpIsSum` shows that the
community modules' `MapThenSumSet` is the one solution of its equation; the other sum lemmas
start from there.

Every safety and action property of the passing runs is stated by a theorem. Three of them,
`NoOrphans`, `RowsHangUnderTheirBank` and `ReportedRowsAreStored`, are proved for Postgres,
the engine the service is deployed on; on SQLite the first fails with two slots and is proved
for one. Left to TLC are the liveness properties `RequestsEnd`, `QuestionsEnd`,
`ScriptEnds` and `SyncEnds`: liveness under fairness needs ENABLED, which is out of this
prover's reach. `NothingFetchedIsLost`, `TipsSpeakTheLanguage` and `PartialBatchesAreRejected`
are false, as the `bug_` runs show.

## What is not modelled

* `chat_scope.py`, `locale.py`: a vocabulary match and header parsing, without state. The
  off-topic chat answer reads one counter and writes nothing.
* `config.py`, `exceptions.py`, `main.py`, `security_headers.py`: wiring, start-up checks,
  response formats. The choices the models depend on are constants or initial values.
* bcrypt and JWT are library code; a token is checked without state.
* The initial schema revision, table creation, column types, the conversion of timestamps
  and SQLite's batch mode in the migrations.
* `FakeProvider`, `provider_healthy`, the health endpoint, `GET /connections`, the detail
  of one transaction: reads of one statement.
* Prompt wording, the text of canned answers, the citation format.
* Rounding to `numeric(14,2)`, time zones, and SQL isolation below statement level.
* What ids that come back on SQLite do to two overlapping requests: `NoOrphans` and
  `RowsHangUnderTheirBank` are claimed for Postgres only, and of SQLite for one worker.
* What an answer should keep that a commit or midnight cuts through: no document says.
* The stale overwrite of a slow sync by data it fetched before a faster one: allowed by the
  code, repaired by the next sync, and stated by no property.

## Plan

Done, in this order: `Movements` and `Sync` first (the system's own logic and its hardest
races), `MovementMerge` against the loop, `Allowance` and `Queen`, the proofs about both;
then `Access`, `PluggyClient` with `Seeding`, `Engine` with `Oracle`, `Treasury`,
`Migrations`, and the proofs about the first three; then the one-worker theorems of `Sync`
and the proofs about `MovementMerge`, `Migrations`, `Seeding`, the throttle's burst and
`Treasury`.

What remains, modelling: an abstract specification of a bank link (linked, filled,
unlinked) that `Sync` refines; two syncs at once in `Seeding`; the conversion of timestamps
in revision c7.

What remains, proving:

1. The abstract bank link, step by step, from `HangInv`.
2. `Allowance`: the counter never passes the limit, past days never change, and both carried
   to `Queen` by `PromiseIsKept`.
3. `RowsHangUnderTheirBank` and `ReportedRowsAreStored` on SQLite with one worker.
