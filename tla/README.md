# A verification development for portfolio-analytics-api

TLA+ specifications of the parts of this service whose correctness depends on
order, concurrency and failure, the TLC runs that check them on small instances,
and TLAPS proofs, for every instance, of each safety property those runs check.
Source paths below are relative to
`src/portfolio_analytics_api/` unless they begin with `docs/`, `migrations/` or
`scripts/`.

Run a check with `tlc -config X.cfg M` and a proof with `tlapm M.tla`.

## 1. Inventory

The service is an async FastAPI application (one event loop per process, any
number of processes) over PostgreSQL, Redis, a market-data provider and,
optionally, a language model.

| Component | State | Operations | Modelled in |
|---|---|---|---|
| Transaction write path (`application/services.py` `TransactionService`, `infrastructure/database/repositories.py`, `unit_of_work.py`) | tables `portfolios`, `transactions`, `assets`; row locks and unique indexes; one session per request | `create` (idempotent POST), `list` | `TransactionService`, `LedgerSpec`, `LedgerData`, `TransactionServiceProofs` |
| Position replay (`domain/holdings.py`) | none (pure) | `derive_positions`, `validate_transaction` | `Holdings`, `HoldingsReplay`, `OperatorProofs` |
| CSV import (`TransactionImportService`) | none of its own; a copy of the ledger during preview | `preview`, `commit` | `TransactionImport`, `IntakeProofs` |
| CSV parser (`api/csv_import.py`, `TransactionInput` of `api/schemas.py`) | none (pure) | `parse_transaction_csv` | `CsvImport` |
| Market-data cache and retries (`infrastructure/market_data/cache.py`, `resilience.py`) | two Redis keys a series (fresh, retained); per-request deadline and attempts | `get_price_bars` | `MarketDataCache`, `IntakeProofs` |
| Market-data adapters (`yfinance_provider.py`, `twelve_data_provider.py`, `factory.py`) | none | `get_price_bars` | `PriceAdapters`, `OperatorProofs` |
| Portfolio valuation (`domain/valuation.py`) | none (pure) | `required_price_symbols`, `build_portfolio_valuation` | `Valuation`, `OperatorProofs`, `ValuationProofs` |
| Metrics and insight rules (`domain/analytics.py`, `domain/insights.py`) | none (pure) | `calculate_*`, `generate_deterministic_insight`, `validate_generated_insight` | `Metrics`, `InsightService`, `OperatorProofs`, `ValuationProofs` |
| Insights (`PortfolioInsightService`, `infrastructure/insights/`) | Redis narrative cache, table `analysis_snapshots` | `generate`, `list_snapshots` | `InsightService`, `ValuationProofs` (`generate`), `Paging` (`list_snapshots`) |
| Analytics (`PortfolioAnalyticsService`, `yfinance_provider.py`) | none; the event loop's thread pool, shared with password hashing | `analyze`: one read transaction, one `get_price_bars` a symbol, the valuation | `Analytics`, `AnalyticsProofs` (the fan-out), `Valuation` (the rest) |
| Accounts (`AuthenticationService`, `infrastructure/auth.py`) | table `users`; tokens are with the clients | `register`, `login`, `authenticate` | `Accounts`, `GatewayProofs`, `Gateway` |
| Portfolios and pages (`PortfolioService`, `list_snapshots`) | tables `portfolios`, `analysis_snapshots` | `create`, `get`, `list` | `Paging`, `PagingProofs` |
| Rate limiter (`infrastructure/rate_limit.py`) | Redis counters | `enforce` | `RateLimiter`, `RateLimiterProofs` |
| HTTP layer (`api/routes.py`, `app.py`, `auth_routes.py`) | none | the routes, their dependencies, the table of errors | `Gateway`, `GatewayProofs` |
| Release demo (`scripts/demo_flow.py`) | a client's: two tokens, a portfolio | `run_demo` | `Gateway`, `GatewayProofs` |
| Schema migrations (`migrations/`) | the schema, `alembic_version` | `upgrade`, `downgrade` | `OwnerMigration`, `PagingProofs` |
| Observability, in-memory adapters, wiring, other scripts | none at run time | | no, see section 5 |

**How they interact.** A route builds a service over a `SqlAlchemyUnitOfWork`;
the session begins with the first statement and ends in `__aexit__`, which rolls
back whatever was not committed. Services share state only through PostgreSQL
and Redis. `TransactionImportService.commit` calls `TransactionService.create`
once a row, each in a transaction of its own.
`PortfolioAnalyticsService.analyze` reads the ledger, ends its transaction, asks
`CachedMarketDataProvider(RetryingMarketDataProvider(adapter))` for each symbol
and runs the valuation; `PortfolioInsightService.generate` calls `analyze`, then
the narrative generator behind its cache, then commits a snapshot.

**What is hard here.**
- *Interleaving*: two writers of one ledger, two owners racing for one row of
  the shared `assets` table, two requests filling one cache key.
- *Order*: transactions arrive in any order of `occurred_at`; a back-dated SELL
  can break a later one; ties are broken by the application's clock.
- *Failure and retry*: a lost response of a committed POST, an import cut
  between two rows, a Redis error before or after it took effect, an upstream
  that never answers.
- *Shared threads*: a download cannot be cancelled and holds its thread after
  its request has been answered.
- *Two clocks*: rate-limit windows are chosen by one and end by another.
- *Staleness*: preview against a ledger that moves on, cached prices and
  narratives found again much later.
- *Documents and answers from outside*: a CSV file or a provider's response may
  be cut, spoilt or contradict itself at its last row.
- *A deployment under way*: the schema changes while the older release writes.
- *Long sequences*: a ledger accepted row by row is replayed by three other
  pieces of code, each cut at other dates.

`PROJECT.json` lists every hazard at its line, with the properties that cover
it, or the reason none does.

**What makes each component correct.**
- Write path: a committed ledger never sells what it does not hold; an external
  id names one row; answers are true; neither database error the code leaves
  unhandled can occur; no call hangs; and, all together, a call behaves as one atomic step.
- Replay: the loop decides what its declarative reading says.
- Import: preview predicts commit, and for good where it says that an id is
  taken; a cut or repeated commit converges.
- Parser: every line that holds anything becomes a row of the report, or the
  document is refused before its first row. The parser is one call that returns
  before the service is called, so this is a definition here and no property.
- Adapters: the series that is valued is the market's, or there is an error that
  names what happened.
- Metrics and rules: the drawdown is the worst decline there was, and the
  limitations of an insight say what it could not know.
- Market data: stale data is labelled, bounded in age and never hides a definite
  error; Redis is not needed for correctness; requests are bounded.
- Valuation: no look-ahead, no lost cash flow, no return out of a cash flow, no
  disagreement with the ledger it is given.
- Insights: only validated text about the request's own data leaves the service,
  and nothing leaves it unrecorded.
- Analytics: every attempt's result reaches the task that waits for it;
  downloads nobody waits for neither block an answer nor keep a login from its
  thread for good.
- Accounts: one account an email, true answers, and a registration that was
  acknowledged can log in for good.
- Pages: total and items agree, and a walk misses nothing.
- Rate limiter: nobody is refused within the budget, one budget a window.
- HTTP layer: nobody can tell another's portfolio from none at all.
- Release demo: it fails only for what the world did to it.
- Migration: once it is in force no ownerless portfolio exists or is about to.

## 2. Modules

```
Holdings ──> LedgerData ──> LedgerSpec           atomic ledger (what is promised)
   │             │             ^ refined by
   │             ├──────> TransactionService ──> TransactionServiceProofs
   │             └──────> CsvImport ──> TransactionImport (rows are LedgerSpec's steps)
   └──> HoldingsReplay ─┐
        PriceAdapters ──┼──> Valuation           an analysis, from responses to insight
        Metrics ────────┘        └──> OperatorProofs ─┐
                                      InsightService ─┴──> ValuationProofs
TransactionImport ─┬──> IntakeProofs       Accounts ──> Gateway ──> GatewayProofs
MarketDataCache ───┘                       Paging ──> OwnerMigration ──> PagingProofs
RateLimiter ──> RateLimiterProofs          Analytics ──> AnalyticsProofs
                                                 (MC<name>: the instance TLC checks)
```

**Holdings** states `derive_positions` without its loop: `Replays(txs)` says it
returns, `DerivePositions(txs)` what it returns. **HoldingsReplay** is the loop
itself, a recursive function over the places of the rows in the sorted list;
`LoopAgrees` of `Valuation` compares the two, so that the other modules can use
the operators (and their proofs need no recursion).

**LedgerData** has the payload a client posts, the row `_build_transaction`
makes of it, `validate_transaction` and `_quantize_exact` (`IsValid`: whether
amounts fit their columns' scale is the flag `exact`), and
`_same_transaction_payload`. Names are abstract, with a normalisation function
that stands for `strip` and `upper`; quantities are integers, in quanta of the
column. DEPOSIT and WITHDRAWAL are one kind, "CASH", here: they are the same to
the write path.

**TransactionService** has one action for each SQL statement of `create`:

| `pc` | Action | Code |
|---|---|---|
| lock | `GetForUpdate` | `get_for_update` (`SELECT ... FOR UPDATE`) and the owner check |
| build | `Build` | `_build_transaction`, `validate_transaction`: id and clock are read here |
| lookup | `Lookup` | `get_by_external_id` and the idempotency decision |
| replay | `ReplayLedger` | `list_for_portfolio`, `derive_positions` |
| asset, select | `InsertAsset`, `SelectAsset` | `_asset_id`: `INSERT ... ON CONFLICT DO NOTHING`, then the SELECT |
| insert | `Insert` | `flush()` against the unique index (portfolio, external id) |
| commit | `Commit` | `commit()` |
| close | `Close` | `__aexit__`, the response |

PostgreSQL is modelled at READ COMMITTED, the engine's default (`session.py`
sets no other): a statement sees what is committed when it runs; an INSERT of a
key another open session has inserted waits for that session; locks are held to
the end of the transaction. `Abort` is a crash, a cancelled request or a lost
connection at any statement; after `Commit` it is a lost response. Nothing stops
a client from posting the same payload again, so retries and duplicates are
ordinary behaviour. The stranger's lock is there too: `get_for_update` locks a
portfolio by its id before the owner is compared.

**LedgerSpec** is what the endpoint promises: each call is served at once
against the whole committed ledger, or is lost. The refinement maps the row a
worker carries to a result only once it has answered with it.

**CsvImport** is the parser as operators: which documents are refused as a whole
(`Refused`), which escape it as `csv.Error` (`Escapes`), and the candidate a
line becomes (`NewTransaction`), with the checks of `TransactionInput`. A cell
is a name of a text; `Strip`, `Amounts` and `Dates` say what Python reads in it.

**TransactionImport** models `preview` (one read, then a simulation row by row)
and `commit` (one `create` a row), with other clients' writes between any two
rows, commits cut anywhere, and repeated commits. A `create` is one step because
`TransactionService` implements `LedgerSpec`. Row ids and `created_at` are
positions in the log: only their order matters. Ghost variables `earlier`,
`touched` and `disturbed` remember what the properties compare with. A document
passes the route's size limit, the ownership check and the parser, in this
order, before its first row; a row whose instant UTC cannot hold breaks the
request (`Break`).

**MarketDataCache** models one key under concurrent requests: each Redis command
and upstream attempt is a step with a latest end (`due`), and time passes only
between them. Retries, exponential backoff, the operation deadline of
`asyncio.timeout`, the choice of TTL by the clock *after* the fetch, both SETs,
and every failure (Redis before or after it took effect, transient and definite
upstream errors, corrupt payloads, eviction) are there. Bars are represented by
the instant they came in.

**PriceAdapters** maps a response, or the exception of its request, to bars or
an error, for both providers, and says what the providers may answer in each
condition: healthy (all sessions, or those asked for, the newest `MaxPoints` of
them for Twelve Data), symbol unknown, limited, down, slow, or broken (an
undated, priceless or duplicated row, a status or shape nobody expects).

**Metrics** has the compounded return and the drawdown on exact fractions, as
running passes like the code's, when volatility and Sharpe ratio are `None`, and
what the limitations of the deterministic insight say beyond the three fixed
ones.

**Valuation** is the whole of `analyze` after the ledger was read: each required
symbol's series is fetched through an adapter or found as a retained copy
(`Fetch`), `build_portfolio_valuation` runs (the dates observed for the required
symbols, prices carried forward, rows applied in ledger order, implicit
contributions, skipped dates whose flows are carried on, and every error it
raises), and `Report` computes metrics and insight.

**InsightService** models `generate` around the cached generator. A narrative is
about an input and its text is "fine", "padded" or "blank" (20 characters or
more that become fewer than 20, or none, when stripped) or "rejected" by the
adapter's schema. `delivered` is a ghost: what clients have received.

**Analytics** models `analyze` from its fan-out to its answer. What the cache
and the retries do for one symbol is reduced to how `get_price_bars` ends
(fresh, stale, failed); what is added is that attempts are jobs in the first-in,
first-out queue of a bounded thread pool, where password jobs wait too. A
deadline removes a queued job and abandons a running one. `gather` raises the
first failure while the other tasks run on; a request is not reused before they
have ended. The adapter is yfinance's; Twelve Data's uses no thread.

**Accounts** models `register` and `login` by statement: lookup, hash on a
thread, INSERT (which waits for, then yields to, another session's row of that
email), commit, response. A password stands for its hash; `welcomed` is a ghost,
the credentials whose 201 arrived.

**Gateway** puts the HTTP surface in front of `Accounts`: a route's dependencies
and service in the order in which they refuse a request (token, limiter,
declaration, owner, the service's own errors), the table from errors to
statuses, tokens stamped and verified by instances whose clocks differ, and
`demo_flow.py` as one more client, line by line, while other clients register,
log in and work on portfolios. A portfolio request is one step: the services'
own interleavings are the other modules' subject. A posted row is validated, then looked up,
then replayed (`Posted`), as in `create`, which checks no cash: a purchase needs
nothing, a sale needs the purchase. `demo.excuses` is a ghost: what the network,
the limiter, the market, the model or the clocks did to the call that failed.

**Paging** models both listings. A row's place in the order is known before it
is committed (`created_at` is the transaction's time, `generated_at` a clock
reading), so it may land anywhere. The items are the rows whose rank, the number
of rows ahead, is in the page. The client, which is not in this repository,
walks on while `offset + limit < total` and may ask for a page again.

**OwnerMigration** runs revision 20260722_0002 over `Paging`'s portfolios table:
the check, the request for the ACCESS EXCLUSIVE lock, ALTER's own scan and the
commit are steps; the older release inserts portfolios without an owner between
them; the migration may die anywhere, be run again after a repair, and be
undone. The locks block `Paging`'s INSERT and SELECT, and nothing else changes
for them.

**RateLimiter** models `enforce` in ticks of a quarter second: the bucket and
the expiry come from an instance's clock, the script runs up to `Delay` later,
and Redis's clock ends the key. `admitted` and `arrived` are ghosts that count
what the properties compare.

## 3. Runs

| Run | Instance | Shows |
|---|---|---|
| `ledger` | 2 sessions, 2 portfolios, 9 payloads, 2 clock readings | ledger, idempotency and answers are right through races, retries and crashes; the write path implements `LedgerSpec` |
| `ledger_race` | 2 sessions, 3 payloads over a shared asset and a portfolio a stranger locks, fair | no IntegrityError or missing asset; every call ends |
| `import` | 26 documents of at most 5 lines, `MaxRows` 4, 5 payloads of other writers | preview predicts, and what it says of ids the ledger had is final; reposts replay and cut commits converge |
| `market_data` | 2 requests, TTLs 1 < 2 < 3, 2 attempts, midnight at 2, fair | age and label of stale and cached data, bounded duration, Redis never decides; every request is answered although upstream may not be |
| `valuation` | every accepted ledger of at most 4 of 12 rows, 5 markets, 3 dates, both providers in every condition, `MaxPoints` 3 | the prices valued are the market's; no look-ahead, flows balance, flows are no performance; metrics and disclosures fit the points; on every part of those ledgers the loop agrees with `Holdings` |
| `valuation_as_of` | the same | **violated**, see below |
| `insights` | 2 requests, 2 inputs, 2 snapshots | only validated text; nothing unrecorded |
| `insight_cache` | the same | **violated**, see below |
| `rate_limit` | 2 instances a tick apart, budget 1, 4 requests, windows of 3 s | no early refusal, one budget a window, a useful Retry-After |
| `accounts` | the demo and one other request to `/auth` at a time, 3 spellings of 2 emails, 2 passwords, 2 portfolios, 2 instances a tick apart, tokens of 3 ticks | one account, true answers, acknowledged credentials work; foreign portfolios look missing; the demo fails only for what the world did to it |
| `paging` | 2 inserting sessions, 1 of the older release, 2 scopes, 3 rows at 2 times, pages of 1 or 2, `MaxUnowned` 2 | totals fit items; a walk is complete; no ownerless row survives the migration |
| `analytics` | analyses of up to 3 symbols, 2 attempts, 2 threads, a login, fair | jobs and waiters match; answers come in spite of hanging downloads; logins get their thread in spite of abandoned ones |

**Why the bounds are enough to be interesting.** The ledger needs two sessions
to race for a position or an asset, one of them aborting (the theorems are about
any number of sessions); two SELLs of one BUY at two dates for a double spend
and a back-dated one; one payload in two spellings for a retry, and a third with
the same id for a conflict. The ids suffice for all rows that can be committed
and one more for each session that can be building one: three in `ledger`, whose
payloads leave at most two rows in one portfolio, four in `ledger_race`. The
clock needs two readings, since `CreatedInCommitOrder` relates two commits.
Import documents hold a SELL before and after its BUY, an id repeated with the
same and with other data, a row of every kind `TransactionInput` rejects, blank
and empty lines, a line longer than the header, an instant UTC cannot hold, a
line csv.reader rejects after a good one, one row more than the limit, and every
flaw of a header; sizes count in documents of the limit (`MaxBytes` 1). The
cache needs two attempts (one backoff), a deadline that can fall in an attempt
or in the backoff, and TTLs in the order of the defaults; `LastStart` bounds
when requests begin, so that time is finite. Valuation needs two symbols (a gap
in one series and not in the other) and three dates (a skipped date between two
points); with `MaxPoints` as long as the interval a full response can be
complete or cut, and markets with sessions before and after the interval make
both happen. Two requests to `/auth` suffice for one to lose the lookup or the
index to the other (the theorems are about any number of workers, as they are
for the cache, the insights and the rate limiter, whose runs have two); a
lifetime of three ticks and a skew of one leave one tick in which a token must
be honoured on both instances and let it age or lie in the future on either side
of it; one portfolio is the demo's and one the other client's, who posts the
purchase and the sale under the demo's ids, with the demo's payload or another
(deposits are decided as purchases are). Three rows
suffice for a page to be shifted by a row that lands before or in the middle,
two ownerless ones for a repair to race the next insert. A rate-limit window
ends within the time bound, with requests before, at and after its end, and a
clock on each side of it. Three downloads on two threads make jobs wait for each
other and for the password; analyses follow each other while what the earlier
ones abandoned still runs, and two attempts put a retry behind the jobs that
came meanwhile. `MaxSnapshots` is one snapshot a request and is never below what
the properties count. Symmetry is used only in safety runs (`insights`,
`accounts`, `paging`), over values no definition distinguishes.

**Deadlock** is checked in the runs of the write path, the import, accounts,
pages and analytics, where some client can always post. It is off where the
system stops: a replay or a valuation returns, time reaches its bound, the bound
on snapshots is reached.

**Fairness.** `TransactionService`: weak fairness for each session's next
statement (the event loop and PostgreSQL run what can run) and strong fairness
for the three statements that wait for another session, because PostgreSQL
queues waiters of a lock and wakes them in turn. No fairness for `Submit`,
`Abort` or `Tick`. `MarketDataCache`: weak fairness for the steps that follow a
Redis command (it is answered or its socket timeout fires), for the timers and
for the return; strong fairness for `Tick`, which says only that time diverges
although requests may come and go within an instant. Upstream (`Call`) has none:
`EveryRequestAnswered` is the deadline's doing. `Analytics`: weak fairness for a
task's next step (Redis answers, the sleep ends or the deadline passes), for the
request's conclusion and for each free thread to take a job. That a job ends is
not assumed but a premise of `EveryPasswordChecked` alone (`JobsEnd`): the
download is given `timeout=`, which the library must keep.

**Assumptions of the models.**
- The application's clock does not run backwards between two commits of one
  portfolio (`CreatedInCommitOrder` and nothing else in `TransactionService`
  needs it), and advances from one imported row to the next
  (`TransactionImport`).
- `RedisTimeout` bounds one whole Redis command, connection and any retries of
  the client library included.
- `Decimal` arithmetic is exact at the magnitudes of the columns.
- `RateLimiter`: Redis's clock and the instances' run at one rate; skew is
  constant.
- `Paging`: the rows of a listing are never deleted, and a walk keeps its limit.
- A portfolio's owner does not change and portfolios are not deleted: no
  operation does either.
- `PriceAdapters`: a provider that answers at all lists the sessions there are,
  or a row with a defect an adapter can see; a wrong price cannot be told from a
  right one.
- `Gateway`: a clock's skew is constant; the demo's passwords are not guessed;
  the demo runs with fresh emails for both accounts or with `--email` for the
  first.
- `OwnerMigration`: PostgreSQL queues a request for a table behind an earlier,
  stronger one; DDL is transactional; sessions take no lock they already wait
  for.

### The two violated runs

- `valuation_as_of`: `ResultIsAsOf`. The result's date, value and cash come from
  the last date with a positive value; its `asset_weights` from the positions
  after the whole ledger up to `end_date`. Sell everything and withdraw the cash
  on a later market date, and the result of the earlier date has its value with
  no weights. `docs/decisions.md:296` says that transactions after the result's
  `as_of` date are ignored.
- `insight_cache`: `CacheHoldsValidated`. `CachedInsightGenerator` stores what
  the adapter returned before `PortfolioInsightService` validates it; the
  adapter checks the minimum length before it strips. A padded summary is stored
  for `INSIGHT_CACHE_TTL_SECONDS` and refused on every request for that input.
  The repository's `README.md:170` calls it the "TTL for a validated generated
  narrative". `OnlyValidated` holds all the same: such text never leaves the
  service.

### Observed without a run

- `docs/csv-import.md:85-88` promises 422 `csv_import_invalid` for malformed
  quoting and for the limits of a document. `api/csv_import.py:36` reads the
  header outside the `try` that turns `csv.Error` into that answer, so malformed
  quoting in the header is a 500 (`Escapes` of `CsvImport`); and
  `api/routes.py:206` declares the limit of a body a second time, so that an
  oversize document is refused with the 422 of request validation before the
  parser sees it.
- `application/services.py:786`: `astimezone(UTC)` of an aware instant next to
  `datetime.max` or `datetime.min` raises `OverflowError`, which no handler
  knows: `create` answers 500 and leaves nothing; the import answers 500, its
  earlier rows stay committed and their report is lost (`Break` of
  `TransactionImport`, which `RepostsConverge` survives).
- `docs/methodology.md:138` calls the drawdown of an empty series undefined. The
  service never asks for one: an analysis without a valued date is an error
  before the metrics, so the level "insufficient data" of
  `domain/insights.py:109` is not reached through it.

## 4. Proofs

### The write path

`TransactionServiceProofs` proves, for every set of sessions, portfolios,
payloads, ids and clock readings that satisfies the assumptions of `LedgerData`
and `TransactionService`:

| Theorem | Statement |
|---|---|
| `Invariance` | `Spec => []IInv` |
| `TypeCorrect` | `Spec => []TypeOK` |
| `LedgersReplay` | `Spec => []LedgerReplays` |
| `ExternalIdsUnique` | `Spec => []ExternalIdUnique` |
| `NoServerErrors` | `Spec => []NoServerError` |
| `AssetsAreComplete` | `Spec => []AssetsComplete` |
| `Refinement` | `Spec => Abstract!Spec` (`ImplementsLedger`) |
| `AnswersAreTruthful` | `Spec => []AnswersTruthful` |
| `CreatedFollowsCommits` | `Spec => []CreatedInCommitOrder` |

**The argument.** None of the properties is inductive: a commit is right because
of what three earlier statements found, and because nobody could change it
since. `IInv` says so, part by part:

- `BusyInv`: a worker serves a payload unless it is idle, and has an answer
  exactly when it is closing.
- `LockInv`: from `Build` to `Commit` a worker holds the lock of its payload's
  portfolio, and its caller owns it.
- `BuiltInv`: the row it carries was built from its payload, which is valid.
- `FreshInv`: from `Lookup` on, its external id is not in the ledger.
- `ReplayInv`: from `ReplayLedger` on, the ledger replays with its row.
- `AssetInv`: its asset is committed, or inserted by itself.

`LockInv` and `BuiltInv` give `Exclusive` (two workers with a built row of one
portfolio are the same), hence `Undisturbed`: no step of another worker changes
the ledger a worker has read. `FreshInv` and `ReplayInv` are then preserved, and
at `Commit` they are exactly what `LedgerReplays` and `ExternalIdUnique` need;
`FreshInv` and `AssetInv` make both error branches unreachable. The refinement
uses the same invariant: `Lookup`, `ReplayLedger` and `Commit` are where the
abstract call is served, a crash is `End`, and every other statement is a
stutter.

The last two theorems add `DatedInv` and `RefusedInv` (`AnswersInvariance`). The
clock is read under the lock, so no row of the portfolio is committed between
the reading and the row's own commit, and `created_at` follows the commits. A
call that is refused keeps the lock until its session has ended, so what refused
it is still the case when its answer leaves.

### The import

`IntakeProofs` proves `PreviewPredicts`, `RepostsConverge`, `ReportedRowsStay`
and `KnownIdsAreSettled` for any documents, ledgers, writers and any number of
cut, broken and repeated commits, from `ImportInvariance`. Its parts:

- `UniqueInv` and `KeptInv`: an external id names one row of a ledger, and a
  row that was reported as created or replayed is there and would be replayed
  (`Kept`). Ledgers only grow at their end, so it stays there whoever writes.
- `ReadInv`: the rows preview read are in the ledger still, and a row whose
  external id was among them is decided by that id's row, in preview as in any
  commit.
- `SimInv`: while nobody else has written, there is a walk `m` along the
  simulated ledger, `m[i]` being its length after preview saw row `i`. The
  first commit is at `m[i]` after row `i` (`Follows`); without invalid rows any
  later one is there or further on (`Converges`).

A commit further on than preview was finds the external id of a row that
preview called ready, and replays it: so repeated commits converge and
reposts create nothing.

The second part of `RepostsConverge` has the premise that no row was previewed
as invalid, and `Converges` needs it: a row refused at first may be accepted
after a later one of the same document, and the ledger then leaves the path of
the preview.

### Accounts

`GatewayProofs` proves `TypeOK`, `AccountsUnique`, `AnswersTruthful` and
`WelcomedCanLogin` for any workers, emails and passwords, from
`EmailsAssumption` (normalising twice is normalising once) and
`BlankAssumption`. The inductive invariant adds what the unique index gives and
the properties do not say: a request between INSERT and commit has its email to
itself (`FreeInv`), what login read is still the row of its email (`FoundInv`),
and welcomed credentials are a row's (`WelcomeInv`).

### Pages

`PagingProofs` proves `TypeOK`, `TotalTrue` and `WalkComplete` for any sessions,
scopes, rows and limits. The argument is about ranks: rows are only added, so no
rank falls (`Growth`), a row that is not on the page and was not before it lies
beyond it (`SelectItemsStep`), and the total, counted later, exceeds its rank
(`RankBelowCount`, `CountStep`); so the client turns the page. It shows why the
order of the two statements matters: counted first, the total could be passed by
a row the items pushed beyond the page.

`TotalsAdmitItems` needs one thing more, that ranks of one scope are distinct.
So a page of ranks from `offset` on has at most `limit` rows, and no more than
the scope has beyond `offset`; the count that follows finds at least these.

### The migration

`PagingProofs` shows `MigrationSpec => Spec` of `Paging`
(`MigrationRefinesPaging`): its locks only forbid steps, and what it and the
older release do to ownerless rows no listing sees. Walks are therefore complete
while the migration runs (`WalksSurviveMigration`), without a second proof.
`OwnersAreRequired` is inductive once `MigrationInv` says that a migration only runs while owners are
not required: ALTER's own scan sees, under the lock no open session of either
release shares, what the earlier check could not, and until the migration
commits nobody can write behind it.

### The HTTP surface

`GatewayProofs` shows `GatewaySpec => Spec` of `Accounts`
(`GatewayRefinesAccounts`), so that its theorems hold behind tokens, limiter and
routes (`AccountsBehindTheGateway`), and `ForeignIsAlwaysMissing`: whatever the
order of refusals, the answer to a request for another's portfolio is the one it
would have had for a portfolio that does not exist.

### The release demo

`DemoIsExplained`: a demo that failed has an excuse, something the network, the
limiter, the market, the model or a clock did to the call that failed.
`GatewayInvariance` says what is the case when the script comes to a line. The
accounts are the demo's own from the lines that register them and have tokens
from the lines that log them in (`CastInv`); the portfolio, its rows and its
first snapshot are there from the lines that make them (`StageInv`), because
only the owner can touch them and nobody else has the demo's passwords
(`GuestInv`). What happens between a request to `/auth` and its answer is the
invariant of `Accounts` again, with the driver as one of its workers
(`DriverInv`).

### The analytics pool

`AnalyticsProofs` proves `JobsAccounted` for any number of threads, analyses,
symbols, attempts and logins. `PoolInvariance`: an awaited job is queued once or
run by one thread (`OnceInv`), awaited jobs are exactly those of who waits
(`WaitInv`), and an idle request has no tasks left (`QuietInv`), so the jobs of
one fan-out are never mistaken for those of the one before.

### Market data

`IntakeProofs` proves `AnswersHonest`, `HitAge` and `RequestBounded` for any
TTLs, timeouts, number of attempts, backoff and requests. Time only passes
between steps, and no further than the end of any await, so each await bounds
the next: `DueOK` is that chain from the start of a request to its last SET.
`KeptOK` bounds what Redis keeps: a copy expires at most its TTL and the
timeouts it waited for its SET after its bars came in. An answer is given in an
instant and is as old as the copy it was read from.

### The operators of an analysis

`OperatorProofs` has what the valuation is computed with, for any accepted
ledger, any market and any length of interval.

- *Sums and recursion*: what `SumFunction` gives when its function is split,
  extended or changed at one argument, and that a function defined by recursion
  on a number obeys its equation.
- *Adapters* (`AnswerFacts`): what an adapter returns is the market in the
  interval, no row more or less, or an error, and the error names a condition
  that brings it about.
- *The loop* (`LoopIsReplay`): rows have places in the sorted list, the loop's
  dict after `n` rows holds the sums of the first `n`, and it raises at the first
  of them that sells what is not held. So it raises exactly on what `Replays`
  refuses, and returns `DerivePositions`.
- *Metrics*: the one pass of the drawdown, which keeps a running peak, finds the
  worst decline between any two moments (`DrawdownFacts`); the spread is zero
  exactly when all returns are equal (`SpreadFacts`), which is when volatility
  and Sharpe ratio are unavailable.

### The valuation

`ValuationProofs` proves `AgreesWithLedger`, `MarketDataHonest`, `NoLookAhead`,
`FlowsBalance` and `FlowsAreNotPerformance` from one invariant of the loop over
the market dates, `ValuationInvariance`:

- `PhaseInv`: from `open` on the series are the market's in the interval.
- `CalendarInv`: the dates seen and those to come are all the sessions there
  are, the former before the latter.
- `LatestInv`: the price carried forward is the last one seen.
- `TodoInv`: the rows applied are the first in ledger order, and between two
  dates none that is due is left over.
- `PositionsInv`: the positions are the sums of the rows applied.
- `FlatInv`: in a flat market cash and holdings are worth the last point and the
  flows since, skipped dates included.

`TodoInv` and `PositionsInv` are why no SELL is refused here that `create`
accepted: what was applied is a beginning of the ledger, which `Replays`.
Whatever is held was bought on or before the date, hence required and priced.

`ReportInv` follows the result to the report. `MetricsAgree` is `DrawdownFacts`
and a product that telescopes when there are no flows; `InsightDiscloses` is
`SpreadFacts` and the definition of the limitations. `LoopAgrees` is `LoopIsReplay`, since a
part of an accepted ledger is all the loop needs.

The proofs use `IntervalAssumption`, `SymbolsAssumption`, `LedgersAssumption` (an
accepted ledger: finite, with distinct ids, and it replays),
`MarketsAssumption` (positive prices) and `MaxPointsAssumption`.

### Insights

`ValuationProofs` also proves `OnlyValidated` and `EveryInsightPersisted`. The cache is
keyed by the input (`KeyedInv`), so what it returns is about the request's own
analytics, and validation comes after it whoever filled it. Persistence is an
argument by counting (`OwedInv`): received insights and the answered requests
that have not delivered theirs never outnumber the snapshots, for each input and
generator; a commit that is not acknowledged only makes one snapshot more.

### The rate limiter

`RateLimiterProofs` proves `OneBudget` and `RetryAfterUseful` for any rule,
number of requests at once, skews and delays, and ticks of any even fraction of
a second. The expiry of a key, rounded up to a second, is counted from the
script, which runs after the clock was read; so the key outlives its window by
the clock that chose it (`KeyOK`), and as long as no clock has left the window
the key counts all it has admitted (`BudgetOK`). What it counts and the requests
on their way to it never outnumber those that arrived (`CountOK`), so a refusal
was due.

### What the proofs leave

`AssetsComplete`, `TotalTrue`, `MigrationInv` and the type invariants of
`Accounts`, `Paging`, `InsightService`, `RateLimiter`, `TransactionImport` and
`Analytics` are proved and no run repeats them.

**Only model-checked.** `EveryCallEnds`, `EveryRequestAnswered`,
`EveryPasswordChecked` and `EveryAnalysisAnswered`: liveness under fairness, and
ENABLED, are beyond the prover. So are, by their nature, the two violated runs.
Every other property a run checks is a theorem.

The induction theorems of the prover's library take an operator as a parameter,
which none of its backends can instantiate. Where a proof needs induction over
data (a sum, a pass over a series, the replay of a ledger), it looks at the
least number, or the smallest set, at which the claim would fail: `Smallest`,
`MinimalSubset` and `Induction` of `OperatorProofs` say that there is one, and
`Recursion` that the function such a proof is about exists.

## 5. Not modelled

- Observability: logging only. That the middleware turns what nothing handles
  into a 500 is part of `Gateway`.
- Configuration, wiring, session factory: construction, once at start. The order
  of the decorators it builds is the one `MarketDataCache` and `InsightService`
  compose.
- In-memory adapters: the tests' doubles of the repositories.
- Response schemas copy fields; health checks have no state.
- Two functions of `domain/analytics.py` on price bars, which no service calls;
  the value of volatility and Sharpe ratio (only when there is none).
- The thresholds, score, level and wording of `risk-rules-v1`: pure functions of
  one report, which unit tests reach and no property here depends on.
- Migration 20260721_0001 creates the tables before there is a service; the
  constraints it declares are part of the modules that rely on them.
- `scripts/build_demo_video.py` renders slides with an external encoder, and
  `scripts/container_smoke.py` starts a container and polls its health check.

Two hazards have no property. Bars asked for before midnight of `end_date` and
received after it get the historical TTL (`cache.py:126`): when a provider
sampled what it sent cannot be observed here, and `HitAge` follows the code's
reading. A document that turns out malformed at its last row (`csv_import.py:48`)
leaves nothing because the parser is one synchronous call: there is no moment
between its rows for a property to look at.

## 6. Plan

1. Proofs: `ResultIsAsOf` under the hypothesis that nothing is traded after the
   last point, which says exactly when the divergence of `valuation_as_of`
   shows; that the rows of an import are steps of `LedgerSpec`.
2. Composition: analyses over `MarketDataCache`'s answers for several symbols
   and a ledger that moves on between them.
