# Polymarket Price Tracker: TLA+ specification

A specification of the backend of the Polymarket Price Tracker: TLA+ modules
translated from `src/backend`, small instances of them for TLC, and theorems
about them for TLAPS. Paths below are relative to the repository (`src/...`) or,
where a package is named, to `src/backend`.

Contents: [the system](#the-system), [modules](#modules),
[runs](#runs), [disagreements](#disagreements-between-the-code-and-what-it-says),
[fairness](#fairness), [proofs](#proofs), [not modelled](#not-modelled),
[plan](#plan).

## The system

One `uvicorn` worker runs everything: FastAPI, an APScheduler
(`AsyncIOScheduler`) and one SQLite database in WAL mode. Three kinds of code
run at once:

* **the event loop**: `async def` handlers and scheduled jobs. They interleave
  only where they `await`, which is where they wait for HTTP;
* **worker threads** of anyio: handlers written as plain `def` (start, stop,
  patch, delete a market; CSV export; authentication; configuration). They are
  truly concurrent with the loop and with each other, between any two database
  transactions;
* **the process as a whole**: systemd restarts it, which keeps the database and
  loses every module-level dictionary and every task in flight.

Every job id has `max_instances=1`: a job that is still waiting is not started
again. The same work may still be running beside the job, because most batches
can be started from a page as well.

### Inventory

| component | state | operations | hard behaviour | what makes it correct |
|---|---|---|---|---|
| price collector (`collector/`) | tables `markets`, `outcomes`, `ticks`, `tick_counts`; `_misses`; polls and backfill tasks in flight | `poll`, `backfill_market`, `sync_jobs`, `sync_mlb_intervals` | reads ids, awaits, then writes by id; restarts; failed requests | history and live data never overlap, totals match, nothing survives a deletion, resolved markets stop being polled, jobs match the database |
| market handlers (`api/routes.py`, `database/db.py`) | the same tables | track, start, stop, patch, delete; read-only queries | worker threads between two transactions of one handler | a closed market is not polled; a deletion is permanent |
| database session (`db.get_db`) | connection and nesting depth per thread; a suspended export generator | enter, leave, fail; streamed export | a generator that changes threads inside the block | commits on success, rolls back on error, inner blocks do neither |
| live price cache (`screener/live_prices.py`) | `_wanted`, `_prices`, `_at` | `request`, `cached`, `fetch_now`, `poll`, `game_prices` | answers of polls and fetches arrive in any order | what is served is fresh; what nobody views is forgotten, save for an answer that came too late |
| Polymarket clients (`polymarket/`) | none (retries inside a call) | Gamma lookup and paging, CLOB midpoints and history | timeouts, partial answers | all pages once; failures raise |
| screener cache (`screener/cache.py`) | table `screener_cache` | rebuild per sport, search | partial failure of a rebuild | rows of a failed sport are kept |
| MLB feed (`mlb/`) | `_live`, `_sched`, `_state` | schedule and line score refresh, `light_state` | slow answers overtake fast ones | a game that is over is settled as it ended |
| comeback alerts (`comeback/`) | `_seen`, `_cfg_cache`, tables of triggers and configuration | detect, sample, record finals, configure | await between "seen" and "fired"; cache refilled with an old value | one alert per pitcher and game, finals written once |
| bottom-8 tracker (`bottom8/`) | table `bottom8_games` | open, follow, finish, retire | await before the row is created; restarts; late answers | one row per game, the score of the right moments, a final once |
| favorite lock (`favorite/`) | table `favorite_verdicts`; the score of a game | lock due games | scoring takes longer than the window; names of two providers | the first verdict is final, and each club is scored on its own price |
| football alerts (`football/`) | `_fixtures`, the feed, table `football_triggers` | poll, detect, record outcomes | a failed call looks like an empty list | an alert is about a match in play, its outcome is the final one |
| LoL scores (`lol/`) | team statistics, score cards | sweep | first sweep after kickoff; two sweeps | a card is frozen once its match has started; a card is the same for either order |
| trader accounts (`traders/`) | accounts, fills, resolutions, `_match_cache`, sync marks | add, remove (soft), sync, match, claim, migrate | sync in the background, crash in a migration | fills keep their account, matches are recent, the money adds up |
| accounts and sessions (`auth/`) | users, invitations, resets, sessions | register, sign in and out, change roles, reset | two administrators at once; several transactions per request | one administrator remains, links work once |
| backtest (`backtest/`) | tables of games, spots, verdicts, days done | day sweep, game backfill, rebuilding of verdicts, strategies | a day marked done with a game missing; retries; look-ahead | every finished game once, no trade and no verdict from the future |
| backup, configuration, entry point; operations scripts; frontend | files; none; React state | - | - | - |

The components interact through the database (one writer at a time), through
the module-level caches of the live prices and the MLB feed (read by the
detectors and trackers), and through `sync_jobs`, which every handler that
changes a market calls. The backtest reads what the others stored: ticks of the
collector, locked verdicts, and games it backfilled.

## Modules

| module | models | extends / instances |
|---|---|---|
| `TickLog` | *abstract*: what the tick database promises its readers: per market a log opened at `since`, live points appended, history filled in strictly before `since`, one point per outcome and time | |
| `Collector` | `poll`, `backfill_market`, the market handlers and the tables they share | `TickLog` (refinement) |
| `CollectorHistory` | two history variables over `Collector`: empty polls in a row per row, ids used before | `Collector` |
| `JobSync` | `scheduler.sync_jobs` called from several threads | |
| `Transactions` | *abstract*: the promise of `get_db`: each thread has at most one transaction, which ends whole | |
| `DbSession` | `get_db` with nesting, errors and threads, and `iter_ticks` suspended inside it | `Transactions` (refinement) |
| `LivePrices` | the live price cache, its handler and the tracker that reads it | |
| `AlertLog` | *abstract*: a table of alerts: what was recorded stays, a final is written once, an entry may age out; one step settles one or several | |
| `MlbFeed` | `mlb/live.py`: schedule, full poll, `light_state`, retired games, over games that go on | |
| `Comeback`, `Bottom8` | the two MLB detectors, over the feed | `MlbFeed`; `AlertLog` (refinement) |
| `FootballAlerts` | the soccer job: feed, rows, triggers, outcomes | `AlertLog` (refinement) |
| `ConfigCache` | `config()` and `save_config()` of comeback and football, on several threads | |
| `FavoriteLock` | locking of verdicts at first pitch | |
| `ClearFavorite` | the score of a game: eight factors, vetoes, price matching | |
| `FavHistory` | `backtest/favhistory.py`: batches that rebuild past verdicts, and where their prices come from | |
| `RebuiltVerdict` | the factors of `favhistory.py` beside the live ones | `ClearFavorite` |
| `LolScores` | statistics, cards and their freezing | |
| `SeasonSweep` | the two season sweeps (`wehistory.py`, `bottom8history.py`) | |
| `GameBackfill` | `backtest/backfill.py` with its retries | |
| `GameSpots` | `replay.py`: half-innings to spots with price paths; the fair-value table | |
| `BacktestRun` | `engine.py`: selection, trades and money of six strategies | `GameSpots` |
| `TraderAccounts` | accounts with soft delete, re-adding, claiming; the owner migration | |
| `TraderSync` | sync of fills, the match cache and its lock | |
| `TripMatch` | fills into trips; fees of a transaction | |
| `Accounts`, `PasswordResets` | invitations, registration, roles; sessions and resets | |
| `*Proofs` | theorems, below | the modules they are about |
| `MC*` | constants, symmetry and bounds for TLC | the modules they name |

### Collector

State and code: `market` is table `markets` with its outcomes; `ticks` and
`counts` are `ticks` and `tick_counts`; `misses` is `scheduler._misses`;
`polls[i]` is what `poll(i)` has read from the database before it awaits the
CLOB; `tasks` are the `asyncio` tasks of `backfill_market`; `starting` holds
the start requests between the closed check and the update, which are two
transactions of a worker thread (`routes.py:329-337`).

`poll` is split at its only await: `PollBegin` reads `tracked_outcomes`,
`PollAnswer` stores the rows and counts the misses, `PollSkip` is the
`RuntimeError` after the retries. `backfill_market` is split the same way:
`BackfillBegin`, then one `BackfillOutcome` or `BackfillFail` per outcome.
Handlers that are one transaction are one action. `Restart` empties everything
that is not in the database.

Row ids are modelled exactly because they matter: the tables have no
`AUTOINCREMENT`, so SQLite gives a new row the largest id plus one, and the id
of the newest market comes back after it is deleted. A poll or a backfill that
waited then writes by an id that belongs to somebody else. `INSERT OR IGNORE`
on the unique index drops rows whose `(outcome, ts)` is taken
(`Inserted`); it does not excuse a foreign key, so one deleted outcome rolls
back the batch of every market of that interval (`BreaksForeignKey`).

The price itself is abstracted to its origin: which condition it quotes, and
whether a poll or a backfill stored it. That is what the properties tell apart.
Two rows of one origin, outcome and second are one element of the set `ticks`;
`CountsMatchTicks` tells them apart all the same, because the total counts rows.

### JobSync

An actor calls `sync_jobs` in four steps as the code does: read the database,
read the job list, add, remove. `add_job` of an id that is there raises and
`remove_job` of an id that is gone raises; both leave the sync in the middle.
The event loop is one actor (nothing in `sync_jobs` awaits), worker threads
are others. `alone` is a history variable: nobody else has been active since
this sync began.

### DbSession

`depth` is the thread-local counter, `frames` the value of the local variable
`depth` in every open `with get_db()` block, `pending` what a connection has
not committed. `iter_ticks` is the only block in the code that contains a
`yield`: between two chunks of a CSV export it stays open while its thread goes
back to the pool. Starlette asks for the next chunk on any free worker, and a
client that goes away leaves the generator to be closed on the event loop. A
`sqlite3` connection refuses to be used from another thread, so the block then
neither commits nor rolls back, and `finally` writes the saved depth into the
thread-local of the *wrong* thread (`EndElsewhere`). Two downloads that share
a thread may also finish in the order they began. `strayed` (history) collects
the threads this has happened to.

### LivePrices

A price is represented by the time the CLOB quoted it, which is what freshness
is about. `poll` and `fetch_now` are split at their awaits; `fetches` in flight
and the one poll in flight answer in any order, with any sides missing.
`Relist` lets the screener drop and add games at any time. `Latency` is the longest
a request takes and is not assumed to be below `WantTtl`: httpx's 30 s
(`http_timeout`) hold for each of connecting, sending, receiving and waiting for the
pool, so that a request may outlast the 90 s of `WANT_TTL`, and the game it asks for
may be forgotten before it answers. `AdvanceTime` requires that the
poll job has fired or is waiting, as an interval job of APScheduler does.

### MlbFeed, Comeback, Bottom8

`line` is the game as it is: stage of the inning, score, pitcher. `posted` is
what MLB's schedule says, `sched`, `onList` and `state` are `_sched`,
`_live["games"]` and `_state`. A request in `wire` carries the status the
schedule had and the line score MLB read when it was made; `Arrive` stores it,
in any order. A game is followed from the 8th inning to its end.

`Comeback` keeps the order of `detector.py`: the pitcher is noted in `seen`
*before* the score is looked at and before the game log is awaited (`Look`), and
`GameLog` fires or not. `INSERT OR IGNORE` by game and pitcher is `Fire`.
`RecordFinal` asks the schedule whether the game is over and takes the line score
of the moment.

`Bottom8` keeps the passes of `tracker.run`: `live` is `live_states()` at the
beginning, rows are opened from it after awaits (`OpenGame`), followed
(`FollowLive`), retired after twelve hours (`TrackBegin`) and settled through
`light_state`, from the cache or by a request (`FinishFromCache`, `FinishAsk`,
`FinishArrive`, `FinishFail`). `middle` is a history variable: the score when the
bottom of the 8th began.

### FootballAlerts, ConfigCache

A pass of `football/live.py` asks for the fixtures in play, walks over the
screener rows with awaits between them, and finally asks for the score of each
trigger that is owed one. `fixtures` is `_fixtures` and `liveIds` the feed of the
pass; a failed call returns an empty list, which is what a feed without matches
looks like.

In `ConfigCache` every thread is at one of the steps of `config()` (look at the
copy, take the time, read the row, write the copy) or of `save_config()` (a
`config()`, merge, write, drop the copy); nothing locks the copy. `held`
(history) is when each configuration was last the saved one.

### FavoriteLock, ClearFavorite, FavHistory, RebuiltVerdict

`FavoriteLock` has time in minutes: a pass reads the clock, the kickoffs and
what is not locked, then awaits a price and a score for each due game. The pass
of an old process may still run beside the new one's, and a first pitch may be
put off. A verdict is there the moment its price was read; `ClearFavorite` has
the verdict itself, as a function of what eight factors read: prices in cents,
composites of the starters in tenths of their units (`Spread` of which are one
standard deviation), ranks, days of rest, and for each source whether it has the
club at all. The row of the
screener may list the clubs in either order and miss the name of one or both.

`FavHistory` rebuilds such verdicts for past games. `TakeBatch` is `_pending`
(tracked games without a row, then a sweep of the season's days, oldest first,
up to the limit), `BeginBuild` is the semaphore, `FinishBuild` and `BuildFails`
are `_build`. A price is the time at which it was quoted, on the clock of its
game: `TickPriceAt` is the first stored tick from a moment on, `BarQuotes` the
last bar before T-5, `TapeQuotes` the newest trades of the pages that were read.
`schedule` is `_sched_cache` for one club. `SeasonLines` is the box score: the one of
first pitch, or, when MLB does not answer that, the one of now, whose season lines
count the game itself and later ones. Bullpen ranks and the scale of the pitchers are
those of now, as `favhistory.py` says (`APPROXIMATIONS`), and no property speaks of
their time. `RebuiltVerdict` puts the factors of
`favhistory.py`, which are written a second time there, beside the live ones: the
starter is rated by the composite itself where the live engine divides its gap by the
standard deviation, a missing table of hitters gives 10 points instead of 6, and an
unannounced starter is no reason to refuse.

### LolScores

`stats` is what the statistics provider has, `stored` is `lol_team_stats`,
`cards` is `lol_scores`. A sweep awaits the list of tournaments (`ListAnswered`;
`ListFails` ends it with nothing scored), then the statistics of one tournament after
the other (`SaveTeamStats`, each a transaction; a tournament that fails keeps its
rows), and scores all matches right after the last, without an await
(`RebuildScores`). The scorecard is computed as in `score.py`, with one
metric that is only compared standing for the others.

### SeasonSweep, GameBackfill

`SeasonSweep` has one `Sweeper` for the batch and one for each click on Run. An
answer is the picture of a day when the server made it; its rows are one
transaction and the mark of the day another, with a crash possible in between
(`SweepCrash`). `early` is a history variable: days that were asked for while one
of their games had still to start.

`GameBackfill` runs two games at a time over what is pending. `plays` is what the
play-by-play holds, which grows while a game is on. `StartGame` clears the spots
of an earlier attempt, `GiveUp`, `NoPlays` and `Raise` store a reason, `Guarded`
passes the checks and `Build` stores spots and status in two transactions, which
`FillCrash` may cut apart. "No play-by-play" is retried once, when the date in the
slug is more than a day past (`DayIsOver`).

### GameSpots, BacktestRun

A game is played half-inning by half-inning. A boundary is a spot: the prices
that followed it are kept as a path of maxima by half (`replay.py`), its score is
also counted in the fair-value table (`wehistory.py`, `store.py`), derived from
line scores that leave the last half out when it was not batted. `BacktestRun`
takes one setting and lists the trades of its strategy: entry with slippage and
fee, target or horizon, give-up rule, split of a game's stake, verdict prices.
Money is in units of 1/2000 dollar, in which every fee of 100 shares is whole; a
trade of a split game keeps its full result and the number of trades it shares the
stake with (`of`), so that no division rounds.

### TraderAccounts, TraderSync, TripMatch

`TraderAccounts`: the migration is the statements of
`_migrate_owner_column`, each a step of its own, with `Restart` anywhere; afterwards
users add, delete and re-add wallets, and unclaimed wallets are claimed. Row ids
are again one more than the largest. `TraderSync`: a sync awaits the taker feed, the
feed of all fills and the cash; `matched` computes behind a lock and keeps its
result; `queue` is the callers at the lock. `TripMatch` holds `engine.match` and
`_assign_fees` as functions of a tape that grows by one fill at a time.

### Accounts, PasswordResets

Each store call is one transaction on a worker thread, and the process may stop
between any two. `Accounts`: an invitation is consumed *after* the account was
created, the loser's account is deactivated; a change of role is a check (`CheckChange`)
and a write (`WriteChange`).
`raced` (history) is set when two administrator checks overlapped, `madeWith` says
with which invitation an account was made, and `apart` holds the accounts whose
registration was cut off and those an administrator activated.
`PasswordResets`: a request that has verified its password, or consumed its link, is
in `running`, and its row of `Rest` is the transactions it has left: a login inserts
its session, a change sets the password, revokes all sessions and inserts one, a
reset sets, revokes and clears the requests. Any other request may fall between two
of them, and `RequestEnds` may cut it off before any of them; `cutOff` (history) are
the accounts with a change that ended before its sign-out. Passwords are version
numbers, and a session keeps the one it was opened with and the one of its time.

## Runs

| run | shows | bounds, and why they are enough |
|---|---|---|
| `collector` | tables stay consistent and implement `TickLog`, whatever polls, backfills, handlers and restarts do | 2 conditions, 2 row ids and 2 backfill tasks, so an id is re-used by another market while a poll and a backfill of the first are in flight, and the backfills of both may overlap; one stored tick (`MaxTicks`: a step may store more, such states are checked but not continued; `collector_history` and `collector_live` go on from several); 3 moments (before, at and after `since`); `CloseAfter` 2 |
| `collector_history` | overlapping polls and downloads of the same outcomes count every tick once; a market is closed by its own empty polls only | 1 market, 2 outcomes, 2 intervals (two polls of one market after its interval was changed), 2 backfill tasks, 3 ticks |
| `collector_live` | a resolved market stops being polled | `CloseAfter` 3 as in the code, 4 requests or restarts in all |
| `jobs_race` | two racing syncs never remove a named job, and a sync that runs alone repairs what they left; every request at the lock of a match is let go (`TraderSync`, `CallersAreAnswered`) | 2 actors, 2 markets, 3 intervals: enough for a job to be wanted by one reading and not by the other; 2 callers of a match, one of which waits while the other's match fails, and a sync that empties the cache meanwhile |
| `db_session` | nested blocks implement `Transactions` while no download is open; with downloads, the threads they did not touch still commit | 2 workers and the loop, 3 levels, 2 writes, 2 downloads (which can share a thread or follow each other) |
| `live_prices` | only the answer of a fetch that outlasts `WANT_TTL` leaves a price outside the map that the clean-up walks; what is served was quoted at most `max_age` and one request's time ago | 2 games (one forgotten while the other is viewed), `WantTtl` and `Latency` 2, so that a fetch may outlast the wish for its game, `MaxAge` 1, 4 ticks of the clock: a price can be stored, expire and be stored again |
| `alerts` | eight parts, below | below |
| `records` | eight parts, below | below |
| `db_session_collector`, `alerts_updates`, `records_readd`, `records_delay` | a disagreement each, below | those of `db_session` (one write), `alerts` (two options), `records` |

`alerts` and `records` put eight components each side by side, `jobs_race` two
(`MCAlerts`, `MCRecords`, `MCJobSync`). The parts share no state, so a behaviour runs one of them, chosen at
the start, and the others stay as they began; the states of the run are the sum of
those of its parts and not their product. A property of one part is checked in
every behaviour of it.

### The parts of `alerts`

| part | properties | bounds, and why they are enough |
|---|---|---|
| football | `NoStaleAlert` (an alert is about a match of the feed of this pass), `OutcomeIsFinal`, `TriggersAreALog` | 2 fixtures (one leaves the feed while the other stays), 1 goal |
| comeback | `FinalsAreFinal`, `TriggersAreALog` | 1 game from the bottom of the 9th, 2 pitchers, 1 run a side: a change of pitcher, a walk-off and extra innings happen while answers of poll and page overtake each other |
| bottom8 | `RowsAreOfTheGame`, `RowsAreALog` | 1 game from the top of the 8th, 1 run a side, a late answer of each of the two requesters |
| config | `ConfigIsRecent` | 2 threads, 1 option with 2 values, `CfgTtl` 1, 3 ticks: the copy is refilled across an update and expires |
| lock | `LockIsFinal` | 2 games, the passes of an old and a new process, first pitch at minute 1 and put off by 1, locks from one minute before it to the grace of two minutes after, the clock to minute 3 |
| lol | `ScorecardIsFair` | 1 match with every pair of 6 teams (faster or slower, winning, losing or unknown, a missing value), 2 sweeps, 1 change of the statistics |
| favorite | `PricedByName`, `EdgesAreOneSided`, and, of `RebuiltVerdict`, `FactorsMirror`, `RebuildAddsNoFavorite` | every pair of 27 clubs: 14 at thresholds of starter, depth, rest and travel, and 13 with a starter not announced or not rated, lineups of each kind, few games, no standing, no rank of the bullpen, a tired bullpen, no earlier game; prices of 40 and 66 (one above 59 for each side), 2 movements, 8 ways the screener may name them; `Spread` 7, so that the two ratings of a starter differ. Live favourites that the rebuild misses, and those it names too, both occur, and so do games outside `NothingLeftOut` |
| rebuild | `AsOfThen`, `RebuiltOnce` | 2 games on 2 dates (one is in the form of the other), 2 at a time, 4 moments (before the open, the open, T-5, first pitch): every set of ticks, of bars and of trades over them, with tapes longer than the pages that are read; the season goes on from rows whose two sides found the same prices (`Explored`; no step reads the prices of a row, and the others are checked as they are stored) |

The composite properties of the run collect these: `OutcomesAreFinal`,
`TablesAreLogs`, `VerdictsAreHonest`, `ScoringIsFair`.

### The parts of `records`

| part | properties | bounds, and why they are enough |
|---|---|---|
| season | `QuietDaysAreRecorded` (a day done and never asked for before its games began holds all of them) | 3 games on 2 days, 3 dates, a batch of 2 days and one click beside it |
| games | `SpotsOnce`, `PlayedGamesAreNotWrittenOff` | 2 markets with slugs of two dates, 4 dates: a night game, its first try, its retry and a crash |
| traders | `AccountsSurvive` (a row of its id and its wallet for every fill), `SeenOnce` | 2 wallets known before the migration, 2 users, 3 row ids, 2 trades of a wallet of which the last one is shown |
| sync | `MatchIsRecent` | 1 sync, 2 callers, 2 fills (one a taker's), lifetime and latency 1, 4 ticks |
| trips | `CashAddsUp`, `FeesMeetTheCash` | tapes of 4 fills over 2 assets and 2 sizes (a sale may be larger than what is held, or leave dust), transactions of 3 fills with every set of cash rows |
| users | `OneJoinsPerInvite`, `AdminRemains` | 2 names, 2 invitations |
| passwords | `ResetSignsOut` | 1 account (a request reads and writes only what is of its own), 3 requests between their transactions and 3 passwords: a login that overlaps two changes, and two changes that overlap each other |
| replay | `FairCountsTheSpot`, `NoLookAhead`, `NoFreeMoney`, `OneStakePerGame` | games of 2 regular innings and at most 4 halves with 0 or 1 run each (walk-offs, an unbatted last half, extra innings as far as the bound), 3 kinds of prices at a boundary (one silent), 9 settings that between them use every strategy, delay, horizon, give-up rule and fee, 3 lists of verdicts |

`CHECK_DEADLOCK FALSE` is set where a clock, a set of ids or a number of fills is
bounded, and in `JobSync` and `DbSession` where a bounded set of writes or an idle
system may have nothing left to do. Safety runs use symmetry over model values no
definition tells apart; in `MCRecords`, where one part of a behaviour moves, one
permutation (`Exchange`) exchanges the games of a day, the wallets, the people and
the viewers together. The runs with a liveness property use no symmetry.

## Disagreements between the code and what it says

Four are runs that are expected to fail, with one property stating what a document
or a docstring says:

| run | says | does |
|---|---|---|
| `db_session_collector` (`CollectorCommits`) | `get_db`: "commits on success" | an abandoned download overwrites the event loop's depth; the collector's inserts then stay uncommitted |
| `alerts_updates` (`ConfigKeepsUpdates`) | `save_config`: "Merge validated updates into the stored config" | two saves at once write back each other's old value |
| `records_readd` (`ReaddingResurrects`) | `add_account`: "re-adding a soft-deleted wallet RESURRECTS it" | when two users have deleted the same wallet, the row with the richer history is tried; the user who has the other one cannot take it over and the request fails |
| `records_delay` (`ExitsFollowEntry`) | `engine.py`: the path is the maximum "between entry and each of" the later boundaries | a delayed entry is compared with a maximum that begins before it was filled |

The others are stated in their modules, with a comment that quotes the promise,
and are checked by no run because a counterexample is all they have to show. TLC
finds one for each in the instance of the run its module belongs to, except that
`FormIsWhole` needs a third game.

| property | says | does |
|---|---|---|
| `Collector!ClosedNotTracked` | `set_closed`: "stop its polling" | a start request that checked `closed` before the closing poll sets tracking after it: the closed market is polled again (until its next three misses) |
| `Collector!PricesAreOwn` | `delete_market`: "Permanently remove a market" | a price asked for before the deletion is stored in the market that took over the row id |
| `Collector!OthersAreStored` | README: "One bad market ... can never stall collection for everything else" | a market deleted during a poll makes the whole batch fail its foreign key; every market of the interval loses that price |
| `JobSync!SyncedWhenIdle` | `sync_jobs`: "match what the database says is tracked" | two syncs with different readings leave a job missing, or one too many, with everybody idle, until the next sync |
| `LivePrices!LiveMeansPriced` | `game_prices`: live "when the game is being priced" | `poll` returns before its clean-up when no game is viewed, and `game_prices` has no age limit: an old price is labelled live |
| `Bottom8!TiedAtTheMiddle` | `bottom8/store.py`: "TIED at the middle of the 8th" | a row is opened from a state of the bottom of the 8th with nobody out as well; a tie of the bottom half itself is recorded |
| `FavoriteLock!NotAfterFirstPitch` | `lock.py`: "deliberately does NOT lock a game whose first pitch has passed" | two minutes of grace lock it all the same |
| `LolScores!KeptFromKickoff` | `lol/service.py`: "keeps the scorecard it had at kickoff" | the first sweep after kickoff computes the card anew and freezes that one |
| `SeasonSweep!DoneMeansRecorded` | `bottom8history.py`: "marked done only when every game on them is final" | only a game in progress keeps a day open; a day swept before its games start is marked done as well |
| `Accounts!SomeAdmin` | `set_admin`: "never let the last admin demote themselves out of the system" | two administrators who demote each other at once both pass the check |
| `TraderAccounts!FillsAreOwn` | `traders/store.py`: "ids are preserved, so the references stay valid" | a start cut off between DROP and RENAME leaves an empty table behind, whose first account takes an old id and its fills |
| `TraderSync!ExactFeesStay` | `sync_account`: "exact fees from the cash that actually moved; the schedule is only the last resort" | one failed request for the cash replaces every exact fee by the schedule's |
| `BacktestRun!StaleEntriesExcluded` | `engine.py`: stale entries "are excluded everywhere" | the break prices of the bottom-8 replay are not checked for it |
| `FavHistory!ExactRowsStay` | `favhistory.py`: "tracked games use our own ticks (exact)" | a tracked game without a row is listed by the sweep of the same batch as well; its second build replaces the exact row |
| `FavHistory!LinesAreOfThen` | `favhistory.py`: "boxscore seasonStats (MLB stamps them per game)" | when MLB does not answer the box score as of first pitch, the one of now is used; its season lines count the game itself, and the row does not show it |
| `FavHistory!FormIsWhole` | `favhistory.py`: "season schedules sliced to the date" | a club's schedule is read once in the life of the process; a verdict rebuilt days later misses the games since |
| `RebuiltVerdict!RebuiltIsAllowed` | `favorite/engine.py`: an unannounced starter is a disqualifier | `favhistory.py` gives such a side no points for its starter but may still name it the favourite |

Smaller ones, found while translating. The first four are the exceptions that a
checked property names; the others are stated by no property:

* A fetch that takes longer than `WANT_TTL` stores its price after its game was
  forgotten; the clean-up never sees it again (`OnlyLateFetchesStray`).
* A login that verified the old password before a reset or a change and inserts its
  session after the sign-out keeps that session; a request cut off between
  `set_password` and `revoke_all_sessions` keeps all of them (`ResetSignsOut`).
* A registration cut off between `create_user` and `consume_invite` leaves an active
  account and an open invitation, which lets a second person in
  (`OneJoinsPerInvite`).
* `favhistory.py` does not divide the gap of two starters by its standard deviation,
  so it gives them fewer points than the live engine (`FactorsMirror`), and 10 points
  for a lineup where it has no table of hitters and the live engine gives 6.

* `_misses` is keyed by market id and is not cleared by a deletion, so a market that
  takes over an id can be closed after fewer than three empty polls.
  `FreshRowsCloseOnThirdMiss` therefore speaks of ids nobody used before.
* `run_favorite` bets a game twice when both a locked and a reconstructed verdict
  exist; `run_favorite2` skips the second (`seen_pk`).
* The bounce statistics and the sell ladder of `run_fairvalue` ignore the split of
  a game's stake; its hold exit uses the undelayed entry where its bounce exit uses
  the delayed one.
* `tick_price_at` is the first tick at or *after* T-5, so the price of a tracked
  game may be from up to first pitch, while bars and trades end at T-5.
* `_tape_prices` returns nothing when the last page it may ask for was read in full
  without crossing the day's open, although it did reach T-5.
* Games that fail for good keep their place at the front of every favhistory batch.

## Fairness

Two runs need it.

`collector_live`. `WF(PollBegin(i))`: APScheduler fires an
interval job again and again, and `Collector` lets a poll of any interval
start; which jobs exist is `JobSync`'s subject. `SF(PollAnswered(i))`: a poll
may fail any number of times, but Polymarket is not down for ever (each poll is
begun, then answered or skipped, so weak fairness would demand nothing).
`WF(StartCommit(m))`: a thread that has passed its check finishes. Requests and
restarts are finitely many in that run: somebody who restarts the process
between any two polls keeps the counter, which lives in memory, at zero, and
the property is false for good reason.

`jobs_race`, for `CallersAreAnswered`. `WF(MatchStep)`: the holder of the lock of
`matched` goes on. Every request it awaits has a timeout, after which it raises,
and `asyncio` wakes the next waiter of a lock that is released; `MatchStep` is
every step of the holder, a failing one included, so nothing is assumed about the
server. Nothing else of the system is fair there: callers may come or not, syncs
may never happen.

## Proofs

`tlapm` checks every theorem to its last leaf, for every value of the constants.
What is assumed are the named `ASSUME`s of the modules: types and ranges of the
constants (prices of a favourite in cents, a standard deviation of the starters'
composites of at most one unit, LoL metrics integers or missing, quotes
of a path below 100, slippage of at most 100, lists of verdict rows), a season of at least one day and the order of the
moments of a game in `FavHistory`. TLC evaluates them in the runs. A theorem about
a part holds for its own specification (`EightSpec`, `RunSpec`, ...); those named
after a composite property hold for `AlertsSpec` and `RecordsSpec`, in which the
parts stand side by side.

* `CollectorProofs`: `TypeOK`, `BoundariesOrdered`, `TicksHaveMarket`,
  `HistoryBeforeLive`, `OnePricePerTime`, `CountsMatchTicks`, each as
  `Spec => []...`. `HistoryBeforeLive` is not inductive: a backfill carries a
  `since` it read before its await, and its market may be replaced by one that
  was added later under the same id. `BoundariesOrdered` is the missing half
  (no boundary lies after `created_at` of the row that now holds the id, and
  nothing lies after the clock); with it every step preserves both.
  `CountsMatchTicks` needs finiteness of the ticks and `OnePricePerTime`, since
  `Inserted` counts rows by key.
  `ImplementsTickLog == Spec => LogSpec`: a
  `PollAnswer` is an `AppendLive`, a `BackfillOutcome` is a `FillHistory`,
  `TrackNew` an `Open`, `DeleteMarket` an `Erase`, and every other action
  stutters; the two invariants above supply that live points are not before
  `since` and history points are.
  `FreshRowsCloseOnThirdMiss` of `CollectorHistory`: `HInv` relates the counter
  in memory to the history (the counter of a row under a new id is never above
  the empty polls it has seen) and says that a poll in flight of such a row was
  begun for it and not for an earlier owner of its id.
* `JobSyncProofs`: the types, `NamedJobsKept` and `LoneSyncRepairs`.
  The strengthening (`LoneExact`) says, at each program point of a sync that
  has been alone, how the jobs, the additions and removals that are left and
  the wanted intervals relate.
* `DbSessionProofs`: `TypeOK`, `OthersCommit` and `ImplementsTransactions`, for
  any number of threads and downloads. `Nested` is the inductive invariant: on a
  thread nothing has strayed over, the downloads suspended there saved the
  depths 0, 1, ... each once, and the blocks of its call saved the values that
  follow. A thread without downloads therefore counts from 0, which makes its
  outermost block the one that commits. (The runs bound the depth by `MaxDepth`;
  so does the theorem, for every value of it.)
* `LivePricesProofs`: `TypeOK`, `OnlyLateFetchesStray` and `ServedFresh`. An answer in
  flight decides the last two. `Young` says of every request in flight that it is no
  older than a request may be, that its game was viewed when it began, and that a game
  which has been forgotten since was asked for `WANT_TTL` ago or longer; and that the
  games of a poll in flight are still wanted.
* `BaseballProofs`, for any games, pitchers, clubs, prices and seasons:
  * the feed: `MlbInv` (the schedule, as MLB posts it and as it was last read,
    calls a game final only when it is over, and a game that is over stays as it
    ended). `FinalsAreFinal` and the refinement of `AlertLog` by `Comeback`
    follow from it;
  * `Bottom8`: `RowsAreOfTheGame` and the refinement of `AlertLog`. What is
    cached, in flight, or in the hands of the pass has no times, so reads of one game
    are in no known order. `EightInv` says what is left: each read was true at
    some moment (`ReadsAreSound`); a read of the 8th and one from after it are in
    the order of the game (`ReadsAreInOrder`); the score a row opened with is
    not above any later read that is still held (`RowsAreSound`); the
    pass visits rows for the reason it chose them (`VisitsAreDue`). A row opens
    on a read of the 8th and goes on with later ones, which is why this suffices;
  * the locks: `LockIsFinal`;
  * `ClearFavorite` and `RebuiltVerdict`: `PricedByName`, `EdgesAreOneSided`,
    `RebuildAddsNoFavorite`, from `FavInv` (a verdict is the one of the clubs and the row
    at hand); `FactorsMirror` is a fact about the operators, factor by factor;
    `RebuildAddsNoFavorite` adds the factors up and compares the refusals;
  * `FavHistory`: `AsOfThen` and `RebuiltOnce`. The prices are first or last
    elements of arbitrary sets of moments, which exist because `<` on the
    naturals is well-founded (`HasEarliest`, `HasLatest`); three lemmas bound the
    quotes of ticks, bars and trades, and `HistInv` carries them into the rows,
    together with the fact that an entry of a batch was not stored when the batch
    was taken, so that only the game's other entry can have stored it.
* `AlertsProofs`: `NoStaleAlert`, `OutcomeIsFinal` and the refinement of `AlertLog`
  by football (`FootInv`: between the feed and the end of the rows, what the
  cache shows in play is in this pass's feed); `ConfigIsRecent` (`CfgInv`: when
  the configuration that a thread or the copy holds was last the saved one);
  `ScorecardIsFair`. Then, for the whole of `AlertsSpec`: `AlertsTypeOK`,
  `OutcomesAreFinal`, `RowsAreOfTheGame`, `VerdictsAreHonest`, `ScoringIsFair`
  and `TablesAreLogs`. The two detectors share the feed, so a behaviour of one
  moves variables of the other's specification; `FeedInv` keeps the full
  invariant of the one that runs and says that the other rests.
* `BacktestProofs`:
  * `QuietDaysAreRecorded`, for which `AnswersAreWhole` says of every answer in
    hand that, if it lets its day be marked and was not early, it lists every
    game of the day, and that this stays true while the games go on;
  * `SpotsOnce` and `PlayedGamesAreNotWrittenOff`, with `FillInv` (a game in hand
    has neither spots nor the status done, a retry is only taken up when its slug
    is more than a day past, and by then the game is over);
  * `NoLookAhead`, `NoFreeMoney`, `OneStakePerGame` and `FairCountsTheSpot`.
    `RunInv` says that a report is the one its setting and rows give for the game
    that is over; the rest is about the operators, strategy by strategy: a trade
    of the game cut off after its horizon is the same trade (`CutTrade`); buying
    both sides costs (`BothSidesCost`, over the whole range of prices and
    slippage, and its forms for the bottom-8, in-game and verdict bets); a game's
    split trades stay between the worst and the best of them alone
    (`StakeWithin`); the score at a boundary is the sum of the line score
    up to it (`RowsAreCounted`);
  * for the whole of `RecordsSpec`, `RecordsTypeOK`, `TradesAreHonest` and
    `TripsMeetTheCash`, from `RecordsInv`, the conjunction of the invariants of the
    eight parts.
* `PeopleProofs`: the types of all five modules (those of `TraderSync` need
  `HeldInv`: a match that is running has its caller in the queue); `ResetSignsOut`
  (inductive with the types and `KnowledgeIsPast`: what a request or a session knows was
  the password at the time); `OneJoinsPerInvite`
  (`UsedOnce`: an account that was let in has used its invitation for good, and no other
  account made with it is let in); `AdminRemains`, whose
  invariant follows one *settled* administrator, about whom no change is pending
  and whose registration cannot be rolled back any more: a check that overlaps with
  nothing leaves one; `AccountsSurvive` and `SeenOnce` of the traders
  (`SurvivalInv`: the row of every fill's account and wallet is in the table the next
  statement of the migration leaves alone; `NoTwice`: one row per wallet and
  owner, and no unclaimed row beside a claimed one); `MatchIsRecent` (`RecentInv`:
  what a match in hand has not seen was stored after it began). Then the money:
  * a small library of sums, used by `BacktestProofs` too. Trips, fees, runs and
    results are sums, and the folds of the community modules are recursive functions
    over the subsets of a set. `SumUp` defines the sum of a function without
    recursion, by counting units; `IterationSums` shows that every function that
    satisfies the equation of the fold computes it. The inductions are choices of
    a smallest counterexample (`SmallestSubset`, `NoLeast`), which need no theorem
    that takes an operator. The sums are linear (`SumIsLinear`), split along
    subsets (`SumSplit`) and may be reindexed (`SumReindexed`);
  * `CashAddsUp`. `Trips` is a fold from the left: a function that satisfies its
    equation exists (`FoldExists`), so the trips after i fills are what the i-th did
    to those before it (`TripsFollow`). `TapeSum` then follows, for any quantity of a
    trip that a fill changes by an amount of its own (`Worth`), its total over open
    and closed trips; `MatchSum` adds the settlement. The net result and the count of
    fills are the two instances;
  * `FeesMeetTheCash`. Each distinct fill is represented by one index; what
    was matched by key is at most the total because the keys of distinct fills differ;
    `Shares` bounds a sum of rounded shares by the amount that is shared and
    one unit per fill, from the two inequalities of `Rounding`.

Model-checked only:

* `ResolvedStopsBeingPolled`, `CallersAreAnswered`: liveness under fairness is out
  of the prover's reach.

No module declares a recursive operator.

## Not modelled

Read-only queries, parsing of external data, report tables and wording. In the
components that are modelled in part (`PROJECT.json` names them):

* collector: `sync_mlb_intervals` beyond the interval change it makes, the
  registration of the named jobs beyond their set, the value of a price, events;
* MLB feed: timelines, matchups and pitcher reports; counters of an at-bat;
* comeback and bottom-8: price samples and prices beside the scores;
  acknowledgements;
* favorite: how `data.py` gathers what the factors read (weather, travel, box
  scores); the ten-minute cache of results;
* football: team matching and pre-match form (text matching and arithmetic on
  external data);
* traders: the peak price after a trip, labels and tags;
* accounts: the throttle of logins, hashing, cookies;
* backtest: the football and tennis analyses and the tables that slice the trades
  again; rounding. Games that start less than an hour after 10:00 UTC (opening
  series in Asia) are outside `GameClockAssumption` of `FavHistory`: their
  "day's open" may be quoted after the price it is compared with.

The screener cache, the backup, configuration, the entry point, the operations
scripts and the frontend have no module: they rebuild whole files or tables from
external data, are constants and wiring, or render what the interface returns.
`README.md` of the repository describes one worker process; two processes on one
database are not modelled except where an old process outlives a restart
(`FavoriteLock`).

## Plan

What would come next, most useful first:

1. Composition of `Collector` with `DbSession`: what an uncommitted batch of ticks
   does to the counters that were updated in memory.
2. `GammaPaging` against a reference definition, and the screener cache with the
   partial failure of a sport.
