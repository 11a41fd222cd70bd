# Flight price tracker: formal models

TLA+ models of the backend of this repository (`src/backend/app`): the
collection scheduler, the collector of one route, the search of one key, the
price tables, the ScrapingBee key pool with the provider registry, the planning
of route groups with their progress and spreadsheet, and the accounts with their
login limiter. They are checked with TLC, and every safety property of a passing
run is proved with TLAPS. Paths below are relative to `src/backend/app` unless
they begin with `src/`.

## The system

A FastAPI process serves users, keeps route groups (origins, destinations,
dates, trip type) in PostgreSQL and collects flight prices for them, started by
the API or by an interval job. Several processes may share a database: old and
new overlap in a deployment. Inside a process everything runs on one asyncio
event loop, so code between two `await`s is atomic; concurrency comes from tasks
that interleave at `await`s, from several processes, and from transactions.

| Component | State | Operations | Works with | What makes it hard |
| --- | --- | --- | --- | --- |
| Scheduler (`tasks/scheduler.py`), lifespan (`core/app_factory.py`), entry points (`api/v1/routes/collection.py`) | `_is_collecting`, `_stop_requested`, `_active_task`, the lock connection; advisory lock; `collection_runs` | `run_collection_cycle`, `trigger_single_group`, `start_*_task`, `request_stop`, `stop`, start-up sweep, `cleanup_old_data` | planning, collector, registry | two coroutines a process, several processes, cancellation and crashes at every `await`, shutdown with a timeout |
| Planning (`_group_dates`, `_filter_already_scraped`, `utils/route_segments.py`) | none of its own; reads groups and `daily_cheapest_prices` | plan the whole group, plan one date | price tables, group CRUD | what earlier, partial or overlapping collections left behind |
| Collector (`services/price_collector.py`) | `_route_failures`, `_route_cooldown`; statistics; the scheduler's `_progress` | `collect_route_batch`, `await_with_stop` | providers, price tables, registry callbacks | concurrent items, stop racing completion, memory shared by all items of a pair |
| One search (`collect_single_date`; page passes of `providers/scrapingbee.py`) | the offers seen so far, `scrape_logs` | fallback over stop limits, fast and deep pass, stop filter, log | collector, health summary | several requests see different offers; pages load in part |
| Price tables (`_upsert_cheapest`, `_save_all_results`; `services/route_group_service.py`; `cleanup_old_data`) | `daily_cheapest_prices`, `all_flight_results`, `scrape_logs` | upsert, replace offers, clear on edit, delete, purge | collector, users | statements of transactions interleave under READ COMMITTED and take their row locks in different orders |
| Key pool (`providers/scrapingbee.py`) | `_cursor`; per key a semaphore, a throttle and a quota breaker | search with failover, retry, fallback, deep pass | collector | shared cursor, breaker read before waiting, errors and cancellation at every request |
| Registry (`providers/registry.py`) | failure count, cooldown, status of a provider | `get_enabled`, `report_success`, `report_failure` | scheduler, collector | reports of concurrent searches in any order |
| Group schema and CRUD | `route_groups` | create, update, delete | planning, price tables | updates check only the fields they carry |
| Progress, export, health (`services/route_group_service.py`, `services/export_service.py`) | none: functions of groups, prices and logs | `get_progress`, `export_route_group`, `_compute_scrape_health` | planning, price tables | each derives dates, segments and completeness with code of its own |
| Users and login (`services/auth_service.py`, `api/v1/routes/auth.py`, `users.py`, `core/rate_limit.py`) | `users`; timestamps per key | login, default administrator, create, update, delete | the API, start-up | rows and limits are read an `await` before they are written |
| Dashboard statistics, alerts, look-ups, configuration, mock and unregistered providers, frontend | static data | queries, formatting | the API | nothing that interleaves with a collection |

What each component has to guarantee:

- scheduler: one collector at a time; no lock or flag leaked, however a
  collection ends; a stop request stands; a run's row is its own; shutdown ends;
- planning: nothing wanted and missing is left out, nothing complete is planned,
  an edit leaves no prices of its former identity but those of a run under way;
- reports: progress, spreadsheet and plan agree on what a group has and lacks,
  but for the exceptions the properties name;
- collector: progress, statistics and committed prices tell the same story; a
  rest of a failing pair is bounded and kept; a stop starts nothing;
- one search: the price stored is the cheapest under the limit its label names;
- tables: a key shows one search, a deleted group leaves nothing, an update
  deadlocks with no search, nobody waits for ever;
- pool and registry: slots are conserved, every key is tried, an open breaker
  stops new searches, a cooldown has a reason; searches end;
- accounts: an email has one account, updates compose, guesses of a password are
  bounded and a lock-out ends.

`PROJECT.json` lists the hazards with their lines and the properties that watch
them, the findings, and for each definition the lines it stands for.

## Modules

| Module | Models | Composition |
| --- | --- | --- |
| `CollectionLock` | abstract: one holder, who works holds the lock | implemented by `Scheduler` |
| `Scheduler` | scheduler, lifespan, collection endpoints, run rows | |
| `RouteBatch` | route loop and `collect_route_batch` | what a `Scheduler` coroutine does between `BeginRoute` and `EndRoute` |
| `OfferSearch` | `collect_single_date`, page passes, health summary | what an item of `RouteBatch` brings home |
| `PriceTable` | abstract: each key shows one search or none | implemented by `PriceStore` |
| `PriceStore` | the transactions of writers, an editor and the purge | what an item of `RouteBatch` stores |
| `ScrapingBeePool` | key pool and registry | the requests behind a search of `OfferSearch` |
| `GroupPlanning` | dates, segments, completion filter, edits, over many collections | decides the items of `RouteBatch` |
| `GroupReports` | progress and spreadsheet, as functions of a planning state | extends `GroupPlanning` |
| `Accounts` | users, login, rate limiter | |
| `...Proofs` | theorems about the module they are named after | extend that module |
| `MC...` | small instances for TLC | extend the module they are named after (`MCGroupPlanning`: `GroupReports`) |

The components are checked one by one. Each takes from its neighbours only what
the code lets through: `Scheduler` plans any number of routes, each of which may
succeed, fail or raise; `RouteBatch` lets a search find prices, find none or
fail; `GroupPlanning` lets a collection store any part of its plan;
`OfferSearch` lets any search fail.

In each module the definitions named `X_Something` next to the top are `X` with
one plausible mistake. No specification uses them: they are there to be put in
the place of `X`, to see that a property notices.

### Scheduler

One action is the code between two awaits with the statement it waits for.
`life` follows the lifespan, `task[p][j]` where each coroutine is: the API's
cycle, the API's single group, the interval job. `run_collection_cycle` and
`trigger_single_group` share their steps: guard and flags (`Enter`), advisory
lock (`TakeLock`, `LockUnavailable`), run row (`OpenRun`), planning (`Plan`,
`NothingToRun`), routes (`BeginRoute`, `EndRoute`), status (`Decide`,
`CommitVerdict`) and the two `finally` blocks (`Release`, `Leave`). `Abort` is
an exception nobody handles, which goes through the same blocks. `StopBegins` to
`Exit` are `stop()` and the shutdown half of the lifespan, with the timeout, the
cancellation and the `AttributeError` of scheduler.py:178. `StopTimesOut` takes
a task that has passed the guard: a task that has not run its first step does
not wait for five seconds. `Crash` ends a
process anywhere; its database sessions end with it, which frees the lock
(`Die`). `Release` frees the lock of an open connection whatever becomes of the
unlock statement; that it fails while its session goes back to the pool with
the lock (scheduler.py:408, 557-565, 725) is not modelled. `LoseLockSession` is a server or pooler that drops the idle
connection under the lock; the constant `LockMayBeLost` switches it.

### RouteBatch

Items are numbered as the task list is built, dates outside and destinations
inside. A search that has ended (`priced`, `empty`, `broken`) is seen by the
poll of `await_with_stop` later (`NoticeEnd`); a stop may be seen first and
cancels the search, perhaps in its commit (`NoticeStop`). `StartChunk` runs the
synchronous start of every coroutine of a chunk, with the stop and rest checks.
Two routes follow the same pairs: `_route_failures` and `_route_cooldown` are
keyed by `origin:destination` without the group.

### PriceStore

Rows of a key are represented by the search they come from, which is what the
properties tell apart. A writer upserts the price, deletes the offers its
statement sees, inserts its own with the log and commits. An editor deletes the
prices row by row (`ClearRow`), then the offers (`ClearOffers`), then the logs
(`ClearLogs`); an update then commits the new identity, a deletion takes the
group (`LockGroup`), which cascades to what has come since (`DeleteGroup`).
`PurgeLogs` to `PurgeCommit` are `cleanup_old_data`: old logs, then the offers of
keys that departed more than a week ago (`Departs`). `LoadGroup` is a run reading
its groups, which it keeps.

Every statement takes row locks and keeps them to the end of its transaction:
`rowLock` on the price of a key, `offerLock` on its offers (as one, because they
are read in one order), `logLock` on the logs of the group (as one). An insert
refers to the group and so keeps it from being deleted (`HoldsGroup`); a deletion
under way keeps inserts waiting. `WaitsFor` says who waits for whom. Circles
exist: a deletion that cascades and a search that has updated its price wait for
each other, and so may an edit and the purge, which take logs and offers in
opposite orders. `BreakCircle` is PostgreSQL failing one of two that wait for
each other; to look at pairs is enough, as `NoOtherCirclesHold` proves.

One edit of the group is under way at a time. Two updates exclude each other on
the group's row, which an update writes first; an update and a deletion, which
takes that row last, could also wait for each other and are not modelled
together.

### ScrapingBeePool

A call is one `collect_single_date`: up to three searches (stop options), each
of which takes a starting key from the cursor and goes through the keys until
one answers; at a key it may be retried, and ask twice (deep pass). `queued`,
`requesting` and `parsing` are before, inside and after the semaphore. Breakers
and cooldowns end at any moment, which covers every duration; the delay of
`_wait_for_slot` is part of holding a slot. The failure count is kept up to the
number that matters.

### OfferSearch

Offers are told apart by price; `site` says how many stops the one at each price
has, and changes while a call works (`SiteChanges`). Offers are listed by price,
and a request may bring any first part of them (`Bring`): the visible ones, those
loaded, those before the answer was cut off (scrapingbee.py:170, 262-294). That
extraction keeps the order of the page is assumed. `AskSimple` is the request of
a search that is not multi-city. `AskFast` reads the first cards and
goes on to `AskDeep` when too few are eligible, which replaces what the fast
pass has found, as in the code. A search without eligible offers falls back to
the next stop limit; the label records which limits gave nothing. `missed`, a
history variable, keeps the offers that a simple or deep request of the call did
not bring. The log is kept as the statuses of the last hour and the last one,
which is all that `_compute_scrape_health` looks at; `HourPasses` ages it, and
`PurgeLog` is the deletion of logs older than 30 days, which leaves the prices.

### GroupPlanning and GroupReports

Days are numbers, `today` advances. A plan of the whole group or of one date is
the dates of each segment without those the filter takes for done; the planned
segments are collected in any order (their score orders them), each stores any
part of its keys, and the run may be given up. `Creatable` is what creation
validates, `Accepted` what an update does, and `Storable` what both let through:
updates lead to groups that could not be created. `UpdateGroup` may come at any
moment, also under a run, which keeps the group it has read. `Plan` is one step
although the code asks for each segment with a query of its own.

`stored` are the keys with a price, which the filter and the progress read;
`offers` those with rows in `all_flight_results`, which the spreadsheet reads.
They part ways: `PurgeOffers` deletes offers of days more than `Week` days back,
and `Clear` is what the statements of an edit can leave of prices a run stores
meanwhile, with their offers or without (`PriceStore` has the statements). `whole`,
`outlived` and `bare` are history variables of the properties: whether the run
collected everything of an unchanged group, whether a run has stored prices of
a segment removed under it, and which keys an edit has left without offers.

`GroupReports` adds no action: `Progress` and `Workbook` are what `get_progress`
and `export_route_group` compute from the same state, with their own dates and
their own matching of rows to sheets. How far they agree with the plan:

- `ProgressAgreesWithPlan`: an origin with work left shows less than all of its
  dates, unless it has rows the group does not want (days gone by, destinations
  removed under a run), which `get_progress` counts against today's window; one
  that shows less has work left, unless its segments list a destination twice,
  for which it expects two rows where one can be. Segments without destinations,
  which the filter never finds complete, are no work;
- `ExportCoversPlan`: what a whole run completed is in the spreadsheet, date by
  date and destination by destination, the same day. Left out are prices whose
  offers an edit deleted while they were stored (`bare`), segments that list a
  destination twice, and origins that the sheet map does not name.

### Accounts

A request is a coroutine cut where it awaits the database: a login between the
check of the limiter and the record of its failure, a creation between the
look-up of the email and the insert, an update between the row it read, the
look-up and the commit, a deletion between the administrator it was admitted for
and the statement. The unique index on the email is part of each insert and
commit. SQLAlchemy writes the fields that differ from what was loaded
(`Written`), so a field sent equal to a stale value is not written. The ages of
failed logins are counted in ticks, `Restart` empties them.

## Runs

| Run | Instance | Shows |
| --- | --- | --- |
| `scheduler_safety` | 2 processes, 1 row, at most 2 routes | mutual exclusion, lock and flag discipline, stop requests, rows, refinement of `CollectionLock` |
| `scheduler_liveness` | 1 process, 2 rows, lock loss allowed, fair | collections end, the lock returns, shutdown ends |
| `scheduler_startup` | 2 processes | **violated**: start-up fails a run another process is in the middle of |
| `scheduler_shutdown` | 1 process | **violated**: `stop()` raises when its five seconds run out on a collection that has begun |
| `route_batch` | 2 routes, 3 dates x 2 destinations, chunks of 4, rest after 2 failures | accounting, rests, stop, termination |
| `price_store` | 2 keys, one of which departs, 2 writers, 2 searches, update and delete, purge, fair | one search a key, nothing outlives the group, which transactions deadlock, refinement of `PriceTable`, no transaction stuck |
| `price_store_stale` | 2 searches, update | **violated**: a run goes on storing prices of the identity it loaded |
| `pool_safety` | 2 calls, 2 keys, 1 slot, 2 attempts, 2 rounds, 2 requests | slots, failover, breaker, registry |
| `pool_liveness` | the same with 1 request, first failure cools down, fair | calls end |
| `planning` | 8 groups and the edits between them, windows of at most 2 days, 2 days, offers purged the day after, at most 1 price stored during an edit | plans are complete and minimal, edits clear, progress and spreadsheet agree with the plan |
| `offer_search` | 2 prices, pages of 1 and 2 cards, deep pass below 2 offers | cheapest price, true label, health |
| `accounts` | 3 users, 2 emails, 2 requests, 2 attempts in 2 ticks, fair clock | emails, updates, limiter |

Why the bounds are enough for what they are used for:

- two processes with three coroutines each give every pair of contenders for a
  flag and for the lock; the theorems cover any number. One row is enough for
  two processes to meet on it, and two rows let one process collect repeatedly;
- six items in chunks of four give a full chunk, an incomplete last one and
  several items of one pair in a chunk; two routes over the same pairs carry the
  memory over. The code's 3 and 12 become 2 and 3 so that rests begin, run out
  and hit their cap;
- two writers, an editor and the purge are every pair of conflicting
  transactions, and two keys make statements lock in parts; two searches meet
  on one key or write two, and the second may rewrite what the first stored.
  `MaxVersion` bounds the number of updates, `Search` the number of searches and
  `Past` the keys that depart;
- with one slot two calls contend for a key, as three would for the two slots
  that the code gives it at least; two keys make rotation and failover
  different from a retry; three stop options add no new kind of step to two;
- `MaxDates` = 2 stands for 730: windows shorter, equal and longer occur. On the
  second of two days the first is gone by and, with `Week` = 0, its offers may be
  purged. `Overlap` bounds what a run stores while an edit clears. The
  groups cover a later start, an end date, an end before the start, sheets that
  share the origin or a destination, an origin missing from the sheet map,
  multi-city with and without its return leg, a repeated destination and none;
- two prices with 0 to 3 stops each, or no offer, give every order of limits
  that succeed and fail, and a first card that hides a cheaper eligible one;
- two requests are every pair of a check and a write between; three users let
  two administrators act on each other and on a third. With a limit and a window
  of two, attempts fill the window, expire one by one and refill it.

`route_batch` may stop (the collection is over), and so may `accounts` (ids are
never used twice: with all three spent and no request in flight only the clock
goes on, which changes nothing). Elsewhere TLC checks that the system never
deadlocks.

### Fairness

`Scheduler`, `RouteBatch`: weak fairness of each coroutine's steps and of the
steps of a shutdown. The event loop runs what is ready, and each await has an
end: statements are answered, searches have HTTP timeouts, polls use sleeps.
Nothing obliges a user to trigger or stop, nor a process to crash or boot.

`PriceStore`: strong fairness of each transaction's next statement, because
PostgreSQL queues the waiters of a row lock and so none is overtaken for ever,
and weak fairness of `BreakCircle`, its deadlock detection.
`ScrapingBeePool`: strong fairness of each call, because asyncio semaphores
serve waiters first in, first out. `Accounts`: weak fairness of the clock and of
nothing else; no request has to be made or to end for a lock-out to end.
Other rollbacks, cancellations, expiring breakers and cooldowns are never forced.

## Proofs

Every theorem holds for all values of the constants that satisfy the named
assumptions of its module: any number of processes, rows, routes, items, keys,
calls, groups, users and requests.

**Scheduler** (`SchedulerProofs`). `TypeCorrect` holds whether or not lock
connections are lost. `LockDisciplineHolds`, `OneCollectorHolds`,
`LockNotLeakedHolds` and `SchedulerImplementsCollectionLock` assume
`LockMayBeLost = FALSE`. They cannot do without: the advisory lock is all that
separates two processes, and the code notices no dropped connection.

Mutual exclusion is not inductive. That two coroutines are not both inside the
body follows from the lock for two processes, and from the flag for two
coroutines of one: a coroutine past the guard has the flag up (`EnteredHasFlag`)
and is alone (`OneEntered`); one past the lock owns it (`HolderHasLock`). To keep
these, a step must not free the lock under a holder: `Release` frees it through
the process's connection, so a holder has one while the process serves
(`HolderHasConnection`), and a process that is down owns nothing
(`DownHasNothing`), so that booting starts from a clean slate. The conjunction,
with `LockNotLeaked`, is `LockDiscipline`: inductive together with `TypeOK`,
checked by `scheduler_safety` and proved with one step for each action.

Within one process neither the lock nor the assumption is needed:
`FlagDisciplineHolds` shows that the guard and the flag alone keep its coroutines
apart. On this rests `StepsShortenHolds`: `ToDo` counts what a coroutine has left,
the routes first, then the way through the two `finally` blocks. Each of its
steps makes it smaller and no other step, a stop, a shutdown and a crash
included, makes it greater.

**Run rows** (`SchedulerProofs`). `OwnsItsRowHolds` and `FinishedIsFinalHolds` use
`LockDiscipline`: since one coroutine is in the body, one has a row. The
invariant adds that a finished row has a final status (`FinishedIsOver`), so that
the sweep of a start-up, which takes running rows, leaves it alone.
`StopStandsHolds` needs no lock: a coroutine resets the request only after a
guard that turns it away while another collects. `StartupOfALoneProcess` is the
other side of finding 1: if no two processes share the database, the very
property that `scheduler_startup` violates holds, because whoever boots has left
no coroutine behind.

**Price tables** (`PriceStoreProofs`). The inductive invariant: a writer past its
upsert has the lock of its row, and who has the lock of a row has upserted it
(`RowIsLocked`); a row needs its group (`RowNeedsGroup`); behind the lock nothing
is added to the offers that a DELETE has seen, a writer's or an editor's
(`SeenIsAll`). `OffersOfCheapestHolds` and `NothingOutlivesGroupHolds` follow, and
`PriceStoreImplementsPriceTable`: a commit is a `Replace`, a clearing or a purge
is a `Clear`, nothing else shows. For the circles `LockInv` adds who can have
locked offers: a writer those of the key whose row it has, the purge those of
past keys, which no writer searches, the editor only once it has all rows it
wants. Hence whoever keeps others waiting waits for the editor or for nobody
(`BlockersAwaitEditor`), and each set of transactions that wait for each other
holds the editor and one other of them (`NoOtherCirclesHold`). That other is a
writer only when the editor has come to the group itself, in a deletion
(`OnlyDeletionCirclesHolds`).

**One route** (`RouteBatchProofs`). `CountsAgree` speaks of the moments between
routes; in between, counters are ahead of each other. `CountsInv` says by how
much, item by item: which items of the chunk are where (`WhereItemsAre`), what
the progress has counted that the statistics have not (`ProgressIsAhead`), and
that what is committed and not counted was cut by a stop (`NothingIsLost`). Its
counts are cardinalities of sets of items, and each step moves one item from one
set to another, or the whole chunk at once. `RestIsKeptHolds` needs the type
invariant only. `RemainingDecreasesHolds` adds up what is left: a route not begun
counts more than all that can happen on it, then items not gathered, not
answered and not noticed, the place in the loop, and a stop not made yet. That
starting a chunk takes something off needs its items to be untouched
(`Untouched`), which also gives `ChunkProceedsHolds`.

**Key pool** (`ScrapingBeePoolProofs`). A search under way has been refused by
the keys of its rotation before the current one (`Good`); from any start the
rotation comes by every key (`KeyAtOnto`), hence a failure means all
(`EveryKeyTriedHolds`). The least key with a closed breaker exists because
intervals are well-founded by inclusion (`LeastExists`): plain induction is not
to be had from the prover. A search that goes on waits at a key whose breaker is
closed, to which it has sent nothing since the breaker last tripped; then it
sends at most one request for each it counts (`LateFine`), hence
`OvershootBoundedHolds`. `SlotsConservedHolds` counts the holders of each key; a
key without a free slot therefore has a request out, and who has one out waits
for nobody (`WaitsForRequestsHolds`). `CallsShortenHolds` counts what a call has
left in stop options, keys, attempts and passes (`StepsLeft`), each worth more
than all that can happen within one.

**One search** (`OfferSearchProofs`). A pass sees with an offer every cheaper one
(`FromCheapest`), so the cheapest it finds under a limit is the cheapest there
is (`CheapestIsBestHolds`), whichever part of the page was loaded. The invariant
for `LabelIsTrueHolds` is that the offers within the limits tried before the
current one have been missed, unless offers changed (`NothingBefore`). For
`HealsByAnswerHolds` a log that is not empty has its last entry
(`LastIsLogged`). It is assumed that no failure is logged under one of the names
the summary uses for something else (`ErrorsAssumption`), which
`_ERROR_PRIORITY` satisfies.

**Planning** (`GroupPlanningProofs`). The filter compares cardinalities: for a
segment the rows found on a day are among its keys of that day, and those are as
many as its distinct destinations (`KeysOfADay`). A missing key therefore leaves
the count below the length of the list (`NothingForgottenHolds`), and a list
without repetitions with all its keys reaches it (`CompleteIsSkippedHolds`). For
`WholeRunCompletesHolds` the invariant is that a whole run still plans each day
that is not complete (`WholeCovers`); more prices never make a day incomplete.
`StoredBelongsHolds` is inductive with the type invariant.

**Reports** (`GroupReportsProofs`). Progress and the filter derive the dates of a
group with code of their own; `ProgressAgreesWithPlanHolds` shows that they are
the same days. What progress expects of an origin, a number of triples of
segment, day and destination, goes one to one into the stored rows when its
segments are complete and list no destination twice (`CompleteCounts`). The other
way, when the origin has no unwanted rows, the rows go one to one into the
triples, so that as many rows as triples leave no triple without its row and no
segment incomplete (`FullIsComplete`). For `ExportCoversPlanHolds` a complete day
has the price of each destination of the segment, and the price its offers,
unless an edit took them: the purge is a week behind the window (`OffersStand`,
`WantedHasOffers`). The sheet shows the cheapest row, which exists and is not
blank because a price is a positive number (`PriceAssumption`).

**Accounts** (`AccountsProofs`). `TypeCorrect` includes the uniqueness of emails.
For `AttemptsBoundedHolds` a failed login that ages out of the window must be
the oldest ones: `AgesOK` keeps, for each age, how many attempts are at least
that old. `UpdatesComposeHolds` is about the actions that change the table, found
by `TableChanges`. `LockoutRunsOutHolds` measures a
lock-out by the ticks the newest failure stays in the window and by the attempts
that had passed the check before: the first run out, the second fail at most
once each, and the limiter admits no more.

Only model-checked: the liveness properties (`CollectionEnds`, `LockReturns`,
`ShutdownEnds`, `CollectionFinishes`, `TransactionsEnd`, `CallsEnd`, `LockoutEnds`),
because fairness and ENABLED are outside what the prover does. What is proved of
them is the part that needs neither: the work of a collection, a route, a call
and a lock-out is a number that its steps make smaller and nothing makes greater
(`StepsShortenHolds`, `RemainingDecreasesHolds`, `CallsShortenHolds`,
`LockoutRunsOutHolds`), and where a step may have to wait, somebody can go on
(`ChunkProceedsHolds`, `NoOtherCirclesHold`, `WaitsForRequestsHolds`). The runs add
that, under the fairness stated above, the steps are taken.

## Findings

1. `scheduler_startup`: start-up marks as failed the run of a live process.
2. `scheduler_shutdown`: `stop()` uses `_active_task` after `wait_for` has
   cancelled the task, whose callback has cleared it; the rest of the shutdown
   is skipped. In the run the collection waits for its lock connection when
   `stop()` begins; any collection under way for five seconds more will do.
3. `price_store_stale`: a run in progress leaves an edited group with prices of
   its former identity; in the run a search commits while the edit is clearing.

Behaviours met on the way, which the properties allow, at the place named:

- a destination listed twice is never complete and is planned for ever
  (`CompleteIsSkipped`, `WholeRunCompletes`). `src/README.md:165` says that "fully
  scraped groups are skipped automatically"; such a group never is;
- a search commits between the two DELETEs of an edit: its price may stay without
  its offers, counts as collected and is missing in the spreadsheet
  (`OffersOfCheapest`, `bare` in `ExportCoversPlan`);
- rows of days gone by and of removed destinations count in the progress of an
  origin, which may look done with work left (`ProgressAgreesWithPlan`);
- a deletion and a search, or an edit and the purge, may deadlock; PostgreSQL
  fails one of them, and the search is lost or the deletion answered with an
  error (`OnlyDeletionCircles`);
- 30 days after its last search, a failing group that has prices is shown as
  "ok", because the purge has emptied its log (`HealsByAnswer`);
- the deep pass replaces the results of the fast pass, and may find less
  (`missed` in `LabelIsTrue`);
- "Direct (1 stop and 2 stop unavailable)", which
  `tests/test_services/test_multi_city_flow.py:82-102` expects of a provider that
  answers the limit of no stops only, is given to a flight that the limits of
  one and two stops admit: without changed offers it shows that their requests
  did not bring it (`LabelIsTrue`);
- a multi-city group without its return leg, which updates allow, makes each of
  its searches a failure of the provider and so cools it down for all groups;
- two administrators can delete each other at the same time;
- a field of an update that equals the value loaded is not written, although
  another update may have changed it since (`UpdatesCompose`).

## Not modelled

- HTML and JSON extraction of the providers, airline and location tables,
  columns and styles of the spreadsheet, redaction: text processing without
  state over time.
- Passwords, tokens and their expiry; the client address, which is part of the
  limiter's keys (core/rate_limit.py:55-71), so that the bounds on attempts are
  per address and name; owners, names and notes of groups;
  dashboard statistics: single statements and pure functions. The limiter's
  `hit()`, which the collection endpoints use, checks and records in one turn of
  the event loop. The alert service is never called; the Kayak and SearchApi
  providers are never registered.
- Durations. Timeouts, cooldowns and delays end at some moment; which of two
  ends first is not compared, apart from the window of the limiter and the hour
  of the health summary. A later, shorter cooldown that overwrites a longer one
  is therefore not stated as a property.
- The database pool and its limits; the frontend.

## Plan

The modules are written in order of importance: scheduler, route batch, price
tables, key pool, planning; then one search, reports and accounts. What is left:

1. the composition of planning and `PriceStore`, in which rows of a run that
   outlived an edit make the next plan skip dates until they age out;
2. two edits of one group at once in `PriceStore`;
3. the request queue of a key with the delay of `_wait_for_slot` as a clock, for
   a bound on the rate of requests.
