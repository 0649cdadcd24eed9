# Verification of Talence

TLA+ models of the Talence robot service, a FastAPI process over one SQLite
database that scans cards, plans how to sort them into bins, and logs the moves
of a robot. TLC checks the models on small instances; TLAPS proves most of the
safety properties for every size.

## 1. The system

| component | state | operations | who calls it |
|---|---|---|---|
| run lifecycle, `domain/run_lifecycle.py` | none | transition table, two assertions | run service |
| run service, `services/run_service.py` | `runs.status`, `failed_code` | `set_status`, `fail_run`, `reset_failed_run`, `assert_no_active_run`, `get_resume_candidates` | handlers |
| run handlers, `robot/app/main.py` 447-850 | `runs`, `run_cards`, `movement_plans`, `planned_moves`, `move_events` | create, scan, add card, plan, execute, stop, fail, reset | HTTP clients, in a pool of threads |
| run prices, `robot/app/catalog/pricing.py` | `prices_current`, `run_price_snapshots`, a process-wide cache | ensure a price, capture a snapshot | add card, plan, execute |
| planner, `planner/plan.py` | none | `generate_plan` | plan |
| sort keys, `sort_spec.py` | none | composite keys, split validation | planner |
| consolidation, `catalog/upsert.py` 142-186 | `collection_cards`, `collection_consolidations` | consolidate once per run | handler |
| catalog ingest, `catalog/sync.py`, `audit.py`, `upsert.py` 19-139 | `catalog_sets`, `catalog_prints`, `sync_state`, `catalog_audit_log` | bootstrap, set check at startup | handler, startup task |
| image cache, `catalog/images.py` | files, `print_face_images` | cache an image | handler |
| migration, `robot/app/db.py` | schema of `runs` | rebuild the table | startup, every connection |
| sessions, `robot/app/auth.py`, `main.py` 60-85 and 200-285 | `users`, `games`, `collections`, `auth_sessions` | register, log in, refresh, log out | HTTP clients |
| HTTP layer, configuration, scripts | none | request models, error texts | |

Handlers share nothing but the database, the price cache and the image files.
Every handler opens its own connection. A read runs outside any transaction; the
first INSERT or UPDATE opens one; SQLite (WAL) lets one connection write at a
time, and a writer that waits longer than five seconds gets "database is locked".
Two handlers fetch a price, which may take thirty seconds, while their transaction
is open. The startup handler runs in the event loop, and schedules the set check, a
coroutine that never awaits: no request is served before it ends. It follows the
pages of a listing as long as the publisher names a next one.

What is hard here: a status is checked in one statement and overwritten in
another; executions overlap with each other, with a stop, with a new plan; a
restart cuts handlers off between two transactions; prices change and cards arrive
while a plan is computed; caches and files are not part of any transaction; a
migration depends on which statements SQLite commits by itself; an ingest fails and
its report fails as well; the planner is a greedy loop whose result a robot carries
out on LIFO bins. `PROJECT.json` lists these hazards, each at its line.

What makes each component correct: statuses follow the lifecycle; a move is carried
out in order and never skipped; bins agree with the log; a complete run has placed
its cards; a planned card has a frozen price; every request is answered; a plan
respects capacities and pins and leaves every bin sorted, with its groups together;
a run is consolidated once; an ingest is all there or not at all; a file holds what
its name says unless its writing was cut off; a session has a home and is revoked
when it is rotated; a migration loses nothing.

## 2. The modules

| module | models | |
|---|---|---|
| `RunLifecycle` | `run_lifecycle.py` | operators |
| `RobotRuns` | handlers of runs, run service, run prices | specification |
| `RunProperties`, `RunInvariant` | | its properties and their inductive strengthenings |
| `MoveProgress` | what the execution of runs promises | abstract specification |
| `MCRuns` | | instances of `RobotRuns`, with `Planner` as its planner |
| `SortKey` | `sort_spec.py` | operators |
| `Planner` | `plan.py`, over `SortKey` | operators |
| `BinStacks` | a plan carried out on LIFO bins (the robot is external) | specification, properties |
| `MCPlanner` | | instances of `BinStacks` |
| `CollectionLedger` | what consolidation promises | abstract specification |
| `Consolidation` | `consolidate_run_into_collection` beside `debug_add_card` | specification, properties |
| `MCConsolidation` | | instances of `Consolidation` |
| `Migration` | `db.py`, up to the end of the startup handler | specification, properties |
| `IngestLedger` | what an ingest promises | abstract specification |
| `Catalog` | `sync.py`, `audit.py`, catalog upserts | actions, properties |
| `ImageCache` | `images.py`, beside `Catalog` | actions, properties |
| `Startup` | the process: `Migration`, `Catalog`, `ImageCache` | composition, fairness |
| `MCMigration`, `MCStartup` | | instances of `Migration` and of `Startup` |
| `Accounts` | `auth.py`, handlers under `/auth`, default collection | specification, properties |
| `MCAccounts` | | an instance with a client that insists |
| `RunProofs`, `PricingProofs`, `ProgressProofs` | | theorems about `RobotRuns`, whatever overlaps |
| `SequentialProofs` | | theorems about `RobotRuns` while no two requests of a run overlap |
| `ConsolidationProofs`, `AccountsProofs` | | theorems about the module they are named after |
| `StartupProofs` | | theorems about `Catalog`, `Migration`, `ImageCache` and `Startup` |
| `PlannerProofs` | | theorems about `Planner` and `BinStacks` |

### RobotRuns and MoveProgress

A state is the contents of the tables, the cache, the holder of the write lock,
and for each thread of the pool the local variables of the handler it runs
(`thread[w]`, with `pc` naming its place in the code). The grain is set by what
other threads can see between two statements:

* a read that a decision rests on is an action (`SetStatusRead`, `PlanRead`,
  `PlanPrints`, `LoadPlan`, `LoadMoves`, `StopRead`, ...);
* a write transaction is an action (`SetStatusWrite`, `PlanCommit`, `MoveCard`,
  `ExecStop`, `StopWrite`, ...), because no other connection sees half of it;
* a transaction that contains a fetch is split at the fetch, and `lock` names its
  worker meanwhile (`AddCardFetch`/`AddCardPriced`, `PlanUpsert`/`PlanCommit`).

Rows that a transaction has written and not committed are `thread[w].pending`;
`Visible(w)` is the table as that connection sees it. The cache is updated at once.
A handler that raises with an open transaction and no commit loses it
(`PlanRollback`, `StopRollback`). `WriteTimesOut` is the busy time-out: for the
statements inside `try` of `execute` it leads to the except clause (`LogError`,
`ExecFailRead`), elsewhere it ends the request. `Crash` is a restart: tables stay,
threads, cache and open transactions go; `startup_resume_detection` only logs.

Left out or merged, and why that changes nothing the properties see: requests that
a read refuses (they change nothing); the first of the two status reads of
`execute` (what the second accepts, the first does); a read of a clear stop flag,
which is merged with the move that follows it (it commutes with everything that
can come between); `updated_at` and other clock values (plans and events are
numbered in commit order); ids are fresh UUIDs; legacy statuses, which the schema
does not admit. `bins_json` is taken without repeats. A price is a model value,
`Null` for a row without amounts; `BlankPrints` are print ids of blanks, which are
never priced.

A client that fails a run gives a code of its own or none, `execute` gives EXEC_ERROR
(`CodesOf`); `FailureExplained` asks that a code is there only while the run is FAILED,
and that EXEC_ERROR stands on a log that ends in an error of the latest plan.

External actions: `RequestStop` raises `stop_requested` and `RefreshPrice` rewrites
a price; nothing under `robot/` does either today, the tests do both.

`MoveProgress` forgets requests, threads, statuses and the log. Cards arrive, plans
move cards of their run and begin with nothing done, and a step carries out the
next move of a plan (`Advance`) or repeats an earlier one (`Repeat`). The refinement
mapping reads plans, cards and bins off the tables, and `done` off
`_last_success_step`. `KeepsProgress` says that the runtime implements it, whatever
overlaps; `MovesOnce`, that it does so without `Repeat`, which takes one request at
a time.

### SortKey, Planner and BinStacks

`SortKey` builds the composite keys of `sort_spec.py`. Names, set codes and ids are
numbers that order as the texts do; colors are sets, summed to bits as in the code.
`Planner` is `generate_plan` over a configuration record. Split segments are filled
into the bins one after the other, exactly where filling card by card puts them, so
one operator (`BinFor`) stands for both loops of `provision_bins`: a split never
changes where a card goes, it may only be refused. The loops of `plan.py` are
recursive functions, so that they can be reasoned about. `BinStacks` computes the
order of the cards (`cards`) and the content of the bins (`dest`) and carries the
plan made of them out on stacks, as the docs describe them: an extraction finds its
card, any other move takes the top card. Its variables keep what the program has in
local variables, so that the properties compare a plan with what it was made from.
`Precedes` is the reference order: the first enabled operator that tells two cards
apart decides. Of cards that none tells apart (`Tied`) it says nothing.

Two things the documents say otherwise. The final tie-break, which section 4 of
`operators.md` calls binding, is name, print id, instance id there and oracle id,
print id, instance id in `sort_spec.py`: two cards that no operator tells apart may
stand in another order than the document prescribes. `SortKey` has the tie-break of
the code; no property claims either one. And the operator is called `user_value_tier`, where a document
has `value_tier`.

### Consolidation and CollectionLedger

`consolidate_run_into_collection` reads the ledger outside any transaction
(`CheckLedger`), then folds the cards into the collection (`Fold`) and writes the
ledger row (`Record`) in one transaction. What `Fold` wrote is the thread's `draft`
until the commit; `lock` names the thread meanwhile. The primary key of the ledger
may refuse the row (`RecordRefused`: rollback, and the request fails with 500).
`debug_add_card` is there because it changes what a fold reads and may hold the lock
during a price lookup. `CollectionLedger` says what is promised: cards arrive, and
the cards of a run are added to its collection in one step, at most once. The
refinement mapping is the identity on the three committed tables; drafts, threads
and the lock are invisible. A card that arrives after its run was consolidated is
never counted; no document says that it should be, so no property judges it.

### Migration

A state is the shape of the table `runs`, its statuses, the runs whose rows a NOT
NULL of the new table refuses (`broken`), the runs with cards in a table whose
foreign key cascades (`carded`), whether a table `runs_new` is left over, the
connection's switch for foreign keys, and the place in `init_db`. SQLite commits
`CREATE TABLE` by itself (`CreateNew`); the copying INSERT opens a transaction
(`Copy`), which the commit of `init_db` ends (`Swap`). The PRAGMA that should switch
foreign keys on again comes inside it and has no effect; the startup connection
goes on without them until it is closed. `Seen` is what the service makes of the
tables, and `NothingLost` that no step changes it.

### Catalog, IngestLedger, ImageCache and Startup

`Catalog` has the set check (`ListSets`, `NextCode`, `FetchPage`, `NextPage`,
`EndOfPages`, `CheckEnds`), the bootstrap request, and the transaction both end in: `Commit`, or
`IngestFails` and then `Report` or `ReportFails` in a second one. A card is a print
with a version; the publisher adds and changes prints meanwhile (`Publish`), so that
an ingest may carry older data than the table has. A page holds any cards of its set:
it may be empty, and it may bring what earlier pages brought, since the loop looks at
`next_page` only; so a listing need not end. The row counts of the log are kept as far
as "none" or "some" (`RowsOf`), as a card on two pages counts twice. `loop` is the process as the
event loop sees it: requests come only when it is "serving". `listed` and `excused`
are history, of what the check was told and of the sets that failed or had no card.

`IngestLedger` promises that an ingest leaves all of its cards, sets, sync state and
audit entry, or a report and nothing else. The mapping is the identity on the four
tables.

`ImageCache` splits a request at every step another one can see: the look at the
file, its opening, which cuts it to nothing, its filling, the row. A thread that
fills a file another one has opened after it may leave it torn, and so may one whose
file another thread failed to fill (`AfterFill`). A file that cannot be made, a row
that is refused and a locked database end the request (`Refused`).

`Startup` composes the three: the migration first, then the set check, then
requests, until the process dies and is started again (`Die`). A step of it is a
step of one of the three, or of all of them for `Die`, and of migration and catalog
for `BecomeUp`, which is the last statement of the startup handler.

### Accounts

Every write of `auth.py` and of `ensure_default_collection` commits on its own, so
each is an action: a registration is `Register` (the look-up), `InsertUser`,
`EnsureGame`, `EnsureCollection`, `CreateSession`; a rotation is `Refresh` (the
read), `Revoke`, `CreateSession`. `Fail` cuts a request off anywhere: a refused
statement, a locked database, the end of the process. Two rotations of one session
that overlap both succeed in the model as in the code; no document says whether
they may.

## 3. What the runs check

| run | instance | properties | |
|---|---|---|---|
| Sequential | 1 thread, 2 cards, 2 prints, 2 plans, 2 crashes, clients retry | `TypeOK`, `LegalTransitions`, `MotionOnlyWhileExecuting`, `StagedCardsAreThere`, `CompleteMeansPlaced`, `FailureExplained`, `MovesOnce`, `ResumeResolves` | hold |
| Execution | 2 threads, 1 card | `ExecutionInv`, `SuccessPrefix`, `BinMatchesLog`, `KeepsProgress` | hold |
| Pricing | 2 threads, 2 cards, 2 prints, infeasible plans, fair | `PricingInv`, `PlanPriced`, `SnapshotFrozen`, `RequestAnswered` | hold |
| Consolidation | 2 threads, 3 runs, 2 collections, 3 cards, 1 crash | `ConsolidationInv`, `NothingCountedTwice`, `KeepsPromise` | hold |
| Planner | 3 cards, 6 sort specifications, pins, 2 bin orders, all capacities up to 3, a bin without capacity | `TypeOK`, `ProvisionComplete`, `ProvisionSound`, `BinsSorted`, `GroupsTogether`, `TopIsPlannedCard`, `PlacedAsAnnounced` | hold |
| Startup | 1 run, 1 print, 2 sets, 2 bootstrap threads, 2 image threads, 1 image, 1 crash, fair, listings end | `MigrationOK`, `CleanStart`, `NothingLost`, `CatalogOK`, `CheckCovers`, `SetIngestedOnce`, `KeepsLedger`, `CacheOK`, `TornExplained`, `BootEnds` | hold |
| Accounts | 2 threads, 2 emails, 2 handles, 2 users, 2 sessions, a client that insists | `AccountsOK`, `HomeBeforeSession`, `RotationRevokes`, `RegistrationCompletes` | hold |
| OneActive | 2 runs of one user | `OneActiveRun` | violated |
| DoubleExecution | 2 threads | `EachMoveOnce` | violated |
| Staging | every bin a destination | `TopIsPlannedCard` | violated |
| SetCheck | 1 print, 2 sets, no crash, fair, listings need not end | `CheckNeverBlocks` | violated |
| Restart | 2 runs, 5 spellings of a status, 1 crash | `StartSucceeds` | violated |

The split of the first three matters. Served one at a time, the handlers are correct
with crashes at any point; the theorems of `SequentialProofs` say that this is a
matter of each run, requests of other runs may overlap. Served concurrently, the
runtime keeps some promises (no move is skipped, bins agree with the log, planned
cards are priced, snapshots are frozen, requests are answered) and breaks others:
`EachMoveOnce`, and also `LegalTransitions`, since a stop sets the status to PLANNED
behind a running execution, which looks at the flag only and goes on. The violation
runs check what a document or a test says; the findings in `PROJECT.json` quote it.

Known deviations without a run of their own: `LegalTransitions` with two threads;
the price cache keeps a price whose row was rolled back with its plan, so that a
later plan of the same process may find no row for it; the final tie-break of the sort
keys (section 2).

What a start promises depends on the publisher. Whatever downloads, ingests and
statements fail, the process comes to serve, or its start fails, if listings end:
`BootEnds`, under `PoliteSpec`. The documents call the check non-blocking without that
proviso, and `CheckNeverBlocks` says so: in `SetCheck` the check reads one empty page
after another, each naming a next one, and no request is ever served.

In `Staging` the input bin is the staging bin and a destination. Two cards end in it:
they are extracted onto it, the upper one is dumped from the bin onto the same bin, and
the next dump finds that card on top, where the plan names the other.

Bounds. `MaxEvents` bounds how often a PLANNED run is executed or stopped, by the
length of its log; an execution once started always runs to its end. `MaxPlans`
bounds the plans of a run, `MaxCrashes` the restarts. One card gives a plan of two
moves (onto the staging bin, into its bin), two cards one of four, enough to stop,
crash and resume between moves; two plans of a run are enough for the log of one to
be mistaken for the other's. Two threads give every race of two handlers; that three
give nothing new is not claimed, the theorems below do not depend on it. In
`Sequential` and `Execution` prices do not change from outside, in `Pricing` one of
them does and takes two values; there `MaxPlans` 1 lets both threads begin a plan
before either stores one, so that the second meets a snapshot that differs from the
table, and nothing is executed (`MaxEvents` 0). `MaxEvents` 1 in `Execution` lets both
threads begin an execution before either logs a move. No instance has a blank print (a run with one is never
planned); the theorems allow them. `Consolidation` has two runs of one collection
that share a print, a run of another collection, and enough threads for two calls of
one run. In `Startup` one set has a print and the other none; `MaxVersion` 2 lets a
print change after it was downloaded, and `MaxAudit` 1 lets bootstraps begin until
something was logged, both threads before either commits; one image and two threads
give every overlap on a file, one crash every point of death. An old table has one
spelling of a status there, the spellings are told apart in `Restart`. In `Planner` two
cards are copies of one print, and one specification does not tell them apart. `Accounts` is bounded
by its ids only: a request that finds none left waits or fails. `Execution`
and `Consolidation` use the symmetry of the threads; they check no liveness.

Deadlock is checked where a client can always send another request. `Startup`,
`SetCheck` and `Restart` have bounds after which nothing is left to ask, and a plan
carried out by `BinStacks` ends (`Planner`, `Staging`): these set
`CHECK_DEADLOCK FALSE`.

Fairness. `FairSpec` (`Pricing`) has weak fairness of `Serve(w)` for each thread:
reads and writes take bounded time, a blocked writer gives up after 5 s, a fetch when
nothing was received for 30 s (that it ends if data trickles in is assumed), and the pool keeps running a thread until its handler returns. Nothing obliges a
client to ask. `RetrySpec` (`Sequential`) adds that clients ask again for the
execution of a run that stays EXECUTING; it is an assumption about clients, the
warning of `startup_resume_detection` calls for it. `FairStartup` has weak fairness
of the process's own code: the migration, the end of the startup handler, and the
set check, of which each single GET is assumed to end: httpx gives up when nothing was
received for 45 s. Nobody has to publish, ask or crash. `PoliteSpec` (`Startup`) adds
strong fairness of `EndOfPages` (`ListingsEnd`): the publisher, an external party, does
not name a next page for ever. Nothing in the code justifies that, and `SetCheck` does
without it. `InsistSpec` (`Accounts`) lets a thread run to the end of its request and
has strong fairness of a user's login and of the two commits that make the
collection: the user tries again, and is not refused by the database every time.

Every property of a passing run has a mutant: a changed definition, as a plausible
bug would have it, under which the run fails.

## 4. What is proved

About `RobotRuns`, for any number of threads, runs, cards and prints, and any planner
that moves only the cards it is given (`PlannerAssumption`) and, where it names the bin
a move starts from, has put the card there (`StagingAssumption`: `plan.py` extracts
every card onto the staging bin and then empties it); about `Consolidation`, for
any number of threads, runs, collections and prints and any finite set of cards
(`LedgerAssumption`); about `Migration`, for any runs, statuses and spellings, of which
`UPPER(TRIM())` leaves the canonical ones alone (`MigrationAssumption`); about
`Catalog`, `ImageCache` and `Startup`, for any threads, sets, images and prints
(`CatalogAssumption`); about `Accounts`, for any threads, emails, handles and ids
(`AccountsAssumption`); about `Planner` and `BinStacks`, for any finite set of cards and
any call of `generate_plan` (`PlanningAssumption`: bins without repeats, numbers where
the code has numbers, and the two values that are none of them, `None` and the sentinel
of an extraction):

| theorem | says |
|---|---|
| `RunProofs!Invariance` | `Spec => []ExecutionInv` |
| `RunProofs!TypeCorrect` | `Spec => []TypeOK` |
| `RunProofs!NoMoveSkipped` | `Spec => []SuccessPrefix` |
| `PricingProofs!FrozenSnapshots` | `Spec => SnapshotFrozen` |
| `PricingProofs!PricingInvariance` | `Spec => []PricingInv` |
| `PricingProofs!PlannedCardsPriced` | `Spec => []PlanPriced` |
| `ProgressProofs!ProgressKept` | `Spec => KeepsProgress` |
| `ProgressProofs!BinsAreLogged` | `Spec => []BinMatchesLog` |
| `ProgressProofs!BinsInvariance` | `Spec => []BinsInv` |
| `SequentialProofs!SequentialInvariance` | `Spec /\ []OneRequestPerRun => []SequentialInv` |
| `SequentialProofs!CompleteRunsPlaced` | `Spec /\ []OneRequestPerRun => []CompleteMeansPlaced` |
| `SequentialProofs!FailuresExplained` | `Spec /\ []OneRequestPerRun => []FailureExplained` |
| `SequentialProofs!NoMoveTwice` | `Spec /\ []OneRequestPerRun => []EachMoveOnce` |
| `SequentialProofs!LifecycleKept` | `Spec /\ []OneRequestPerRun => LegalTransitions` |
| `SequentialProofs!NoMotionAfterStop` | `Spec /\ []OneRequestPerRun => MotionOnlyWhileExecuting` |
| `SequentialProofs!StagedCardsWait` | `Spec /\ []OneRequestPerRun => StagedCardsAreThere` |
| `SequentialProofs!MovesOnceEach` | `Spec /\ []OneRequestPerRun => MovesOnce` |
| `ConsolidationProofs!DraftsCurrent` | `Spec => []ConsolidationInv` |
| `ConsolidationProofs!PromiseKept` | `Spec => KeepsPromise` |
| `ConsolidationProofs!CountedOnce` | `Spec => []NothingCountedTwice` |
| `StartupProofs!MigrationHolds` | `Spec => []MigrationOK` |
| `StartupProofs!StartsClean` | `Spec => []CleanStart` |
| `StartupProofs!LosesNothing` | `Spec => NothingLost` |
| `StartupProofs!CatalogHolds` | `CatalogSpec => []CatalogOK` |
| `StartupProofs!ChecksCover` | `CatalogSpec => []CheckCovers` |
| `StartupProofs!IngestsOnce` | `CatalogSpec => []SetIngestedOnce` |
| `StartupProofs!CatalogKeepsLedger` | `CatalogSpec => KeepsLedger` |
| `StartupProofs!RunsMigration` | `StartupSpec => Spec` of `Migration` |
| `StartupProofs!ProcessLosesNothing` | `StartupSpec => NothingLost` |
| `StartupProofs!ProcessKeepsLedger` | `StartupSpec => KeepsLedger` |
| `StartupProofs!CacheHolds` | `StartupSpec => []CacheOK` |
| `StartupProofs!TornIsExplained` | `StartupSpec => []TornExplained` |
| `AccountsProofs!AccountsHold` | `Spec => []AccountsOK` |
| `AccountsProofs!HomesComeFirst` | `Spec => []HomeBeforeSession` |
| `AccountsProofs!RotatedIsRevoked` | `Spec => []RotationRevokes` |
| `PlannerProofs!NeverStuck` | `Spec => [](CanProvision(cfg, cards) => dest # Infeasible)` |
| `PlannerProofs!ProvisionsSoundly` | `Spec => []ProvisionSound` |
| `PlannerProofs!ProvisionsCompletely` | `Spec => []ProvisionComplete` |
| `PlannerProofs!BinsAreSorted` | `Spec => []BinsSorted` |
| `PlannerProofs!GroupsStayTogether` | `Spec => []GroupsTogether` |
| `PlannerProofs!TopIsPlanned` | `Spec => [](StagedApart(cfg, dest) => TopIsPlannedCard)` |
| `PlannerProofs!PlacedAsPlanned` | `Spec => [](StagedApart(cfg, dest) => PlacedAsAnnounced)` |
| `PlannerProofs!PlannerTyped` | `Spec => []TypeOK` |
| `PlannerProofs!PlansServeRuns` | a plan meets `PlannerAssumption` and `StagingAssumption` |

*No move skipped.* `execute` goes on after the greatest step logged as SUCCESS and
never looks for gaps. `SuccessPrefix` says there are none, and is not inductive: a
thread that is about to log step `s` must know that every step before `s` is
logged already. `ThreadInStep` says so of every thread, wherever it is in the loop,
and `EventsOfPlans` that no event speaks of a plan yet to come, so that a new plan
starts with nothing done. A thread keeps what it knows while others append, because
logs only grow (`LogStep`); appending a step all of whose predecessors are done
leaves a prefix, also if the step was there already (`AppendKeepsLog`). That is why
the theorem holds for overlapping executions although `EachMoveOnce` does not.

*Planned cards are priced.* The snapshot is accepted by a count: it has at least as
many rows as the run has prints. That means what it should only if the snapshot has
rows for no other prints (`SnapshotOfRun`), and only if the cards the plan was
computed from, read earlier, are still cards of the run (`PlannedCardsOwned`), which
needs that a card on its way into the table is nobody else's (`NewCardsUnowned`).
Then a cardinality argument over a finite set (`CountedIsComplete`) gives every
print a row, and the check for NULL gives it a price.

*Progress and bins.* By `SuccessPrefix`, `_last_success_step` is the length of the
prefix that is done, so that a logged move either lengthens it by one (`Advance`) or is
inside it (`Repeat`), and every other step leaves the abstract state alone. A new plan
moves cards of its run because the cards it was computed from still are
(`PricingInv`). The bins agree with the log because a plan moves cards of its run only
(`MovesOwned`), so that a run's log is the only one that speaks of its cards:
`BinsInv == MovesOwned /\ BinMatchesLog` is inductive together with `ExecutionInv`
and `PricingInv`.

*One request of a run at a time.* `OneRequestPerRun` says that no two threads work on
one run. It is weaker than one thread, for which it always holds: handlers of other
runs interleave, hold the database and time each other out, and restarts come
anywhere. `SequentialInv` is what it buys. A handler that has read the status of
its run may rely on it at its write (`ReadHolds`), so that `set_status`, which
writes without looking again, takes an edge of the lifecycle; an executor works on
the latest plan, of which exactly the steps before its own are done
(`ExecutorInStep`), where `ThreadInStep` says at least those; a run gets COMPLETE only
when all are (`CompleteIsDone`). A step of one handler writes the rows of its own run
only, and what the others know is about theirs (`OneHandler`). Where a card lies follows
from the log by `BinMatchesLog` once the log is known to be in order (`LogInOrder`):
of the moves of a card that are done, the last in the plan is the last in the log, as
no event of a later plan exists (`LastMoveTells`). Then a COMPLETE run has its cards where the
plan ends, and a card about to leave the staging bin, whose last move put it there by
`PlansStaged`, is there.

*Consolidation is atomic.* `DraftCurrent` says that between its two statements a
handler holds the lock and its draft is what folding would give now; it is inductive
because every other writer waits for the lock. The commit is then one step
`Consolidate` of the ledger, a stored card one step `Arrive`, and everything else a
stutter (`StepPromised`). `CountedOnce` is proved of the ledger and so inherited: a
consolidation adds a set of cards disjoint from those brought before.

*Migration.* `Rebuilding` says that between `create` and `swap` the table is the old
one and foreign keys are off, which is why dropping it loses no card, and what a
leftover `runs_new` is evidence of: a crash, a refused row, or a rebuild under way.
With it `CleanStart` is inductive. `StartSucceeds` is what cannot be proved; the run
`Restart` refutes it.

*Catalog.* `CatalogInv` adds what a job carries (`JobOK`: prints of the publisher, for
the check those of its own set) and, while the check runs, that what was listed is in
the catalog, excused or still to do, and that what is still to do has no rows in the
log (`CheckProgress`). A bootstrap cannot disturb the latter, because requests wait
for the event loop. The commit is then a step `Ingest` of the ledger.

*The process.* A step of `Startup` is a step of `Migration` and of the catalog in a
process that starts and dies (`CatalogSpec`), or leaves them alone; so their theorems
hold of it. `CacheInv` adds what a thread between two steps knows of its file: it was
opened, so it is there, and as long as it is torn somebody is filling it or was cut
off.

*Accounts.* `Prepared` says which earlier commits of its request a thread relies on,
at every place it may be cut off: the game before the collection, the collection
before the session, the revocation before the child.

*Placing the cards.* A recursive function is a CHOOSE; `Recursion` shows that the
function chosen exists, by building it, and induction over a set of numbers does the
rest. `Provisioned` says what holds after every card: each bin has the cards sent to it
(`Holds`) in the order of the cards (`InOrder`), and room for the pinned ones to come
(`RoomKept`). The loop is never stuck: if it were, every bin would be full up to the
places it keeps, so the cards placed and the pinned ones to come would be as many as
all places (`CapacityUsed`), and the card at hand would be one too many for the check
made before. Since each of the checks holds of any assignment (`AssignedFits`), it is
refused only what has none. Without pins the bins fill up one after the other
(`Filling`).

*Order.* Keys are compared part by part; that is a strict total order of keys of one
shape (`Comparable`), and an operator adds parts of the same length for every card
(`PartsComparable`). Hence `Sorted` has a value (`SortedIs`). The first place at
which two keys differ lies in the part of the first operator that tells the cards
apart (`FlattenTells`), or in the tie-break, of which nothing is claimed. As the operators that split are a prefix, a
card between two of one group agrees with both on them (`SplitTells`).

*On the stacks.* A plan is laid out in blocks, one for each bin (`Laid`). `CarriedAt` says
of every block what is true of the stacks after `n` moves: of a block that has not
begun, nothing; of one half done, that the staging bin has its cards on top, in
reverse, and its bin those already put back; of one that is done, that its bin has them
on top. It is inductive if the staging bin is the bin of no block: `StagedApart`.
Otherwise one block is dumped onto the bin its cards are taken from, and the first card
put back hides the next one, as the run `Staging` shows. `ApartWhenBinLeft` names the common case
in which it holds: a bin besides that of unrecognized cards in which no card ends.

*Planner and runtime.* `RobotRuns` assumes of its planner that it moves the given cards
only and takes a card out of a bin only where its last move put it. `PlansServeRuns`
shows that of `generate_plan`, for every call, so that neither is an assumption about the
program.

Only model-checked: liveness (`RequestAnswered`, `ResumeResolves`, `BootEnds`,
`RegistrationCompletes`), which needs fairness and with it ENABLED. Of the bins of a plan
whose staging bin is also a destination nothing is proved but the types: what a
document says of them is wrong there.

## 5. Not modelled

* Request models, error texts, configuration and scripts, which keep no state.
* Password hashes, token formats, access tokens and expiry: an expired session is
  refused as a revoked one is, without a change of state.
* Clocks: the latest plan is the one committed last.
* An attribute that is missing or of another type, on which Python refuses to compare
  two keys; a color outside the five.
* The columns of a card beside its version; the
  faces of a print beside one, and `local_path` of an image.
* A table `runs` so old that it has no column `status`: its start fails in the script
  `schema.sql` already, which names the column in an index.
* The capacity of a staging bin: no document says whether it binds.
