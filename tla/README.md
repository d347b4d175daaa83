# Verification of the KTB AI services

TLA+ models of the services in this repository, TLC runs that check them on
small instances, and TLAPS proofs that hold for every instance. The models are
translated from the source, and `PROJECT.json` names, for every definition, the
lines it stands for. Paths below are relative to the repository; `services/x`
means `src/services/x/src/…`.

1. [The system](#1-the-system)
2. [What is hard here](#2-what-is-hard-here)
3. [The modules](#3-the-modules)
4. [The runs](#4-the-runs)
5. [Fairness](#5-fairness)
6. [What is proved](#6-what-is-proved)
7. [What is not modelled](#7-what-is-not-modelled)
8. [Observations](#8-observations)
9. [Plan](#9-plan)

## 1. The system

Korean stock news, disclosures and prices come in on one side; model portfolios,
orders and reports go out to a Backend that is not part of this repository. The
parts are separate processes that share PostgreSQL, QuestDB, Valkey and SQS.
Nothing is shared in memory between two of them.

| component | state it keeps | operations | talks to |
|---|---|---|---|
| news-preprocessor | `articles`, `disclosures`, `disclosure_documents`, `disclosure_collection_state`, the archive of filings | scrape feeds and OpenDART, cut filings into sections, embed pending articles (three attempts, then dead letter) | publishers, OpenDART, inference server, PostgreSQL |
| disclosure-indexer | `disclosure_indexes` (status, attempts, lease, owner, active) and chunks | enrol, requeue, sweep, claim under a lease, embed, complete or fail | PostgreSQL, inference server |
| disclosure-retrieval | none | list reports with their index state, search, read sections and facts | PostgreSQL, inference server |
| news-clusterer | `clusters`, `article_clusters` | DBSCAN over all embeddings, match with the earlier clusters, write | PostgreSQL |
| news-graph-builder | `entities`, `relations`, `cluster_summaries`, `cluster_entities` | merge aliases, find stale clusters, extract with an LLM, guarded write | PostgreSQL, LLM |
| news-http | none; a walk over pages lives in its cursor | pages of clusters and articles, neighbours and paths in the graph | PostgreSQL |
| portfolio-builder | `portfolios` (holdings, exits, trace, status), `portfolio_reasons` | an LLM agent researches and submits, a second call explains the trades | news-http, disclosure-retrieval, QuestDB, LLM, PostgreSQL |
| portfolio-rebalancer | nothing of its own | read accounts, cancel, compute orders, send them | Backend over HTTP, SQS FIFO queue, QuestDB, PostgreSQL |
| report-builder | a cached CSRF token | take requests from SQS, build, post, delete | SQS, PostgreSQL, LLM, Backend |
| market-syncer | `corporations`, `corporation_aliases`, `index_members`, `themes`, an advisory lock | replace each from Kiwoom and DART in a transaction of its own | PostgreSQL, QuestDB, Kiwoom, DART |
| market-streamer | reconnect state | receive quotes, store and publish them | Kiwoom, Valkey |
| market-collector | bars in QuestDB, of which the newest is the checkpoint; the ranking in Valkey | passes of a day over the bars of every symbol | Kiwoom, QuestDB, Valkey |
| market-http | one shared subscription, a queue for each client | streams of prices and order books, cached prices, candles, ranks, themes | Valkey, QuestDB, PostgreSQL |
| packages core, aws, telemetry | CSRF token of `BackendAuth` | authentication, SQS client, tracing | |
| migrations, deployment | schemas, systemd units, ECS task | | |

**What runs when.** `ktb-morning-pipeline` runs market-syncer, news-clusterer,
news-graph-builder and portfolio-builder one after the other at 06:00 on
weekdays, stops at the first failure and is not restarted. news-preprocessor
runs every hour and disclosure-indexer after it, whether it failed or not, the rebalancer at 09..15 on weekdays, market-streamer from
08:50, market-collector from 08:55; these are restarted after a failure (one or
five minutes later). report-builder and market-http run all the time. A
`flock -n` around every job keeps two systemd runs of one job apart, but not a
run started by hand, and not the jobs of different units: the
clusterer and the graph builder may meet an hourly embedding commit at any
point.

**How the parts meet.** The coupling is by rows that one part writes and another
polls: `disclosure_documents` → indexer → retrieval; `articles.embedding` →
clusterer → graph builder → news-http → portfolio-builder; `portfolios.status =
'ready'` → rebalancer. market-streamer and market-http meet in Valkey's channels
and stored prices; the rebalancer and the Backend in a FIFO queue with one
message group per account; the Backend and report-builder in a standard queue
with a visibility timeout.

**What makes each part correct.**

* *indexer*: a row has one owner at a time, results are final, at most one
  active index per document and dimension, search never falls into a gap while
  a replacement is built, and every row is eventually settled.
* *retrieval*: it reports a filing as ready only when the vectors of its newest
  document are complete.
* *market-http*: a client that waits on its queue is fed or has been told that
  the stream is over; events are in order, and gapless between two reconnects.
* *rebalancer*: orders fit the cash and the holdings of the snapshot, limits
  are tradable, the loops end, orders of two runs are not pending together, and
  the exit code tells; every run counts the runs left of its week rightly, so
  that the last one is known for the last.
* *report-builder*: a request disappears only when its report is stored, and
  valid requests are answered in the end.
* *preprocessor*: no filing between the first day collected and the day checked
  through is missing, filings are stored whole, and an exit code that asks for
  no restart leaves nothing undone.
* *collector*: behind its newest bar a series has no hole and no bar that was
  still forming; exit code 0 means that the day is complete.
* *syncer*: no table goes back to an older answer or is emptied by a bad one.
* *readers* (news-http, retrieval): a row that does not change is on exactly one
  page of a walk, graph answers are true of one moment, and evidence is of no
  filing that a later one corrects.
* *clusterer and graph builder*: labels are DBSCAN's, ids survive, a summary
  that passes for current was made of the articles of its cluster, names that
  are companies are one entity.
* *portfolio-builder*: every portfolio accounts for everything the previous one
  held; it was submitted after research the model had read; what is ready is
  explained; what users may still own can be sold; exit code 0 leaves a portfolio
  that may be traded.

## 2. What is hard here

`PROJECT.json` lists the hazards one by one, each at its line. The kinds that
dominate:

* **Long work outside a transaction.** Embedding calls and LLM calls last
  minutes; the row may be claimed, the cluster changed, the message redelivered
  meanwhile. Leases (`index.py`), `updated_at` guards (`lock_cluster`) and
  visibility timeouts decide who wins.
* **Several transactions for one fact.** A portfolio, its trace and its
  explanations; cancellations, prices and orders of an account. A kill between
  two of them leaves a state the next run must recognise.
* **The data is its own checkpoint.** What the collector and the preprocessor
  have still to fetch follows from what they stored; nothing else remembers what
  a failed, killed or skipped pass left out.
* **Several statements for one answer.** A reader's statements, or pages, each
  see a snapshot of their own, with commits of the writers in between.
* **Callbacks and tasks on one loop.** The rotation of market-http's connection
  overlaps two listeners; both clean up.
* **Parallel calls of one model answer** in threads of their own, of which one
  may save and another raise.
* **Whole shares, ticks and budgets**, where floors and rounding meet, and
  **calendars**, fiscal years and offsets, where one is off by one.

## 3. The modules

Conventions: a component is one module; `MC<Module>` instantiates it and each
`.cfg` asks one question. Definitions marked `\* Faulty: …` are plausible bugs;
no action uses them, and `PROJECT.json` ("mutants") says which definition each
one replaces and which property then fails. An action is one database
transaction, the code between two awaits, one iteration of a loop, or one call
with its answer, whichever is the unit other actors can interleave with. Names
are the source's where TLA+ allows it.

**`DisclosureIndex`** (indexer, with retrieval's `index_state`). State: the
columns of `disclosure_indexes` by index (filing, version of its document,
signature), and of each run its program counter, signature, `attempted` and job.
`Start`, `Enroll`, `Requeue`, `Sweep`, `Pick`, then `GiveUp`, `Reactivate` or
`Claim`, `EmbedBatch`/`EmbedFails`, `Complete`/`LoseLease`, `Fail` and `EndRun`
follow `index_documents` statement by statement; `Collect` and `Reparse` add
documents, `Crash` kills a run anywhere, `LeaseExpires` lets time pass. (The
collector of this commit stores one document per filing; `Reparse` is there
because the schema and the queries of indexer and retrieval provide for newer
ones.) The clock is abstracted to the one comparison the queries make. `lastClaim` is a
history variable. `Visible` and `SearchState` translate retrieval's query.

**`FeedHub`** and **`MarketSubscription`** (market-http). `FeedHub` is the
abstract promise to the handlers: streams open only while the hub is up, going
down ends all of them at once, an ended stream is not fed. `MarketSubscription`
has the connections, the listener task of each, the supervisor with its
rotation, the bounded queues and the clients' handlers from snapshot to exit.
Its `FeedHub` instance maps `up` to `task` (`self._task` is set, what `subscribe`
asks for) and a stream to "ended" when its queue is registered under no key any
more. Valkey and redis-py are
external: acknowledged subscriptions, order kept within a connection, loss
between a drop and the re-subscription.

**`PriceFeed`** (market-streamer and the prices of market-http) extends
`MarketSubscription`, whose actions it composes with the two ends of the way. On
the one end the streamer: `Register`, `Frame` (a Kiwoom message becomes a
pipeline of `Commands`), `SetPrice` and `PublishPrice` (Valkey executes them one
by one), `Resend` (redis-py repeats a pipeline whose replies are lost) and
`Disconnected`. On the other the handler of `/prices/stream`: `Open` subscribes,
`Get`, `Query`, `Fill` (`SET NX`) and `GetAgain` are `current_prices`,
`SendSnapshot` and `SendEvent` reach the browser. A price is the number of its
tick, a stock's bar in QuestDB the tick it closes with. `since`, `base` and
`resent` are history; `Due` says which prices a client may count on: those
published before it subscribed come with the snapshot, those after as events,
except what a reconnect loses and what a pipeline sent again has stored once more.

**`ReportWorker`** (report-builder with core's `BackendAuth`). Messages are
visible, hidden or gone; a worker builds, fetches a token if it has none, posts,
repeats once after a refusal and deletes. The Backend may store a report whose
answer is lost, drop tokens at any time, and the message may reappear at any
moment. `answers` is history: what the Backend did for the delivery at hand.

**`Rebalance`** (`rebalance.py`). One account from run to run until the week
ends: `Drop` and `Locked`/`Lock` are the loops of `allocate` and of stranded
holdings, `AddShare` the loop of `whole_shares`, `MakeOrders` the exits and
trims, `CutBuy` the loop that fits the buys to the cash, `NextRun` what the
Backend fills in between (`Total` adds up a function). `FirstLeft` is the number
of runs left when the instance begins. Money is exact (won, percent, fractions), so rounding
to half-even and ticks are modelled by what they do, and floating-point error is
not. Fills are all or nothing per order.

**`RebalancerRun`** (`__main__.py`, `orders.py`). A run over all accounts: read,
cancel, read the prices, place; every send may fail, the process may crash, and
runs are started again. The Backend consumes each message group in order
(`Handle`) and the exchange fills (`Fill`). How many orders a run wants is a
choice; what they are is `Rebalance`'s.

**`TradingWeek`** (`holidays.py`, the timer and the unit of the rebalancer).
Hours pass (`NextHour`), the timer goes off on weekdays or is missed with the
host, `StartRun` counts `HoursLeft` and `RunsOfWeek` with the holidays of the
code, a run ends (`Finish`) or fails and is started again, perhaps in the next
hour.

**`BarCollection`** (market-collector). Time is in slots: the minutes of a
session and the slot of its close. `Start`, `Snapshot`, `BeginPass` (which reads
the checkpoints), `Page` after page of the chart service, `WriteCandles`, `Rank`
and `EndRun` are a run; `PassFails`, `WriteFails` (part of a write was flushed)
and `Crash` its failures. `written` is what QuestDB has accepted and `applied`
what queries see (`Apply`). A bar is stored with the history flag whether it
was final. The symbols are those of `Index`, a sequence as `load_symbols` has
it, and `Plan` goes through them in that order. A minute bar lies in a session,
never at the close slot; a first collection reaches back at least over one
session (`BarAssumption`: `LIMITS` has 8000 minutes, a session some 390).

**`NewsPreprocessor`** with **`FilingText`** (news-preprocessor). A day has a half
before and one after the collection hour. `ListFeed`/`FetchItem` are a publisher;
`ListFilings` with `CollectionPlan`, `Remember`, `FetchFiling`, `SaveFiling` and
`EndOfFeed` (with `Completed`) are OpenDART; `Watermark`, `Embed` and `EmbedFails`
the embedding; `Exit` the code. `Crash` and `Outage` may happen between any two.
`FilingText` has the functions without state: `FiscalYear`, `Kind`, and
`ParseDocument`, the walk that cuts a document into sections with offsets.

**`MarketSync`** (market-syncer). Two workers, since systemd may give a run up
whose container goes on: the advisory lock, and for each of the tables the fetch
(`Fetch`, `FetchMembers`) and, later, the transaction (`SyncCorporations`,
`ReplaceIndex`, `SyncThemes`), of which each may fail (`Fails`, `GiveUp`). `at`
is history: the edition a table was fetched from.

**`OrderedRows`** is what SQL leaves open: `FirstOf` is any answer to ORDER BY with
LIMIT, of which ties may be cut off.

**`NewsReads`** (news-http). A walk over the pages of a list with its cursor
(`Page`, `CheckExists`), and the statements of a graph request (`Sources`,
`Targets`, `Nodes`, `EdgesAmong`, `Paths`, `PathNames`, `PathSteps`), on tables
that clusterer and graph builder change in between (`Recluster`, `Summarise`,
`Merge`).

**`DisclosureSearch`** (disclosure-retrieval). `Select`, `Count`, `Embed`,
`Latest`, `History` and `Rerank` are a search, in two transactions with an
embedding between them; `List`, `ReadSections` and `ReadFinancials` are single
statements. What corrects what is translated twice, `Family` from the SQL and
`RevisionFamily` from the SQLAlchemy. `TypeOf` is the detail type that a request
is compared with: a periodic report stored without one has that of its kind,
`A003` for both quarters. `Store`, `NewDocument` (see `Reparse` above) and
`IndexDocument` are the other services.

**`ReadSide`** puts `MarketSync`, `NewsReads` and `DisclosureSearch` side by side and
has the assumptions of the last two. They share no state: a behaviour is one of
them (`part`).

**`NewsGraph`** (clusterer and graph builder, with the commits of
`embed_pending` and of the syncer's aliases that they react to). Distances are
one symmetric relation. `Seed`/`Expand` are `_label_clusters` step by step; its
stack is a set (`frontier`), since every article on it, taken in whatever order,
gets the same label. `Matching` is the greedy matching, `Write` the transaction of
`write_clusters` with its cascades, where `Fresh` and `Place` number the clusters
that keep no earlier id. The builder's `Merge`, `Find`, `Read`, `Extract` and
`WriteGraph` interleave with all of it. `summaries` remembers, as history, the
articles the summary was made of.

**`PortfolioBuilder`** (portfolio-builder). `Ask` is an answer of the model with
up to `Slots` calls; each call succeeds, is refused, or raises, in any order;
submissions pass the `saved` check (`Enter`), are validated (`Reject`, `Save`)
and may overlap. `Turn` ends the turn, `Returns` and `Abort` the agent,
`SaveTrace`, `Explain`, `AskAgain`, `Store`, `Mark` and `ExplainFails` are the
transactions that follow, `Killed` is possible everywhere. `Leftovers` is the
rebalancer's query over the history of portfolios.

## 4. The runs

Sizes are distinct states of the complete search with two TLC workers.

| run | instance | states | question |
|---|---|---|---|
| `disclosure_index` | 2 runs, 1 filing, 2 signatures of one dimension, 2 attempts, plain or `--retry-receipt` | 147,214 | ownership, finality, active flags, dead letters |
| `disclosure_settle` | 2 runs, 2 versions of a filing, 2 attempts, fair | 19,062 | does retrieval read whole, newest indexes; does every row settle |
| `market_hub` | 2 clients of one stock, queue of 1, 3 events, 2 connections, 2 subscriptions, fair | 556,254 | fed or told; order and gaps; `FeedHub` is implemented; every stream returns |
| `price_feed` | 1 client, 1 stock, 2 ticks in one message or two, 2 events, 2 connections, 2 subscriptions | 1,381,645 | does the last price reach the browser |
| `report_worker` | 2 workers, a valid and an invalid request, fair | 24,792 | gone means stored; one report per delivery; valid requests are answered |
| `rebalance` | 3 stocks, 5 portfolios, 3 sets of quotes, 81 accounts, last 2 runs of a week | 40,567 | cash, holdings, budgets, ticks, termination |
| `rebalancer_run` | 2 active accounts and 1 inactive, 5 orders, 2 runs, at most 1 order wanted per account; 53 weeks of hours with the holidays of the code | 2,198,975 | one generation of orders, honest exit; do the runs count down |
| `news_graph` | 8 articles in 3 batches, 2 names of one company, 1 fault, fair | 70,849 | labels, ids, current summaries, merged entities |
| `portfolio_builder` | 2 companies, 2 calls a turn, 3 turns, 3 runs | 179,739 | one portfolio a run, continuity, explanation |
| `bar_collection` | 2 symbols, 4 days of 2 minutes and a holiday, 2 faults, fair | 137,588 | no holes, complete days, a ranking of final bars, catching up |
| `news_ingest` | 9 editions: filings under a limit, one that cannot be placed, news of each publisher, 257 documents, 72 reports; up to 3 faults, fair | 129,742 | nothing is missing below the day checked through; honest exit; whole filings; they arrive |
| `read_side` | 3 editions and 2 workers; 4 articles, 4 entities; 6 filings; 2 commits between the statements | 355,304 | fresh tables, exact pages, true graph answers, current evidence of the type asked for |

**Why the bounds are enough to be interesting.**

* *disclosure_\**: two runs suffice for one to lose a lease to the other; two
  signatures of one dimension for a replacement of an active index; two
  attempts for a failure to be retried and then buried; two versions for a
  claim that is overtaken. One batch per document still has a point where the
  lease expires. Three runs add interleavings of the same pairs, and the
  safety half is proved for any number (section 6).
* *market_hub*: a queue of one is full after one event, so the slow-reader path
  and the room for the end marker are always at stake; two connections are a
  rotation, or a second subscription of one a reconnect of redis-py; three
  events can leave a gap; the second client is a neighbour that is slow, leaves
  or comes at any moment. `MaxConns` bounds rotations, not the code.
* *price_feed*: two ticks are an older and a newer price, which is all a stale
  value needs; `MaxTags` allows a reconnect or a rotation. The instance drops
  `feed`, a history nobody reads here, from its view, and does not go on from
  states whose hub is down for good (`Feeding`), where the property is void.
* *rebalance*: prices just under and just over the 2,000 won tick boundary, a
  missing quote, negative cash, a weight of zero, a holding too dear for its
  budget, a code that left, one that is leftover and one that is unknown. The
  last two runs contain a run that works with limits and one that must trade at
  the market.
* *rebalancer_run*: two pending orders in one account make a partial failure
  of cancellation, the second account the continuation after it.
* *news_graph*: articles 2 and 5 are core with article 4 on the border of both,
  and article 9 fuses the two clusters when its batch comes; batches come in
  any order. One fault is one killed process or failed extraction, at any point.
* *portfolio_builder*: two calls are two parallel submissions, or a submission
  beside a call that raises; three runs are a portfolio, one that is left
  unexplained and the run that must deal with it.
* *rebalancer_run*, the calendar: all weeks of the holidays of the code, up to
  three days past the day they are good for.
* *bar_collection*: a day of two minutes has a minute that is forming while the
  other is final; answers of two bars need a second page; `Window` reaches back
  one day, so the long outage before the first day makes the checkpoint come
  from the query of all bars. Two faults are a failed pass and a second failure
  while it is made up for.
* *news_ingest*: an edition is a question of its own, chosen once: a limit that
  cuts a day in two or ends with it, three failures of the embedding for a dead
  letter, every combination of what a page may lack for each publisher, every
  document of up to four leaves followed by a second one, every kind of report
  of companies that close in March, June and December.
* *read_side*: two commits are one before and one after a statement, or two in
  between; two articles of one time, chains and parallel relations, a company
  that turns out to be a plain entity; a filing stored late, without its type,
  and corrected twice, and a report of a third quarter stored without a type,
  which a request for `A003` has to find.

`CHECK_DEADLOCK FALSE` is set where the system really stops or the instance
does: after shutdown (`market_hub`, `price_feed`), after the last run of the week
(`rebalance`), after the bounded number of runs (`rebalancer_run`,
`portfolio_builder`), on the last day (`bar_collection`, `news_ingest`) and when
a request is answered and the commits are spent (`read_side`). All other runs
check that no state is a deadlock.

**What the properties say.** Each is commented in its module. The type
invariant is a conjunct of the first invariant of a module (`RowsFollowClaims`,
`FedOrTold`, `GoneMeansStored`, `OrdersAreSound`, `OneGeneration`, `GraphIsSound`,
`Continues`, `HistoryIsFinal`, `CheckedMeansStored`). The ones to know:

* `RowsFollowClaims` (types, ownership, dead letters), `ReadyVectorsAreOfLastClaim`:
  whatever overlaps, stored vectors are those of the worker that claimed last.
  `WorkIsKept`: a live lease is not taken, a result is not undone.
* `OneStaysActive`: at most one index is active, and a replacement takes over in
  one step.
* `SearchReadsWholeIndex`: "ready" is never said without complete vectors in place,
  nor of another document's.
* `FedOrTold`, `StreamsEnd`: nobody waits on a queue that nobody feeds.
* `FeedInOrder`: no event of an older connection after one of a newer, no gap
  within a subscription.
* `LatestReachesClient`: when everything on its way has arrived, the browser
  has the last price published. It needs SET before PUBLISH, subscription before
  snapshot, and a fill that replaces nothing.
* `GoneMeansStored`, `OneReportPerDelivery`, `ReportsArrive`: at least once per
  request, at most once per delivery.
* `OrdersAreSound` (cash, holdings, ticks), `SharesUseBudgets` (no budget is
  overspent, nothing affordable is left over once the orders are made, shares
  beyond the budgets are dealt out evenly), `RunsEnd`: what the orders of a run may
  be and that they are found.
* `OneGeneration`: on an account whose queue was empty at the snapshot, orders
  of two runs are never pending together. `HonestExit`: after
  exit code 0 every order the run saw pending is off the book or about to be, and
  every order it wanted is sent. `RunsCountDown`: a run counts exactly the timer's
  hours that are left of its week, and a week that goes smoothly at its end ends
  with the orders of a last run.
* `GraphIsSound`, `ClustersSummarised`: a summary that passes for current was
  made of its cluster's articles, and all are current in the end; names are
  merged. `IdsAreKept`: an old and a new cluster
  that share more with each other than with any other have the same id, and no
  id moves to a cluster that shares nothing with its former one. `LabelsAreDense`:
  the loop computes DBSCAN's clusters.
* `Continues`, `ReadyIsTradable`, `NothingStranded`, `ResearchedFirst`: the life
  of a portfolio.
* `HistoryIsFinal`, `CloseIsComplete`, `RankedVolumesAreFinal`, `CatchesUp`: the
  newest bar is a good checkpoint, exit code 0 is honest, and one good run on the
  last day makes up for whatever failed before.
* `CheckedMeansStored`, `FilingsArrive`, `ExitIsHonest`, `StoredFilingsAreWhole`:
  the row of the collection state never runs ahead of what is stored, and never
  holds a filing back for ever.
* `TablesAreFresh`: no table goes back, is emptied or names an unknown company,
  and exit code 0 has brought all three to what was served at its start.
* `PagesAreExact`, `GraphAnswersAreTrue`, `EvidenceIsCurrent`: what readers are
  told, with commits between any two of their statements. `EvidenceIsCurrent`
  includes that a search and a list choose exactly the newest filings of the
  detail type asked for, those stored without one among them.

## 5. Fairness

Only what schedulers, timers and event loops give is assumed; nothing is assumed
of the outside world except where stated.

* `DisclosureIndex!FairSpec`: leases expire and a plain run starts again and
  again (weak fairness: clock and pipeline). The transactions of a run are
  strongly fair, because a crash may preempt any of them but does not preempt
  the same one for ever. Work on a claimed row is weakly fair; whether the
  embedding succeeds is not assumed.
* `MarketSubscription!FairSpec`: the handlers' own steps and the cleanup of a
  cancelled listener, which asyncio runs once they are ready. Nothing is assumed
  of Valkey or of the clients.
* `ReportWorker!FairSpec`: requests are sent and hidden messages reappear; a
  visible message is received in the end; a call for a valid message fails
  often, but not always (strong fairness of its success). The token is not
  excused: it may be stale at every delivery.
* `NewsGraph!FairNewsSpec`: syncer, clusterer and builder are run again and again
  and their steps are taken; killed processes and failed extractions are
  counted by `MaxFaults`.
* `Rebalance!RebalanceSpec`: weak fairness of `Next`, since the function is sequential.
* `BarCollection!FairSpec`: time passes, QuestDB applies what was written, and a
  run that can go on does. Failures, kills and lags are counted by `MaxFaults`.
* `NewsPreprocessor!FairSpec`: the timer fires and a process that runs goes on.
  Failures are counted by the edition and happen before its last day.
* `RebalancerRun`, `TradingWeek`, `PortfolioBuilder`, `PriceFeed`, `MarketSync`,
  `NewsReads` and `DisclosureSearch` are checked for safety only: they promise
  nothing that must eventually happen but what systemd's timers start again.

## 6. What is proved

`DisclosureIndexProofs` proves every safety property of the indexer for any
number of workers, filings, signatures, versions and batches, and attempt
budgets 1..5 as `settings.py` allows:

| theorem | says |
|---|---|
| `TypeCorrect` | `Spec => []TypeOK` |
| `OwnershipCorrect` | `Spec => []OwnershipFollowsClaims` |
| `VectorsCorrect` | `Spec => []ReadyVectorsAreOfLastClaim` |
| `ActiveCorrect` | `Spec => []OneActiveIndex` |
| `DeadLettersCorrect` | `Spec => []DeadLettersAreExhausted` |
| `SearchCorrect` | `Spec => []SearchReadsWholeIndex` |
| `LeaseCorrect` | `Spec => HeldLeaseIsRespected` |
| `ResultsCorrect` | `Spec => ResultsAreFinal` |
| `SearchableCorrect` | `Spec => SearchableStays` |
| `RowsCorrect` | `Spec => []RowsFollowClaims`, the conjunction the run checks |
| `WorkCorrect` | `Spec => WorkIsKept` |
| `ActiveStaysCorrect` | `Spec => OneStaysActive` |
| `RetryCorrect` | only an explicit retry of a filing revives its dead letter |

*Assumptions.* `IndexAssumption` (the modal signatures are signatures, narrative
text is text, bounds are positive, SQL NULL is no worker and no signature) and
`NoneIsNoIndex`. TLC evaluates both on every run of the module.

*Argument.* The inductive invariant is `IInv == TypeOK /\ JobInv /\
OwnershipFollowsClaims /\ ReadyVectorsAreOfLastClaim /\ ReadyHasChunks /\
OneActiveIndex /\ DeadLettersAreExhausted`. Two conjuncts are there for the
induction only. `JobInv` says that a run past its candidate query remembers a
row of the table; without it a completion could concern no row at all.
`ReadyHasChunks` says that only documents with text become ready; peers have
text together (`PeersSymmetric`), so an empty result can never take the active
flag from a ready peer, which `SearchableStays` needs. Each action has its own
step. The action properties follow from `IInv` and `[Next]_vars`, by the steps
that could break them.

`MarketSubscriptionProofs` proves of the shared subscription, for any number of
clients, keys, connections, re-subscriptions and events and any capacity of the
queues, from `SubscriptionAssumption` and `NoneIsNoConn`:

| theorem | says |
|---|---|
| `FedOrToldCorrect` | `Spec => []FedOrTold` |
| `HubCorrect` | `Spec => ImplementsFeedHub`: the hub is a `FeedHub` |
| `OrderCorrect` | `Spec => []FeedInOrder` |
| `FeedKeepsHub` | `FeedSpec => Spec`: the price feed is a `MarketSubscription` |
| `LatestReaches` | `FeedSpec => []LatestReachesClient`, also from `FeedAssumption` |

*Argument.* The inductive invariant is `TypeOK` in its three parts with `HubInv`
and `ClientInv`. `ClientInv` says that a client in a stream is fed or told, and
one that is out is registered nowhere. `HubInv` is there for the induction: the
task is set exactly while there is an active connection, which is then the
supervised one, up, and listened to, so that no supervisor that exits, no
connection that fails and no replaced listener can be the one that feeds the
clients. One lemma covers each way the hub changes; `ClientsUntouched` and
`StreamsEnded` are the two ways the clients see it. For the refinement,
`Serve` is `ComeUp`, `Shutdown` and the end of the active listener are `GoDown`
or not seen (when the listener was first), an event with slow readers is
`CutOff`, and rotations, drops and failed connections are not seen. `FeedInOrder`
needs `OrderInv` on top: connections are opened in order and one at a time, so
the one that takes over is newer than all that were used (`LinkInv`); what is
under way on a connection is always the last events published, so the next one
read is the one after the last read (`WireInv`); and the last entry of a client
that is fed is of an older connection or subscription, or nothing it asked for
has been read since (`LastInv`). A queue that is ended on overflow is the reason
the last part holds of registered clients only. For `PriceFeed`, the hub's invariants
carry over by `FeedKeepsHub`, and `FeedInv` follows a price on its way: the
stored value is no older than anything published, but for a pipeline sent again
(`PipeInv`, `StoredInv`); the handler reads it only after it is registered
(`StageInv`, `SnapshotInv`); and what was published since is on the wire, in the
queue or shown (`AckInv`, `EventInv`, `QueueInv`). The attempt to prove
`LatestReachesClient` showed that an earlier form of it was false for more ticks
than TLC had: a pipeline that is sent again makes the stored price old for
clients who subscribe only then, and it is the state of that repetition
(`resent`), not that there was one, which decides what is due to them.

`ReportWorkerProofs` proves of the report builder, for any number of workers and
requests, from `WorkerAssumption`:

| theorem | says |
|---|---|
| `GoneCorrect` | `Spec => []GoneMeansStored` |
| `OneReportCorrect` | `Spec => []OneReportPerDelivery` |

*Argument.* The inductive invariant is `IInv == GoneMeansStored /\ DeliveryInv`.
`DeliveryInv` says what each step of a delivery may rely on: before the answer
nothing has been stored for it and the loop has counted every refusal, and a
worker about to delete has stored the report of a valid request. Without it a
worker could delete what it never posted.

`PortfolioBuilderProofs` proves of the portfolio builder, for any companies,
required tools, calls of an answer, turns and runs, from `BuilderAssumption`:

| theorem | says |
|---|---|
| `ContinuesCorrect` | `Spec => []Continues` |
| `ReadyCorrect` | `Spec => []ReadyIsTradable` |
| `StrandedCorrect` | `Spec => []NothingStranded` |
| `ResearchedCorrect` | `Spec => ResearchedFirst` |

*Argument.* The inductive invariant says of the table that portfolios account
for each other (`Chained`), that what one held is held by the latest or was
exited since, and that only the latest may have a trace without explanations
(`ChainInv`); of the agent, what a phase hands to the next. `SubmitInv`: one
submission at most is past the lock and the check of `saved`, it has been
allowed by the research of earlier turns, and until it is saved the briefing is
that of the latest portfolio. The last part is why `saved` matters: a second
submission of the run would account for the portfolio before the first.
`ResearchInv` dates the tools the agent's state counts, `ExplainInv` fixes that
the latest portfolio is the one explained, `CleanInv` that nothing of an agent
is left when it has returned. `NothingStranded` then follows by cases: a company
that is no longer held was exited by a later portfolio, which is ready if it has
a trace, and so has a reason to sell.

`RebalancerProofs` proves of the three modules of the rebalancer, first of a run
against the queue and the Backend, for any accounts, orders, books, plans and numbers of runs, whatever
message is lost or taken although it was refused and wherever a run breaks off,
from `RunAssumption` (ids are numbers, active accounts are accounts, an order is
pending on one account at most):

| theorem | says |
|---|---|
| `GenerationCorrect` | `Spec => []OneGeneration` |
| `ExitCorrect` | `Spec => []HonestExit` |

*Argument.* The inductive invariant has five parts beside the types. `GroupInv`:
a group holds placements of orders that the Backend has not seen, each once, and
cancellations of orders that it has, so handling one message never disturbs what
another is about. `RunInv`: an order carries the number of the run that sent it,
and until a run places orders nothing carries its number. `RequestInv`: before
an order of an account is sent, all that was seen pending there has been asked to
be cancelled, and what has been asked for is off the book or its cancellation is
on its way. `SettledInv`: in the group of an account without old messages
only placements of the run follow a placement; hence, when one arrives, no
cancellation is left on its way and by `RequestInv` the old orders are off the
book, which is `OneGeneration`. `CountInv`: the orders of the run are as many as
it has tried to send, unless one was lost, and then the exit code is not 0.

Of the orders of an account, for any portfolio, quotes, cash, holdings, band,
buffer and runs of the week, from `RebalanceAssumption` (percentages are, weights
and holdings are not negative, who has a price has an average and a deviation):

| theorem | says |
|---|---|
| `OrdersCorrect` | `RebalanceSpec => []OrdersAreSound` |
| `SharesCorrect` | `RebalanceSpec => []SharesUseBudgets` |

*Argument.* The inductive invariant is `RebalanceInv`: types, positive weights,
budgets and shares (`AccountInv`, `WeightsInv`, `SharesInv`), `SharesUseBudgets`
itself, and `PlacedInv`: every order is what the function makes of its stock and
side (`Made`), a stock has one order or buy, and what the buys have spent and
what they may still spend are the cash. `Total` is a fold of the community
modules, whose values are proved here by induction over the sizes of sets, in
the form of its least counterexample (`WellFoundedInduction` without its
operators). That limits are tradable is number theory of the tick grid: a bound
brought down to the grid of its own range stays in that range, up included.

Of the hours of the runs, for any holidays, opening and closing hours of a day,
last day that is covered and limit of starts, from `WeekAssumption` (the exchange
opens after midnight and closes on the same day):

| theorem | says |
|---|---|
| `CountdownCorrect` | `WeekSpec => RunsCountDown` |

*Argument.* `HoursLeft` counts days and hours; `AheadAre` and `HoursLeftCounts`
show that in session this is the number of the sessions from now on, as a union
of two products whose sizes are multiplied out by a bijection. From one hour of
a week to the next this number never rises (`LeftFalls`), and a session is never
the last hour of a week (`SessionsEndInWeek`). `WeekInv` then says that a run
has counted the sessions left when it started, that one that lasts into another
hour has counted no fewer than are left there and is not smooth, and that the
orders of an hour with which nothing went wrong are those of its own run. With an
exchange that opens at midnight the very first session would have no timer, which
is why the assumption is needed.

`ReadSideProofs` proves of the syncer's tables, for any number of runs at
once, editions of what the services serve, failures and kills, from
`SyncAssumption` (there is a first edition, stock codes are ordered), and of the
readers, for any rows, limits and number of commits between their statements,
from `SearchAssumption` (receipt ids and days are numbers) and the
`NewsAssumption` of `ReadSide` (articles have numbers and times, pages and lists of
paths are not empty by request, a company is not its own alias):

| theorem | says |
|---|---|
| `FreshCorrect` | `Spec => TablesAreFresh` |
| `PagesCorrect` | `ReadSpec => []PagesAreExact` |
| `GraphCorrect` | `ReadSpec => []GraphAnswersAreTrue` |
| `EvidenceCorrect` | `ReadSpec => []EvidenceIsCurrent` |

*Argument.* An action property, from the inductive invariant `StateInv /\
ReferInv /\ \A w : WorkerInv(w)`. `WorkerInv` says of the run that holds the
lock that what it has fetched is no older than any table, so a transaction never
takes a table back, and that a run without failures has brought the tables it is
past to the edition it began with. It is vacuous for every other run, which is
what the lock is for: `OnlyWorker` reduces each step to the run that takes it.
`ReferInv` keeps index, themes and aliases within the companies, none of which
is ever deleted. For the pages, `NewsInv` says that the cursor is the key of the
last row shown, and that every steady row has been shown or lies behind it. For
the graph, `AnswerInv` says what each answer was chosen from; that breadth-first
hops are distances, and that a shortest walk between seeds is a simple path that
the limit keeps, is proved by induction over lengths. For the evidence,
`SearchInv` says what has been read at each statement. Its heart are
`Family` and `RevisionFamily`, which are shown to group filings exactly as
`Corrects` does, and `TypeIsDetail`, that `TypeOf` compares a request with the
stored type or else with that of the kind.

`NewsProofs` proves of the news preprocessor, for any editions of
feeds and filings, limits, batch sizes, days, runs, failures, deaths and
outages, from `NewsAssumption` (items and filings have numbers, a filing's date
is no later than the first day unless it is published later, and the null date
lies before every day the service asks for):

| theorem | says |
|---|---|
| `CheckedCorrect` | `Spec => []CheckedMeansStored` |
| `ExitCorrect` | `Spec => []ExitIsHonest` |
| `ReportsFollowEachOther` | reports of one fiscal year are in the order of their kinds, for every closing month |

*Argument.* Three parts beside the types. `CalendarInv`: no date is later than
today, and a completed collection has both of its dates. `ListInv` is the debt of
a listing: from the moment the entries are known until the collection is
completed, every filing from the first day of the history up to today is stored
or still to be fetched, unless an article failed, in which case nothing is
completed, or the limit was reached, in which case the collection is checked
through its own first day only. That a listing starts with this debt
(`ListingOwes`) is where the cases of `CollectionPlan` meet: the days before the
window are covered by what was checked before, those within it by the answer.
`NewsInv` carries what the feeds a run has passed have settled up to its exit
code, and that the embedding ends only when no row below the watermark waits
(`NothingLeft`: the first of those that wait is on every page).
`ReportsFollowEachOther` counts the months from a report to the end of its
fiscal year: a kind of report has always the same number of them. It is the part
of `StoredFilingsAreWhole` about periods.

Of clusterer and graph builder it proves, for any articles, symmetric
neighbourhoods, `min_samples`, batches, names, failures and interleaving of the
two, from `ClusterAssumption` (articles are numbers, being near is symmetric):

| theorem | says |
|---|---|
| `LabelsCorrect` | `NewsSpec => []LabelsAreDense` |
| `GraphCorrect` | `NewsSpec => []GraphIsSound` |
| `IdsCorrect` | `NewsSpec => IdsAreKept` |

*Argument.* The inductive invariant is `ClusterInv`. `LabelsInv` is what the
labels given so far are: an article that has been expanded has labelled its
neighbours, core neighbours have one label, core articles of one label are
connected, and a border article has the label of a core neighbour. `StoreInv`
has the fact the ids rest on, that every cluster has a core article, which stays
core as articles only come. `SummaryInv` and `BuilderInv` say that as long as
the version found stale is the cluster's, its articles are those that were read,
for `Write` changes the version with the articles. For `IdsCorrect`, `PicksWell`
says of the greedy matching, over all sets of overlaps by their size, that it
picks what is preferred to everything in its way; a pair of best matches has
nothing in its way.

`BarCollectionProofs` proves every safety property of the market collector, for
any index, calendar, length of a session, page of the chart service, window of
the checkpoints, ranking and number of failures, crashes and lags, from
`BarAssumption` (time begins before the first slot the collector lives through
and ends with a close, days are numbers, limits and pages are positive, a first
collection covers a session):

| theorem | says |
|---|---|
| `TypeCorrect` | `Spec => []TypeOK` |
| `HistoryCorrect` | `Spec => []HistoryIsFinal` |
| `CloseCorrect` | `Spec => []CloseIsComplete` |
| `RankedCorrect` | `Spec => []RankedVolumesAreFinal` |

*Argument.* The collector keeps no record of what is missing, so the inductive
invariant has to say why the newest bar is record enough. `TableInv`: a table
has no hole and is final behind its newest bar. `TodayInv`: what is stored of
today begins with its first bar. `GotInv` and `ReachInv`: what a pass has
fetched is a piece of the service's history without a hole, which ends at the
present and, once paging ends, has come to the checkpoint, or as far back as a
first collection goes. `StoredIsUnbroken` is the heart: of such a piece, any
rows from the oldest on may be stored, all or as many as were sent, and
`TableInv` still holds. Its hard case is a series without a checkpoint that has
bars already, since a write of the same day was not applied when the pass read
it: `New` (in `RunInv` and `LatestInv`) says that it was then collected for the
first time today and reaches as far back as this pass does, which is where the
assumption on the limits is needed. `DoneInv`: the series a pass is through with
have today as it was when the pass began; that gives the ranking its last minute
(`EndOfRankingIsFinal`), and, since the last pass begins after the close, the
whole day (`LastPassCompletes`), which `ExitInv` hands on to the exit code.
`PassOverKeeps` and `EndKeeps` are the two ways a pass and a run end, failed or
not. That slots, days and closes fit together (`DayBounds`, `ClosesApart`,
`DayIsUnique`) is proved once, as is that sets of slots have a first and a last
member and that parts of what is served are finite.

*Only model-checked.* The liveness properties `RowsSettle`, `StreamsEnd`,
`ReportsArrive`, `RunsEnd`, `ClustersSummarised`, `CatchesUp` and `FilingsArrive`:
fairness and ENABLED are outside the prover. `StoredFilingsAreWhole` and the
functions of `FilingText`, but for the order of the reports of a year: they are
walks over documents, and what such a walk computes for every document is an
induction over data. All other properties of all runs have a theorem.

## 7. What is not modelled

* **news-http's cluster detail, search for entities and recent news,
  market-http's candles, ranks, themes and other endpoints**: queries without
  state of which each answer is one statement or independent ones. What they
  read is covered by the writers' modules.
* **market-collector**: the quotes of the index (`index:KOSPI`), which take the same
  way, and the parsing of answers. No run crosses a night, the WAL lag never outlasts
  the minute before a restart, and the start limit (5) is above `MaxFaults`.
* **news-preprocessor**: start and end dates given by hand, the amounts of
  the financial statements, the HTML of the publishers beyond what decides
  whether a page is an article. Filings are published between runs, which comes to
  the same as during one; no run crosses midnight.
* **rebalancer**: `test_mode`, QuestDB's queries. In `TradingWeek` an hour is the
  unit of time, and the start limit counts since the timer's last start instead
  of over a sliding hour.
* **disclosure-retrieval**: the order of the passages within an answer and the
  amounts of financial facts.
* **Prompts, LLM answers, embeddings, weights, texts**: data. A model of them
  would be a choice anyway; the models choose where the code branches on them.
* **telemetry, aws, logging, migrations, deployment, OpenAPI examples**: wiring.
  The tables' constraints and the units' restart rules are used where
  they matter.
* **Floating point** in `Rebalance`, **partial fills** of an order, and
  arithmetic overflow (Python integers have none).
* **A commit whose acknowledgement is lost**, in all modules with a database:
  the transaction is applied and reported, or neither.
* **An operator's manual changes**, such as deleting a portfolio row to unblock
  the builder or running SQL by hand. A second run started by hand is modelled
  in `DisclosureIndex`, since nothing in the code forbids it.

## 8. Observations

Not findings against the code, but what a reader of models and docs should know.

* Under the asynchronous order queue a run started again after a failure may
  not see its own orders of five minutes ago: they are neither pending nor held
  while they wait in the queue. `OneGeneration` is therefore stated for
  accounts whose queue was empty at the snapshot. The portfolio-rebalancer
  design (`docs/superpowers`) says that a pending order stops a duplicate; it
  predates the queue.
* Buys are funded from the cash of the snapshot and never from the proceeds of
  the same run's sells, so a week may end with an unfinished rotation although
  the last run trades at the market.
* A portfolio whose trace was lost by a kill between the save and the trace is
  not taken up again by `load_unexplained`, which asks for a trace; the next portfolio
  accounts for its holdings (`Continues`), but its exits stay without a reason,
  and the rebalancer logs them as `leftover_without_reason`. `NothingStranded`
  excepts exactly these companies.
* What langgraph keeps of a finished call when its sibling raises follows the
  test of a saved portfolio that stays saved; whether the result of a call that
  was still running is kept is left open in `Abort`.

* A pipeline of the streamer is not a transaction, and redis-py repeats it as a
  whole when the replies are lost. With two ticks of a stock in one message the
  repetition stores the first price again after the second was published; a
  client that takes its snapshot just then sees the older price, and keeps it
  until the repetition, or the next tick, has come through.
  `LatestReachesClient` excepts these keys until a pipeline has come to its last
  price again (`resent`).
* A rotation loses events that were published before the new connection's
  SUBSCRIBE and not read from the old one; no document claims otherwise.
* An outage of the embedding server of some ten minutes moves the first batch of
  articles to `dead_letter` (three runs, five minutes apart), and nothing
  processes it again.
* A filing whose title names no period its kind can have fails every day and keeps
  `checked_through` where it is. The days between are listed again until they
  fall out of `HISTORY_DAYS`; `FilingsArrive` shows that no other filing suffers.
* A company that gets a new stock code under the same `corp_code` makes every
  later run of `sync_corporations` fail on the unique code, since the old row is
  not removed; the run ends with an error, and themes and index go on.
  An alias stays with the company that had it first.
* Between the transactions of the index and of the themes the tables are of two
  answers, and a theme may be missing from a list in between. A page without its
  array field counts as empty.
* news-http's `get_paths` looks up entities after the statement that found the
  paths; if the graph was rewritten in between, the lookup fails with a KeyError,
  which is a 500 and is counted as "failed" in `NewsReads`. A cluster whose newest
  article changes during a walk may be on two pages or on none, which
  `PagesAreExact` excepts (`steady`).
* A correction stored between the two transactions of a search is kept out of the
  latest evidence and turns up as history, newer than the reports it is listed
  under. A correction without a text hides the sections and facts of what it
  corrects.
* A rebalancer run of the last hour that fails and is started again after 16:00
  finds the market closed and ends with code 0: that week has no market orders,
  although nothing alarms. Runs from 15:30 to 15:59 order after the close.
  `RunsCountDown` is stated for weeks whose last start did not fail (`smooth`).

## 9. Plan

What is left, in this order; each step leaves the project complete.

1. market-http's readers of themes and ranks against the transactions of
   `MarketSync` and `BarCollection`; news-http's cluster detail, whose statements
   are of several moments.
2. `NewsPreprocessor` composed with `DisclosureIndex` through `Collect`.

None of these modules declares a RECURSIVE operator, so theorems can be
stated about every one of them; loops of the code are actions, and sums are
folds of the community modules.
