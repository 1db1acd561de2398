# Verification of khabargozin

khabargozin reads Persian news channels, groups messages that report the same
story into *clusters*, asks a language model about each cluster, and posts the
result to a Telegram channel. This directory holds TLA+ models of the parts of
it where tasks, processes and failures interact, TLC configurations that check
them on small instances, and proofs that TLAPS checks for every instance.

Paths below are relative to the repository. "The plan" is
`.cursor/plans/khabargozin_architecture_plan_ffeaf116.plan.md`.

## 1. The system

### How it runs

A Celery worker with **concurrency 1** executes every periodic task; beat
enqueues them; the admin panel (uvicorn) and the operator's scripts run beside
the worker. They share a PostgreSQL database (READ COMMITTED) and a Redis
server. SQLAlchemy sessions are opened with `autoflush=False`; a commit expires
every loaded object. `app/db/models` is not in the repository: columns and
constraints are taken from `migrations/versions/001..003` and from their use.

    ICA gateway --fetch--> messages --cluster--> clusters --threshold--> ai_ready
       --AI task--> ai_results --gates--> reject | hold_queue | publication_outbox
       --batch/fast--> Telegram channel, publications

### Components

| component | state it keeps | operations | what makes it correct | hard part |
|---|---|---|---|---|
| publication outbox (`publisher/outbox.py`, `tasks/publish.py`, `resilience/locking.py`, `duplicate_guard.py`, `reconcile.py`, retry and reconcile scripts) | `publication_outbox`, `publications`, `clusters.status` | enqueue, batch publish, fast publish, cleanup, retry, reconcile | one post per cluster, a ledger that agrees with the channel, nothing in dry-run mode, few similar stories at a time | a send is not transactional: crashes, lost answers, two sessions |
| cluster lifecycle (`tasks/cluster.py`, `clustering/merge*.py`, `graph_cluster.py`, `tasks/ai.py`, `publisher/routing.py`, `publisher/hold.py`, `admin/review.py`, reprocess scripts) | `clusters`, `messages.cluster_id`, `ai_results`, `hold_queue` | attach, create, split, judge, analyse, hold, promote, expire, reject, reprocess | rows that different tasks write agree; a held story is neither analysed nor posted; every message, score and hold gets its turn | slow calls between reading and writing a row; tasks that die |
| publish gates (`ai/guardrails.py`, `publisher/tracks.py`, `should_hold*`) | none | `check_guardrails`, `route_track`, `should_hold` | the gates agree on every answer; more evidence never hurts | seven thresholds in three functions |
| lineage (`clustering/lineage.py`) | none | `recalculate_independent_sources` | copies of a primary source count once | called before the new message is flushed |
| fetching (`tasks/fetch.py`, `fetcher/`, `redis_buffer.py`) | `messages`, `sources` cursor, Redis list | dispatch, fetch a source, buffer, flush | nothing between two fetches is lost, rows never regress, every source is fetched | pagination, late messages, rollback in mid-batch, pop before commit |
| task locks and schedule (`task_lock.py`, `celery_app.py`) | Redis keys with a TTL | acquire, release, bootstrap | a task starts only while nobody who still has the key runs it | TTL shorter than a task, release by a non-owner, restart |
| supplements and retractions (`supplemental.py`, `retraction*.py`) | `publications.is_retracted`, supplemental outbox rows | hold on a numeric contradiction, edit and announce, retract, correct | rows and channel agree; no message blocks the others for good | calls to Telegram in the middle of a transaction that may roll back |
| graph reconciliation (`graph_cluster.py`, `tasks/reconcile.py`) | `messages.cluster_id` | split a cluster into components | partition by similarity | union-find |
| AI client and parser (`ai/`) | the sum of `ai_results.cost_estimate_usd` | analyse, parse, monthly circuit breaker | the overshoot of the budget is bounded; a broken answer never goes out at once | cost recorded with the answer, or not at all; tasks that overlap |
| Telegram bot (`bot.py`, `telegram_retry.py`, `formatter.py`) | none | send, edit, retry | at most the retries configured | an answer lost after delivery |
| threshold and scoring (`threshold.py`, `scorer.py`, `confidence.py`) | `cluster_score`, `cluster_confidence`, `cluster_stability` | score a cluster, compute the threshold, judge | what passes is corroborated, what is corroborated is trusted | queries that do not see the row being written, percentile and clamps |
| similarity features (`clustering/*`) | pgvector columns | embeddings, entities, fingerprints, reranking | statistical | floating point, no state |
| admin panel, archive, configuration, audit, operator reports | | | | |

They interact through rows only. Fetching inserts messages. The clustering task creates and changes
clusters; the AI task picks `ai_ready` ones and either puts them in
`hold_queue`, or routes them, which writes the outbox row in the same
transaction and, on the fast track, sends it there and then; the hold check
promotes or expires; the batch task sends. The reviewer and the scripts write
the same columns at any moment.

## 2. Modules

| module | models | composed with |
|---|---|---|
| `Outbox` | the outbox protocol, in full detail: row lock, identity map, flush, send, commit | refines `PublishOnce` |
| `PublishOnce` | the abstract promise: a cluster is posted at most once, then recorded at most once | |
| `Gating` | the three gates as operators | used by `Clusters` and, through `Parser`, by `Analysis` |
| `Lineage` | the count of independent sources as an operator | used by `Clusters` and `Judging` |
| `Clusters` | the life of a cluster through every task | EXTENDS `Gating`, `Lineage`; a sender of `Outbox` is two steps, load and send |
| `Fetch` | dispatch, fetch of a source, Redis buffer | `Arrive` of `Clusters` is what a commit of `Fetch` adds |
| `TaskLock` | the Redis lock: expiry, death of its holder, deletion by anyone | refines `Lease` |
| `Lease` | the abstract promise of a lock with a time-out | |
| `Parser` | what becomes of the text the model returns | EXTENDS `Gating` |
| `Analysis` | the AI task run by several processes: budget, attempts, what overlapping writers leave | EXTENDS `Parser`, `TaskLock`; `CallModel` of `Clusters` is its attempts |
| `Judging` | cold start, score, threshold, confidence and stability of clusters | EXTENDS `Lineage`; the choices of `JudgeScored` and of the doubts in `Clusters` |
| `Supplements` | what joins a published story: holds, edits, retractions, corrections | `AttachPublished` of `Clusters` is its transaction |
| `MCOutbox`, `MCClusters`, `MCFetch`, `MCAnalysis`, `MCJudging`, `MCSupplements` | values for TLC | |
| `OutboxProofs`, `FetchProofs`, `AnalysisProofs`, `SupplementsProofs`, `ClustersProofs`, `JudgingProofs`, `LineageProofs` | theorems | each EXTENDS the module it is named after; `AnalysisProofs` also proves about `TaskLock`, and `ClustersProofs` and `JudgingProofs` use `LineageProofs` |
| `SetSums` | lemmas about sums, least and greatest elements of finite sets | used by `OutboxProofs`, `SupplementsProofs`, `JudgingProofs` |

A definition that nothing uses and that stands just before a similar one
(`NewStatusQueued` before `NewStatus`) is a **faulty variant**: `PROJECT.json`
lists the property that must fail when it takes its neighbour's place. Every
property of a passing run has one.

### Outbox

*Sessions.* `Workers` are database sessions of the worker (the batch task and
the routing of the AI task share one, since concurrency is 1); `Scripts` are
runs of `scripts/retry_publish.py`. A step is the code between two points where
another session can be noticed: loading an ORM object, getting the row lock,
the Telegram call, the commit.

*State.* `status`, `track`, `created`, `cluster`, `pubs` hold **committed**
values. What a session flushed without committing is only in its `pc` and
`seen`, so a crash loses it (`Crash` = `Rollback`). `cluster` is the cluster's
status, as far as the outbox cares: `published` or anything else; `seen` is what
the session loaded of it, `routed` if it has itself set and flushed `ai_done`
and therefore holds the cluster's row. `copy` is the row's status in the
session's identity map: `LoadNext` reloads it because the previous commit
expired the object and the loop reads `item.id`; `OutboxLock` waits for the row
lock but does not refresh it, since the query in `locking.py` has no
`populate_existing`. `posts` is what the channel shows.

*Actions.* `EnqueueInitial`, `PublishBatchQueue` (cleanup included),
`FastRouting`, `RetryPublish`, then one item at a time: `LoadNext`, `SkipItem`,
`CancelDuplicate`, `StartSending`, `SendDelivered` / `SendRefused` /
`SendAnswerLost`, `CommitSent` / `CommitFailed`, `EndLoop`; and `Crash`,
`ReconcileUnknownOutbox`, `SwitchMode`. `FastRouting` is
`apply_publish_routing` of any cluster that has a row, whatever became of it:
`scripts/reprocess_cluster.py` brings back published, held and rejected ones.
`StatusRewritten` stands for everything that takes `published` away without
looking at the outbox: the numeric hold (`supplemental.py:50`), the review
(`review.py:75`), the script and the analysis it asks for. A routing that holds
the cluster's row and waits for the outbox row, and a session that has posted
and waits for the cluster's, block each other (`Deadlocked`); PostgreSQL aborts
one of them (`DeadlockAborts`). `telegram_retry`'s loop is part of one
send. A new row on the fast track in live mode never commits (see finding on
`routing.py:67`), hence the guard of `EnqueueInitial`.

*Abstracted.* Which texts are similar (a symmetric constant relation), the
48-hour window and the retraction test of the duplicate guard, batch interval
(a free choice between publishing and skipping a turn), wording, audit rows.
A hold check that routes several clusters to the fast track in one transaction
is modelled as one routing each.

### Clusters

*Jobs.* The worker runs one task at a time: `job` is that task and its place,
`inbox` and `queue` what it has still to visit, `seen` what it loaded before a
slow call (reranker, model). The ORM writes an attribute only when the new
value differs from the loaded one, so a write is `Flushed(old, new, now)`: if a
task assigns the value it loaded, whatever another process committed in between
stays. That is how a human rejection during a model call survives one outcome
and is overwritten by another.

*State.* One variable per column that decides something: `home`
(messages.cluster_id), `status`, `locked`, `indep`, `analysed`, `aiCount`,
`answer`, `hold`, `expired`, `outbox`, `pub`. `loaded` are the clusters whose
outbox row a sender has loaded as sendable and not yet acted on, `overwritten`
(history) those whose sent row was afterwards marked as failed.

*Actions.* `Arrive` (fetch commits a message); `StartClustering`,
`SearchTarget`, `AttachOpen`, `AttachPublished`, `CreateCluster`,
`PlaceElsewhere`, `JudgeScored`, `CommitThreshold`; `ReconcileOpenClusters`;
`StartAnalysis`, `SkipCluster`, `CallModel`, `ModelFails`, `HoldAnswer`,
`RouteAnswer`, `RoutingRaises`, `EndAnalysis`; `StartHoldCheck`,
`CheckHoldConfirmations`, `HoldCheckRaises`; `Expire`; beside the worker
`Publish` (a sender alone with the row), `LoadRow` and `PublishLoaded` (one that
loads the row, waits for another sender and acts on what it loaded: both end in
`ItemSent`), `SubmitReview`, `ReprocessCluster`, `RetryAiFailed`; `TaskDies`.

*Abstracted.* Which cluster a message resembles, whether a scored cluster
passes the threshold, what the model answers and whether the cluster's own
metrics ask for a hold are choices. `"elsewhere"` stands for every cluster that
is not followed. The clustering warm-up (`should_skip_clustering`) is over and
`CLUSTER_BATCH_SIZE` holds every pending message.

### Fetch

*Time* is a discrete clock (`Tick`), because everything here compares
timestamps: the overlap window, the lookback, the order of dispatch. `Overlap`,
`Lookback`, `PageSize`, `MaxPages` are the settings of the same names. The
gateway may show a message up to `Delay` after `published_at`.

*State.* `stored` is the committed table `messages` as the version (number of
edits plus one) of each row; `draft` is the session's view, with what it has not
committed. `phase` is the running task's place (concurrency 1, so there is
one), `batch` the messages still to upsert. `buffer` is the Redis list.

*Actions.* `Tick`, `Post`, `Edit` (the channels), `ToggleSource`;
`StartDispatch` or `StartFetchAll`, then `FlushPayload` for each payload, then
`DispatchFetch` or `FetchAllSources`, which end the flush (committed, or rolled
back by a failing statement with the payloads popped so far); `SkipFetch`,
`StartFetch`, `FetchMessages`, `UpsertMessage` / `BufferMessage` for each
message newest first, `CommitFetch`; `FetchRaises`, `WorkerDies` (any task,
anywhere; the restart may purge the queue), `LockExpires` (TTL or bootstrap).

*Abstracted.* One request returns all pages: a message posted or deleted between
two pages shifts them. Content; retries within a request; tasks of the broker
are a set, so two tasks of one source are one. `last_message_id` decides
nothing: the test it appears in (`ica_client.py:79`) repeats the one before it.

A failing statement is no rare event: `messages.url` holds 512 characters
(`001_initial_schema.py`) and the link is taken from the text unchecked.

### TaskLock, Analysis and Parser

*TaskLock.* Redis stores the value "1" for every process, so `key`, which says
who set it, and `lost`, the running processes whose key is gone, are history:
the code cannot read them. `Acquire` is `SET NX EX`, `Release` the `finally`
that deletes whatever key is there, `KeyExpires` the TTL, `Die` a process that
is killed. A task that finds the key returns at once.

*Parser.* `Whole`, `Recoverable` and `Defaults` are the three stages of
`parse_cluster_output`: JSON that validates, a headline or summary that a
regular expression finds, and the defaults every other field then gets.

*Analysis.* `todo`, `at`, `paid`, `seen` are per process: the clusters it
loaded, the one it asks about, the attempts made and the row as it was loaded.
`BreakerTrips` is the breaker that opens in mid-batch, `AskAgain` the
`AI_JSON_MAX_RETRIES` loop, `AnalysisFails` an exception, `HoldAnswer`,
`RouteAnswer`, `RoutingRaises` the outcomes of one commit with writes as in
`Clusters`. `recorded` is the sum the breaker reads: attempts that end in an
exception or a rollback are not in it. `SourceJoins` and `RetryAiFailed` are
the clustering task and the script beside it.

*Abstracted.* One month; an attempt costs one unit, for a prompt and an answer
of bounded length; the reviewer, expiry and the batch are in `Clusters`.

### Judging

The session does not autoflush, so score and metrics of the cluster a message
joins are computed by queries that do not find that message: `Visible(m, c)` is
`Members(c)` before the join. `MergeIntoCluster`, `MergeIntoPublished` (no score)
and `NewCluster` are one commit each, with the audit row and the metrics;
`StartTask` computes the threshold once, `JudgeScored` applies it to every scored
cluster, `Restart` resets the warm-up. `ReconcileOpenClusters` splits open
clusters, scored ones included: the old cluster keeps its score and gets new
metrics, the new ones get metrics and no score. `developing` are the stories whose
phase a numeric contradiction ended, which shifts a weight of the confidence; `joined` (history) is every
message a cluster ever had. Scores are in ten-thousandths of a point, so that only the
divisions that the code does in floating point round. The rest of the program
changes statuses: `Analyse`, `CheckHold` (whatever the status of the row in
`held` has become), `Publish` (whatever that of the one in `queued`), and at any
time `SubmitReview` and `ReprocessCluster`, which makes any cluster `ai_ready`.

*Abstracted.* Which cluster a message joins and how similar it is; the 24 h and
6 h windows (everything falls in them); the 200-row limit of the percentile; the
similarity graph of the reconciliation; how the steps of the other tasks
interleave, which `Clusters` shows.

### Supplements

`task` is the place of the clustering task in `_process_message` and all its
transaction has staged; `placed`, `status`, `retracted`, `rows` are committed;
`post`, `edits`, `notices` are what the channel shows and cannot roll back.
`HoldNumeric`, `DropSupplement` and `AddSupplement` are the outcomes of
`process_supplemental`, `Detect` chooses the candidates for a retraction,
`LeaveStory`, `RetractStory`, `CorrectStory` judge one; `Deliver`,
`AskedToWait`, `CallRaises` are the outcomes of one call of Telegram within
`publish_with_retry`; `Raised` is the exception that leaves the task. `muted`
records what was committed in a dry run, when nothing is sent.

*Abstracted.* One worker; the release of a held story by the reviewer (in
`Clusters`); similarity and what the model says of a message. A message is
numbered by `published_at`, and an event key keeps the first hundred characters
of its text only, hence `Prefixes`. Telegram refuses an edit that leaves the text
as it is, so an edit that is repeated word for word raises: in the model that is
one of the failing calls (`CallRaises`), possible at any edit and bounded by
`MaxFaults` like the others, and not forced at a repetition.

## 3. Runs

| run | question | result |
|---|---|---|
| `outbox` | worker and retry script together, crashes, lost answers, refused sends, deadlocks, rewritten statuses, mode switches: what survives, and is every pending batch row processed? | all six properties hold |
| `outbox_alone` | one publisher, no crash: does the outbox keep its promise? | `SimilarPublishedBounded` and the refinement `PublishesOnce` hold |
| `outbox_two_sessions` | is a cluster posted once when a script runs beside the batch? | violated |
| `clusters_one` | do the rows written by every task stay consistent? | all six properties hold |
| `clusters_live` | does every message, score, ready cluster and hold get its turn? | holds (dry-run mode) |
| `clusters_held_posted` | is a held cluster kept from the channel? | violated |
| `clusters_poison` | does every hold end in live mode? | violated |
| `fetch` | does a fetch bring back what it owes, and do rows only move forward? | `CleanFetchLeavesNothing`, `RowsNeverRegress` hold |
| `fetch_live` | is every source fetched? | `SourceIsFetched` holds while no source fails for ever |
| `analysis` | two processes run the AI task under a lock that may expire: what may overlap, what does it cost, what do the rows say, and do the gates agree on every answer recorded? | all seven properties hold, the refinement `LeaseKept` among them |
| `judging` | what does the threshold let pass, through merges, splits, reviews and scripts, and does the hold gate agree with it? | all four properties hold |
| `supplements` | calls fail, the worker dies, the mode changes: does the channel show what the rows say, and is no message stuck? | all six properties hold |

Some of the properties that hold say something a reader of the code may not
expect. `LoneStoryDoesNotPass`: because a new cluster is scored without its
message, the threshold passes no story that one message alone reports, however
credible its source; what a split leaves of a larger story may pass, and a script
may send any cluster to the AI. `RepeatsAreBounded`: a cluster can be posted
again, but at most once for each session and each fault. `SimilarPublishedBounded`
counts the similar stories that are `published` *at the same time*: a posted one
that was put on hold is not seen by the guard and not counted. `DoneIsQueued`
does not say that an `ai_done` cluster will be sent: its row may be an old one,
cancelled or sent. `PublishedIsSent` names its exception, a row that an
overlapping sender marked as failed. `BreakerOvershoot` is the honest form of
"the budget is respected", and `LedgerBacked` of "every post is recorded": the
posts without a publication are at most the crashes, refusals and lost answers.

### Bounds, and why they are enough

- *Outbox*: two or three rows, two of them similar; one worker session and one
  script session; `BatchLimit` 1 where the code has 5, so that the limit binds;
  `MaxFaults` 2 in `outbox` and 3 in `outbox_alone`. Every pair of a fault and
  another session's step, a fault followed by a retry, and a deadlock, which
  counts as a fault, happens within these. `FastRouting` needs a fault to spare:
  a routing that the last fault cannot abort would post without bound.
  `posts`, `pubs` and `created` are not bounded by a guard of their own:
  the faults bound the number of sends.
- *Clusters*: `clusters_one` follows one cluster and three messages of three
  sources, with reviewer, scripts and one death of a task; other clusters are
  "elsewhere", so what a task does to them is a choice. The safety properties
  are about one cluster each. `clusters_live` follows two clusters and an
  `AiLimit` of one, so that a task's queue holds more than one and a skipped
  cluster can fill the query of the AI task.
- *Fetch*: three messages on pages of one and at most two pages, so that the
  page limit cuts a listing; an overlap of 2 and a delay of 1 on a clock of 3,
  so that a message can be late within and beyond the overlap, and grow older
  than the lookback; one message edited twice, one failing statement and one
  other fault. Unedited messages are interchangeable (`SYMMETRY`, sound there:
  no liveness is checked). `fetch_live` has two sources, so that the dispatcher
  has a choice. With the clock at its bound every fetch time is the same, which
  is why the liveness asked is a first fetch and not a recurring one.
- *Analysis*: two processes and two clusters, so that each can hold a cluster
  the other writes; a budget of two and two attempts per answer, so that it is
  passed in mid-batch and by both; five answers, which between them are held,
  rejected, batched and sent at once depending on the sources, one of them
  truncated and one beyond recovery; one or two sources (no gate tells more
  apart, and a cluster that is analysed has at least one). Processes and
  clusters are interchangeable.
- *Judging*: three messages of three sources with the highest, middle and lowest
  seeded credibility, one of them a copy, at times that give each step of the
  speed score; three clusters, so that the percentile has a choice; the cold
  start ends at two messages and two clusters where the code has 50 and 20;
  similarities are the default ones (the threshold `CorroboratedIsTrusted`
  speaks of), full speed is three messages; reviewer and scripts act once
  (`MaxActs`). Every other number is the code's. Clusters are interchangeable
  (`SYMMETRY`, no liveness).
- *Supplements*: two stories, three messages of which two begin alike (one
  event key), two attempts where the code has three, so that the last one is
  reached, and two faults. `MaxFaults` bounds what may go wrong, not the steps.
- `Operated = FALSE` in the liveness run of `Clusters`: a reviewer who resets a
  row infinitely often defeats any liveness.

Deadlock is checked in every run.

### Fairness

- *Outbox*: beat enqueues the batch task for ever and the worker takes its
  queue in order, so `PublishBatchQueue` is strongly fair (between two turns the
  worker is busy). A running session goes on (weak). PostgreSQL grants row locks
  in request order, so the step that takes one is strongly fair, and ends a
  deadlock after a second (weak). Nothing is
  assumed of the script or the operator.
- *Clusters*: the three periodic tasks are strongly fair (the worker is idle
  again and again, each is enqueued again and again), a running task goes on
  (weak), time passes (`Expire`). A task dies finitely often (`MaxFaults`): a
  task that dies every time makes no progress, and head-of-line blocking by a
  task that *raises* every time is what `clusters_poison` shows.
  `ReadyIsAnalysed` is asked in dry-run mode, where routing does not raise, and
  excepts a cluster in front of which skipped ones fill the query.
- *Fetch*: beat dispatches for ever and the worker takes queued tasks in turn
  (strong: between two turns it is busy), a running task goes on, a lock's TTL
  ends (weak). `fetch_all_sources` is manual and not fair.
- *Supplements*: beat queues the clustering task for ever and the worker runs
  what is queued, so the task's own steps are weakly fair together. Calls fail
  finitely often: one that always fails does block every message behind it.
- `PendingIsProcessed` is asked only while the mode stays live for good.

## 4. Proofs

`Outbox`: for any finite set of rows and any number of sessions; the only
assumption is `OutboxAssumption` (sets disjoint and finite, `Similar` symmetric and
irreflexive, types of the switches).

1. `TypeCorrect`: type correctness, one lemma per shared piece (`Rollback`,
   `CommitItem`, `BeginLoop`) and one step per action.
2. `SendsAreSerialised`: `SendsSerialised` is not inductive: from `loaded`, the
   session might send with no item at all. `LockInv` adds that a session about
   to lock has an item. `OutboxLock` requires the lock to be free and
   `StartSending` takes it, and only its holder releases it.
3. `LedgerIsBacked`, `RecoveryNeverEngages`: from
   `LedgerInv`, the conjunction of the two with `InFlight`, which counts the
   post that is on the channel and not yet committed. The lock invariant is what
   makes `InFlight` at most one per row: two sessions at `posted` on the same
   row would let both commit for one unit of the difference. `NeverLeftSending`
   is in the invariant because the reconcile script would otherwise add a
   publication that an earlier lost post does not back twice. The other half of
   `LedgerBacked`, that the unrecorded posts of all rows together are at most
   the faults, is a sum: `LossStep` says what a step may do to it (lose at most
   as many posts of one row as it counts faults), and each action is an instance.
4. `OutboxPublishesOnce`: with a single publisher, no crash and no lost answer,
   every behaviour of the outbox is one of `PublishOnce` (`posts` and `pubs`
   are the refinement mapping). The invariant is `AloneInv`: posts and
   publications are a function of the row's status, and the only session's copy
   of the row is fresh. `SendDelivered` maps to `Post`, `CommitSent` to
   `Record`, everything else to a stutter. The run `outbox_two_sessions` shows
   that the single publisher is needed.
5. `SimilarStoriesBounded`: for any number of sessions. `SimilarInv` counts the
   clusters of one story that are published together with those that a session
   past the guard still holds (`OnShow`): a session that passes the guard found
   none published, so at that moment each of them has a session of its own.
6. `RepeatsStayBounded`: `WithinBudget` charges a cluster with the posts it has
   and those that can follow without another fault: one for every session that
   holds an old copy of a closed row, one for every session of an open one. Only
   a fault opens a closed row again.
   `RepeatsTakeFaults`: with a single publisher, crashes and lost answers
   allowed, the posts beyond the first of every cluster are together at most the
   faults. `SingleInv` (the copy is fresh, so publications follow the status)
   makes a repeated post an unrecorded one, and `LedgerIsBacked` counts those.
   `SentRowsAreFinal` follows from the same invariant.
7. `DryRunIsSilent`: no session is in the middle of anything in dry-run mode
   (`DryRunIsIdle`), because the mode changes only by a restart.

`Fetch` (`FetchProofs`): for any finite set of messages, any sources, overlap,
lookback, page size, page limit and number of faults, from `FetchAssumption`.

8. `TypeCorrect`.
9. `RowsAreMonotone`: the invariant is `DraftIsNewer`, a session's view is never
   older than the committed rows. `RowSteps` reduces every action to one of four
   things a step can do to the two (nothing, commit, give up, upsert).
10. `CleanFetchesLeaveNothing`: three parts. `CompleteCollects` is the arithmetic
   of the page limit: when the backfill is reported complete, a message in reach
   has fewer newer ones than the pages hold. `FetchInv` says that while a
   complete fetch without a failed statement is stored, each message in reach is
   still in the batch, in the session's view, or too old; it needs the sources
   and fetch times of a listing to stay put while the channels move on
   (`ChannelStepKeeps`). `DueIsReachable` is the arithmetic of the overlap.

`TaskLock` (in `AnalysisProofs`): for any processes.

11. `LockImplementsLease`, `HoldersAreAlone`: the invariant says that whoever is
   inside and has not lost its key is the one the key belongs to; so a key that
   is free means that nobody has the lease, and one that is deleted by another
   process moves its owner to `lost`.

`Analysis` (`AnalysisProofs`): for any finite sets of processes and clusters,
any budget, attempts, limit and answers; the gates need the order of the
thresholds (`GatingAssumption`) and nothing else.

12. `SpecTypeOK`; `TasksKeepLease` from `LockImplementsLease`, since every step
   is one of the lock or leaves it alone.
13. `BudgetIsBounded`: the recorded sum says nothing of the calls under way, so
    the invariant, `Charged`, charges every process that asks the model all the
    attempts it may still make. A process is charged only while the breaker is
    closed, and its record then takes no more than its charge.
14. `OverlappingWritersAgree`: with the fact that a row loaded by a process
    before its call has `ai_ready` or what another process put in its place,
    and that nothing unsets an outbox row, an answer or a count.
15. `FastNeedsNoReview`, `FragmentsWait`, `EvidenceHelps`: of every answer the
    parser can return, through `ParsedOutput`, whatever the text was.

`Supplements` (`SupplementsProofs`): for any stories, messages and faults.

16. `HeldIsNotRetracted`, `RetractionsAreMarked`, `RecordsAreShown`: `TaskInv`
    relates what the transaction has staged to its place (a story staged for
    retraction is published in the session, and not the one it holds), `ShownInv`
    what is staged to what the channel already shows: the mark of a staged
    retraction, the edit once its announcement is next, both once the purpose is
    over. An exception drops the stage and keeps the channel, which is why the
    properties speak of recorded rows only.
17. `RepeatsNeedFaults`: the repetitions of all event keys are a sum. `SpentInv`
    bounds the edits of each key by the faults, but for the first one when a row
    records the key or the open transaction is about to (`Claimed`): a
    transaction that edits claims its key, which `FreshInv` says was free, and
    one that rolls back gives the claim up and counts a fault.

`Clusters` (`ClustersProofs`): for any messages, sources, copies, clusters and
answers. The invariant has four parts, each inductive given those before it.

18. `SpecTypeOK`, with `WorkInv`: a task in the middle of something has the
    cluster and the message it is about.
19. `DoneClustersAreQueued`, `PublishedClustersAreSent`: `RowsSound`, for every
    outcome of `apply_publish_routing`, every pair of a loaded and a committed
    value that a flush may keep, and every sender that acts on an old copy of the
    row (`overwritten` is what such a one may leave).
20. `HoldsAreAnswered`, `LocksAreExplained`: need `HoldsSeen`, that nothing locks
    a held cluster while the hold check runs with what it loaded.
21. `CountsTrailByOne`: `PlacingInv` (what the task still has to place is
    pending and its target exists), `EmptyInv`, and for the reconciliation that
    a cluster keeps all its members or is recounted.

`Lineage` (`LineageProofs`): for any set of messages.

22. `RepetitionAddsNothing`, `PrimariesCount`, `OrdinaryCopiesCount`,
    `OrdinaryReportsNeverLower`: what `recalculate_independent_sources` counts,
    and what it does not.

`Judging` (`JudgingProofs`): for any messages, sources, clusters, weights,
keywords, times and settings that `JudgingAssumption` allows (credibility between
0.1 and 1.5, percentile at most 100, the fixed threshold between the clamps).

23. `SpecTypeOK` is about the numbers: each part of a score and of a confidence
    is in its range (`ScoreRange`, `ConfidenceRange`), and a percentile exists
    (`OrderStatistic`: of the values a function takes on a finite set, one has
    at most `i` members below it and more than `i` up to it).
24. `SomeStoryPasses`, `ThresholdInBounds`: the percentile is the score of a
    scored cluster (`PercentileIsAScore`), and only the task's beginning sets
    the threshold (`ThresholdSteps`).
25. `LoneStoriesStayOut`: `MembersInv` (what the task has yet to place is still
    pending, and a row exists exactly when the cluster has messages) gives that
    the message that joins is a new member; `PassedInv`, that a scored cluster
    had several messages (`joined`) or has the score of none, 2.8 points
    (`ScoreOfNone`), which the threshold, always in bounds, does not pass. A
    split takes members but not what once joined. Its hypothesis is
    `MinThreshold > 28000`; the default is 55000.
26. `CorroboratedAreTrusted`: `MetricsInv`, that the confidence of a cluster that
    was ever merged into is computed from its members but one, or after a split
    from all of them, with the default similarities or those `cluster_debug`
    shows, and with the weight of either story phase. What remains is arithmetic; the mean is at
    least 65 only if the average credibility is 13 of 100 or more, hence the
    hypothesis that no source weighs less than 0.2 (the seeds weigh 0.7 and more;
    the column's default is 1).

*Sums* (`SetSums`). Scores, ledger and repetitions add up over sets
(`MapThenSumSet`), which the community modules define by recursion on a set.
The induction principles of the library take an operator as a parameter and
cannot be used here; but `WFMin` says that a non-empty set has a minimal element
under a well-founded relation, and the strict subset order of the subsets of a
finite set is one. So whatever holds of the empty set and of every set that it
holds of without the element picked, holds of every subset (`SetInduction`,
about a *set* of subsets). `TotalStep` is the recursive equation of the sum;
`TotalType`, `TotalBounds`, `TotalGrows` and `TotalMonotone` follow from it, and
`Extremes` gives least and greatest elements the same way.

*From which assumptions.* Each module's own `...Assumption`, which TLC evaluates
in every run, and the hypotheses named above. `SupplementsAssumption` asks that
the set of event keys be finite, `JudgingAssumption` that the markers "absent"
and "pending" be no clusters: both hold of any data the program can meet.

*Only model-checked*: the liveness properties `PendingIsProcessed`,
`MessageIsClustered`, `ScoredIsJudged`, `HoldIsReleased`, `ReadyIsAnalysed`,
`SourceIsFetched` and `MessageIsPlaced` (fairness and ENABLED are out of the
prover's reach). Every invariant and action property of the passing runs is a
theorem. No module uses a RECURSIVE operator.

## 5. What the checks found

Each of these is a violation run (see `findings` in `PROJECT.json`).

1. `outbox_two_sessions`: the row is locked but judged by the attributes loaded
   before the wait; `retry_publish.py` beside the batch posts a cluster twice.
2. `clusters_held_posted`: a cluster re-analysed into a hold while its outbox
   row is pending is posted all the same.
3. `clusters_poison`: in live mode a hold promoted to the fast track raises
   (the new outbox row has no id), and the one transaction of the hold check
   rolls back every release, every time.

Divergences noticed without a run of their own. Publishing:

- `outbox.py:158`: `sending` is flushed, never committed before the send, so a
  process that dies after the post leaves `pending`, and the next batch posts
  again. The plan (:579, :960) wants `sending` committed and `unknown` after a
  failed commit; `RecoveryNeverEngages`, proved, says that this recovery never
  happens.
- `duplicate_guard.py:39` reads other clusters' rows without a lock that covers
  them; two sessions can publish two similar stories (`SimilarStoriesBounded` says
  that it is no more than one per session).
- `vector_search.py:78` looks for similar clusters with status `published` only.
  A posted story that a numeric contradiction put on hold (`supplemental.py:50`),
  a reviewer rejected or a script had analysed again is still in the channel,
  and a similar one is posted beside it, by a single session.
- `outbox.py:40-41` gives a cluster analysed again its old row back, also a sent
  or cancelled one: the cluster is `ai_done` and nothing waits for "outbox/publish"
  (admin_guide:101).
- `outbox.py:180`: a session that acts on an old copy of the row writes `failed`
  over `sent`, so the next retry sends the published story again.
- `outbox.py:102` posts the newest answer, a rejected re-analysis included,
  against plan :467.
- `tracks.py:48` sends priorities 1 and 2 to the batch track; the plan (:440,
  :466) says 3 and 4.
- Switching from a test channel to the production one edits the posts of the
  wrong channel: message ids are stored without it.

Supplements and retractions:

- `supplemental.py:49`: a numeric-change hold has no `hold_queue` row and is
  never unlocked by the system (plan :646).
- An edit renders the base text and the newest supplement; earlier supplements
  vanish from the post. A correction is a message of its own and the post stays.
- A reply that does not merge into a published story is never examined as a
  denial; one that replies to a retracted story retracts it again.
- A call that fails after the edit leaves the edit, and the next turn repeats
  it and the announcement (`RepeatsAreFaults` bounds the repetitions).
- `retraction.py` in a dry run sets `is_retracted` although no post is edited;
  the mark is never made up for (hence the exception in `RetractedIsMarked`).

Clustering and judging:

- `merge.py:29`: messages never join a held cluster, so the confirmation by a
  second source that a hold waits for (`hold.py:88`, plan :643) cannot come that
  way, and a hold ends by expiry or review.
- A cluster judged `below_threshold` is closed to merges: a story gets a second
  message only within one run of the clustering task (admin_guide:99, :242).
- `scorer.py:89`: a new cluster is scored without its message, always 2.8; two
  messages, even of one credible source, are enough to pass.
- `confidence.py:25-52` counts audit rows of entity type `cluster`, while merges
  are audited under the message and splits not at all: the stability never drops
  below 100, against `tests/scenarios/test_cluster_stability.py:9`, which feeds
  the function the counts that its queries never return. No property is spent on
  that constant. `publish_eligible` is called by tests only.
- `merge.py:213` counts sources before the new message is flushed; the count
  trails by one message. `CountLagsByOne` states what is left.
- `lineage.py:57` compares non-primary messages with primary ones only; copies
  among non-primary sources count once each, against plan :394
  (`OrdinaryCopiesCount`). So the report of a primary source may lower the count
  of a story: the copies that counted before it are its repetitions now.
- `graph_cluster.py:85-100` gives every split-off message a cluster of its own,
  which stays `pending` with count 0 until another message joins it.
- Calling `cluster_pending_messages` from a shell (admin_guide:174-188) is
  always skipped: the warm-up is counted from the start of that process.

The AI task:

- `ai.py:59`: an `ai_ready` cluster without news is skipped and stays ready;
  twenty of them fill the query and starve the others (the exception in
  `ReadyIsAnalysed`).
- `task_lock.py:14`: the release deletes the key unconditionally, so after one
  task outlived its TTL every release can let a further one in.
- The breaker is asked by `analyze_cluster` only: `delta_check` and
  `classify_retraction` spend on, and what is lost with a rollback is not
  counted (plan :413). A breaker that opens in mid-batch marks the clusters left
  as `ai_failed` (admin_guide:246 says that they wait).
- `parser.py:99` recovers a broken answer with defaults, where the plan (:449)
  asks for a failure; the retry prompt after invalid JSON does not contain the
  messages.

Fetching:

- `fetch.py:205`: one failing statement rolls back every message upserted before
  it in the batch, buffers only itself, and the fetch time still moves (plan
  :305, :287). `CleanFetchLeavesNothing` shows that without a failing statement,
  and with a backfill reported complete, nothing is lost.
- `fetch.py:321`: a source whose requests always fail keeps the oldest fetch
  time and is dispatched for ever; no other source is fetched. `SourceIsFetched`
  is violated with `Failing = {s1}`.
- Ten seeded sources at one per 300 s are fetched every 50 minutes, within an
  overlap of 60: from the twelfth source on, messages shown late can be missed.
  After a pause longer than the overlap the window starts at the last fetch and
  has no overlap at all.
- `fetch.py:210`: an incomplete backfill is logged and the fetch time moves all
  the same; plan :304 continues in the next cycle.
- `fetch.py:204`: when PostgreSQL is down, reading `source.id` after the rollback
  raises, so the Redis buffer (`redis_buffer.py:1`) is not reached in an outage.
- `fetch.py:184`: `recheck_edits` is never true, so an edit later than the
  overlap is not fetched (plan :269).
- `fetch.py:257`: the audit row `fetch_failed` is added after the last commit.
- `celery_app.py` schedules `archive_old_records`; `archive.py` defines
  `archive_old_data` and nothing calls it.

## 6. Not modelled

- Of the graph reconciliation: union-find. The split is an action of `Clusters`
  with any partition, which is more than the similarity graph allows.
- Of fetching: edit rechecks (never called), the health audit, the gateway's
  request retries, the Telethon backend, media.
- Of the Telegram bot: throttle, cache of channel ids, rendering. Of the AI
  client: prompts, wording, the retries within one request.
- Similarity features: statistical or textual, no state; the models quantify
  over what they can answer.
- Archive: has no caller. Reports, set-up scripts, read-only admin pages.
- Retention of the duplicate guard's time window; wall-clock time outside
  `Fetch`; months.

## 7. Plan

Done: `Outbox`, `PublishOnce`, `Gating`, `Lineage`, `Clusters`, `Fetch`,
`TaskLock`, `Lease`, `Parser`, `Analysis`, `Judging`, `Supplements`, and the
proofs of section 4: every safety and action property of the passing runs.

Left, in this order:

1. The components of `graph_cluster.py` against reachability, on small graphs.
2. A theorem about `Clusters` and `Outbox` together: that the steps `LoadRow`,
   `Publish` and `PublishLoaded` of `Clusters` leave what two sessions of the
   outbox leave (`RepeatsStayBounded` and `PublishedClustersAreSent` are parts
   of it).
