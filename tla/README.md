# A formal model of DeepSnout

TLA+ modules, TLC configurations and TLAPS proofs for the parts of DeepSnout
(`src/deepsnout`) whose correctness depends on the order in which things happen: the
durable job queue and the lock of its worker, the collection from Splunk down to what becomes
of a row, the receipts that keep events from being counted twice, the three detectors, the
findings they make and the peer groups.

Run a check with `tlc -config <run>.cfg <module>` and a proof with `tlapm <module>_proofs.tla`.

## 1. The system

DeepSnout is two Python processes and a database.

| Part | State it keeps | Operations | What is hard about it |
|---|---|---|---|
| **Web process** (`web.py`), FastAPI; every POST handler is `async def` and runs its transaction without an `await`, so handlers run one at a time | none of its own but a rate limit per address | queue, cancel, retry jobs; save, toggle sources; decide on findings, expectations, peer groups, accounts, settings | each handler reads, then commits; the worker commits in between |
| **Worker** (`worker.py`), meant to be a single process, which holds an advisory lock | none but local variables of the job it runs | schedule (`tick`), run a job, recover after a restart | several transactions per job, external calls between them, crashes |
| **Database** (`db.py`), PostgreSQL in the deployment, SQLite in development and tests | everything | READ COMMITTED transactions, no row locks but in `/setup`; SQLite has one writer | stale reads, lost updates, column widths |
| **Splunk** (`splunk.py`), through searches of an index-time range | external | bounded search, halved while it holds too many events | failures, density, lag |

The components, with the properties that make each of them correct:

* **Job queue** (`jobs`, `sources`, `state`). `enqueue` caps the queue at 20 active jobs and keeps one per source; `tick` schedules polls and the hourly peer-group refresh and picks a job; `run_job` marks it running, works, and commits result, observations, cursor and status together; failures have a transaction of their own; `run` recovers what a crash left behind. *Correct* when each second of index time behind a cursor is ingested exactly once, an import at most once and not lost, every job ends, no queued job waits but for those that go before it, cancellations are honoured.
* **Poll slices** (`sources.checkpoint`, the `splunk_tuning` rows). A poll plans a slice, halves it while it is too large, goes on slice by slice when it is far behind, and learns spans. *Correct* when the slices tile a range, every poll that commits moves on, a transaction stays bounded and a backlog is worked off.
* **Peer groups** (registry, suggestions, rejections in `state`, `hosts.cohort`). *Correct* when decisions of analysts survive refreshes and only groups that were granted may suppress findings.
* **Network windows** (`network_windows`, `findings`, `expectations`). *Correct* when sustained changes are reported in whatever order events arrive and what was reported never becomes part of a reference.
* **Receipts and summaries** (`event_receipts`, `batch_receipts`, `coverage`, `behavior_days`). *Correct* when nothing is counted twice while it is still taken, limits hold, and summaries agree with what was counted.
* **Splunk client** (a search job on the server) with **normalization and adapters** (pure functions of a row). *Correct* when a slice is returned whole or not at all, no event is read under a wrong number, none is dropped unnoticed, and every query ends and removes its search.
* **Execution detectors** (`process_contexts`, `coverage`, `behavior_days`). *Correct* when a process and its connection are joined in whatever order, batch and state of retention they arrive, and what is reported as new was not known.
* **Findings and expectations** (`findings` with the unique `active_key`, `expectations`). *Correct* when a context has one open finding, every detection is counted once or was expected, and only an analyst closes a finding.
* **Worker lock** (a session lock of PostgreSQL). *Correct* when a worker that was overtaken can neither count an event twice, nor leave one behind a cursor, nor lose a count.
* **Accounts and sessions**, **features**, **demo**, **templates and deployment**: not modelled, see section 7.

## 2. Modules

| Module | Models | Checked as |
|---|---|---|
| `CollectionCursor` | the abstract promise of a collection: ingest on from the cursor, or reset it | implemented by `JobQueue`, and by the polls of `PollSlices` |
| `JobQueue`, `MCJobQueue` | `worker.py` `enqueue`, `tick`, `run_job`, `run`; the handlers of `web.py` that touch jobs and sources | `queue_safety`, `queue_liveness`, `queue_livelock` |
| `WorkerLock`, `MCWorkerLock` | `worker_lock` and its guard, `run`, `tick` and `run_job` of several workers, the transactions of `ingest` | `worker_lock` |
| `PollSlices`, `MCPollSlices` | the poll branch of `run_job`, `_next_slice_span`, `SplunkClient.slice` and the cap of `query` | `poll_slices` |
| `EventAdapters` | `normalize`, `event_adapters.py`, the filter of the optimized search | extended by `SplunkQuery` |
| `SplunkQuery`, `MCSplunkQuery` | `SplunkClient.query`, `request` and `_operation_guard` | `splunk_query` |
| `EventReceipts`, `MCEventReceipts` | the receipts, capacity and daily summaries of `ingest`, `maintenance` | `event_receipts` |
| `ExecutionDetectors`, `MCExecutionDetectors` | the processes of `ingest`, `execution_findings`, the historical path of `run_job`, `maintenance` | `execution` |
| `DetectorDays` | the day and the settings of the reference that the two detectors share | extended by both |
| `NetworkWindows` | the windows of `ingest`, `evaluate_windows`, `make_finding`, the decisions of the inbox, retention | `network_windows` |
| `FindingLifecycle`, `MCFindingLifecycle` | `make_finding`, `update_finding`, `add_expectation`, `revoke`, retention | `findings` |
| `PeerGroups`, `MCPeerGroups` | `refresh_peer_groups`, `approve_suggestion`, `reject_suggestion`, `create_manual_group`, `assign_host_group`, `peer_group_suppression_allowed` | `peer_groups`, `technical_suppresses` |
| `Detectors_proofs` | theorems of `ExecutionDetectors` and of `NetworkWindows` | `tlapm` |
| other `*_proofs` | theorems of the module they are named after; `JobQueue_proofs` also of `CollectionCursor` | `tlapm` |

`JobQueue` sees of a poll only the range it has collected; that a poll really collects a
contiguous range is what `PollSlices` shows, and that a slice which is returned holds every
event of its range what `SplunkQuery` shows. What the final transaction of a job does to
windows, receipts, processes, findings and peer groups is one step of `JobQueue` and the subject of
the other modules: the receipts decide which events are taken (`EventReceipts`), the detectors
what is reported of them (`ExecutionDetectors`, `NetworkWindows`), and `FindingLifecycle` what
becomes of a report. `JobQueue` has one worker; `WorkerLock` is what that rests on.

### JobQueue

`status`, `payload`, `job`, `n` are the job rows in the order of `created`; `enabled`,
`cfg`, `checkpoint`, `failing` the source rows; `pc`, `cur`, `ctx`, `plan` the worker's
place and local variables; `web` the handler that has read and not committed.
**Every transaction that decides on what it read is two steps**, the read and the commit,
because READ COMMITTED without row locks lets the other process commit in between; on
SQLite, which has one writer, `WebMayCommit` keeps the web process out of the worker's
write transactions.

| Action | Code |
|---|---|
| `SourceJobRequest`, `WebJobRequest` / `EnqueueCommit` | `source_action`, `upload`, `queue_action` with `enqueue` |
| `SaveRequest` / `SaveCommit`, `ToggleSource` | `save_source` with and without `reset_cursor`, `source_action` "toggle" |
| `RetryRequest` / `RetryCommit`, `CancelRequest` / `CancelCommit` | `retry`, `cancel_job` |
| `TickScan` / `TickCommit` | the scheduling transaction of `tick`, including its choice of a job and the error `enqueue` raises in it |
| `StartRead` / `StartCommit`, `Heartbeat` | the first transaction of `run_job`, `progress` (which does nothing on SQLite) |
| `CollectPoll`, `WorkFails` | the work between the transactions |
| `FinalRead` / `FinalCommit`, `ExceptRead` / `ExceptCommit` | the final transaction and the one of the except branch |
| `Crash`, `DbFault`, `Recover` | process death, a failing transaction of the worker, the recovery of `run` |

`status` has the width of its column: on PostgreSQL `cancel_requested` does not fit
`String(12)` and the transaction that writes it fails (`Fits`).

### PollSlices

`poll` is what a poll decides when it begins (start, latest, ceiling, profile), `slice`
the range being searched, `next` and `span` are `next_checkpoint` and `next_span`, `batch`
counts how often the collected records hold each second. `load` is the event history,
one of a set: an event stays where it is in index time, which the configured lag is for.
`Begin`, `Collected`, `TooManyEvents`, `TooDense`, `NextSlice`, `BatchEnds`, `Commit`
follow the code; the time budget and `_operation_guard` appear as `Fails` and as the
freedom of `BatchEnds`. The thresholds 0.75, 0.65 and 0.45 are those of the code, in
hundredths.

### EventAdapters and SplunkQuery

A row of a search is a record of what the decisions look at (`RowShape`): how it is written, who
it says wrote it, its explicit number, the hints `ID` and `Task`, the fields that are there and
those that have a value, and, unknown to the code, `truth`, the event it was written for.
`Inferred` and `Recognized` are the adapter, `Verdict` is `normalize` in the order in which it
gives up, `SearchKeeps` the filter that the optimized profile puts into the search. The two read a
row differently: `eventid`, `eventcode`, `id` and `task` are what the code makes of it, `seen` the
text that the search finds at the top level of `_raw` under exactly that name. The two are
unrelated in a row unless a property says so (`Legible`).

In `SplunkQuery` the client (`Create`, `Watch`, `Fetch`, `Return`, `Delete`) talks to a server
that fails requests, finalizes or fails the job, answers with previews and with pages shorter or
longer than asked for (`AnswerRefused`, `Page`, `SearchEnds`), while an operator cancels and two
deadlines pass (`Interruption`). The result holds any of the matching rows up to one above the
cap, in any order. `unsure` records the requests that may have
been served although the client was not told: their answer was lost, or came and was refused. `Genuine`, an
assumption on the rows, says that Sysmon writes a parent, a destination or a query for no other
event; without it no adapter could tell.

### ExecutionDetectors

One endpoint, with an ingestion taking its events one by one in the order of their time, and a
retention that may run between any two ingestions. `processes` are the rows of
`process_contexts`, `new` what was judged when the creation was taken, `observed` and `rows` the
coverage and the contexts of the days. `fast` is the historical path, which keeps no process. A
batch that fails changes nothing. `ProcessAssumption` is what Sysmon promises: a process has one
creation and no connection before it. Whether the peers of an endpoint make a context common
(`Odd`) is a constant.

### FindingLifecycle

`make_finding` is three steps, because what it reads can change under READ COMMITTED until it
writes: it looks for the open finding (`Count`, `NoneOpen`), then for an expectation (`Suppress`,
`NotExpected`), then inserts (`Insert`), which fails when the unique key was taken meanwhile
(`Conflict`). A decision of an analyst is two, `Look` and `Decide`: the web process is one process
whose handlers hold no `await`, so its transactions are serial, but the worker commits between
their read and their write. `Fail` is any other failure of the transaction, capacity included; its
batch comes again. Only committed rows are in `findings`;
what the transaction would add is in `added`, `inserted` and `hidden`. An observation adds to a column
no decision writes, so the two do not overwrite each other. The states "new" and "investigating"
are one.

### WorkerLock

Several workers poll sources that tell of the same endpoint, so that their transactions meet in
the receipts of events and batches and in the row of the day, which is read, added to and written
back. `session` is the connection that holds the lock; `LoseSession` releases it on the server
while the worker goes on until a guard (`GuardLoop`, `GuardJob`) notices. `FinalRead` and
`FinalCommit` are the ends of the final transaction; one that inserts a key another has inserted
since fails (`Conflict`). `WorkFails` is any other failure inside the `try` of `run_job`,
`TickFails` one outside of it, which only the loop of `run` catches: the job stays as it is, and
`orphans` are the jobs left running so since a worker last recovered. Receipts are not expired here, which is the subject of `EventReceipts`. A
job row is used again only when nobody works on it, which keeps the instance finite.

### PeerGroups

The refresh is one long transaction: `RefreshBegin` reads registry and rejections,
`Discover` finds any groups of the catalogue that may occur together, `RefreshGroup`
handles one of them (members of an approved group are written, others become
suggestions), `RefreshCommit` overwrites the two `State` rows as a whole. A handler
reads (`ManualRequest`, `ApproveRequest`, `RejectRequest`, `AssignRequest`) and commits
(`WebCommit`). Rows of `hosts` the refresh has flushed are locked until it commits.
An endpoint of the model stands for all endpoints with the same summaries, of which a
real group has at least three. The order in which groups of the same suitability are
handled is left open, and the fingerprints of two groups of one discovery may coincide:
nothing in the code excludes it.
The history `raced` records that a handler overlapped a refresh. The four safety
properties are conditional on `~raced`, because without that they are false: the run
`technical_suppresses` shows it.

### NetworkWindows

Time is counted in windows of 30 minutes. `distinct`, `ok`, `evaluated` are the columns
of the rows; `pass` is what is left of a call of `evaluate_windows` with the references it
has read (they are cached per day); `finding` the last finding of the context, `expected`
an active expectation. `Ingest` and the evaluation that follows it are one transaction, so
the steps of a pass (`EvaluateNext`) exclude the other actions (`Idle`); a handler that
commits meanwhile sees none of its rows and is placed before it. Twice the threshold is
used to keep `network_floor / 2` an integer.

### EventReceipts

`Ingest(b)` is one ingestion of batch `b` at time `clock`, with the capacity check, the
acceptance of each event by receipt, first day and tolerance, the coverage of its day and
the context rows up to their limit in the order of time. An ingestion refused for
capacity, a replayed batch and a failed job change nothing and are no actions.
`Maintenance` is the part of `maintenance` that deletes these rows. Events are process
creations of one endpoint in one namespace: the history `counted` says how often each
batch has counted each event.

## 3. Runs

| Run | Bounds | Shows |
|---|---|---|
| `queue_safety` | one source, two jobs, cap 2, three seconds, a crash, a retry, failing transactions, both databases | `ExactlyOnce`, `RefinesCursor`, `ImportsIngestedOnce`, `ImportsKept` |
| `queue_liveness` | SQLite, one source, two jobs, cap 3, a crash, cancellation, any number of retries of failed jobs, peer-group refreshes; no imports | `RunningIsOwned`, `RunningJobsEnd`, `QueuedJobsRun`, `CancellationHonoured` |
| `poll_slices` | seven seconds, windows of 2 and 4, cap of 4 events, 3 slices, four event histories, three failures | `CollectedRange`, `BatchBounded`, `SteadySpansFit`, `BacklogIsCollected` |
| `peer_groups` | three endpoints, two labels, two fingerprints, four groups, three decisions, one remembered rejection | `RegistryComplete`, `SuppressionGranted`, `RejectedStayAway`, `ManualMembersKept` |
| `network_windows` | days of three windows, reference of one day, three batches, one decision, seven windows | `ReferenceIsClean`, `ShiftsAreReported` |
| `event_receipts` | five events, three batches, three contexts, days of three parts, four receipts | `BatchCountsOnce`, `CountedApart`, `ContextsBounded`, `SummariesAgree` |
| `splunk_query` | one row of every kind (identities, hints, explicit numbers, missing fields, encodings, numbers the search does not see), three rows of four kinds, caps of 1, 3 and 4, pages of 2 | `SliceIsWhole`, `InferredIsTrue`, `EventsDelivered`, `SupportedFailsClosed`, `SearchesRemoved`, `QueriesEnd` |
| `execution` | four creations and three connections of three processes, one without a GUID, over three days of two parts | `JoinedAreReported`, `ReportedWasUnknown` |
| `findings` | two contexts, three findings, two batches of one or two detections, closed findings kept for a day of three | `OneOpen`, `EvidenceConserved`, `OpenFindingsCount`, `ClosedByAnalystOnly` |
| `worker_lock` | two workers, two sources with three events, two job rows each, two faults (a lost lock, a crash, a failure inside or outside of the `try`) | `CountedOnce`, `CursorCovers`, `SummaryCountsAll`, `EverythingIngested` |

Why the bounds are enough: one source has every state of the cursor, and two jobs are
what a race of `enqueue`, `retry` and the scheduler needs; the cap of 2 is reached. Three
seconds leave room for a first poll, a following one and one after a reset. The loads of
`MCPollSlices` have a steady rate, bursts that force halving, silence between them and a
second at the cap, and seven seconds let a backlog exceed twice the window, where catch-up
begins. Three endpoints give two groups that share one. A day of three windows is the least in
which two windows can wait to be evaluated at once and the earlier of them may still get events;
seven windows reach the day whose reference contains what was reported. In
`event_receipts` the tolerance is two of the three parts of a day so that an event may be
counted before its day begins, and time goes on until batch receipts expire. The rows of
`splunk_query` cross every hint with every event and every way a field may be missing; three rows
and a page of two have short, full and over-long pages and results at, below and above the cap. In
`execution` two processes share a context on adjacent days, a connection may come before its
creation, in its batch or days later, and processes are kept for one day, so that retention deletes
rows that are still looked at by nobody but just so. Three findings are what a context needs that is
closed, reopened and detected again. Two faults are a worker that loses its lock and then, or
its successor, crashes or fails. In `queue_liveness` two jobs are enough for one to go before the
other again and again, because a failed job that is retried keeps its row and its age.

`TypeOK` is the type invariant of each module (`WindowTypeOK` in `NetworkWindows`, whose
definitions share `Detectors_proofs` with those of `ExecutionDetectors`). It is proved for every one of them, and also checked
by the runs of `PeerGroups` and `NetworkWindows`. `CommitsMakeProgress`, `ReceiptsBounded` and
`RemoteAreReported` are proved and in no run either. In
`NetworkWindows` and `EventReceipts` it also says that a finding's range is a range and that no
receipt is of the future, in `ExecutionDetectors` that a process was last seen at or after its
events, in `FindingLifecycle` that state, key and closing time of a finding agree, and in
`WorkerLock` that the lock is owned by the one worker whose connection is alive.

### Disagreements between the code and what it says

Two runs expect a violation, each of one property:

* `queue_livelock`: with the queue at its cap and the hourly peer-group refresh due,
  `enqueue` raises inside every scheduling transaction (`worker.py:383-384`), which is rolled
  back with the choice of a job: nothing is run any more.
* `technical_suppresses`: an approval during a refresh is overwritten
  (`peer_groups.py:679`) and its label is then taken for a manual group.

Further disagreements, which the passing properties are stated beside:

* `cancel_requested` has 16 characters, its column 12 (`db.py:65`): PostgreSQL refuses to
  cancel a running job (`Fits` in `JobQueue`). `CancellationHonoured` is checked on SQLite.
* Cancelling a queued import drops its records (`web.py:545-546`), and its retry is reported as
  done with nothing ingested; `ImportsKept` excepts cancelled imports.
* A span that was shrunk is forgotten when a later slice of the poll fails, against
  `docs/splunk.md:241-242` (the next poll "does not blindly retry the same oversized window").
* A refresh unassigns an endpoint that was put by hand into an approved automatic group
  (`peer_groups.py:662-666`), against `docs/peer-groups.md:127-128`; `ManualMembersKept` is about
  manual groups.
* The optimized profile "mirrors the compatibility adapter" (`splunk.py:167-169`), but compares the
  text of four fields at the top level (`splunk.py:175-187`) where the adapter and `normalize` read
  more. It drops, and the cursor then passes over, an event whose number is in a numeric `ID`, below
  the top level, in a row inside of `Event`, under another name or case, in an object (`#text`),
  written with blanks, double quotes or a leading zero, a symbol with other separators than `_`, and
  everything that is not JSON: the exceptions of `EventsDelivered` (`Legible`). What the property
  leaves is that a number in plain sight, in the field the code takes it from, is enough.
* `docs/splunk.md:39` has explicit fields "always take precedence", but the `EventID` an adapter
  infers goes before an explicit `EventCode` (`normalize.py:298-299`, `395`; `Number`).
* `docs/splunk.md:68` has an unknown symbolic ID remain malformed; with `Task=255` and no fields
  of a supported event it is ignored (`ControlRecord`). `docs/splunk.md:59-62` names `IMAGE_LOAD`
  without the task the code requires.
* The guard is asked before the final transaction and not in it: a worker whose lock is lost in
  between may write the count of a day over that of its successor, the `overlapped` of
  `SummaryCountsAll`, where `docs/design.md:14` says the lock "prevents accidental parallel
  analysis writers". No event is counted twice nor left behind a cursor even then; the cursor may
  move back, and the receipts take the repeated events out.
* A job is left running by a worker that lives on when `progress("starting")` raises, which is
  before the `try` of `run_job` (`worker.py:162`), or the transaction of the exception does (`348`);
  and when a worker without its lock takes a job after its successor's recovery and crashes in it.
  Its source is not polled until a worker starts again: the `orphans` that `EverythingIngested`
  excepts (`README.md:53` has interrupted jobs "explicitly recovered after worker restart", and
  nobody restarts here).
* The choice of `tick` has no aging (`worker.py:385-389`): a job of an operator goes before a
  catch-up poll, a catch-up poll before anything else, and the older before the younger of a kind.
  An import waits as long as a source stays behind or an operator goes on; a poll of a source waits
  as long as an older failed job is retried each time it fails. `docs/splunk.md:156` states
  the first of the three, no document the consequence. `QueuedJobsRun` therefore says that a job which stays queued is passed over again and again by
  such jobs, and waits for nothing else; that every queued job runs is violated in the same model.

What the conditional properties leave out is as much a result:

* `QueuedJobsRun` is checked with a cap that is not reached. `RunningIsOwned` and `RunningJobsEnd`
  are checked without database faults, which may leave a job running until the next restart; what
  follows from that is `EverythingIngested`'s.
* A job that has ended may be overwritten by the commit of a cancellation that was read before
  (`web.py:543-552`): it is then cancelled with its work in, or `cancel_requested`, which is active,
  until a worker starts again. No property excludes it; `RunningJobsEnd` is about running jobs.
* The four properties of `PeerGroups` hold as long as no handler overlaps a refresh, so that they say
  nothing about the overlap itself. A technical group that an analyst tracks counts as granted once a
  refresh finds the same members recommended.
* `ShiftsAreReported` excepts `late` windows: an event for the earlier window that arrives after
  the later one was evaluated re-opens only its own window (`engine.py:352-353`), so the pair is
  never compared again.
* `BatchCountsOnce` excepts events `ahead` of their day: an event up to five minutes in the future,
  taken shortly before midnight, is still taken on the day its batch receipt is deleted. An event
  further ahead is skipped while the receipt of its batch is written, so the same batch does not
  bring it again.
* `SupportedFailsClosed` excepts hints at another family: a process creation whose `Task` says 5
  has the fields of a process end and is ignored. An `EventID` that is present and empty keeps the
  adapter from inferring a number (`Fills`). The automatic profile, which needs nine events of ten
  to be Cribl's, filters the others out until its daily broad poll.
* `ReportedWasUnknown` speaks of the days retention keeps when the creation is *taken*: of
  yesterday's late events the reference is a day shorter.
* `SearchesRemoved` excepts cancellation and the worker's budget, because the deletion asks the
  guard that has just stopped the query: a search that is cancelled stays on the server until it
  expires there.
* `OpenFindingsCount` is about findings open throughout the transaction. A detection may be
  counted on a finding that was resolved after it was looked for; an expectation may be added from a
  closed finding while a newer one is open; and once a malicious finding is resolved, an expectation
  from before suppresses again. None of these loses a detection (`EvidenceConserved`).
* Each connection of a process with remote execution characteristics is a detection of DS-EXEC-001
  again, which adds to the finding or, after it was resolved, makes another.

### Fairness

`JobQueue` assumes weak fairness of the worker's steps taken together: `run` loops for ever
and catches every exception of `tick`, a job's work ends within its budgets, and the
deployment restarts the worker (`compose.yaml`, `restart: unless-stopped`). Nothing is
assumed of the web process, of crashes, of time, or of Splunk. `PollSlices` assumes weak
fairness of the steps of a poll and of beginning one: `tick` enqueues a poll of a source
that is behind at once, and after an error when its interval has passed; failures are
bounded there. `SplunkQuery` assumes weak fairness of the client, a thread that runs, and that the
deadline of a search passes; the server owes nothing, a search may run for ever. `WorkerLock`
assumes weak fairness of the steps of each worker, which the deployment restarts when it has ended;
nothing is promised of faults, whose number is bounded. The other modules state no liveness.

## 4. Proofs

All theorems hold for every value of the constants that satisfies the `ASSUME` of the module. Every
safety property of a passing run, invariant or action property, is one of them.

* **`JobQueue_proofs`**: `TypesAreRight`, `QueueInvariant`, `CursorExactlyOnce` for the abstract
  cursor, whose invariant adds that the base of a collection is not above its cursor,
  `QueueImplementsCollection` and, from the two, `QueueIngestsExactlyOnce`. `ExactlyOnce` is not inductive: the
  worker commits a range computed from a cursor it read transactions ago. `QueueInv` adds
  that the worker's job exists (`RowsExist`, `WorkerHolds`), that polls have a source, that
  at every place between the start of a poll and its commit the cursor of its source is the
  one it read or was reset (`CursorFollowed`), and that what was collected begins there
  (`CollectedFollows`). Two polls of one source may be active at once (`retry` permits it),
  but the worker is one process and runs one at a time; that is all the argument needs of it. The
  refinement maps the abstract cursor to `checkpoint`; every step collects, resets or stutters.
  `ImportsAreIngestedOnce` and `ImportsAreKept` rest on `ImportInvariant`: `DeliveredOnce` says that
  events that were ingested are gone from the payload in the same transaction, and `EventsInHand` that
  those the worker has loaded were not ingested, which a cancellation or a restart in between does not
  change. `RunningJobsAreOwned` needs `JobAtHand` (between two jobs the worker has none), and has the
  hypothesis `~DbFaults`: with it the theorem is false, for the reason given in section 3.
* **`PollSlices_proofs`**: `SlicesInvariant` and, from it, `SlicesTypeCorrect`,
  `PollCollectsARange`, `PollsMoveOn`, `BatchesAreBounded`, for every load. The
  strengthening `SliceFollowsBatch` says that a slice being searched begins where the batch ends.
  `SpansFit` needs `LearnedSpanFits`, the same of a span that is not stored yet; the argument is
  the arithmetic of `_next_slice_span`, with its divisions and bounds, for every steady rate.
  `PollsImplementCollection` joins it to the queue: with a history of what the commits ingest
  (`RecordedSpec`, which adds two variables and constrains no step), the polls of a source, with
  every slice that is halved and every poll that fails, implement the same `CollectionCursor` that
  `JobQueue` implements, and `PollsIngestExactlyOnce` is what follows. It needs `CursorHeld`: a
  poll commits from the cursor it read. (`PollSlices` has no reset of the cursor; what one does to
  a poll that is running is in `JobQueue`.)
* **`EventReceipts_proofs`**: `ReceiptTypesCorrect`, `BatchesCountOnce`,
  `EventsCountedApart`, `ReceiptsStayBounded`. The first argument is one of calendar
  days: `CountedIsGuarded` says that what a batch counted is behind its receipt, on a day
  no later than the receipt's, or too old to be taken; `ExpiryIsLate` is the arithmetic
  that makes the deletion of the receipt harmless. `LastIsKnown` relates the receipt of an
  event to when it was last counted. `ReceiptsStayBounded` counts: what is left and the
  whole batch fit. `RowsStayBounded` follows the events of a batch in the order of time up to the
  limit. `CoverageAndSummariesAgree` needs `AgreeInv`, which
  has each context of a day on its own: an ingestion adds one to both sides for each event it
  takes (`AgreeIngest`, over sets of countings), and retention begins below the first day.
* **`SplunkQuery_proofs`**: `QueryTypesCorrect`, `SlicesAreWhole`, `InferredNumbersAreTrue`,
  `ReturnedEventsAreDelivered`, `SupportedRowsFailClosed`, `SearchesAreRemoved`, for every slice,
  setting and page size. `Tallied` says that what was counted so far is the verdicts of the rows
  fetched so far, `Complete` that a query which returns has fetched a result below the cap, and
  `Searched` that this result is one of those the server may report, which then holds every
  matching row. `LegibleIsKept` is all that the optimized search promises of an event. The other properties follow from lemmas about the verdict of a row and `Genuine`.
  `AnswersAreCounts` joins it to the polls: the answer of a query is the comparison of the number
  of matching rows with the cap that `Collected` and `TooManyEvents` of `PollSlices` make.
* **`Detectors_proofs`**: `DetectorTypesCorrect`, `JoinIsExact`, `NoveltyIsReal`,
  `RemoteIsExact`, for every set of events, time scale and retention. `StartsHeld` and
  `LinksHeld` say that a creation or connection the detectors still look at has its process, whatever
  came first and whatever retention did; `BatchOK` that a batch on the historical path holds nothing
  either detector looks at; `ReferenceHeld` and `JudgedWasUnknown` what the rows of the days know.
  For `NetworkWindows`, which it extends too, `WindowTypesCorrect`, `ReferenceStaysClean` and
  `WindowShiftsAreReported`, for every length of the day, reference and limit of a pass. The percentile is a `CHOOSE`, and `PercentileType` shows that there is such a
  count, the least that enough windows do not exceed. `ExcludedStays` says that a window that was
  reported or marked has its flag down, or was deleted and is too old to be made again;
  `ShiftsAreReported` is inductive with the types: whatever adds to a window opens it again or makes
  it, and the one after it, late.
* **`FindingLifecycle_proofs`**: `FindingTypesCorrect`, `OneOpenPerContext`,
  `OpenFindingsAreCounted`, `OnlyAnalystsClose`, for all contexts and batches. `OneOpen` is not
  inductive, because an inserted finding waits for its commit: `KeysUnique` and `InsertedAlone` say
  that the key of a committed finding and that of an inserted one never meet. `SteadyCounts` says
  that a look-up cannot have missed a finding that stays open, `DecisionStands` that an analyst
  decides on no finding of the transaction. `EvidenceIsConserved` has `EvidenceInv`: it holds for
  the committed batches (`Conserved`), and in the transaction for the batch in hand as well, whose
  detections are in the counts to be written, in an insertion, hidden, or still to do (`InHand`); what
  retention deletes it moves from the findings to `gone`. The sums are cardinalities of sets of
  observations, so that the facts about finite sets serve for them.
* **`PeerGroups_proofs`**: `GroupTypesCorrect`, `GroupsInStep` and, from it, `RegistryIsComplete`,
  `SuppressionIsGranted`, `RejectedSuggestionsStayAway`, `ManualMembersAreKept`, for any endpoints,
  labels, groups and number of handlers. None of the four is inductive, since a handler and a refresh
  commit what they read transactions ago: `WebInStep` and `RefreshInStep` say that, unless they
  overlapped, what they read is what is stored, `Registered` and `MembersStay` that the rows they
  write agree with the registry they write.
* **`WorkerLock_proofs`**: `LockTypesCorrect`, `EventsCountedOnce`, `CursorsCoverEvents`,
  `SummaryIsComplete`, for any number of workers, sources and jobs. `WorkerOK` says of each worker
  apart that everything before its start is in, that the receipts its transaction has read are still
  there, so that what is new to it and does not conflict is new, and that what it read is the
  present state while its session is alive, unless somebody has overlapped. `BatchesAreIn`
  makes a replayed batch harmless.

Only model-checked: the liveness properties `RunningJobsEnd`, `QueuedJobsRun`,
`CancellationHonoured`, `BacklogIsCollected`, `QueriesEnd` and `EverythingIngested` (under fairness,
out of the prover's reach), and the two properties that are violated.

## 5. Abstractions worth knowing

* Sources exist from the start; a source is never deleted in the code either.
* Sessions and roles are checked before a handler acts; a refused request changes nothing.
* The policy is constant in a behaviour, but for `network_enabled`.
* The clock of the worker does not go back.
* The HyperLogLog estimate is a number that grows with new destinations; clustering finds
  any groups of a catalogue.
* The first insertion of a `State` row by two transactions at once is not modelled.
* `Recover` is one step of `JobQueue`, although `run` reads the jobs before it commits what becomes
  of them (`worker.py:406-424`); `WorkerLock` has recovery next to a worker at work.
* The reference of an evaluation, and what is too old, go by the clock, which is up to five minutes
  ahead of the end of the last window that is evaluated (`engine.py:370`, `373`, `422`); `Stale` takes
  the two as the same, so in the last five minutes of a window the code is one window further.
* Marking a finding as malicious excludes windows of every application of the endpoint, whatever
  detector the finding is of (`web.py:260-262`); `MarkMalicious` has one application and its last
  finding.
* A batch is historical by its newest event, of whatever endpoint (`worker.py:284`); `Historical` has
  one endpoint.
* A batch that fails in `FindingLifecycle` starts again at once, without what the worker may do in
  between.
* `Discoveries` drops a technical cluster only inside of a recommended group, where the code drops
  one that overlaps by four fifths (`peer_groups.py:615`): more may be found than the code finds.
* A decision of an analyst that overlaps an evaluation is placed before it in `NetworkWindows`;
  `FindingLifecycle` has the two interleaved. Deadlocks of row locks, which the database resolves by
  failing one transaction, are failures of the job.
* The web process is one process (`compose.yaml`), and PostgreSQL notices a lost connection and
  releases its lock.
* An event is taken once in `ExecutionDetectors`, and the contexts of a day are below their limit;
  both are the subject of `EventReceipts`. Receipts do not expire in `WorkerLock`.
* The demo has a namespace of its own, which no source and no import may use; its removal, which
  deletes the findings of its endpoints, is not in `FindingLifecycle`.

## 6. Plan

1. *Done:* the queue with its abstract cursor and its lock, poll slices, the Splunk query and the
   verdicts of adapters, event receipts, the three detectors, findings and expectations, peer
   groups; the theorems of section 4.
2. *Composition to add:* `WorkerLock` with the cancellations of `JobQueue`; findings with the
   events that make them.
3. *Proofs to add:* that the transactions of `WorkerLock` give `JobQueue` the one worker it assumes,
   as those of a query give a poll its slice and those of a poll give the queue its range.
4. *A changing policy:* which of `BatchCountsOnce` and `JoinedAreReported` outlive a change of
   `baseline_days`, `dedup_hours` and `process_days` while receipts and rows are stored.

## 7. Not modelled

* **Accounts and sessions**: every handler is one serial transaction of the one web process, and no
  property relates several of them; password hashing, CSRF signatures and encryption are libraries.
* **Field values**: reading XML and JSON, and rewriting paths, command lines and addresses, are pure functions
  of strings, which their tests enumerate.
* **Numerics**: clustering and the HyperLogLog sketch; the models leave open what they find.
* **Demo data, templates and static files, deployment, TLS pinning and the reverse proxy, benchmark and
  smoke tests**: no state of the program. The file lock used with SQLite cannot be lost.
* Retention of jobs, audit rows and sessions deletes by age only what nothing refers to.
