# A verification project for status-collector

`status-collector` watches a handful of HTTP endpoints, one ComfyUI server and a few machines,
keeps what it sees in SQLite, serves it as JSON and publishes a copy of that JSON to a git branch,
from which a static page reads when the collector cannot be reached. This directory holds TLA+
models of that program, TLC configurations that check them on small instances, and proofs that
TLAPS checks for every value of the constants.

    tlc -workers 2 -config ComfyEstimate.cfg ComfyPollerMC     # a run
    tlapm ComfyPollerProofs.tla                                # proofs

## 1. The system

| component | state | operations | talks to |
|---|---|---|---|
| main (`cmd/status-collector`) | context, tickers | serial start-up, one goroutine per ticker, shutdown | calls everything below |
| ComfyUI poller (`internal/comfy`) | `live`, `seen` under a mutex | `SampleGauges` (60 s), `DrainJobs` (5 min), `Now` | ComfyUI over HTTP, `comfy_jobs` and `metrics` tables |
| availability checker (`internal/checker`) | none | `RunOnce` (1 h), prune after each round | endpoints over HTTP, `checks` table |
| host registry (`internal/host`) | `last` under a mutex, previous CPU counters | `SampleAll` (60 s), `Latest` | `/proc`, node_exporter, `metrics` table |
| GPU textfile (`deploy/spark`) | `gpu.prom` | written by a timer on the remote machine | node_exporter |
| storage (`internal/storage`) | three tables, one connection | insert, upsert, aggregate, prune | SQLite |
| API (`internal/api`) | none | `buildStatus`, `buildComfy`, `buildHosts`, `WriteSnapshot` | storage, poller, registry, snapshot directory |
| publisher (`deploy/publish-snapshot.sh`) | git work directory | run by a timer (15 min) | snapshot directory, remote branch |
| page (`web/index.html`) | the last payload shown | load, fall back, refresh, redraw | API, remote branch |

What is hard in it:

* **the fallback for submission times.** Two goroutines share the map `seen`: the sampler adds what
  waits in `/queue`, from an answer that may be stale when it is applied; the drainer uses an entry
  when ComfyUI did not report `create_time`, stores the job and drops the entry. Calls fail, the same
  page of history is drained again and again, ComfyUI and the collector restart.
* **history that is lost.** `/history` shows the last 100 jobs and is empty after a restart of
  ComfyUI; a warning is all that tells of jobs missed between two drains.
* **files read by somebody else.** The snapshot is written by two goroutines, which fall due together
  at each full hour, while a script copies it.
* **publication that fails in the middle.** Commit and push are separate, the next run decides from
  the local state whether there is anything to push.
* **shutdown and retention.** A signal cancels the request that is under way and lets main close the
  database while other goroutines still use it; the tables are cut by three statements that may fail.
* **charts of a table that moves.** Hours, days, window and retention are cut at different places, a
  payload is made of many queries while rows come and go, and it is drawn up to a day later.
* **what lingers.** CPU counters of an earlier boot, a textfile whose writer is dead, the last good
  sample of a machine that is gone, the last payload of a page that cannot load a new one.

The list of hazards, each at its line and with the properties that cover it, is in `PROJECT.json`.

What makes each component correct:

* poller and job table: a job is recorded at most once, only after it finished, and never lost again;
  a reported submission time is stored as it is; an estimated one is never after the start of the job
  and precedes the submission by no more than the HTTP timeout; a job that was missed is warned of.
* snapshot: a reader only sees whole payloads, and never an older one after a newer one - which the
  code keeps as long as its two writers do not meet at a file; the latest data is shown in the end.
* publisher: the branch never shows what was not committed, and no file of it that was copied in
  part; its files stem from snapshots that are near each other; what was committed is published.
* checker: a stored check says what the endpoint answered, but for one check per stop; every endpoint
  is checked again and again; old rows go, those the API reports stay.
* hosts: a utilisation comes from two readings of one boot, as far as the counters can tell; a dead
  machine or a dated textfile shows as such, and a live machine is not hidden by a dead one; `/proc` and
  node_exporter say the same of one machine.
* API and tables: what one payload says of an endpoint is consistent in itself; an hour or a day of
  a chart is all of it that was stored, or is left out.
* page: data that is not marked is fresh, older data follows newer only with a mark, and every hour of
  the window is on the grid.

## 2. The modules

| module | models | state and actions |
|---|---|---|
| `ComfyPoller` | `internal/comfy` and its use of `comfy_jobs`, `metrics` | below |
| `JobLedger` | nothing: what the job table promises | `done`, `ledger` |
| `ComfyPollerMC`, `ComfyPollerProofs`, `ComfyLossProofs` | small instances, proofs | |
| `Snapshot` | `WriteSnapshot`, `writeJSONFile`, their callers in main, and `cp` of the script | below |
| `SnapshotFiles` | nothing: what the directory promises a reader | `version`, `shown` |
| `SnapshotMC`, `SnapshotProofs` | small instances, proofs | |
| `Publish` | `deploy/publish-snapshot.sh` and its timer | below |
| `PublishMC`, `PublishProofs` | small instances, proofs | |
| `Checker` | `internal/checker`, `PruneOld`, start and end of main | below |
| `StatusApi` | `buildStatus` of `internal/api` and its queries, composed with `Checker` | below |
| `StatusApiMC`, `CheckerProofs` | a small instance of the composition, proofs | |
| `HostMetrics` | `internal/host`, `deploy/spark/gpu-textfile.sh` | below |
| `HostReadings` | `Local` and `NodeExporter.fill` of `internal/host`: what a sample says | operators on a machine |
| `HostMetricsMC`, `HostMetricsProofs` | a small instance, proofs | |
| `Reports` | `buildComfy`, its queries, what the drainer makes of a job and the table of it, retention, the slots of the page's charts | below |
| `ReportsMC`, `ReportsProofs` | a small instance, proofs | |
| `StatusPage` | loading, falling back, drawing and redrawing in `web/index.html` | below |
| `StatusPageMC`, `StatusPageProofs` | a small instance, proofs | |

### ComfyPoller

`job`, `history` and the first five actions are ComfyUI, which is external: a prompt is queued, with
or without a `create_time`, starts, and finishes (which appends it to the history) or is cancelled.
`sampler` is the `SampleGauges` call in progress with its local variables: `SampleBegin` reads the
clock, `GetQueue`/`GetQueueFails` is the answer or error of the first request, `ObserveQueued` applies
it (the mutex makes it one step; additions before expiry, as in the code), `GetStats` is the second
request and the replacement of `live`, `InsertMetrics` the row, which is skipped when both requests
failed. `drainer` is the `DrainJobs` call: `GetHistory` takes the page; Go's map order is the choice
of `p` in `DrainPick`, which looks the job up and builds it; `DrainSave` is the upsert, `DrainForget`
drops the sighting, `DrainSaveFails` is the `continue`; `DrainEnd` decides on the warning.
`boot` is the serial start-up of main: no ticker runs before the first sample and drain are over.
`CollectorRestart` may come at any point and loses everything but the tables.

Simplifications. Collector and ComfyUI share one clock (on one LAN they are kept in step; a skew
would add to the bound `Timeout`). A front end stamps `create_time` at the moment of submission. The
three HTTP failures (no answer in time, a bad status, bad JSON) are one. Lookup and `buildJob` are one
step, because only the drainer writes the table and only the map read in `buildJob` is shared.
Retention (35 days) is in `Checker` and `Reports`. `reported`, `faulted` and
`drainer.passed` are history variables: what a warning covered, whose drain failed or was cut short,
and what had been pushed off the page when it was read. The counts of a job and the values of gauges
are data that no property tells apart.

### Snapshot

The file system is external: a name (`tmp[f]`, `pub[f]`) points to an inode, an open file keeps
pointing to its inode, `os.Create` empties the inode that has the name, rename moves the name. Which
inode a new file gets makes no difference (`Fresh`), and one that nothing refers to is reclaimed. A
`WriteSnapshot` call (`writer[w]`) goes through `Order`: `Build`, `Create`, `Write`, `Finish`
(two steps, so that a reader, a failure or another writer may come between), `Rename`. `Fail` is the
early return of any of these calls, `Restart` a crash. The writers are the two goroutines of main that
call `writeSnapshot`, the hourly tick and the snapshot ticker, which may do so at any time. `reader`
is the file `cp` has open. A payload is the version of the data it was built from.

Two calls are at a file together when the payload of one is built while the other is between building
its own and the rename (`Others`). `met` notes that of a call, `doubtful` that of the file it gives its
name to; both are history. Then the file may be half written, and an older payload may replace a newer
one: the finding of `SnapshotTwo`. `WholeUnlessMet` and `DirSpec` say that nothing else makes a file
bad or takes it back in time, whatever is left behind under the temporary name by calls that met,
failed or were killed, and that the next call that is alone at the file puts it right.

### Publish

The files of the snapshot directory are replaced one after the other, by either of two calls.
`BeginWrite` is a `WriteSnapshot` call, `WriteFile(c)` the rename of the next file of call `c`,
`WriteFails(c)` a call that is given up half way. `left` says how many files each call under way has
yet to write. A call may begin while one of the other goroutine is under way (`met`), and of the two
either may be the one that writes a file last. A file is the number of the call that wrote it; as
every payload carries `generated_at`, no two calls write the same. That such a file may be torn is
the subject of `Snapshot`. `snapshot`, `work`, `index`, `head` and `remote` hold the files of the
directory, the work directory, the index, the commit and the branch. Calls never end; to keep the
numbers small each call renumbers those in use, which keeps their order, which of them are equal, and
every distance that a property measures.

The script has one action per command, and `set -e` is the return to "idle". `ExpandGlob` is the
shell's list of files, `CopyFile` takes them in the order of their names, which is not the order in
which they are written. `Crash` is the script killed during a command of `CrashPoints`: `cp` may leave
half a file, git an `index.lock`, a killed initialisation a `.git` directory that later runs take for
a complete one. systemd runs one instance at a time. Two bounds are taken from the intervals: the calls
of one goroutine are five minutes or an hour apart, a call and a copy take far less, so a call meets
one of the other goroutine at most, and at most two calls are under way during a copy (`overlap`). A
call is taken while the script rests or copies, the only times at which the directory is read. A kill
of the collector during two calls is two calls that stop half way.

### Checker and StatusApi

`round` is the call of `RunOnce` in progress: `NextEndpoint` is the head of its loop with the look at
the context, `FetchModel` the lookup of a model name, `Ask` the request, `InsertCheck`/`InsertFails`
the row, `Prune`/`PruneFails` one of the three statements of `PruneOld`. `life` is the process: the
first round belongs to the serial start-up, during which a signal is noted but does not end main;
`Serve` starts the tickers; `CloseDb` is the deferred close, after which every statement of a goroutine
that is still at work fails; `Exit` and `Crash` end it, and `StartUp` is systemd starting it again.
`BeginRound` and `LeaveLoop` are the `select` of `every`, which takes either when both are ready.

Time is the age of rows, in ticks of the checker, which never ends: `Hour` makes everything older.
`checks` holds the rows of the watched endpoints; no endpoint's rows depend on another's, only the
order of the requests does, and all endpoints are in it. `Pruned` is the `DELETE` on them: `Keeping`
picks the rows that stay by their number, and they keep their order. Of the other rows `stale` keeps
which kinds there are of beyond the retention: gauges, jobs that ended, jobs of which no end is known.
There may be some at any time, and a drain may store a job again that was pruned long ago. `Takes` is
what each `DELETE` takes: the one on `comfy_jobs` asks for `ended_at > 0`, so jobs without an end stay
for ever, and `OldRowsGo` is about the other rows. `stops` and `cuts` are history: signals, and rows that are down because of one.

`StatusApi` adds `part`, the part of a payload that `buildStatus` is making for one endpoint:
`GetLatest` and `GetBuckets` are its two queries, and any step of the checker, of main and of time may
come between them; `QueryFails` is the second query after the database was closed.

### HostMetrics

`machine` is the world: whether a machine is up, when it booted, how long it has idled since; its
counters' total is the time since the boot. `round` is the call of `SampleAll`: `Read` is the answer
of a machine with `cpuCounter.update`, `ReadFails` no answer, a bad one, one without counters, or (for
the collector's own machine) one that fails after the counters were taken; `Publish` puts the sample
into `last`, which is what `Latest` returns. Storing the gauges changes nothing that is modelled, and
neither does its failure. `WriteGpuProm` is the timer's script; it is one step, because the file
appears by a rename, and it need never come again. `RestartCollector` loses the previous counters and
the samples; a reboot of the collector's own machine is one, too. In a sample, `cpu.boots` says of how
many boots the two readings of a utilisation are; `gap` and `since` are history. `gpu` is the age of
the GPU reading in it. `gpuTextfile` drops a reading only if the exporter tells both its own clock and
when the file was written (`dates`); the readings of an exporter that does not are shown for ever,
although the repository's README (140-142) promises that those older than 5 minutes are dropped.
node_exporter tells both by default.

`HostReadings` is what is in a sample. A machine is described by what both ways of reading it see: the
counters of `HostMetrics`, and an element of `Contents` for its memory, volumes, thermal zones, sensor
chips and GPUs. `LocalCpu`, `LocalAvailable`, `LocalDisks`, `LocalTemps` are what `Local` makes of
them, `RemoteCpu` and so on what `NodeExporter.fill` does; `Metrics` are the rows of either. The sums
the kernel and node_exporter make themselves (guest time counted as user time, too; zones mirrored as
sensors) are external.

### Reports

`metrics` and `jobs` are the tables, `InsertMetrics`, `UpsertComfyJob` and `PruneOld` what is done to
them. `history` is what ComfyUI reports of the jobs that ended, which may not be everything: `Finish`
adds an entry, with the times its `kind` reports, `ReportEnd` an end that was not known before. `seen`
is the poller's map of sightings, as far as they are of jobs that ended: how entries come into it is in
`ComfyPoller`. `BuildJob` uses the sighting for a submission that is not reported and the start for the
end of a completed job that reports none; `Merged` is the `ON CONFLICT` clause, which keeps a time that
is not known now; `UpsertComfyJob` stores the merged row and forgets the sighting.

`Build` is a call of `buildComfy`: `AskLabels`, one `AskSeries` for each label, `AskStats`,
`CountToday`, each with its own clock; samples, drains, retention and time come between any two, and
each may fail. `AlignHourly` and `AlignDaily` are the slots the page draws at any later time,
`Percentile`, `DayStats`, `Aggregate` the functions of `storage`. `taken`, `told` and the fields
`taken`, `told`, `today` of a payload are history: the samples and what the drains had been told of
each job when a query ran. The properties are stated from what was told (`EndOf`, `SubmittedAt`), not
from rows: that a row says the same, in whatever order its parts became known, is a conjunct of
`TypeOK`.

The integer rank of `Percentile` is that of the floating-point expression in the code, which was
compared for all counts below 200000. The number of nodes and cached nodes, and whether a wait is
estimated (which `ComfyPoller` has), are summed or counted like the images and left out. `buildHosts`
asks for its labels and series in the same way; it has no actions of its own.

### StatusPage

`load` is the call of `loadData` in progress, with the time its request has taken; `LiveAnswers`,
`LiveFails`, `SnapshotAnswers` and `SnapshotFails` are its outcomes, with the drawing or the error that
follow in the same turn of the event loop. `Refresh` is the interval timer, `Resize` and `Redraw` the
resize event and its timer. `shown` is what the page holds: kind, payload, mark, and how many hours
share a cell. `World` is what the page meets: a collector and a branch that come and go, and a
publisher that pushes newer snapshots. Time is the age of data, so that a page may stay open for ever.
Timers fire on time, as in a page that is visible. `cellsFor` and `renderGrid` are the operators
`GroupSize`, `Count` and `CellHours`. When a load fails the model shows the error and nothing else, as
its label says; the page leaves the count of reachable endpoints and the chip of the payload before
(hazards), which no property is about.

## 3. The runs

| run | instance | shows |
|---|---|---|
| `ComfyEstimate` | 1 prompt, every build, 3 time units, every call may fail, 1 restart | type, bounds of stored times, TTL of sightings, order of `live` and series, sightings kept until saved |
| `ComfyLive` | 2 prompts, page of 1, failing drains, 1 restart, fairness | implements `JobLedger`; no loss without a warning, a failed or an interrupted drain; what stays on the page is recorded |
| `ComfyFlag` | 1 prompt | violation: the estimate loses its flag |
| `ComfyBound` | 1 prompt, 4 time units | violation: the estimate is not a lower bound of the wait |
| `SnapshotMeet` | the 2 writers, 1 file, 4 inodes, 2 versions, failures and restarts, fairness | whole files, never older, but where the writers meet; caught up in the end; implements `SnapshotFiles` |
| `SnapshotTwo` | 2 writers, 1 file | violation: a published file that is half written |
| `PublishLive` | 2 files, snapshots without end by 2 goroutines of which 1 in a row stops half way, kills of `cp` and `git init`, failing pushes, fairness | the stages follow each other; the files of the branch belong together; commits get published |
| `PublishLast` | the collector stops, failing pushes, fairness | violation: the last state stays unpublished |
| `CheckerLive` | 2 endpoints, one of them watched, retention and window of 1 tick, 1 fault (stop, crash or failing statement), no end of time, fairness | one false down check per stop; payloads agree with themselves; the window is kept; a stop ends the process; old rows go; every endpoint is checked |
| `HostMetrics` | 2 machines, the remote one watched, 4 time units, 2 outages, several contents, 2 configured paths, fairness | reboots noticed, both ways of reading agree, dead and live machines and dead timers shown |
| `Reports` | 2 labels, 2 values, 2 prompts, 4 kinds of job, 2 events, days of 2 hours of 2 ticks, window of 2 days, retention of 8 ticks, 22 ticks | hours and days of the charts are complete, percentiles those of the nearest rank |
| `PageFresh` | 7 hours, windows of 1, 4 and 8 cells, interval 3, timeout 1, limit 3, no end of time, fairness | unmarked data fresh, older data marked, grid exact; outage, fallback and recovery show |

Why the bounds are enough. *ComfyPoller*: what the estimate properties are about concerns one prompt
(the proofs cover any number); three time units let a stamp be older than `Timeout` and a sighting
older than `SeenTTL`. A page of one with two prompts is the smallest in which a job is pushed off
before it is stored, and in which the entries of a page are all new, which is what the warning goes
by; the proof of `NoSilentLoss` covers pages that are partly known. One restart is spent
on either process at any point. *Snapshot*: the two writers are those of main. The code treats its
files alike and a call is at one at a time, so the run has one; the proofs cover any files in any
order. Four inodes are one for the temporary and one for the final name, one for a reader's replaced
file and one that a writer has open and that has lost its name, so `Create` is never short of one.
*Publish* has no end of time. Two files are enough for an order of writing that is not that of
copying; one call in a row that stops half way lets two files drift apart by more than the calls
under way do. The run kills the copy and the initialisation; a killed commit leaves a lock, after which nothing is published
any more, and is covered by the proofs.

*Checker*: the watched endpoint is the second of two, so that another one comes before it, and the one
that needs a model name; one tick of retention is enough for rows to be inside, at the edge of and
beyond it; a second fault would only repeat the first, and the proof covers any number. The window is
as long as the retention, which is the hardest case for `WindowKept` (30 and 35 days in the code).
*HostMetrics*: a mixed utilisation takes a reading, a boot and a longer uptime, which is four time
units; two outages let a machine go down and the collector restart or a request fail. The contents
have, between them, each of the cases the code tells apart: with and without `MemAvailable`, swap,
zones, sensors out of range, a device that is mounted twice, a pseudo file system, a
volume too small. *Reports*: the retention is as long as the window, the hardest case (35 and 30 days
in the code); the clock starts a day after the first window and runs for two and a half days more,
so that a row passes every boundary of hour, day, window and retention in every phase; two events are two
samples of one hour, one of each label, two jobs of a day, or a sample and a job. The kinds of job
differ in which of submission, start, end and completion ComfyUI reports and in whether the job was
seen waiting; `ReportEnd` makes more of some of them while they are in the table. *StatusPage*: ages end
one beyond what the page may show unmarked; the interval is longer than two timeouts, as in
the code (5 min and 6 s), so that refreshes do not overlap. Seven hours in cells of 1, 2 or 3 leave a
short last cell; the proof covers any numbers.

The symmetry set of `Reports` permutes labels and prompts, which the module only compares; the run has
no temporal properties.

Deadlock is checked in every run but `Reports`, whose clock is bounded; none of the other models can
stop, because tickers and timers fire for ever.

Fairness. The tickers of main fire as long as the process lives; an HTTP call returns within the
client's timeout and an SQLite call within the busy timeout, so a call in progress goes on
(`WF` of the sampler and the drainer). A `/history` that answers again and again is read, and an
upsert that is tried again and again succeeds at some time (`SF`): without that no job need ever be
recorded. In `Snapshot` the writers go on (`WF` of each), and failures, restarts and calls that meet
last for some time only (calls meet again each hour, but those of the ticker in between are alone, and
one such stretch is enough for the property); in `Publish` the timer fires and commands return (`WF`
of `Script`), the remote can be reached again and again (`SF` of `Push`), and the script is not killed
for ever (`<>[][~Crash]`); `RunningSpec` lets the collector write snapshots for ever (`SF`, because a
script that is at work holds it up in the model), `StoppedSpec` lets it stop. In `Checker`
time passes, main goes on, and so does the goroutine, each of whose calls ends within a timeout (`WF`
each); systemd starts the process again. In `HostMetrics` the round goes on (`WF`), and nothing is
assumed of the machines. In `StatusPage` loads and redraws come to an end (`WF`), and time passes
whatever the user does to the window (`SF` of `Tick`, which a window that is resized all the time
would otherwise hold up).

## 4. What the violations say

1. `ComfyFlag`. `UpsertComfyJob` keeps `created_at` but overwrites `wait_estimated`, and the sighting
   is forgotten after the first upsert. From the second drain of a page on, five minutes later, the
   wait is shown as reported by ComfyUI. The README of the repository promises the mark.
2. `ComfyBound`. The time of a sighting is taken before the request. A prompt submitted during the
   request gets an earlier time, so the wait is not a lower bound, as a comment in `buildJob` says;
   `EstimateWithinTimeout` says how far off it can be.
3. `SnapshotTwo`. Two goroutines write one temporary file, against the comment on `writeJSONFile`.
   Of two payloads that are written together the older may win. Where the writers do not meet at a
   file the comment is true (`SnapshotMeet`, and proved).
4. `PublishLast`. A failed push is repeated only if a later snapshot differs from the commit. If the
   collector has stopped writing, which is when the page needs the branch, it never is.

## 5. The proofs

`ComfyPollerProofs` assumes `PollerAssumption` only: any prompts, page size, TTL, timeout, failures.

* `TypeCorrect`: `TypeOK`.
* `EstimateInv` is the inductive invariant of the bounds. The bounds on stored times alone are not
  inductive: a stored time comes from a built job, that from a sighting, that from an answer of
  `/queue` that was on its way. `SightingInv` says what an answer or a sighting at time t bounds (the
  submission by t + Timeout, the start by t), `DrainInv` and `RowsInv` carry this to what is built
  and stored, `JobInv` and `HistoryInv` say that what is drained has started and finished. From it:
  `NoNegativeWait`, `EarlyByTimeoutAtMost`, `ReportedTimesExact`.
* `LedgerImplemented`: every step is a step of `JobLedger` or leaves `done` and `ledger` alone, using
  the same invariant.

`ComfyLossProofs` goes on from there, under the same assumption.

* `LossesAreReported`: `NoSilentLoss`. The property speaks of jobs that left the page, the code
  decides from one page at a time whether to warn. `OrderInv` is what makes that enough: the history
  is in the order of ends, so whatever finished before a stored job, or before one that
  is about to be handled, is stored, reported, interrupted or about to be handled as well. `PassedInv`
  ties the two flags of the drain in progress (page full, all entries new) to the jobs the
  page left out.
* `SightingsExpire` (`SeenBounded`), `LiveLeads` (`SeriesNotAheadOfLive`): `LiveInv` says what the
  sample under way has applied and that its time is not before what was published.
* `SightingsKeptUntilSaved`: `ForgottenOnlyWhenSaved`.

`SnapshotProofs` assumes `SnapshotAssumption`.

* `SnapshotTypes`: `TypeOK`.
* `WholeFilesUnlessMet` (`WholeUnlessMet`), `DirUnlessMet` (`DirSpec`), for any number of writers and
  inodes, any files in any order, failures and restarts. The inductive invariant `SnapshotInv` says
  that a file under a temporary name is not visible nor in doubt (`NamesInv`), that writers at one
  file know of each other (`MetInv`), that what a writer has open still has its temporary name or was
  renamed by a call it met (`OpenInv`), that the content of its file is where it is if it is
  alone (`WritingInv`), and that its payload is then not older than the one it will replace (`AgeInv`).

`PublishProofs` assumes `PublishAssumption`: any files, written and copied in any orders, any number of
calls in a row that stop half way, any of the commands of `CrashPoints` killed.

* `StagesFollow` (`StagesInOrder`), `BranchPartsTogether` (`PartsTogether`). A later stage may be one
  call ahead of an earlier one, no more: the file that was copied may be replaced by that of the
  earlier of two calls that met. `WriterInv` bounds how far a file of the directory lags behind the
  latest call, `CopyInv` carries this to the files that have been copied in this run, during which two
  calls may have been under way. The bound of `PartsTogether`, 3 and the calls that stopped half way,
  is reached. That a torn file is never staged follows from it: only a run that has copied every file
  afresh gets to `git add`. Half of the proof is about the renumbering, which must keep the order and
  the distances.

`ReportsProofs` assumes `ReportsAssumption`.

* `ReportTypes` (`TypeOK`): `ToldInv` says that of each job the table says what was told, with the
  times of earlier drains where later ones leave them out (`RowMerged`).
* `HourChartsExact` (`HoursExact`). `KeptInv` says that rows are there for as long as
  the retention; `SeriesInv`, that every series that has been queried is exact for each hour the page
  may still draw. The hour in which the window of the query began is
  incomplete, and the argument is that the page never has a slot for it, however late it draws.
* `DayChartsExact` (`DaysExact`), for jobs that report any of their times or none, at once or later,
  and were seen waiting or not. `JobsInv` adds to
  `ReportsInv` that a job that was ever stored is in the table for as long as its end is within the
  retention (`JobsKeptInv`), that nothing ends in the future, so that there are finitely many run
  times and waits (`IsTold`), and that the statistics, once queried, are those of every day the page may
  still draw (`DaysInv`). The assumption that the window is over before the clock starts, `now >
  Window`, is needed: a job without an end has the end 0, which a window that reached back
  to the epoch would take in. What the sum over the images of a day is needs no induction: both sides
  are the sum of one function.
* `PercentileIsNearestRank`: of the values of any finite function, `Percentile` finds that of the
  nearest rank. It first shows that there is one at the index, by the least number that more than
  `idx` values do not exceed.

`CheckerProofs` assumes `CheckerAssumption` and `WindowAssumption`: any endpoints, any retention and
any window within it, any number of stops, crashes and failing statements.

* `ApiTypes` (`ApiTypeOK`). `CheckerInv` adds that a request is made only for an endpoint there is
  (`Underway`), since the index of the loop may be one beyond the last, and that stops are faults.
* `StopCostsOneCheck`: `OneFalseDownPerStop`, with the API reading meanwhile. `StopInv` counts what is
  pending: a cut result on its way to the table, and the request that was under way when the signal
  came.
* `CurrentCounted`: `CurrentIsCounted`. `CountedInv` says that the row that was read as the latest is in
  the table for as long as the retention, hours and prunings in between included.
* `WindowIsKept`: `WindowKept`. What the API would report of a pruned table is what it would have
  reported before (`RecentOfPruned`), and a new row comes after it (`RecentOfAppended`). Both are
  about the order of rows that are kept: `NthCounts` says that the numbers of the rows kept are
  counted without gaps and in order, `NthOfNth` that keeping twice is keeping once.

`HostMetricsProofs` assumes `HostAssumption`.

* `HostTypes`, `RebootNoticed`. `TypeOK` needs `ClocksOK`: nothing recorded is later than
  now, and no machine was idle for longer than it has been up. The argument of `RebootNoticed` is that
  a value counts only if the total has grown: after a boot it has overtaken the old total only if the
  machine has been up for longer than it had been at the previous reading. The comment on
  `cpuCounter.update` has every reboot taken for a fresh prime, which is more than the counters tell: a
  machine that is read soon after a boot, boots again, and is read again much later is reported
  with a mixture.
* `TwinReadingsAgree`: `TwinsAgree`, from `ReadingsAssumption` (what is free is not more than there
  is, a path lies in one volume, a volume has a mount point of its own, mirrored zones have
  originals) and `PathsAssumption`. That a device appears once is proved with the least index of a path
  that names it; that guest time never makes a machine look less busy, with an inequality on the
  rounded quotients (`GuestsLookBusier`).

`StatusPageProofs` assumes `PageAssumption`.

* `PageTypes`, `UnmarkedFresh`. `FreshInv` says that unmarked data was no older than the limit when it
  was drawn, and that it was drawn since the last refresh began, or since the one before while a load
  is under way, whose length the timeouts bound.
* `GridCovers`: both roundings of `cellsFor`. `OneCell` names the only cell an hour is in,
  `CountFits` bounds the number of cells by those that fit, and `GridInv` says that the
  grid was drawn for the width the window has.

* `NewerOrMarkedAlways`: `NewerOrMarked`. `OrderInv` says that a live answer on its way is not older
  than a payload that was on the page when it was asked for.

Model-checked only:

* liveness (`JobsRecorded`, `SnapshotCatchesUp`, `CommitsGetPublished`, `StopEndsProcess`, `OldRowsGo`,
  `EveryEndpointChecked`, `DeadMachineShows`, `DeadTimerShows`, `LiveMachineShows`, `OutageShows`,
  `LastKnownStateShown`, `RecoveryShows`), which is out of the prover's reach, as are fairness and `ENABLED`.

Every invariant and every property of a step that the passing runs check is a theorem. Two ways of
writing the models made that possible. What a recursive function computes for every input takes an
induction that the provers cannot do, so what is kept of a table and what a percentile is
are written with cardinalities. And where an argument needs a least number, it is the
well-foundedness of the order on the naturals, applied to a set (`LeastNumber`, `LeastIndex`).

## 6. What is left out

Not modelled, and why:

* **Parsing and formats**: `/proc`, the Prometheus text format, JSON and SQL as such. What a property
  distinguishes of a parsed value is an input of the models.
* **An answer that lacks a family** (an exporter without its memory collector) is stored as measured
  zeros. Nothing in the repository says what it should be; `TwinsAgree` leaves it out by name.
* **A snapshot that is written while main closes the database** has endpoints without state, since
  `buildStatus` only logs failing queries. The failing query is `QueryFails` of `StatusApi`; a
  property about the file would say no more than that it has what was answered.
* **A port that is in use**: the collector runs on without an API. It is one step with no state after
  it. So is the shutdown of the HTTP server: it lets requests end for some seconds and then drops
  them, and requests change nothing.
* **Host names used twice** in the configuration, which nothing checks; the models take them to be
  distinct, as in every configuration of the repository.
* **Texts of the page**: labels, tooltips and the drawing of charts. One remark from reading the code:
  `renderGrid` collects the hours of a cell youngest first, and `mergeBuckets` (`index.html:1047`)
  takes the first for the beginning and the last for the end, so the tooltip of a cell of three
  hours runs backwards. The cell itself shows the right hours (`GridExact`).
* **Demo seeder, installation, release**: scripts and scratch tools that run once, by hand or on
  GitHub, and keep no state.

What would extend the project: the age of the parts of a payload as the page shows it, from the collector
over the branch to the page (`Publish` and `StatusPage` each bound a part of the way), and the width of
charts on the page.
