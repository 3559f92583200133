------------------------------ MODULE Reports ------------------------------
(***************************************************************************)
(* From the rows of the tables metrics and comfy_jobs to the charts of the *)
(* page.  buildComfy (internal/api) puts a payload together with one query *)
(* after the other: the labels of a gauge, an hourly series for each       *)
(* label, the statistics of the jobs by day, and what counts as today.     *)
(* Meanwhile samples are stored, the drainer stores what /history tells of *)
(* the jobs, each of them again and again, and the checker deletes old     *)
(* rows.  The page draws the payload when it arrives or, if it is that of  *)
(* a snapshot, much later: the last Days * 24 hours and the last Days UTC  *)
(* days, as of its own clock.                                              *)
(*                                                                         *)
(* Times are ticks since midnight UTC of some day, 0 is "not set".  The    *)
(* page's clock is taken to be the collector's.                            *)
(***************************************************************************)
EXTENDS Integers, Sequences, FiniteSets, FiniteSetsExt, Functions

CONSTANTS
    Hour,         \* ticks per hour
    HoursPerDay,
    Days,         \* the reporting window
    Retain,       \* how many ticks a row is kept
    Labels,       \* the labels of the gauge (devices, mount points, sensors)
    Values,       \* what it may show
    Prompts,      \* prompt ids
    Kinds,        \* what ComfyUI may report of a job, and whether it was seen waiting
    MayFail,      \* whether queries may fail
    MaxTime,      \* bound on the clock
    MaxEvents     \* bound on the samples and jobs together

Day == HoursPerDay * Hour
Hours == Days * HoursPerDay
Window == Days * Day

ASSUME ReportsAssumption ==
    /\ Hour \in Nat \ {0} /\ HoursPerDay \in Nat \ {0} /\ Days \in Nat \ {0}
    /\ Retain \in Nat /\ Retain >= Window
    /\ Values \subseteq Nat
    /\ \A kind \in Kinds :
          /\ kind.exec \in Nat
          /\ {kind.created, kind.started, kind.ended, kind.completed, kind.seen} \subseteq BOOLEAN
    /\ MayFail \in BOOLEAN
    /\ MaxTime \in Nat /\ MaxEvents \in Nat

Null == [null |-> TRUE]

VARIABLES
    now,
    metrics,  \* the rows of the gauge
    taken,    \* history variable: every row that was ever stored
    history,  \* ComfyUI: what it reports of the prompts that have ended
    seen,     \* the poller's sightings of prompts that ended, and when they were seen waiting
    jobs,     \* table comfy_jobs, as a function on the prompts it knows
    told,     \* history variable: of each prompt ever stored, what the drains were told of it
    pc,       \* the query buildComfy is at, "idle" between calls
    todo,     \* the labels whose series is yet to be queried
    payload   \* the latest payload

vars == <<now, metrics, taken, history, seen, jobs, told, pc, todo, payload>>

\* series, days, imagesToday: as in the payload.  taken, told, today: history variables, what
\* was stored when the queries ran and the day of the last step.  failed: the queries that failed.
NoPayload == [series |-> [l \in {} |-> Null], days |-> [d \in {} |-> Null], imagesToday |-> 0,
              taken |-> [l \in Labels |-> {}], told |-> [p \in {} |-> Null], today |-> 0, failed |-> {},
              made |-> FALSE]

Init ==
    /\ now = Window + Day  \* the epoch is longer ago than the window
    /\ metrics = {} /\ taken = {}
    /\ history = [p \in {} |-> Null] /\ seen = [p \in {} |-> Null]
    /\ jobs = [p \in {} |-> Null] /\ told = [p \in {} |-> Null]
    /\ pc = "idle" /\ todo = {} /\ payload = NoPayload

-----------------------------------------------------------------------------
(* Rows come and go. *)

HourOf(t) == t \div Hour
DayOf(t) == t \div Day
Events == Cardinality(taken) + Cardinality(DOMAIN history)

Tick ==
    /\ now < MaxTime
    /\ now' = now + 1
    /\ UNCHANGED <<metrics, taken, history, seen, jobs, told, pc, todo, payload>>

\* A sample is stored with the time at which it was begun.
InsertMetrics(l, v, lag) ==
    /\ Events < MaxEvents
    /\ LET row == [at |-> now - lag, label |-> l, value |-> v] IN
          /\ metrics' = metrics \union {row}
          /\ taken' = taken \union {row}
    /\ UNCHANGED <<now, history, seen, jobs, told, pc, todo, payload>>

\* f with v as its value at x, which may be new.
With(f, x, v) == [y \in DOMAIN f \union {x} |-> IF y = x THEN v ELSE f[y]]
Get(f, x, default) == IF x \in DOMAIN f THEN f[x] ELSE default

\* A prompt that was submitted two ticks before its start, and that the sampler may have seen in
\* /queue one tick before it, ends.  What /history says of all this is up to the kind; over is when
\* it really ended.  A sighting that a restart or the TTL takes away is as good as none.
Finish(p, kind) ==
    /\ Events < MaxEvents
    /\ p \notin DOMAIN history
    /\ kind.exec + 2 < now
    /\ LET start == now - kind.exec
           entry == [status |-> kind.status, completed |-> kind.completed, images |-> kind.images,
                     created |-> IF kind.created THEN start - 2 ELSE 0,
                     started |-> IF kind.started THEN start ELSE 0,
                     ended |-> IF kind.ended THEN now ELSE 0, over |-> now]
       IN  /\ history' = With(history, p, entry)
           /\ seen' = IF kind.seen THEN With(seen, p, start - 1) ELSE seen
    /\ UNCHANGED <<now, metrics, taken, jobs, told, pc, todo, payload>>

\* An end that was not reported at first is.
ReportEnd(p) ==
    /\ p \in DOMAIN history
    /\ history[p].ended = 0
    /\ history' = [history EXCEPT ![p].ended = history[p].over, ![p].status = "success"]
    /\ UNCHANGED <<now, metrics, taken, seen, jobs, told, pc, todo, payload>>

\* Variant: a job that never reported its end is left without one.
BuildJobUnanchored(entry, sighting) ==
    [status |-> entry.status, images |-> entry.images, started |-> entry.started,
     created |-> IF entry.created = 0 /\ entry.started > 0 THEN sighting ELSE entry.created,
     ended |-> entry.ended]

\* Without a create_time the sighting stands in for it.  A completed job that never reported its
\* end is anchored to its start.
BuildJob(entry, sighting) ==
    [status |-> entry.status, images |-> entry.images, started |-> entry.started,
     created |-> IF entry.created = 0 /\ entry.started > 0 THEN sighting ELSE entry.created,
     ended |-> IF entry.ended = 0 /\ entry.started > 0 /\ entry.completed THEN entry.started
              ELSE entry.ended]

\* Variant: the row is replaced.
MergedBlindly(old, new) == new

\* ON CONFLICT: a time that is not known now stays what it was.
Merged(old, new) ==
    LET Known(x, before) == IF x > 0 THEN x ELSE before IN
    [status |-> new.status, images |-> new.images, started |-> Known(new.started, old.started),
     created |-> Known(new.created, old.created), ended |-> Known(new.ended, old.ended)]

\* The drain upserts every entry of the page, the known ones too, and forgets the sighting.  The
\* estimate of a row that was deleted is lost with it.
UpsertComfyJob(p) ==
    /\ p \in DOMAIN history
    /\ LET row == BuildJob(history[p], Get(seen, p, 0))
           before == IF p \in DOMAIN jobs THEN told[p].seen ELSE 0
       IN  /\ jobs' = With(jobs, p, IF p \in DOMAIN jobs THEN Merged(jobs[p], row) ELSE row)
           /\ told' = With(told, p, [entry |-> history[p], seen |-> Get(seen, p, before)])
    /\ seen' = [q \in DOMAIN seen \ {p} |-> seen[q]]
    /\ UNCHANGED <<now, metrics, taken, history, pc, todo, payload>>

\* Rows older than Retain go, jobs only if their end is known; the second DELETE may fail.
PruneOld ==
    /\ metrics' = {r \in metrics : r.at >= now - Retain}
    /\ LET young == {p \in DOMAIN jobs : jobs[p].ended = 0 \/ jobs[p].ended >= now - Retain} IN
       \/ jobs' = [p \in young |-> jobs[p]]
       \/ MayFail /\ jobs' = jobs
    /\ UNCHANGED <<now, taken, history, seen, told, pc, todo, payload>>

-----------------------------------------------------------------------------
(* The queries.  Each reads the clock for its own window. *)

Since(t) == t - Window

\* AVG and MAX, rounded to hundredths.
Round(sum, n) == (200 * sum + n) \div (2 * n)
Aggregate(rows) ==
    [avg |-> Round(MapThenSumSet(LAMBDA r : r.value, rows), Cardinality(rows)),
     max |-> 100 * Max({r.value : r \in rows})]

GetMetricBuckets(l) ==
    LET rows == {r \in metrics : r.label = l /\ r.at >= Since(now)} IN
    [h \in {HourOf(r.at) : r \in rows} |-> Aggregate({r \in rows : HourOf(r.at) = h})]

MetricLabels == {r.label : r \in {r \in metrics : r.at >= Since(now)}}

\* Variant: the rank is rounded down.
PercentileDown(f, pct) ==
    IF DOMAIN f = {} THEN 0
    ELSE LET n == Cardinality(DOMAIN f)
             idx == Min({(pct * n) \div 100, n - 1})
         IN  CHOOSE v \in {f[p] : p \in DOMAIN f} :
                 /\ Cardinality({p \in DOMAIN f : f[p] < v}) <= idx
                 /\ idx < Cardinality({p \in DOMAIN f : f[p] <= v})

\* percentile: of the n sorted values of f that at index ceil(pct/100 * n) - 1.
Percentile(f, pct) ==
    IF DOMAIN f = {} THEN 0
    ELSE LET n == Cardinality(DOMAIN f)
             idx == (pct * n + 99) \div 100 - 1
         IN  CHOOSE v \in {f[p] : p \in DOMAIN f} :
                 /\ Cardinality({p \in DOMAIN f : f[p] < v}) <= idx
                 /\ idx < Cardinality({p \in DOMAIN f : f[p] <= v})

Cancelled == {"cancelled", "interrupted"}

\* The accumulator of GetComfyStats over the jobs P of the table f, finished.
DayStats(f, P) ==
    LET execs == [p \in {p \in P : f[p].started > 0 /\ f[p].ended > f[p].started} |->
                     f[p].ended - f[p].started]
        waits == [p \in {p \in P : f[p].created > 0 /\ f[p].started > 0} |->
                     Max({f[p].started - f[p].created, 0})]
    IN  [jobs |-> Cardinality(P),
         images |-> SumFunction([p \in P |-> f[p].images]),
         ok |-> Cardinality({p \in P : f[p].status = "success"}),
         cancelled |-> Cardinality({p \in P : f[p].status \in Cancelled}),
         failed |-> Cardinality({p \in P : f[p].status \notin Cancelled \union {"success"}}),
         exec50 |-> Percentile(execs, 50), exec95 |-> Percentile(execs, 95),
         wait50 |-> Percentile(waits, 50), wait95 |-> Percentile(waits, 95)]

GetComfyStats ==
    LET P == {p \in DOMAIN jobs : jobs[p].ended >= Since(now)} IN
    [d \in {DayOf(jobs[p].ended) : p \in P} |->
        DayStats(jobs, {p \in P : DayOf(jobs[p].ended) = d})]

-----------------------------------------------------------------------------
(* buildComfy. *)

Query(at, next) ==
    /\ pc = at
    /\ pc' = next
    /\ UNCHANGED <<now, metrics, taken, history, seen, jobs, told>>

QueryFails(name) == payload' = [payload EXCEPT !.failed = @ \union {name}]

Begin ==
    /\ Query("idle", "labels")
    /\ payload' = NoPayload
    /\ UNCHANGED todo

AskLabels ==
    /\ Query("labels", "series")
    /\ \/ /\ todo' = MetricLabels
          /\ payload' = [payload EXCEPT !.taken =
                            [l \in Labels |-> {r \in taken : r.label = l}]]
       \/ MayFail /\ todo' = {} /\ QueryFails("labels")

AskSeries(l) ==
    /\ Query("series", "series")
    /\ l \in todo
    /\ todo' = todo \ {l}
    /\ \/ payload' = [payload EXCEPT
             !.series = [k \in DOMAIN @ \union {l} |-> IF k = l THEN GetMetricBuckets(l) ELSE @[k]],
             !.taken[l] = {r \in taken : r.label = l}]
       \/ MayFail /\ QueryFails(l)

AskStats ==
    /\ todo = {}
    /\ \/ /\ Query("series", "today")
          /\ payload' = [payload EXCEPT !.days = GetComfyStats, !.told = told]
       \/ /\ MayFail
          /\ Query("series", "idle")
          /\ payload' = [payload EXCEPT !.failed = @ \union {"stats"}, !.made = TRUE]
    /\ UNCHANGED todo

CountToday ==
    /\ Query("today", "idle")
    /\ payload' = [payload EXCEPT
          !.imagesToday = IF DayOf(now) \in DOMAIN payload.days
                            THEN payload.days[DayOf(now)].images ELSE 0,
          !.today = DayOf(now), !.made = TRUE]
    /\ UNCHANGED todo

Build == Begin \/ AskLabels \/ (\E l \in Labels : AskSeries(l)) \/ AskStats \/ CountToday

Next ==
    \/ Tick \/ PruneOld \/ Build
    \/ \E l \in Labels, v \in Values, lag \in {0, 1} : InsertMetrics(l, v, lag)
    \/ \E p \in Prompts, kind \in Kinds : Finish(p, kind)
    \/ \E p \in Prompts : ReportEnd(p) \/ UpsertComfyJob(p)

Spec == Init /\ [][Next]_vars

-----------------------------------------------------------------------------
(* The page. *)

\* Variant: one slot more than there are hours in the window.
AlignHourlyMore == {HourOf(now) - i : i \in 0 .. Hours}

\* The slots of alignHourly and alignDaily, oldest to youngest, and what is drawn in one.
AlignHourly == {HourOf(now) - i : i \in 0 .. Hours - 1}
AlignDaily == {DayOf(now) - i : i \in 0 .. Days - 1}

At(f, x) == Get(f, x, Null)
DrawnHour(l, h) == IF l \in DOMAIN payload.series THEN At(payload.series[l], h) ELSE Null
DrawnDay(d) == At(payload.days, d)

-----------------------------------------------------------------------------
(* Properties. *)

\* What is known of a job from what was told of it, whatever the order: a reported submission or
\* else a sighting, and a reported end or else the start if the job is known to be complete.
SubmittedAt(t) == IF t.entry.created > 0 THEN t.entry.created
                  ELSE IF t.entry.started > 0 THEN t.seen ELSE 0
EndOf(t) == IF t.entry.ended = 0 /\ t.entry.completed THEN t.entry.started ELSE t.entry.ended
Job(t) == [status |-> t.entry.status, images |-> t.entry.images, started |-> t.entry.started,
           created |-> SubmittedAt(t), ended |-> EndOf(t)]

\* Rows are what was sampled and, however often a job was stored, all that was ever told of it; a
\* payload holds series of known labels.
TypeOK ==
    /\ now \in Nat
    /\ metrics \subseteq taken
    /\ \A r \in taken : r.at \in 0 .. now /\ r.label \in Labels /\ r.value \in Values
    /\ DOMAIN jobs \subseteq DOMAIN told /\ DOMAIN told \subseteq DOMAIN history
    /\ \A p \in DOMAIN jobs : jobs[p] = Job(told[p])
    /\ pc \in {"idle", "labels", "series", "today"} /\ todo \subseteq Labels
    /\ DOMAIN payload.series \subseteq Labels

\* However late it is drawn and whatever was pruned, an hour of a chart shows the mean and the
\* peak of all the samples of that hour that were stored when its series was queried, never
\* of a part of them; a device without a line had no sample.
HoursExact ==
    pc = "idle" /\ payload.made /\ "labels" \notin payload.failed =>
        \A l \in Labels \ payload.failed, h \in AlignHourly :
            LET rows == {r \in payload.taken[l] : HourOf(r.at) = h} IN
            DrawnHour(l, h) = IF rows = {} THEN Null ELSE Aggregate(rows)

\* A day of a chart counts every job that ended on that day and was stored when the
\* statistics were queried, once, although pages are read again, ends become known later and old
\* rows are deleted; a job that completed without reporting its end counts on the day it started,
\* one of which no end is known on none.  Its percentiles are those of the nearest rank: p95 of
\* the run times is the least of them that at least 95 % of them do not exceed; the waits are
\* those from the submission or else from the sighting, which a later drain does not lose though
\* the poller has forgotten it.  "Images today" are those of the day on which the payload was made.
EndedOn(d) ==
    {p \in DOMAIN payload.told :
        EndOf(payload.told[p]) > 0 /\ DayOf(EndOf(payload.told[p])) = d}
JobsOn(d) == [p \in EndedOn(d) |-> Job(payload.told[p])]
RanFor(d) ==
    LET f == JobsOn(d) IN
    [p \in {p \in EndedOn(d) : f[p].started > 0 /\ f[p].ended > f[p].started} |->
        f[p].ended - f[p].started]
WaitedFor(d) ==
    LET f == JobsOn(d) IN
    [p \in {p \in EndedOn(d) : f[p].created > 0 /\ f[p].started > 0} |->
        Max({f[p].started - f[p].created, 0})]

NearestRank(f, pct, v) ==
    LET upTo(w) == 100 * Cardinality({p \in DOMAIN f : f[p] <= w}) IN
    IF DOMAIN f = {} THEN v = 0
    ELSE /\ upTo(v) >= pct * Cardinality(DOMAIN f)
         /\ \A p \in DOMAIN f : f[p] < v => upTo(f[p]) < pct * Cardinality(DOMAIN f)

DaysExact ==
    pc = "idle" /\ payload.made /\ "stats" \notin payload.failed =>
        /\ \A d \in AlignDaily :
              IF EndedOn(d) = {} THEN DrawnDay(d) = Null
              ELSE /\ DrawnDay(d) = DayStats(JobsOn(d), EndedOn(d))
                   /\ NearestRank(RanFor(d), 50, DrawnDay(d).exec50)
                   /\ NearestRank(RanFor(d), 95, DrawnDay(d).exec95)
                   /\ NearestRank(WaitedFor(d), 50, DrawnDay(d).wait50)
                   /\ NearestRank(WaitedFor(d), 95, DrawnDay(d).wait95)
        /\ payload.imagesToday = SumFunction([p \in EndedOn(payload.today) |->
                                                  payload.told[p].entry.images])
=============================================================================
