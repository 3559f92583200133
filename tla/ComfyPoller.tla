--------------------------- MODULE ComfyPoller ---------------------------
(***************************************************************************)
(* internal/comfy: the poller that watches one ComfyUI server, together    *)
(* with the comfy_jobs table it fills.  Two goroutines share the map       *)
(* `seen' (prompt_id -> when the prompt was first seen waiting):           *)
(*   - the sampler (SampleGauges) reads /queue and /system_stats, adds the *)
(*     waiting prompts to `seen', publishes `live', stores one metrics row;*)
(*   - the drainer (DrainJobs) reads the last PageSize entries of /history,*)
(*     and for each one builds a job (using `seen' when ComfyUI did not    *)
(*     say when the job was queued), upserts it and drops it from `seen'.  *)
(* ComfyUI itself is external: prompts are queued, run, finish, and a      *)
(* restart of ComfyUI empties queue and history.  The collector may be     *)
(* killed at any point; only the table survives.                           *)
(*                                                                         *)
(* Times are 1..MaxTime; 0 is "not set", as in the code's int64 columns.   *)
(* ComfyUI's clock and the collector's are taken to be the same clock.     *)
(***************************************************************************)
EXTENDS Integers, Sequences, FiniteSets

CONSTANTS
    Prompts,      \* prompt ids
    PageSize,     \* historyPageSize
    SeenTTL,      \* seenTTL
    Timeout,      \* the http.Client timeout
    MaxTime,      \* bound on the clock
    MaxRestarts,  \* bound on restarts (of ComfyUI and of the collector together)
    MayFail,      \* the calls that may fail, a subset of Calls
    Builds        \* what the ComfyUI builds and front ends in use report of a job

Calls == {"queue", "stats", "history", "lookup", "upsert", "metrics"}

\* stamped: extra_data carries create_time; timed: the status messages carry timestamps.
BuildKinds == [stamped : BOOLEAN, timed : BOOLEAN]

ASSUME PollerAssumption ==
    /\ PageSize \in Nat \ {0}
    /\ SeenTTL \in Nat
    /\ Timeout \in Nat
    /\ MaxTime \in Nat \ {0}
    /\ MaxRestarts \in Nat
    /\ MayFail \subseteq Calls
    /\ Builds \subseteq BuildKinds

VARIABLES
    now,       \* the clock
    job,       \* ComfyUI: what became of each prompt
    history,   \* ComfyUI: finished prompts, oldest first
    restarts,  \* restarts so far
    boot,      \* main: the serial start-up, "sample", then "drain", then "run"
    seen,      \* Poller.seen; 0 for a prompt that is not in the map
    live,      \* Poller.live
    series,    \* the time of the newest metrics sample of source comfyui
    sampler,   \* the SampleGauges call in progress
    drainer,   \* the DrainJobs call in progress
    rows,      \* table comfy_jobs
    reported,  \* history variable: prompts a "page was entirely new" warning covers
    faulted    \* history variable: prompts whose drain failed or was cut short

comfyVars == <<job, history>>
sampleVars == <<seen, live, series, sampler>>
drainVars == <<drainer, rows, reported, faulted>>
vars == <<now, job, history, restarts, boot, seen, live, series,
          sampler, drainer, rows, reported, faulted>>

Time == 0 .. MaxTime
Stages == {"unborn", "pending", "running", "done", "gone"}

Job == [stage : Stages, build : BuildKinds, queued : Time, started : Time]
Row == [exists : BOOLEAN, created : Time, est : BOOLEAN]
Built == [created : Time, est : BOOLEAN]
Live == [at : Time, queue : BOOLEAN, stats : BOOLEAN]
Sampler == [pc : {"idle", "queue", "observe", "stats", "insert"}, stamp : Time,
            queue : BOOLEAN, stats : BOOLEAN, pending : SUBSET Prompts]
Drainer == [pc : {"idle", "pick", "save", "forget"}, todo : SUBSET Prompts,
            cur : SUBSET Prompts, built : Built, full : BOOLEAN, allNew : BOOLEAN,
            passed : SUBSET Prompts]

NoBuild == [stamped |-> FALSE, timed |-> FALSE]
NoBuilt == [created |-> 0, est |-> FALSE]
NoLive == [at |-> 0, queue |-> FALSE, stats |-> FALSE]
SamplerIdle == [pc |-> "idle", stamp |-> 0, queue |-> FALSE, stats |-> FALSE, pending |-> {}]
DrainerIdle == [pc |-> "idle", todo |-> {}, cur |-> {}, built |-> NoBuilt,
                full |-> FALSE, allNew |-> FALSE, passed |-> {}]

Init ==
    /\ now = 1
    /\ job = [p \in Prompts |-> [stage |-> "unborn", build |-> NoBuild, queued |-> 0, started |-> 0]]
    /\ history = <<>>
    /\ restarts = 0
    /\ boot = "sample"
    /\ seen = [p \in Prompts |-> 0]
    /\ live = NoLive
    /\ series = 0
    /\ sampler = SamplerIdle
    /\ drainer = DrainerIdle
    /\ rows = [p \in Prompts |-> [exists |-> FALSE, created |-> 0, est |-> FALSE]]
    /\ reported = {}
    /\ faulted = {}

-----------------------------------------------------------------------------
(* ComfyUI and the clock. *)

Tick ==
    /\ now < MaxTime
    /\ now' = now + 1
    /\ UNCHANGED <<comfyVars, restarts, boot, sampleVars, drainVars>>

Become(p, entry) ==
    /\ job' = [job EXCEPT ![p] = entry]
    /\ UNCHANGED <<now, restarts, boot, sampleVars, drainVars>>

\* A client submits a prompt; its front end stamps create_time, or does not.
Enqueue(p) ==
    /\ job[p].stage = "unborn"
    /\ \E build \in Builds :
          Become(p, [stage |-> "pending", build |-> build, queued |-> now, started |-> 0])
    /\ UNCHANGED history

Start(p) ==
    /\ job[p].stage = "pending"
    /\ Become(p, [job[p] EXCEPT !.stage = "running", !.started = now])
    /\ UNCHANGED history

Finish(p) ==
    /\ job[p].stage = "running"
    /\ Become(p, [job[p] EXCEPT !.stage = "done"])
    /\ history' = Append(history, p)

\* A waiting prompt is deleted from the queue: it never reaches the history.
Cancel(p) ==
    /\ job[p].stage = "pending"
    /\ Become(p, [job[p] EXCEPT !.stage = "gone"])
    /\ UNCHANGED history

\* ComfyUI keeps queue and history in memory only.
ComfyRestart ==
    /\ restarts < MaxRestarts
    /\ restarts' = restarts + 1
    /\ job' = [p \in Prompts |-> IF job[p].stage \in {"pending", "running"}
                                   THEN [job[p] EXCEPT !.stage = "gone"]
                                   ELSE job[p]]
    /\ history' = <<>>
    /\ UNCHANGED <<now, boot, sampleVars, drainVars>>

Pending == {p \in Prompts : job[p].stage = "pending"}

\* GET /history?max_items=PageSize answers with the last entries.
PageStart == IF Len(history) > PageSize THEN Len(history) - PageSize + 1 ELSE 1
Page == {history[i] : i \in PageStart .. Len(history)}
PushedOff == {history[i] : i \in 1 .. (PageStart - 1)}

-----------------------------------------------------------------------------
(* SampleGauges. *)

SampleBegin ==
    /\ boot \in {"sample", "run"}
    /\ sampler.pc = "idle"
    /\ sampler' = [SamplerIdle EXCEPT !.pc = "queue", !.stamp = now]
    /\ UNCHANGED <<now, comfyVars, restarts, boot, seen, live, series, drainVars>>

\* Variant: a client without a timeout waits for the answer as long as it takes.
GetQueueNoTimeout ==
    /\ sampler.pc = "queue"
    /\ sampler' = [sampler EXCEPT !.pc = "observe", !.queue = TRUE, !.pending = Pending]
    /\ UNCHANGED <<now, comfyVars, restarts, boot, seen, live, series, drainVars>>

\* ComfyUI answers within the client's timeout; the answer is yet to be applied.
GetQueue ==
    /\ sampler.pc = "queue"
    /\ now <= sampler.stamp + Timeout
    /\ sampler' = [sampler EXCEPT !.pc = "observe", !.queue = TRUE, !.pending = Pending]
    /\ UNCHANGED <<now, comfyVars, restarts, boot, seen, live, series, drainVars>>

GetQueueFails ==
    /\ sampler.pc = "queue"
    /\ "queue" \in MayFail \/ now > sampler.stamp + Timeout
    /\ sampler' = [sampler EXCEPT !.pc = "stats"]
    /\ UNCHANGED <<now, comfyVars, restarts, boot, seen, live, series, drainVars>>

\* Variants: the time at which the answer is applied, and no expiry.
AddedWhenApplied(map, pending, stamp) ==
    [p \in Prompts |-> IF p \in pending /\ map[p] = 0 THEN now ELSE map[p]]
ExpiredNever(map, stamp) == map

\* observeQueued: first the additions, then the expiry of old entries.
Added(map, pending, stamp) ==
    [p \in Prompts |-> IF p \in pending /\ map[p] = 0 THEN stamp ELSE map[p]]
Expired(map, stamp) ==
    [p \in Prompts |-> IF map[p] > 0 /\ stamp - map[p] > SeenTTL THEN 0 ELSE map[p]]
Observed(map, pending, stamp) == Expired(Added(map, pending, stamp), stamp)

ObserveQueued ==
    /\ sampler.pc = "observe"
    /\ seen' = Observed(seen, sampler.pending, sampler.stamp)
    /\ sampler' = [sampler EXCEPT !.pc = "stats", !.pending = {}]
    /\ UNCHANGED <<now, comfyVars, restarts, boot, live, series, drainVars>>

\* Variant: live is replaced only by a complete sample.
GetStatsPublishIfOk ==
    /\ sampler.pc = "stats"
    /\ \E ok \in BOOLEAN :
          /\ ok \/ "stats" \in MayFail
          /\ sampler' = [sampler EXCEPT !.pc = "insert", !.stats = ok]
          /\ live' = IF ok THEN [at |-> sampler.stamp, queue |-> sampler.queue, stats |-> ok]
                           ELSE live
    /\ UNCHANGED <<now, comfyVars, restarts, boot, seen, series, drainVars>>

\* GET /system_stats, then p.live is replaced; nothing is shared in between.
GetStats ==
    /\ sampler.pc = "stats"
    /\ \E ok \in BOOLEAN :
          /\ ok \/ "stats" \in MayFail
          /\ sampler' = [sampler EXCEPT !.pc = "insert", !.stats = ok]
          /\ live' = [at |-> sampler.stamp, queue |-> sampler.queue, stats |-> ok]
    /\ UNCHANGED <<now, comfyVars, restarts, boot, seen, series, drainVars>>

\* The sample that InsertMetrics stores; both GETs failing leaves nothing to store.
InsertMetrics ==
    /\ sampler.pc = "insert"
    /\ IF sampler.queue \/ sampler.stats
         THEN \/ series' = sampler.stamp
              \/ "metrics" \in MayFail /\ series' = series
         ELSE series' = series
    /\ sampler' = SamplerIdle
    /\ boot' = IF boot = "sample" THEN "drain" ELSE boot
    /\ UNCHANGED <<now, comfyVars, restarts, seen, live, drainVars>>

-----------------------------------------------------------------------------
(* DrainJobs. *)

\* What a history entry says of its prompt: create_time and the execution_start stamp.
CreateTime(p) == IF job[p].build.stamped THEN job[p].queued ELSE 0
StartedAt(p) == IF job[p].build.timed THEN job[p].started ELSE 0

\* Variant: the fallback is taken even when ComfyUI reported create_time.
BuildJobPrefersSeen(p) ==
    IF StartedAt(p) > 0 /\ seen[p] > 0
      THEN [created |-> seen[p], est |-> TRUE]
      ELSE [created |-> CreateTime(p), est |-> FALSE]

BuildJob(p) ==
    IF CreateTime(p) = 0 /\ StartedAt(p) > 0 /\ seen[p] > 0
      THEN [created |-> seen[p], est |-> TRUE]
      ELSE [created |-> CreateTime(p), est |-> FALSE]

\* Variant: created_at = excluded.created_at.
UpsertedBlindly(row, new) == [exists |-> TRUE, created |-> new.created, est |-> new.est]

\* ON CONFLICT: a known created_at is kept when the new one is 0, the flag is overwritten.
Upserted(row, new) ==
    [exists |-> TRUE,
     created |-> IF new.created > 0 THEN new.created ELSE row.created,
     est |-> new.est]

\* Variant: len(hist) > historyPageSize.
GetHistoryOffByOne ==
    /\ boot \in {"drain", "run"}
    /\ drainer.pc = "idle"
    /\ drainer' = [pc |-> "pick", todo |-> Page, cur |-> {}, built |-> NoBuilt,
                   full |-> Cardinality(Page) > PageSize, allNew |-> TRUE,
                   passed |-> PushedOff]
    /\ UNCHANGED <<now, comfyVars, restarts, boot, sampleVars, rows, reported, faulted>>

GetHistory ==
    /\ boot \in {"drain", "run"}
    /\ drainer.pc = "idle"
    /\ drainer' = [pc |-> "pick", todo |-> Page, cur |-> {}, built |-> NoBuilt,
                   full |-> Cardinality(Page) >= PageSize, allNew |-> TRUE,
                   passed |-> PushedOff]
    /\ UNCHANGED <<now, comfyVars, restarts, boot, sampleVars, rows, reported, faulted>>

\* DrainJobs returns the error; the next tick tries again.
GetHistoryFails ==
    /\ boot \in {"drain", "run"}
    /\ drainer.pc = "idle"
    /\ "history" \in MayFail
    /\ boot' = "run"
    /\ UNCHANGED <<now, comfyVars, restarts, sampleVars, drainVars>>

\* Variant: an entry whose lookup fails is skipped.
DrainPickSkipping(p) ==
    /\ drainer.pc = "pick"
    /\ p \in drainer.todo
    /\ \/ drainer' = [drainer EXCEPT !.pc = "save", !.todo = @ \ {p}, !.cur = {p},
                                     !.built = BuildJob(p),
                                     !.allNew = @ /\ ~rows[p].exists]
       \/ "lookup" \in MayFail /\ drainer' = [drainer EXCEPT !.todo = @ \ {p}]
    /\ UNCHANGED <<now, comfyVars, restarts, boot, sampleVars, rows, reported, faulted>>

\* Only the drainer writes the table, so the lookup and the read of `seen' are one
\* step.  A lookup that fails reports the job as unknown, that is as new.
DrainPick(p) ==
    /\ drainer.pc = "pick"
    /\ p \in drainer.todo
    /\ \E known \in BOOLEAN :
          /\ known = rows[p].exists \/ (~known /\ "lookup" \in MayFail)
          /\ drainer' = [drainer EXCEPT !.pc = "save", !.todo = @ \ {p}, !.cur = {p},
                                        !.built = BuildJob(p),
                                        !.allNew = @ /\ ~known]
    /\ UNCHANGED <<now, comfyVars, restarts, boot, sampleVars, rows, reported, faulted>>

DrainSave(p) ==
    /\ drainer.pc = "save"
    /\ p \in drainer.cur
    /\ rows' = [rows EXCEPT ![p] = Upserted(@, drainer.built)]
    /\ drainer' = [drainer EXCEPT !.pc = "forget", !.built = NoBuilt]
    /\ UNCHANGED <<now, comfyVars, restarts, boot, sampleVars, reported, faulted>>

\* Variants: the failed entry is forgotten as well, and it is not let go of.
DrainSaveFailsForgets(p) ==
    /\ drainer.pc = "save"
    /\ p \in drainer.cur
    /\ "upsert" \in MayFail
    /\ drainer' = [drainer EXCEPT !.pc = "forget", !.built = NoBuilt]
    /\ faulted' = faulted \cup {p}
    /\ UNCHANGED <<now, comfyVars, restarts, boot, sampleVars, rows, reported>>

DrainSaveFailsHolds(p) ==
    /\ drainer.pc = "save"
    /\ p \in drainer.cur
    /\ "upsert" \in MayFail
    /\ drainer' = [drainer EXCEPT !.pc = "pick", !.built = NoBuilt]
    /\ faulted' = faulted \cup {p}
    /\ UNCHANGED <<now, comfyVars, restarts, boot, sampleVars, rows, reported>>

\* The loop goes on with the next entry, and what was seen of this one is kept.
DrainSaveFails(p) ==
    /\ drainer.pc = "save"
    /\ p \in drainer.cur
    /\ "upsert" \in MayFail
    /\ drainer' = [drainer EXCEPT !.pc = "pick", !.cur = {}, !.built = NoBuilt]
    /\ faulted' = faulted \cup {p}
    /\ UNCHANGED <<now, comfyVars, restarts, boot, sampleVars, rows, reported>>

DrainForget(p) ==
    /\ drainer.pc = "forget"
    /\ p \in drainer.cur
    /\ seen' = [seen EXCEPT ![p] = 0]
    /\ drainer' = [drainer EXCEPT !.pc = "pick", !.cur = {}]
    /\ UNCHANGED <<now, comfyVars, restarts, boot, live, series, sampler,
                   rows, reported, faulted>>

\* The warning "history page was entirely new".
Warns == drainer.allNew /\ drainer.full

DrainEnd ==
    /\ drainer.pc = "pick"
    /\ drainer.todo = {}
    /\ reported' = IF Warns THEN reported \cup drainer.passed ELSE reported
    /\ drainer' = [DrainerIdle EXCEPT !.passed = drainer.passed]
    /\ boot' = "run"
    /\ UNCHANGED <<now, comfyVars, restarts, sampleVars, rows, faulted>>

-----------------------------------------------------------------------------
(* The collector is killed, or told to stop, and started again. *)

CollectorRestart ==
    /\ restarts < MaxRestarts
    /\ restarts' = restarts + 1
    /\ boot' = "sample"
    /\ seen' = [p \in Prompts |-> 0]
    /\ live' = NoLive
    /\ sampler' = SamplerIdle
    /\ drainer' = DrainerIdle
    /\ faulted' = IF drainer.pc = "idle" THEN faulted
                  ELSE faulted \cup drainer.todo \cup drainer.cur \cup drainer.passed
    /\ UNCHANGED <<now, comfyVars, series, rows, reported>>

ComfyNext ==
    \/ \E p \in Prompts : Enqueue(p) \/ Start(p) \/ Finish(p) \/ Cancel(p)
    \/ ComfyRestart

SamplerNext ==
    \/ SampleBegin
    \/ GetQueue
    \/ GetQueueFails
    \/ ObserveQueued
    \/ GetStats
    \/ InsertMetrics

DrainerNext ==
    \/ GetHistory
    \/ GetHistoryFails
    \/ \E p \in Prompts : DrainPick(p) \/ DrainSave(p) \/ DrainSaveFails(p) \/ DrainForget(p)
    \/ DrainEnd

Next == Tick \/ ComfyNext \/ SamplerNext \/ DrainerNext \/ CollectorRestart

Spec == Init /\ [][Next]_vars

\* The tickers of main keep firing, every call returns (the HTTP client has a timeout,
\* SQLite a busy timeout), and neither /history nor the table fails for ever.
Fairness ==
    /\ WF_vars(SamplerNext)
    /\ WF_vars(DrainerNext)
    /\ SF_vars(GetHistory)
    /\ \A p \in Prompts : SF_vars(DrainSave(p))

FairSpec == Spec /\ Fairness

-----------------------------------------------------------------------------
(* Properties. *)

\* Every variable has its type; the drainer holds an entry exactly while it handles it.
TypeOK ==
    /\ now \in 1 .. MaxTime
    /\ job \in [Prompts -> Job]
    /\ history \in Seq(Prompts)
    /\ restarts \in 0 .. MaxRestarts
    /\ boot \in {"sample", "drain", "run"}
    /\ seen \in [Prompts -> Time]
    /\ live \in Live
    /\ series \in Time
    /\ sampler \in Sampler
    /\ drainer \in Drainer
    /\ drainer.cur = {} <=> drainer.pc \in {"idle", "pick"}
    /\ rows \in [Prompts -> Row]
    /\ reported \in SUBSET Prompts
    /\ faulted \in SUBSET Prompts

\* A job whose create_time ComfyUI reported is stored with that time and is never
\* marked as an estimate, whatever the sampler saw of it (buildJob's first condition).
ExactStaysExact ==
    \A p \in Prompts : rows[p].exists /\ job[p].build.stamped =>
        rows[p].created = job[p].queued /\ ~rows[p].est

\* A stored created_at is never later than the start of the job, so the wait the page
\* shows is never negative - although the estimate comes from an answer of /queue that
\* may be applied long after the job left the queue.
EstimateNotAfterStart ==
    \A p \in Prompts : rows[p].created > 0 => rows[p].created <= job[p].started

\* A stored created_at precedes the real submission by at most the HTTP timeout: `now' in
\* SampleGauges is read before the request, so only the request's own time can be added.
EstimateWithinTimeout ==
    \A p \in Prompts : rows[p].created > 0 => job[p].queued <= rows[p].created + Timeout

\* The three properties above, strengthened to what every step preserves.  A sighting of a
\* prompt at time t bounds its submission from above and its start from below; entries of
\* `seen', and the answer of /queue on its way to observeQueued, are sightings; whatever is
\* built or stored of a finished job is within the bounds of the sighting it came from.
Sighting(p, t) ==
    /\ job[p].stage # "unborn"
    /\ t <= now
    /\ job[p].queued <= t + Timeout
    /\ job[p].started > 0 => t <= job[p].started

Within(p, created, est) ==
    /\ created > 0 => created <= job[p].started /\ job[p].queued <= created + Timeout
    /\ job[p].build.stamped => created = job[p].queued /\ ~est

JobInv ==
    \A p \in Prompts :
        /\ job[p].stage # "unborn" => job[p].queued \in 1 .. now
        /\ job[p].started > 0 => job[p].started \in job[p].queued .. now
        /\ job[p].stage \in {"unborn", "pending"} => job[p].started = 0
        /\ job[p].stage \in {"running", "done"} => job[p].started > 0

HistoryInv == \A i \in 1 .. Len(history) : job[history[i]].stage = "done"

SightingInv ==
    /\ sampler.stamp <= now
    /\ \A p \in sampler.pending : Sighting(p, sampler.stamp)
    /\ \A p \in Prompts : seen[p] > 0 => Sighting(p, seen[p])

DrainInv ==
    /\ \A p \in drainer.todo \cup drainer.cur : job[p].stage = "done"
    /\ drainer.pc = "save" =>
          \A p \in drainer.cur : Within(p, drainer.built.created, drainer.built.est)

RowsInv ==
    \A p \in Prompts :
        IF rows[p].exists THEN job[p].stage = "done" /\ Within(p, rows[p].created, rows[p].est)
                          ELSE rows[p].created = 0

EstimateInv == JobInv /\ HistoryInv /\ SightingInv /\ DrainInv /\ RowsInv

\* When no drain is running, every job that had been pushed off the page of the last drain
\* is in the table, or a warning covered it, or a drain of it failed or was cut short.
\* (The warning of DrainJobs is enough to notice every other loss.)
NoSilentLoss ==
    drainer.pc = "idle" =>
        \A p \in drainer.passed : rows[p].exists \/ p \in reported \/ p \in faulted

\* Once a reachable sample is published, `seen' holds nothing older than seenTTL.
SeenBounded ==
    live.at > 0 /\ live.queue =>
        \A p \in Prompts : seen[p] > 0 => live.at - seen[p] <= SeenTTL

\* The stored series is never ahead of what /api/comfy serves as "now", while the
\* process that published it lives (SampleGauges publishes before it stores).
SeriesNotAheadOfLive == live.at > 0 => series <= live.at

\* An entry leaves `seen' only when the process dies, when its TTL is over, or when
\* the job it belongs to is in the table (forget follows a successful upsert).
ForgottenOnlyWhenSaved ==
    [][\A p \in Prompts : seen[p] > 0 /\ seen'[p] = 0 =>
          \/ rows[p].exists
          \/ restarts' = restarts + 1
          \/ sampler.stamp - seen[p] > SeenTTL]_vars

\* A job that stays on the history page is recorded in the end.
JobsRecorded ==
    \A p \in Prompts : <>[](p \in Page) => <>rows[p].exists

\* The refinement mapping to JobLedger.  Which times are reported ones is known from the build of
\* ComfyUI; that the row holds them as they are is ExactStaysExact.
Done == {p \in Prompts : job[p].stage = "done"}
LedgerEntry(p) ==
    CASE ~rows[p].exists -> "absent"
      [] rows[p].exists /\ rows[p].created = 0 -> "unknown"
      [] rows[p].exists /\ rows[p].created > 0 /\ ~job[p].build.stamped -> "estimated"
      [] OTHER -> "exact"

Ledger == INSTANCE JobLedger WITH done <- Done,
                                  ledger <- [p \in Prompts |-> LedgerEntry(p)]

\* The poller and its table implement the ledger: no failed call, restart or late answer
\* loses a recorded job or forgets its submission time.
LedgerSpec == Ledger!Spec

-----------------------------------------------------------------------------
(* Statements of the code's comments, its tests and its README. *)

\* README: a wait derived from first sight is "a lower bound, marked as an estimate in
\* the UI".  Every stored created_at that ComfyUI did not report carries the flag.
EstimateStaysFlagged ==
    \A p \in Prompts : rows[p].created > 0 /\ ~job[p].build.stamped => rows[p].est

\* comfy.go, buildJob: "That is a lower bound" - the stored submission is not earlier
\* than the real one, so the wait shown is not longer than the real one.
WaitIsLowerBound ==
    \A p \in Prompts : rows[p].created > 0 => rows[p].created >= job[p].queued
=============================================================================
