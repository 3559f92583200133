------------------------- MODULE ComfyPollerProofs -------------------------
(***************************************************************************)
(* Proofs about ComfyPoller, for any set of prompts, any page size, any    *)
(* bounds and any calls that may fail.                                     *)
(***************************************************************************)
EXTENDS ComfyPoller, TLAPS

USE PollerAssumption

-----------------------------------------------------------------------------
(* Type correctness. *)

LEMMA InitTypeOK == Init => TypeOK
BY DEF Init, TypeOK, Time, Job, BuildKinds, NoBuild, Row, Live, NoLive, Sampler, SamplerIdle,
       Drainer, DrainerIdle, Built, NoBuilt, Stages

LEMMA ComfyTypeOK == TypeOK /\ ComfyNext => TypeOK'
<1> SUFFICES ASSUME TypeOK, ComfyNext PROVE TypeOK'
  OBVIOUS
<1> USE DEF TypeOK, Become, comfyVars, sampleVars, drainVars
<1>1. ASSUME NEW p \in Prompts, Enqueue(p) PROVE TypeOK'
  <2>1. ASSUME NEW build \in Builds
        PROVE  [stage |-> "pending", build |-> build, queued |-> now, started |-> 0] \in Job
    BY DEF Job, Stages, Time
  <2>2. job' \in [Prompts -> Job]
    BY <1>1, <2>1 DEF Enqueue
  <2>3. QED
    BY <1>1, <2>2 DEF Enqueue
<1>2. ASSUME NEW p \in Prompts, Start(p) PROVE TypeOK'
  <2>1. [job[p] EXCEPT !.stage = "running", !.started = now] \in Job
    <3>1. job[p] \in Job /\ now \in Time
      BY DEF Time
    <3>2. QED
      BY <3>1 DEF Job, Stages
  <2>2. job' \in [Prompts -> Job]
    BY <1>2, <2>1 DEF Start
  <2>3. QED
    BY <1>2, <2>2 DEF Start
<1>3. ASSUME NEW p \in Prompts, Finish(p) PROVE TypeOK'
  <2>1. job[p] \in Job
    OBVIOUS
  <2>2. [job[p] EXCEPT !.stage = "done"] \in Job
    BY <2>1 DEF Job, Stages
  <2>3. job' \in [Prompts -> Job]
    BY <1>3, <2>2 DEF Finish
  <2>4. QED
    BY <1>3, <2>3 DEF Finish
<1>4. ASSUME NEW p \in Prompts, Cancel(p) PROVE TypeOK'
  <2>1. job[p] \in Job
    OBVIOUS
  <2>2. [job[p] EXCEPT !.stage = "gone"] \in Job
    BY <2>1 DEF Job, Stages
  <2>3. job' \in [Prompts -> Job]
    BY <1>4, <2>2 DEF Cancel
  <2>4. QED
    BY <1>4, <2>3 DEF Cancel
<1>5. CASE ComfyRestart
  <2>1. ASSUME NEW p \in Prompts PROVE [job[p] EXCEPT !.stage = "gone"] \in Job
    <3>1. job[p] \in Job
      OBVIOUS
    <3>2. QED
      BY <3>1 DEF Job, Stages
  <2>2. job' \in [Prompts -> Job]
    BY <1>5, <2>1 DEF ComfyRestart
  <2>3. restarts' \in 0 .. MaxRestarts /\ history' \in Seq(Prompts)
    BY <1>5 DEF ComfyRestart
  <2>4. QED
    BY <1>5, <2>2, <2>3 DEF ComfyRestart
<1>6. QED
  BY <1>1, <1>2, <1>3, <1>4, <1>5 DEF ComfyNext

LEMMA SamplerTypeOK == TypeOK /\ SamplerNext => TypeOK'
<1> SUFFICES ASSUME TypeOK, SamplerNext PROVE TypeOK'
  OBVIOUS
<1> USE DEF TypeOK, comfyVars, drainVars
<1>1. CASE SampleBegin
  <2>1. now \in Time
    BY DEF Time
  <2>2. sampler' = [pc |-> "queue", stamp |-> now, queue |-> FALSE, stats |-> FALSE,
                    pending |-> {}]
    BY <1>1 DEF SampleBegin, SamplerIdle
  <2>3. sampler' \in Sampler
    BY <2>1, <2>2 DEF Sampler
  <2>4. QED
    BY <1>1, <2>3 DEF SampleBegin
<1>2. CASE GetQueue
  <2>1. sampler' \in Sampler
    BY <1>2 DEF GetQueue, Sampler, Pending
  <2>2. QED
    BY <1>2, <2>1 DEF GetQueue
<1>3. CASE GetQueueFails
  <2>1. sampler' \in Sampler
    BY <1>3 DEF GetQueueFails, Sampler
  <2>2. QED
    BY <1>3, <2>1 DEF GetQueueFails
<1>4. CASE ObserveQueued
  <2>1. sampler' \in Sampler /\ sampler.stamp \in Time
    BY <1>4 DEF ObserveQueued, Sampler
  <2>2. seen' \in [Prompts -> Time]
    BY <1>4, <2>1 DEF ObserveQueued, Observed, Added, Expired, Time
  <2>3. QED
    BY <1>4, <2>1, <2>2 DEF ObserveQueued
<1>5. CASE GetStats
  <2>1. PICK ok \in BOOLEAN :
          /\ sampler' = [sampler EXCEPT !.pc = "insert", !.stats = ok]
          /\ live' = [at |-> sampler.stamp, queue |-> sampler.queue, stats |-> ok]
    BY <1>5 DEF GetStats
  <2>2. sampler' \in Sampler
    BY <2>1 DEF Sampler
  <2>3. sampler.stamp \in Time /\ sampler.queue \in BOOLEAN
    BY DEF Sampler
  <2>4. live' \in Live
    BY <2>1, <2>3 DEF Live
  <2>5. QED
    BY <1>5, <2>2, <2>4 DEF GetStats
<1>6. CASE InsertMetrics
  <2>1. sampler' \in Sampler /\ series' \in Time
    BY <1>6 DEF InsertMetrics, Sampler, SamplerIdle, Time
  <2>2. QED
    BY <1>6, <2>1 DEF InsertMetrics
<1>7. QED
  BY <1>1, <1>2, <1>3, <1>4, <1>5, <1>6 DEF SamplerNext

LEMMA DrainerTypeOK == TypeOK /\ DrainerNext => TypeOK'
<1> SUFFICES ASSUME TypeOK, DrainerNext PROVE TypeOK'
  OBVIOUS
<1> USE DEF TypeOK, comfyVars, sampleVars
<1>a. NoBuilt \in Built
  BY DEF NoBuilt, Built, Time
<1>1. CASE GetHistory
  <2>1. Page \in SUBSET Prompts /\ PushedOff \in SUBSET Prompts
    BY DEF Page, PushedOff, PageStart
  <2>2. drainer' \in Drainer
    BY <1>1, <1>a, <2>1 DEF GetHistory, Drainer
  <2>3. QED
    BY <1>1, <2>2 DEF GetHistory
<1>2. CASE GetHistoryFails
  BY <1>2 DEF GetHistoryFails, drainVars
<1>3. ASSUME NEW p \in Prompts, DrainPick(p) PROVE TypeOK'
  <2>1. job[p] \in Job
    OBVIOUS
  <2>2. BuildJob(p) \in Built
    BY <2>1 DEF BuildJob, CreateTime, StartedAt, Job, BuildKinds, Built, Time
  <2>3. PICK known \in BOOLEAN :
          drainer' = [drainer EXCEPT !.pc = "save", !.todo = @ \ {p}, !.cur = {p},
                                     !.built = BuildJob(p), !.allNew = @ /\ ~known]
    BY <1>3 DEF DrainPick
  <2>4. drainer' \in Drainer /\ drainer'.pc = "save" /\ drainer'.cur = {p}
    <3>1. (drainer.allNew /\ ~known) \in BOOLEAN
      OBVIOUS
    <3>2. QED
      BY <2>2, <2>3, <3>1 DEF Drainer
  <2>5. QED
    BY <1>3, <2>4 DEF DrainPick
<1>4. ASSUME NEW p \in Prompts, DrainSave(p) PROVE TypeOK'
  <2>1. rows[p] \in Row /\ drainer.built \in Built
    BY DEF Drainer
  <2>2. Upserted(rows[p], drainer.built) \in Row
    BY <2>1 DEF Upserted, Row, Built
  <2>3. drainer' \in Drainer /\ drainer'.pc = "forget" /\ drainer'.cur = drainer.cur
    BY <1>4, <1>a DEF DrainSave, Drainer
  <2>4. rows' \in [Prompts -> Row]
    BY <1>4, <2>2 DEF DrainSave
  <2>5. QED
    BY <1>4, <2>3, <2>4 DEF DrainSave
<1>5. ASSUME NEW p \in Prompts, DrainSaveFails(p) PROVE TypeOK'
  <2>1. drainer' \in Drainer /\ drainer'.pc = "pick" /\ drainer'.cur = {}
    BY <1>5, <1>a DEF DrainSaveFails, Drainer
  <2>2. QED
    BY <1>5, <2>1 DEF DrainSaveFails
<1>6. ASSUME NEW p \in Prompts, DrainForget(p) PROVE TypeOK'
  <2>1. drainer' \in Drainer /\ drainer'.pc = "pick" /\ drainer'.cur = {}
    BY <1>6 DEF DrainForget, Drainer
  <2>2. seen' \in [Prompts -> Time]
    BY <1>6 DEF DrainForget, Time
  <2>3. QED
    BY <1>6, <2>1, <2>2 DEF DrainForget
<1>7. CASE DrainEnd
  <2>1. drainer' \in Drainer /\ drainer'.pc = "idle" /\ drainer'.cur = {}
    BY <1>7, <1>a DEF DrainEnd, Drainer, DrainerIdle
  <2>2. reported' \in SUBSET Prompts
    BY <1>7 DEF DrainEnd, Drainer
  <2>3. QED
    BY <1>7, <2>1, <2>2 DEF DrainEnd
<1>8. QED
  BY <1>1, <1>2, <1>3, <1>4, <1>5, <1>6, <1>7 DEF DrainerNext

LEMMA NextTypeOK == TypeOK /\ [Next]_vars => TypeOK'
<1> SUFFICES ASSUME TypeOK, [Next]_vars PROVE TypeOK'
  OBVIOUS
<1>1. CASE Tick
  BY <1>1 DEF Tick, TypeOK, comfyVars, sampleVars, drainVars
<1>2. CASE CollectorRestart
  <2>1. sampler' \in Sampler /\ live' \in Live
    BY <1>2 DEF CollectorRestart, Sampler, SamplerIdle, Live, NoLive, Time
  <2>2. drainer' \in Drainer /\ drainer'.cur = {} /\ drainer'.pc = "idle"
    BY <1>2 DEF CollectorRestart, Drainer, DrainerIdle, Built, NoBuilt, Time
  <2>3. seen' \in [Prompts -> Time] /\ restarts' \in 0 .. MaxRestarts
    BY <1>2 DEF CollectorRestart, TypeOK, Time
  <2>4. faulted' \in SUBSET Prompts
    BY <1>2 DEF CollectorRestart, TypeOK, Drainer
  <2>5. QED
    BY <1>2, <2>1, <2>2, <2>3, <2>4 DEF CollectorRestart, TypeOK, comfyVars
<1>3. CASE UNCHANGED vars
  BY <1>3 DEF vars, TypeOK
<1>4. QED
  BY <1>1, <1>2, <1>3, ComfyTypeOK, SamplerTypeOK, DrainerTypeOK DEF Next

\* Type correctness of the poller, whatever fails and restarts.
THEOREM TypeCorrect == Spec => []TypeOK
BY InitTypeOK, NextTypeOK, PTL DEF Spec

-----------------------------------------------------------------------------
(* The bounds on the stored submission times. *)

\* What a step of ComfyUI keeps of a prompt that was submitted: a finished one does not
\* change at all, another one may be started, and that happens now.
Kept(p) ==
    /\ job[p].stage = "done" => job'[p] = job[p]
    /\ job[p].stage # "unborn" =>
          /\ job'[p].stage # "unborn"
          /\ job'[p].queued = job[p].queued
          /\ job'[p].started = job[p].started \/ job'[p].started = now

LEMMA JobTypes ==
  ASSUME TypeOK, NEW p \in Prompts
  PROVE  /\ job[p] \in Job
         /\ job[p].stage \in Stages
         /\ job[p].queued \in Nat
         /\ job[p].started \in Nat
         /\ now \in Nat /\ now > 0
         /\ job[p].build.stamped \in BOOLEAN
<1>1. job[p] \in Job
  BY DEF TypeOK
<1>2. QED
  BY <1>1 DEF TypeOK, Job, BuildKinds, Time

LEMMA ComfyKeeps ==
  ASSUME TypeOK, JobInv, ComfyNext
  PROVE  JobInv' /\ \A p \in Prompts : Kept(p)
<1> USE JobTypes DEF Become
<1>a. DOMAIN job = Prompts
  BY DEF TypeOK
<1>b. ASSUME NEW p \in Prompts, NEW q \in Prompts, job' = [job EXCEPT ![p] = job'[p]],
             job'[p].queued \in Nat, now' = now,
             job'[p].stage # "unborn" => job'[p].queued \in 1 .. now,
             job'[p].started > 0 => job'[p].started \in job'[p].queued .. now,
             job'[p].stage \in {"unborn", "pending"} => job'[p].started = 0,
             job'[p].stage \in {"running", "done"} => job'[p].started > 0,
             Kept(p)
      PROVE  Kept(q) /\ /\ job'[q].stage # "unborn" => job'[q].queued \in 1 .. now'
                        /\ job'[q].started > 0 => job'[q].started \in job'[q].queued .. now'
                        /\ job'[q].stage \in {"unborn", "pending"} => job'[q].started = 0
                        /\ job'[q].stage \in {"running", "done"} => job'[q].started > 0
  <2>1. CASE q = p
    BY <1>b, <2>1
  <2>2. CASE q # p
    <3>1. job'[q] = job[q]
      BY <1>a, <1>b, <2>2
    <3>2. QED
      BY <1>b, <3>1 DEF Kept, JobInv
  <2>3. QED
    BY <2>1, <2>2
<1>1. ASSUME NEW p \in Prompts, Enqueue(p) PROVE JobInv' /\ \A q \in Prompts : Kept(q)
  <2>1. PICK build \in Builds :
          job' = [job EXCEPT ![p] = [stage |-> "pending", build |-> build,
                                     queued |-> now, started |-> 0]]
    BY <1>1 DEF Enqueue
  <2>2. job'[p] = [stage |-> "pending", build |-> build, queued |-> now, started |-> 0]
    BY <1>a, <2>1
  <2>3. now' = now /\ Kept(p)
    BY <1>1, <2>2 DEF Enqueue, Kept
  <2>4. /\ job'[p].stage = "pending" /\ job'[p].queued = now /\ job'[p].started = 0
        /\ job' = [job EXCEPT ![p] = job'[p]]
    <3>1. job' = [job EXCEPT ![p] = job'[p]]
      BY <1>a, <2>1
    <3>2. QED
      BY <2>2, <3>1
  <2>5. now \in 1 .. now /\ now \in Nat
    OBVIOUS
  <2>6. QED
    BY <1>b, <2>3, <2>4, <2>5 DEF JobInv
<1>2. ASSUME NEW p \in Prompts, Start(p) PROVE JobInv' /\ \A q \in Prompts : Kept(q)
  <2>1. job' = [job EXCEPT ![p] = [job[p] EXCEPT !.stage = "running", !.started = now]]
    BY <1>2 DEF Start
  <2>2. job'[p].stage = "running" /\ job'[p].queued = job[p].queued /\ job'[p].started = now
    BY <1>a, <2>1 DEF Job
  <2>3. now' = now /\ Kept(p) /\ job[p].queued \in 1 .. now
    BY <1>2, <2>2 DEF Start, Kept, JobInv
  <2>4. job' = [job EXCEPT ![p] = job'[p]]
    BY <1>a, <2>1
  <2>5. QED
    BY <1>b, <2>2, <2>3, <2>4 DEF JobInv
<1>3. ASSUME NEW p \in Prompts, Finish(p) PROVE JobInv' /\ \A q \in Prompts : Kept(q)
  <2>1. job' = [job EXCEPT ![p] = [job[p] EXCEPT !.stage = "done"]]
    BY <1>3 DEF Finish
  <2>2. job'[p].stage = "done" /\ job'[p].queued = job[p].queued
        /\ job'[p].started = job[p].started
    BY <1>a, <2>1 DEF Job
  <2>3. now' = now /\ Kept(p) /\ job[p].queued \in 1 .. now /\ job[p].started > 0
        /\ job[p].started \in job[p].queued .. now
    BY <1>3, <2>2 DEF Finish, Kept, JobInv
  <2>4. job' = [job EXCEPT ![p] = job'[p]]
    BY <1>a, <2>1
  <2>5. QED
    BY <1>b, <2>2, <2>3, <2>4 DEF JobInv
<1>4. ASSUME NEW p \in Prompts, Cancel(p) PROVE JobInv' /\ \A q \in Prompts : Kept(q)
  <2>1. job' = [job EXCEPT ![p] = [job[p] EXCEPT !.stage = "gone"]]
    BY <1>4 DEF Cancel
  <2>2. job'[p].stage = "gone" /\ job'[p].queued = job[p].queued
        /\ job'[p].started = job[p].started
    BY <1>a, <2>1 DEF Job
  <2>3. now' = now /\ Kept(p) /\ job[p].queued \in 1 .. now /\ job[p].started = 0
    BY <1>4, <2>2 DEF Cancel, Kept, JobInv
  <2>4. job' = [job EXCEPT ![p] = job'[p]]
    BY <1>a, <2>1
  <2>5. QED
    BY <1>b, <2>2, <2>3, <2>4 DEF JobInv
<1>5. CASE ComfyRestart
  <2>1. ASSUME NEW p \in Prompts
        PROVE  \/ job'[p] = job[p]
               \/ /\ job[p].stage \in {"pending", "running"}
                  /\ job'[p].stage = "gone"
                  /\ job'[p].queued = job[p].queued
                  /\ job'[p].started = job[p].started
    BY <1>5 DEF ComfyRestart, Job
  <2>2. now' = now
    BY <1>5 DEF ComfyRestart
  <2>3. JobInv'
    BY <2>1, <2>2 DEF JobInv
  <2>4. \A p \in Prompts : Kept(p)
    BY <2>1 DEF Kept
  <2>5. QED
    BY <2>3, <2>4
<1>6. QED
  BY <1>1, <1>2, <1>3, <1>4, <1>5 DEF ComfyNext

LEMMA ComfyUnchanged ==
  ComfyNext => UNCHANGED <<now, boot, sampleVars, drainVars>>
BY DEF ComfyNext, Enqueue, Start, Finish, Cancel, ComfyRestart, Become

LEMMA ComfyHistory ==
  ASSUME TypeOK, HistoryInv, ComfyNext, \A p \in Prompts : Kept(p)
  PROVE  HistoryInv'
<1>1. \A i \in 1 .. Len(history) : history[i] \in Prompts
  BY DEF TypeOK
<1>2. CASE UNCHANGED history
  BY <1>1, <1>2 DEF HistoryInv, Kept
<1>3. CASE history' = <<>>
  BY <1>3 DEF HistoryInv
<1>4. ASSUME NEW p \in Prompts, Finish(p) PROVE HistoryInv'
  <2>1. history' = Append(history, p) /\ job' = [job EXCEPT ![p] = [job[p] EXCEPT !.stage = "done"]]
    BY <1>4 DEF Finish, Become
  <2>2. job'[p].stage = "done"
    BY <2>1 DEF TypeOK, Job
  <2>3. ASSUME NEW i \in 1 .. Len(history') PROVE job'[history'[i]].stage = "done"
    <3>1. history'[i] = IF i = Len(history) + 1 THEN p ELSE history[i]
      BY <2>1 DEF TypeOK
    <3>2. i \in 1 .. Len(history) \/ i = Len(history) + 1
      BY <2>1 DEF TypeOK
    <3>3. QED
      BY <1>1, <2>2, <3>1, <3>2 DEF HistoryInv, Kept
  <2>4. QED
    BY <2>3 DEF HistoryInv
<1>5. QED
  BY <1>2, <1>3, <1>4 DEF ComfyNext, Enqueue, Start, Cancel, ComfyRestart

\* A sighting stays one while ComfyUI goes on.
LEMMA SightingKept ==
  ASSUME TypeOK, NEW p \in Prompts, NEW t \in Nat, Kept(p), now' = now,
         Sighting(p, t)
  PROVE  /\ job'[p].stage # "unborn"
         /\ job'[p].queued <= t + Timeout
         /\ job'[p].started > 0 => t <= job'[p].started
BY JobTypes DEF Kept, Sighting

LEMMA ComfyInv == TypeOK /\ EstimateInv /\ ComfyNext => EstimateInv'
<1> SUFFICES ASSUME TypeOK, EstimateInv, ComfyNext PROVE EstimateInv'
  OBVIOUS
<1>1. UNCHANGED <<now, boot, sampleVars, drainVars>>
  BY ComfyUnchanged
<1>2. JobInv' /\ \A p \in Prompts : Kept(p)
  BY ComfyKeeps DEF EstimateInv
<1>3. HistoryInv'
  BY <1>2, ComfyHistory DEF EstimateInv
<1>4. SightingInv'
  <2>1. sampler.stamp \in Nat /\ sampler.pending \subseteq Prompts
    BY DEF TypeOK, Sampler, Time
  <2>2. \A p \in Prompts : seen[p] \in Nat
    BY DEF TypeOK, Time
  <2>3. ASSUME NEW p \in Prompts, NEW t \in Nat, Sighting(p, t) PROVE Sighting(p, t)'
    <3>1. t <= now /\ now' = now
      BY <1>1, <2>3 DEF Sighting
    <3>2. QED
      BY <1>2, <2>3, <3>1, SightingKept DEF Sighting
  <2>4. ASSUME NEW p \in sampler.pending PROVE Sighting(p, sampler.stamp)'
    BY <1>1, <2>1, <2>3 DEF EstimateInv, SightingInv, Sighting, sampleVars
  <2>5. ASSUME NEW p \in Prompts, seen[p] > 0 PROVE Sighting(p, seen[p])'
    BY <1>1, <2>2, <2>3, <2>5 DEF EstimateInv, SightingInv, Sighting, sampleVars
  <2>6. QED
    BY <1>1, <2>4, <2>5 DEF EstimateInv, SightingInv, sampleVars
<1>5. DrainInv'
  <2>1. \A p \in drainer.todo \cup drainer.cur : p \in Prompts
    BY DEF TypeOK, Drainer
  <2>2. \A p \in drainer.todo \cup drainer.cur : job'[p] = job[p]
    BY <1>2, <2>1 DEF EstimateInv, DrainInv, Kept
  <2>3. QED
    BY <1>1, <2>2 DEF EstimateInv, DrainInv, Within, drainVars
<1>6. RowsInv'
  <2>1. \A p \in Prompts : rows[p].exists => job'[p] = job[p]
    BY <1>2 DEF EstimateInv, RowsInv, Kept
  <2>2. QED
    BY <1>1, <2>1 DEF EstimateInv, RowsInv, Within, drainVars
<1>7. QED
  BY <1>2, <1>3, <1>4, <1>5, <1>6 DEF EstimateInv

LEMMA SamplerInv == TypeOK /\ EstimateInv /\ SamplerNext => EstimateInv'
<1> SUFFICES ASSUME TypeOK, EstimateInv, SamplerNext PROVE EstimateInv'
  OBVIOUS
<1>1. UNCHANGED <<now, comfyVars, drainVars>>
  BY DEF SamplerNext, SampleBegin, GetQueue, GetQueueFails, ObserveQueued, GetStats, InsertMetrics
<1>2. JobInv' /\ HistoryInv' /\ DrainInv' /\ RowsInv'
  BY <1>1 DEF EstimateInv, JobInv, HistoryInv, DrainInv, RowsInv, Within, comfyVars, drainVars
<1>3. \A p \in Prompts, t \in Nat : Sighting(p, t) => Sighting(p, t)'
  BY <1>1 DEF Sighting, comfyVars
<1>4. now \in Nat /\ sampler.stamp \in Nat /\ sampler.pending \subseteq Prompts
      /\ sampler \in Sampler
  BY DEF TypeOK, Sampler, Time
<1>5. \A p \in Prompts : seen[p] \in Nat
  BY DEF TypeOK, Time
<1>a. /\ sampler.stamp <= now
      /\ \A p \in sampler.pending : Sighting(p, sampler.stamp)
      /\ \A p \in Prompts : seen[p] > 0 => Sighting(p, seen[p])
  BY DEF EstimateInv, SightingInv
<1>b. ASSUME UNCHANGED seen, sampler'.stamp \in Nat, sampler'.stamp <= now,
             sampler'.pending \subseteq Prompts,
             \A p \in sampler'.pending : Sighting(p, sampler'.stamp)
      PROVE  SightingInv'
  <2>1. \A p \in sampler'.pending : Sighting(p, sampler.stamp)'
    BY <1>1, <1>b DEF Sighting, comfyVars
  <2>2. \A p \in Prompts : seen'[p] > 0 => Sighting(p, seen[p])'
    BY <1>1, <1>a, <1>b DEF Sighting, comfyVars
  <2>3. QED
    BY <1>1, <1>b, <2>1, <2>2 DEF SightingInv
<1>6. CASE SampleBegin
  <2>1. sampler'.stamp = now /\ sampler'.pending = {} /\ UNCHANGED seen
    BY <1>6 DEF SampleBegin, SamplerIdle
  <2>2. QED
    BY <1>2, <1>4, <1>b, <2>1 DEF EstimateInv
<1>7. CASE GetQueue
  <2>1. /\ sampler'.stamp = sampler.stamp /\ sampler'.pending = Pending
        /\ UNCHANGED seen /\ now <= sampler.stamp + Timeout
    BY <1>4, <1>7 DEF GetQueue, Sampler
  <2>2. ASSUME NEW p \in Pending PROVE p \in Prompts /\ Sighting(p, sampler.stamp)
    <3>1. p \in Prompts /\ job[p].stage = "pending"
      BY DEF Pending
    <3>2. job[p].queued <= now /\ job[p].started = 0
      BY <3>1 DEF EstimateInv, JobInv
    <3>3. QED
      BY <1>4, <1>a, <2>1, <3>1, <3>2, JobTypes DEF Sighting
  <2>3. QED
    BY <1>2, <1>4, <1>a, <1>b, <2>1, <2>2 DEF EstimateInv
<1>8. CASE GetQueueFails
  <2>1. sampler'.stamp = sampler.stamp /\ sampler'.pending = sampler.pending /\ UNCHANGED seen
    BY <1>4, <1>8 DEF GetQueueFails, Sampler
  <2>2. QED
    BY <1>2, <1>4, <1>a, <1>b, <2>1 DEF EstimateInv
<1>9. CASE ObserveQueued
  <2>1. sampler'.stamp = sampler.stamp /\ sampler'.pending = {}
    BY <1>4, <1>9 DEF ObserveQueued, Sampler
  <2>2. ASSUME NEW p \in Prompts, seen'[p] > 0 PROVE Sighting(p, seen'[p])
    <3>1. \/ seen'[p] = seen[p]
          \/ p \in sampler.pending /\ seen'[p] = sampler.stamp
      BY <1>9, <2>2 DEF ObserveQueued, Observed, Added, Expired
    <3>2. QED
      BY <1>a, <2>2, <3>1
  <2>3. \A p \in Prompts : seen'[p] > 0 => Sighting(p, seen[p])'
    BY <1>1, <2>2 DEF Sighting, comfyVars
  <2>4. SightingInv'
    BY <1>1, <1>a, <2>1, <2>3 DEF SightingInv
  <2>5. QED
    BY <1>2, <2>4 DEF EstimateInv
<1>10. CASE GetStats
  <2>1. sampler'.stamp = sampler.stamp /\ sampler'.pending = sampler.pending /\ UNCHANGED seen
    BY <1>4, <1>10 DEF GetStats, Sampler
  <2>2. QED
    BY <1>2, <1>4, <1>a, <1>b, <2>1 DEF EstimateInv
<1>11. CASE InsertMetrics
  <2>1. sampler'.stamp = 0 /\ sampler'.pending = {} /\ UNCHANGED seen
    BY <1>11 DEF InsertMetrics, SamplerIdle
  <2>2. QED
    BY <1>2, <1>4, <1>b, <2>1 DEF EstimateInv
<1>12. QED
  BY <1>6, <1>7, <1>8, <1>9, <1>10, <1>11 DEF SamplerNext

\* What buildJob makes of a finished prompt is within the bounds.
LEMMA BuildJobWithin ==
  ASSUME TypeOK, EstimateInv, NEW p \in Prompts, job[p].stage = "done"
  PROVE  Within(p, BuildJob(p).created, BuildJob(p).est)
<1> USE DEF EstimateInv
<1>1. job[p].queued \in 1 .. now /\ job[p].started \in job[p].queued .. now /\ job[p].started > 0
  BY JobTypes DEF JobInv
<1>2. seen[p] \in Nat
  BY DEF TypeOK, Time
<1>3. CASE job[p].build.stamped
  BY <1>1, <1>3 DEF BuildJob, CreateTime, Within
<1>4. CASE ~job[p].build.stamped
  <2>1. CASE seen[p] > 0 /\ StartedAt(p) > 0
    <3>1. BuildJob(p).created = seen[p]
      BY <1>4, <2>1 DEF BuildJob, CreateTime
    <3>2. Sighting(p, seen[p])
      BY <2>1 DEF SightingInv
    <3>3. QED
      BY <1>1, <1>4, <3>1, <3>2 DEF Sighting, Within
  <2>2. CASE ~(seen[p] > 0 /\ StartedAt(p) > 0)
    BY <1>4, <2>2 DEF BuildJob, CreateTime, Within
  <2>3. QED
    BY <2>1, <2>2
<1>5. QED
  BY <1>3, <1>4

LEMMA DrainerInv == TypeOK /\ EstimateInv /\ DrainerNext => EstimateInv'
<1> SUFFICES ASSUME TypeOK, EstimateInv, DrainerNext PROVE EstimateInv'
  OBVIOUS
<1>1. UNCHANGED <<now, comfyVars, sampler>>
  BY DEF DrainerNext, GetHistory, GetHistoryFails, DrainPick, DrainSave, DrainSaveFails,
         DrainForget, DrainEnd, sampleVars
<1>2. JobInv' /\ HistoryInv'
  BY <1>1 DEF EstimateInv, JobInv, HistoryInv, comfyVars
<1>3. \A p \in Prompts : seen'[p] = seen[p] \/ seen'[p] = 0
  BY DEF TypeOK, DrainerNext, GetHistory, GetHistoryFails, DrainPick, DrainSave, DrainSaveFails,
         DrainForget, DrainEnd, sampleVars
<1>4. SightingInv'
  <2>1. ASSUME NEW p \in sampler.pending PROVE Sighting(p, sampler.stamp)'
    BY <1>1, <2>1 DEF EstimateInv, SightingInv, Sighting, comfyVars
  <2>2. ASSUME NEW p \in Prompts, seen'[p] > 0 PROVE Sighting(p, seen[p])'
    BY <1>1, <1>3, <2>2 DEF EstimateInv, SightingInv, Sighting, comfyVars
  <2>3. QED
    BY <1>1, <2>1, <2>2 DEF EstimateInv, SightingInv
<1>5. drainer \in Drainer /\ drainer.todo \subseteq Prompts /\ drainer.cur \subseteq Prompts
  BY DEF TypeOK, Drainer
<1>6. \A p \in Prompts : job'[p] = job[p]
  BY <1>1 DEF comfyVars
<1>7. ASSUME UNCHANGED rows PROVE RowsInv'
  BY <1>6, <1>7 DEF EstimateInv, RowsInv, Within
<1>8. ASSUME drainer'.pc # "save", drainer'.todo \cup drainer'.cur \subseteq Prompts,
             \A p \in drainer'.todo \cup drainer'.cur : job[p].stage = "done"
      PROVE  DrainInv'
  BY <1>6, <1>8 DEF DrainInv
<1>9. \A p \in drainer.todo \cup drainer.cur : job[p].stage = "done"
  BY DEF EstimateInv, DrainInv
<1>10. CASE GetHistory
  <2>1. drainer'.pc = "pick" /\ drainer'.todo = Page /\ drainer'.cur = {} /\ UNCHANGED rows
    BY <1>10 DEF GetHistory
  <2>2. \A p \in Page : p \in Prompts /\ job[p].stage = "done"
    BY DEF Page, PageStart, EstimateInv, HistoryInv, TypeOK
  <2>3. QED
    BY <1>2, <1>4, <1>7, <1>8, <2>1, <2>2 DEF EstimateInv
<1>11. CASE GetHistoryFails
  <2>1. UNCHANGED <<drainer, rows>>
    BY <1>11 DEF GetHistoryFails, drainVars
  <2>2. DrainInv'
    BY <1>5, <1>6, <2>1 DEF EstimateInv, DrainInv, Within
  <2>3. QED
    BY <1>2, <1>4, <1>7, <2>1, <2>2 DEF EstimateInv
<1>12. ASSUME NEW p \in Prompts, DrainPick(p) PROVE EstimateInv'
  <2>1. /\ p \in drainer.todo /\ drainer'.todo = drainer.todo \ {p} /\ drainer'.cur = {p}
        /\ drainer'.built = BuildJob(p) /\ UNCHANGED rows
    BY <1>5, <1>12 DEF DrainPick, Drainer
  <2>2. Within(p, BuildJob(p).created, BuildJob(p).est)
    BY <1>9, <2>1, BuildJobWithin
  <2>3. DrainInv'
    BY <1>5, <1>6, <1>9, <2>1, <2>2 DEF DrainInv, Within
  <2>4. QED
    BY <1>2, <1>4, <1>7, <2>1, <2>3 DEF EstimateInv
<1>13. ASSUME NEW p \in Prompts, DrainSave(p) PROVE EstimateInv'
  <2>1. /\ p \in drainer.cur /\ drainer.pc = "save" /\ drainer'.pc = "forget"
        /\ drainer'.todo = drainer.todo /\ drainer'.cur = drainer.cur
        /\ rows' = [rows EXCEPT ![p] = Upserted(rows[p], drainer.built)]
    BY <1>5, <1>13 DEF DrainSave, Drainer
  <2>2. DrainInv'
    BY <1>5, <1>8, <1>9, <2>1
  <2>3. job[p].stage = "done" /\ Within(p, drainer.built.created, drainer.built.est)
    BY <1>9, <2>1 DEF EstimateInv, DrainInv
  <2>4. Within(p, rows'[p].created, rows'[p].est) /\ rows'[p].exists
    <3>1. rows'[p] = Upserted(rows[p], drainer.built)
      BY <2>1 DEF TypeOK
    <3>2. job[p].queued > 0
      BY <2>3, JobTypes DEF EstimateInv, JobInv
    <3>3. drainer.built.created \in Nat /\ rows[p].created \in Nat
      BY <1>5 DEF TypeOK, Drainer, Built, Row, Time
    <3>4. rows[p].created > 0 =>
            rows[p].created <= job[p].started /\ job[p].queued <= rows[p].created + Timeout
      BY <3>3 DEF EstimateInv, RowsInv, Within
    <3>5. QED
      BY <2>3, <3>1, <3>2, <3>3, <3>4 DEF Within, Upserted
  <2>5. ASSUME NEW q \in Prompts, q # p PROVE rows'[q] = rows[q]
    BY <2>1, <2>5 DEF TypeOK
  <2>6. RowsInv'
    BY <1>6, <2>3, <2>4, <2>5 DEF EstimateInv, RowsInv, Within
  <2>7. QED
    BY <1>2, <1>4, <2>2, <2>6 DEF EstimateInv
<1>14. ASSUME NEW p \in Prompts, DrainSaveFails(p) PROVE EstimateInv'
  <2>1. drainer'.pc = "pick" /\ drainer'.todo = drainer.todo /\ drainer'.cur = {} /\ UNCHANGED rows
    BY <1>5, <1>14 DEF DrainSaveFails, Drainer
  <2>2. QED
    BY <1>2, <1>4, <1>5, <1>7, <1>8, <1>9, <2>1 DEF EstimateInv
<1>15. ASSUME NEW p \in Prompts, DrainForget(p) PROVE EstimateInv'
  <2>1. drainer'.pc = "pick" /\ drainer'.todo = drainer.todo /\ drainer'.cur = {} /\ UNCHANGED rows
    BY <1>5, <1>15 DEF DrainForget, Drainer
  <2>2. QED
    BY <1>2, <1>4, <1>5, <1>7, <1>8, <1>9, <2>1 DEF EstimateInv
<1>16. CASE DrainEnd
  <2>1. drainer'.pc = "idle" /\ drainer'.todo = {} /\ drainer'.cur = {} /\ UNCHANGED rows
    BY <1>16 DEF DrainEnd, DrainerIdle
  <2>2. QED
    BY <1>2, <1>4, <1>7, <1>8, <2>1 DEF EstimateInv
<1>17. QED
  BY <1>10, <1>11, <1>12, <1>13, <1>14, <1>15, <1>16 DEF DrainerNext

LEMMA InitInv == Init => EstimateInv
BY DEF Init, EstimateInv, JobInv, HistoryInv, SightingInv, DrainInv, RowsInv, SamplerIdle,
       DrainerIdle, NoBuild

LEMMA NextInv == TypeOK /\ EstimateInv /\ [Next]_vars => EstimateInv'
<1> SUFFICES ASSUME TypeOK, EstimateInv, [Next]_vars PROVE EstimateInv'
  OBVIOUS
<1> USE DEF EstimateInv
<1>0. now \in Nat /\ sampler.stamp \in Nat /\ sampler.pending \subseteq Prompts
      /\ \A p \in Prompts : seen[p] \in Nat
  BY DEF TypeOK, Sampler, Time
<1>1. CASE Tick
  <2>1. now' = now + 1 /\ UNCHANGED <<comfyVars, sampleVars, drainVars>>
    BY <1>1 DEF Tick
  <2>2. JobInv'
    BY <1>0, <2>1, JobTypes DEF JobInv, comfyVars
  <2>3. HistoryInv' /\ DrainInv' /\ RowsInv'
    BY <2>1 DEF HistoryInv, DrainInv, RowsInv, Within, comfyVars, drainVars
  <2>4. SightingInv'
    BY <1>0, <2>1 DEF SightingInv, Sighting, comfyVars, sampleVars
  <2>5. QED
    BY <2>2, <2>3, <2>4
<1>2. CASE CollectorRestart
  <2>1. /\ UNCHANGED <<now, comfyVars, rows>>
        /\ seen' = [p \in Prompts |-> 0] /\ sampler' = SamplerIdle /\ drainer' = DrainerIdle
    BY <1>2 DEF CollectorRestart
  <2>2. JobInv' /\ HistoryInv' /\ RowsInv'
    BY <2>1 DEF JobInv, HistoryInv, RowsInv, Within, comfyVars
  <2>3. SightingInv'
    BY <1>0, <2>1 DEF SightingInv, SamplerIdle
  <2>4. DrainInv'
    BY <2>1 DEF DrainInv, DrainerIdle
  <2>5. QED
    BY <2>2, <2>3, <2>4
<1>3. CASE UNCHANGED vars
  BY <1>3 DEF vars, JobInv, HistoryInv, SightingInv, Sighting, DrainInv, RowsInv, Within
<1>4. QED
  BY <1>1, <1>2, <1>3, ComfyInv, SamplerInv, DrainerInv DEF Next

LEMMA EstimatesInductive == Spec => [](TypeOK /\ EstimateInv)
BY InitTypeOK, InitInv, NextTypeOK, NextInv, PTL DEF Spec

\* The stored submission time of a job is never after its start: no negative wait.
THEOREM NoNegativeWait == Spec => []EstimateNotAfterStart
<1>1. TypeOK /\ EstimateInv => EstimateNotAfterStart
  BY DEF EstimateInv, RowsInv, Within, EstimateNotAfterStart
<1>2. QED
  BY <1>1, EstimatesInductive, PTL

\* A stored submission time is early by no more than the timeout of one request.
THEOREM EarlyByTimeoutAtMost == Spec => []EstimateWithinTimeout
<1>1. TypeOK /\ EstimateInv => EstimateWithinTimeout
  BY DEF EstimateInv, RowsInv, Within, EstimateWithinTimeout
<1>2. QED
  BY <1>1, EstimatesInductive, PTL

\* A submission time that ComfyUI reported is stored as it is and never marked.
THEOREM ReportedTimesExact == Spec => []ExactStaysExact
<1>1. TypeOK /\ EstimateInv => ExactStaysExact
  BY DEF EstimateInv, RowsInv, Within, ExactStaysExact
<1>2. QED
  BY <1>1, EstimatesInductive, PTL

-----------------------------------------------------------------------------
(* The poller implements the ledger. *)

LEMMA SameLedger ==
  ASSUME EstimateInv, UNCHANGED rows,
         \A p \in Prompts : job[p].stage = "done" => job'[p] = job[p]
  PROVE  \A p \in Prompts : LedgerEntry(p)' = LedgerEntry(p)
BY DEF EstimateInv, RowsInv, LedgerEntry

LEMMA SavedEntry ==
  ASSUME TypeOK, EstimateInv, NEW p \in Prompts, DrainSave(p)
  PROVE  /\ p \in Done
         /\ LedgerEntry(p)' = LedgerEntry(p) \/ Ledger!Improves(LedgerEntry(p), LedgerEntry(p)')
         /\ \A q \in Prompts : q # p => LedgerEntry(q)' = LedgerEntry(q)
<1>1. /\ p \in drainer.cur /\ UNCHANGED job
      /\ rows' = [rows EXCEPT ![p] = Upserted(rows[p], drainer.built)]
  BY DEF DrainSave, comfyVars
<1>2. drainer.built.created \in Nat /\ rows[p].created \in Nat
  BY DEF TypeOK, Drainer, Built, Row, Time
<1>3. job[p].stage = "done" /\ job[p].queued > 0
  BY <1>1, JobTypes DEF EstimateInv, DrainInv, JobInv
<1>4. rows'[p] = Upserted(rows[p], drainer.built)
  BY <1>1 DEF TypeOK
<1>5. job[p].build.stamped => drainer.built.created > 0
  BY <1>1, <1>3 DEF DrainSave, EstimateInv, DrainInv, Within
<1>6. rows[p].exists /\ job[p].build.stamped => rows[p].created > 0
  BY <1>3 DEF EstimateInv, RowsInv, Within
<1>7. rows[p].created > 0 => rows[p].exists
  BY DEF EstimateInv, RowsInv
<1>8. /\ rows'[p].exists
      /\ rows'[p].created = IF drainer.built.created > 0 THEN drainer.built.created
                                                         ELSE rows[p].created
  BY <1>4 DEF Upserted
<1>9. LedgerEntry(p)' = IF rows'[p].created = 0 THEN "unknown"
                        ELSE IF job[p].build.stamped THEN "exact" ELSE "estimated"
  BY <1>1, <1>2, <1>8 DEF LedgerEntry
<1>10. LedgerEntry(p) = IF ~rows[p].exists THEN "absent"
                        ELSE IF rows[p].created = 0 THEN "unknown"
                        ELSE IF job[p].build.stamped THEN "exact" ELSE "estimated"
  BY <1>2 DEF LedgerEntry
<1>11. LedgerEntry(p)' = LedgerEntry(p) \/ Ledger!Improves(LedgerEntry(p), LedgerEntry(p)')
  BY <1>2, <1>5, <1>6, <1>7, <1>8, <1>9, <1>10 DEF Ledger!Improves
<1>12. \A q \in Prompts : q # p => rows'[q] = rows[q]
  BY <1>1 DEF TypeOK
<1>13. \A q \in Prompts : q # p => LedgerEntry(q)' = LedgerEntry(q)
  BY <1>1, <1>12 DEF LedgerEntry
<1>14. QED
  BY <1>3, <1>11, <1>13 DEF Done

LEMMA LedgerInit == Init => Ledger!Init
BY DEF Init, Ledger!Init, Done, LedgerEntry

LEMMA LedgerStep == TypeOK /\ EstimateInv /\ [Next]_vars => [Ledger!Next]_(Ledger!vars)
<1> SUFFICES ASSUME TypeOK, EstimateInv, [Next]_vars PROVE [Ledger!Next]_(Ledger!vars)
  OBVIOUS
<1> DEFINE L == [p \in Prompts |-> LedgerEntry(p)]
<1>a. ASSUME Done' = Done, \A p \in Prompts : LedgerEntry(p)' = LedgerEntry(p)
      PROVE  UNCHANGED Ledger!vars
  BY <1>a DEF Ledger!vars
<1>b. ASSUME UNCHANGED <<job, rows>> PROVE UNCHANGED Ledger!vars
  BY <1>a, <1>b, SameLedger DEF Done
<1>1. ASSUME NEW p \in Prompts, Finish(p) PROVE Ledger!Complete(p)
  <2>1. /\ job[p].stage = "running" /\ UNCHANGED rows
        /\ job' = [job EXCEPT ![p] = [job[p] EXCEPT !.stage = "done"]]
    BY <1>1 DEF Finish, Become, drainVars
  <2>2. p \notin Done /\ Done' = Done \cup {p}
    BY <2>1 DEF Done, TypeOK, Job
  <2>3. \A q \in Prompts : job[q].stage = "done" => job'[q] = job[q]
    BY <2>1 DEF TypeOK
  <2>4. L' = L
    BY <2>1, <2>3, SameLedger
  <2>5. QED
    BY <2>2, <2>4 DEF Ledger!Complete
<1>2. ASSUME NEW p \in Prompts, Enqueue(p) \/ Start(p) \/ Cancel(p) PROVE UNCHANGED Ledger!vars
  <2>1. PICK entry : job' = [job EXCEPT ![p] = entry] /\ entry.stage \in Stages \ {"done"}
    <3>1. CASE Enqueue(p)
      BY <3>1 DEF Enqueue, Become, Stages
    <3>2. job[p] \in Job
      BY DEF TypeOK
    <3>3. CASE Start(p)
      <4>1. [job[p] EXCEPT !.stage = "running", !.started = now].stage = "running"
        BY <3>2 DEF Job
      <4>2. QED
        BY <3>3, <4>1 DEF Start, Become, Stages
    <3>4. CASE Cancel(p)
      <4>1. [job[p] EXCEPT !.stage = "gone"].stage = "gone"
        BY <3>2 DEF Job
      <4>2. QED
        BY <3>4, <4>1 DEF Cancel, Become, Stages
    <3>5. QED
      BY <1>2, <3>1, <3>3, <3>4
  <2>2. job[p].stage # "done" /\ UNCHANGED rows
    BY <1>2 DEF Enqueue, Start, Cancel, Become, drainVars
  <2>3. Done' = Done /\ \A q \in Prompts : job[q].stage = "done" => job'[q] = job[q]
    BY <2>1, <2>2 DEF Done, TypeOK
  <2>4. QED
    BY <1>a, <2>2, <2>3, SameLedger
<1>3. CASE ComfyRestart
  <2>1. ASSUME NEW q \in Prompts
        PROVE  job'[q] = job[q]
               \/ (job[q].stage # "done" /\ job'[q].stage = "gone")
    BY <1>3 DEF ComfyRestart, Job, TypeOK
  <2>2. Done' = Done
    BY <2>1 DEF Done
  <2>3. QED
    BY <1>3, <1>a, <2>1, <2>2, SameLedger DEF ComfyRestart, drainVars
<1>4. ASSUME NEW p \in Prompts, DrainSave(p) PROVE UNCHANGED Ledger!vars \/ Ledger!Record(p)
  <2>1. UNCHANGED job
    BY <1>4 DEF DrainSave, comfyVars
  <2>2. Done' = Done
    BY <2>1 DEF Done
  <2>3. CASE LedgerEntry(p)' = LedgerEntry(p)
    BY <1>4, <1>a, <2>2, <2>3, SavedEntry
  <2>4. CASE Ledger!Improves(LedgerEntry(p), LedgerEntry(p)')
    <3>1. L' = [L EXCEPT ![p] = LedgerEntry(p)']
      BY <1>4, SavedEntry
    <3>2. LedgerEntry(p)' \in Ledger!Knowledge /\ L[p] = LedgerEntry(p)
      BY <2>4 DEF Ledger!Improves, Ledger!Knowledge
    <3>3. p \in Done
      BY <1>4, SavedEntry
    <3>4. QED
      BY <2>2, <2>4, <3>1, <3>2, <3>3 DEF Ledger!Record
  <2>5. QED
    BY <1>4, <2>3, <2>4, SavedEntry
<1>5. CASE DrainerNext /\ ~(\E p \in Prompts : DrainSave(p))
  BY <1>5, <1>b DEF DrainerNext, GetHistory, GetHistoryFails, DrainPick, DrainSaveFails,
                    DrainForget, DrainEnd, comfyVars, drainVars
<1>6. CASE SamplerNext
  BY <1>6, <1>b DEF SamplerNext, SampleBegin, GetQueue, GetQueueFails, ObserveQueued, GetStats,
                    InsertMetrics, comfyVars, drainVars
<1>7. CASE Tick \/ CollectorRestart \/ UNCHANGED vars
  BY <1>7, <1>b DEF Tick, CollectorRestart, vars, comfyVars, drainVars
<1>8. QED
  BY <1>1, <1>2, <1>3, <1>4, <1>5, <1>6, <1>7 DEF Next, ComfyNext, DrainerNext, Ledger!Next

\* Poller and table implement JobLedger: every step is one of the ledger or leaves it alone.
THEOREM LedgerImplemented == Spec => LedgerSpec
BY LedgerInit, LedgerStep, EstimatesInductive, PTL DEF Spec, LedgerSpec, Ledger!Spec
=============================================================================
