-------------------------- MODULE ComfyLossProofs --------------------------
(***************************************************************************)
(* More proofs about ComfyPoller: no job is lost without a warning, and    *)
(* what the sampler keeps and publishes.                                   *)
(***************************************************************************)
EXTENDS ComfyPollerProofs, FiniteSetTheorems

-----------------------------------------------------------------------------
(* No silent loss. *)

Settled(p) == rows[p].exists \/ p \in reported \/ p \in faulted

\* The entries of the drain in progress that were not handled, and those its page left out.
Open == drainer.todo \cup drainer.cur \cup drainer.passed

\* Every job finished before a stored one, or before an open one, is settled or open.
OrderInv ==
    \A i, j \in 1 .. Len(history) :
        i < j /\ (rows[history[j]].exists \/ history[j] \in Open) =>
            Settled(history[i]) \/ history[i] \in Open

\* What the drain in progress knows of the jobs its page left out: there are none unless the
\* page was full; once an entry was known, and if an entry to come is known, all are settled.
PassedInv ==
    drainer.pc # "idle" =>
        /\ ~drainer.full => drainer.passed = {}
        /\ ~drainer.allNew => \A p \in drainer.passed : Settled(p)
        /\ \A q \in drainer.todo : rows[q].exists => \A p \in drainer.passed : Settled(p)

CurrentInv ==
    /\ \A p, q \in drainer.cur : p = q
    /\ drainer.cur \cap drainer.todo = {}
    /\ drainer.pc = "idle" => drainer.todo = {}
    /\ drainer.pc = "forget" => \A p \in drainer.cur : rows[p].exists

FinishedInv ==
    /\ \A p \in drainer.passed : job[p].stage = "done"
    /\ \A i, j \in 1 .. Len(history) : history[i] = history[j] => i = j

LossInv == OrderInv /\ PassedInv /\ CurrentInv /\ FinishedInv /\ NoSilentLoss

LEMMA DrainerFields ==
  ASSUME TypeOK
  PROVE  /\ drainer \in Drainer
         /\ drainer.todo \subseteq Prompts /\ drainer.cur \subseteq Prompts
         /\ drainer.passed \subseteq Prompts
         /\ drainer.full \in BOOLEAN /\ drainer.allNew \in BOOLEAN
         /\ history \in Seq(Prompts) /\ Len(history) \in Nat
         /\ \A i \in 1 .. Len(history) : history[i] \in Prompts
         /\ \A p \in Prompts : rows[p] \in Row /\ rows[p].exists \in BOOLEAN
         /\ drainer.cur = {} <=> drainer.pc \in {"idle", "pick"}
BY DEF TypeOK, Drainer, Row

\* A page that leaves jobs out holds PageSize of them.
LEMMA FullPage ==
  ASSUME TypeOK, FinishedInv, PushedOff # {}
  PROVE  Cardinality(Page) >= PageSize
<1> DEFINE n == Len(history)
<1> DEFINE f == [i \in PageStart .. n |-> history[i]]
<1>1. n \in Nat /\ PageSize \in Nat /\ n > PageSize /\ PageStart = n - PageSize + 1
  BY DrainerFields, PollerAssumption DEF PushedOff, PageStart
<1>2. f \in Bijection(PageStart .. n, Page)
  <2>1. f \in [PageStart .. n -> Page]
    BY DEF Page
  <2>2. \A i, j \in PageStart .. n : f[i] = f[j] => i = j
    BY <1>1 DEF FinishedInv
  <2>3. \A p \in Page : \E i \in PageStart .. n : f[i] = p
    BY DEF Page
  <2>4. QED
    BY <2>1, <2>2, <2>3 DEF Bijection, Injection, Surjection, IsInjective
<1>3. IsFiniteSet(PageStart .. n) /\ Cardinality(PageStart .. n) = n - PageStart + 1
  BY <1>1, FS_Interval
<1>4. Cardinality(Page) = Cardinality(PageStart .. n)
  BY <1>2, <1>3, FS_Bijection DEF ExistsBijection
<1>5. QED
  BY <1>1, <1>3, <1>4

\* A step that leaves the drainer, the table and what is settled alone, and the jobs that
\* are done, keeps the invariant if the history stays, is emptied, or grows by a new job.
LEMMA ComfyLoss ==
  ASSUME TypeOK, EstimateInv, LossInv, ComfyNext
  PROVE  LossInv'
<1> USE DrainerFields
<1>1. UNCHANGED <<drainer, rows, reported, faulted>>
  BY ComfyUnchanged DEF drainVars
<1>2. \A p \in Prompts : job[p].stage = "done" => job'[p] = job[p]
  BY ComfyKeeps DEF EstimateInv, Kept
<1>3. Open' = Open /\ \A p : Settled(p)' = Settled(p)
  BY <1>1 DEF Open, Settled
<1>4. PassedInv' /\ CurrentInv' /\ NoSilentLoss'
  BY <1>1, <1>3 DEF LossInv, PassedInv, CurrentInv, NoSilentLoss, Settled
<1>5. \A p \in drainer'.passed : job'[p].stage = "done"
  BY <1>1, <1>2 DEF LossInv, FinishedInv
<1>6. CASE UNCHANGED history
  BY <1>1, <1>3, <1>4, <1>5, <1>6 DEF LossInv, OrderInv, FinishedInv
<1>7. CASE history' = <<>>
  BY <1>4, <1>5, <1>7 DEF LossInv, OrderInv, FinishedInv
<1>8. ASSUME NEW p \in Prompts, Finish(p) PROVE LossInv'
  <2>1. history' = Append(history, p) /\ job[p].stage = "running"
    BY <1>8 DEF Finish
  <2>2. /\ Len(history') = Len(history) + 1
        /\ \A i \in 1 .. Len(history) : history'[i] = history[i]
        /\ history'[Len(history) + 1] = p
    BY <2>1
  <2>3. ~rows[p].exists /\ p \notin Open
    BY <2>1 DEF EstimateInv, RowsInv, DrainInv, LossInv, FinishedInv, Open
  <2>4. \A i \in 1 .. Len(history) : history[i] # p
    BY <2>1 DEF EstimateInv, HistoryInv
  <2>5. OrderInv'
    <3> SUFFICES ASSUME NEW i \in 1 .. Len(history'), NEW j \in 1 .. Len(history'), i < j,
                        rows[history'[j]].exists \/ history'[j] \in Open
                 PROVE  Settled(history'[i]) \/ history'[i] \in Open
      BY <1>1, <1>3 DEF OrderInv
    <3>1. j # Len(history) + 1
      BY <2>2, <2>3
    <3>2. i \in 1 .. Len(history) /\ j \in 1 .. Len(history)
      BY <2>2, <3>1
    <3>3. QED
      BY <2>2, <3>2 DEF LossInv, OrderInv
  <2>6. \A i, j \in 1 .. Len(history') : history'[i] = history'[j] => i = j
    <3> SUFFICES ASSUME NEW i \in 1 .. Len(history'), NEW j \in 1 .. Len(history'),
                        history'[i] = history'[j]
                 PROVE  i = j
      OBVIOUS
    <3>1. (i \in 1 .. Len(history) \/ i = Len(history) + 1)
          /\ (j \in 1 .. Len(history) \/ j = Len(history) + 1)
      BY <2>2
    <3>2. QED
      BY <2>2, <2>4, <3>1 DEF LossInv, FinishedInv
  <2>7. QED
    BY <1>4, <1>5, <2>5, <2>6 DEF LossInv, FinishedInv
<1>9. QED
  BY <1>6, <1>7, <1>8 DEF ComfyNext, Enqueue, Start, Cancel, ComfyRestart

\* Steps of the drainer leave ComfyUI alone and only add to what is settled.
LEMMA OrderKept ==
  ASSUME TypeOK, LossInv, UNCHANGED history,
         \A p \in Prompts : Settled(p) => Settled(p)',
         \A p \in Prompts : rows'[p].exists => rows[p].exists \/ p \in Open,
         \A p \in Prompts : p \in Open => p \in Open' \/ Settled(p)',
         Open' \subseteq Open
  PROVE  OrderInv'
<1> USE DrainerFields
<1> SUFFICES ASSUME NEW i \in 1 .. Len(history), NEW j \in 1 .. Len(history), i < j,
                    rows'[history[j]].exists \/ history[j] \in Open'
             PROVE  Settled(history[i])' \/ history[i] \in Open'
  BY DEF OrderInv
<1>1. history[i] \in Prompts /\ history[j] \in Prompts
  OBVIOUS
<1>2. Settled(history[i]) \/ history[i] \in Open
  BY <1>1 DEF LossInv, OrderInv
<1>3. QED
  BY <1>1, <1>2

LEMMA DrainerLoss ==
  ASSUME TypeOK, EstimateInv, LossInv, DrainerNext
  PROVE  LossInv'
<1> USE DrainerFields
<1>1. UNCHANGED comfyVars
  BY DEF DrainerNext, GetHistory, GetHistoryFails, DrainPick, DrainSave, DrainSaveFails,
         DrainForget, DrainEnd, sampleVars
<1>2. UNCHANGED <<job, history>>
  BY <1>1 DEF comfyVars
<1>3. ASSUME drainer'.passed = drainer.passed PROVE FinishedInv'
  BY <1>2, <1>3 DEF LossInv, FinishedInv
<1>4. CASE GetHistory
  <2>1. /\ drainer.pc = "idle" /\ UNCHANGED <<rows, reported, faulted>>
        /\ drainer'.pc = "pick" /\ drainer'.todo = Page /\ drainer'.cur = {}
        /\ drainer'.full = (Cardinality(Page) >= PageSize) /\ drainer'.allNew = TRUE
        /\ drainer'.passed = PushedOff
    BY <1>4 DEF GetHistory
  <2>2. \A p : Settled(p)' = Settled(p)
    BY <2>1 DEF Settled
  <2>3. PageStart \in 1 .. Len(history) + 1
    BY PollerAssumption DEF PageStart
  <2>4. \A i \in 1 .. Len(history) : history[i] \in Page \/ history[i] \in PushedOff
    BY <2>3 DEF Page, PushedOff
  <2>5. OrderInv'
    BY <1>2, <2>1, <2>4 DEF OrderInv, Open
  <2>6. ASSUME NEW q \in Page, rows[q].exists, NEW p \in PushedOff PROVE Settled(p)
    <3>1. PICK j \in PageStart .. Len(history) : q = history[j]
      BY <2>6 DEF Page
    <3>2. PICK i \in 1 .. (PageStart - 1) : p = history[i]
      BY <2>6 DEF PushedOff
    <3>3. i \in 1 .. Len(history) /\ j \in 1 .. Len(history) /\ i < j
      BY <2>3, <3>1, <3>2
    <3>4. Settled(p) \/ p \in Open
      BY <2>6, <3>1, <3>2, <3>3 DEF LossInv, OrderInv
    <3>5. Open = drainer.passed
      BY <2>1 DEF LossInv, CurrentInv, Open
    <3>6. QED
      BY <2>1, <3>4, <3>5 DEF LossInv, NoSilentLoss, Settled
  <2>7. PassedInv'
    <3>1. ~drainer'.full => drainer'.passed = {}
      BY <2>1, FullPage DEF LossInv
    <3>2. \A q \in drainer'.todo : rows'[q].exists => \A p \in drainer'.passed : Settled(p)'
      BY <2>1, <2>2, <2>6
    <3>3. QED
      BY <2>1, <3>1, <3>2 DEF PassedInv
  <2>8. CurrentInv' /\ NoSilentLoss'
    BY <2>1 DEF CurrentInv, NoSilentLoss
  <2>9. FinishedInv'
    <3>1. \A p \in PushedOff : job[p].stage = "done"
      BY <2>3 DEF PushedOff, EstimateInv, HistoryInv
    <3>2. QED
      BY <1>2, <2>1, <3>1 DEF LossInv, FinishedInv
  <2>10. QED
    BY <2>5, <2>7, <2>8, <2>9 DEF LossInv
<1>5. CASE GetHistoryFails
  <2>1. UNCHANGED <<drainer, rows, reported, faulted>>
    BY <1>5 DEF GetHistoryFails, drainVars
  <2>2. QED
    BY <1>2, <2>1 DEF LossInv, OrderInv, PassedInv, CurrentInv, FinishedInv, NoSilentLoss, Open,
                      Settled
<1>6. ASSUME NEW p \in Prompts, DrainPick(p) PROVE LossInv'
  <2>1. PICK known \in BOOLEAN :
          /\ known => rows[p].exists
          /\ drainer' = [drainer EXCEPT !.pc = "save", !.todo = @ \ {p}, !.cur = {p},
                                        !.built = BuildJob(p), !.allNew = @ /\ ~known]
    BY <1>6 DEF DrainPick
  <2>2. /\ drainer.pc = "pick" /\ drainer.cur = {} /\ p \in drainer.todo
        /\ UNCHANGED <<rows, reported, faulted>>
    BY <1>6 DEF DrainPick
  <2>3. /\ drainer'.pc = "save" /\ drainer'.todo = drainer.todo \ {p} /\ drainer'.cur = {p}
        /\ drainer'.passed = drainer.passed /\ drainer'.full = drainer.full
        /\ drainer'.allNew = (drainer.allNew /\ ~known)
    BY <2>1 DEF Drainer
  <2>4. Open' = Open /\ \A q : Settled(q)' = Settled(q)
    BY <2>2, <2>3 DEF Open, Settled
  <2>5. OrderInv'
    BY <1>2, <2>2, <2>4, OrderKept
  <2>6. PassedInv'
    <3>1. known => \A q \in drainer.passed : Settled(q)
      BY <2>1, <2>2 DEF LossInv, PassedInv
    <3>2. QED
      BY <2>2, <2>3, <2>4, <3>1 DEF LossInv, PassedInv
  <2>7. CurrentInv' /\ NoSilentLoss'
    BY <2>3 DEF CurrentInv, NoSilentLoss
  <2>8. QED
    BY <1>3, <2>3, <2>5, <2>6, <2>7 DEF LossInv
<1>7. ASSUME NEW p \in Prompts, DrainSave(p) PROVE LossInv'
  <2>1. /\ drainer.pc = "save" /\ p \in drainer.cur /\ UNCHANGED <<reported, faulted>>
        /\ rows' = [rows EXCEPT ![p] = Upserted(rows[p], drainer.built)]
        /\ drainer'.pc = "forget" /\ drainer'.todo = drainer.todo /\ drainer'.cur = drainer.cur
        /\ drainer'.passed = drainer.passed /\ drainer'.full = drainer.full
        /\ drainer'.allNew = drainer.allNew
    BY <1>7 DEF DrainSave, Drainer
  <2>2. /\ rows'[p].exists
        /\ \A q \in Prompts : q # p => rows'[q] = rows[q]
    BY <2>1 DEF TypeOK, Upserted
  <2>3. Open' = Open /\ \A q \in Prompts : Settled(q) => Settled(q)'
    BY <2>1, <2>2 DEF Open, Settled
  <2>4. p \in Open /\ p \notin drainer.todo
    BY <2>1 DEF Open, LossInv, CurrentInv
  <2>5. OrderInv'
    BY <1>2, <2>2, <2>3, <2>4, OrderKept
  <2>6. PassedInv'
    BY <2>1, <2>2, <2>3, <2>4 DEF LossInv, PassedInv
  <2>7. CurrentInv' /\ NoSilentLoss'
    BY <2>1, <2>2 DEF LossInv, CurrentInv, NoSilentLoss
  <2>8. QED
    BY <1>3, <2>1, <2>5, <2>6, <2>7 DEF LossInv
<1>8. ASSUME NEW p \in Prompts, DrainSaveFails(p) \/ DrainForget(p) PROVE LossInv'
  <2>1. /\ drainer.pc \in {"save", "forget"} /\ p \in drainer.cur /\ UNCHANGED <<rows, reported>>
        /\ drainer'.pc = "pick" /\ drainer'.todo = drainer.todo /\ drainer'.cur = {}
        /\ drainer'.passed = drainer.passed /\ drainer'.full = drainer.full
        /\ drainer'.allNew = drainer.allNew /\ faulted \subseteq faulted'
    BY <1>8 DEF DrainSaveFails, DrainForget, Drainer
  <2>2. \A q : Settled(q) => Settled(q)'
    BY <2>1 DEF Settled
  <2>3. Settled(p)'
    <3>1. CASE DrainSaveFails(p)
      BY <3>1 DEF DrainSaveFails, Settled
    <3>2. CASE DrainForget(p)
      BY <2>1, <3>2 DEF DrainForget, LossInv, CurrentInv, Settled
    <3>3. QED
      BY <1>8, <3>1, <3>2
  <2>4. \A q \in drainer.cur : q = p
    BY <2>1 DEF LossInv, CurrentInv
  <2>5. Open' \subseteq Open /\ \A q \in Prompts : q \in Open => q \in Open' \/ Settled(q)'
    BY <2>1, <2>3, <2>4 DEF Open
  <2>6. OrderInv'
    BY <1>2, <2>1, <2>2, <2>5, OrderKept
  <2>7. PassedInv'
    BY <2>1, <2>2 DEF LossInv, PassedInv
  <2>8. CurrentInv' /\ NoSilentLoss'
    BY <2>1 DEF CurrentInv, NoSilentLoss
  <2>9. QED
    BY <1>3, <2>1, <2>6, <2>7, <2>8 DEF LossInv
<1>9. CASE DrainEnd
  <2>1. /\ drainer.pc = "pick" /\ drainer.todo = {} /\ drainer.cur = {}
        /\ UNCHANGED <<rows, faulted>>
        /\ reported' = IF Warns THEN reported \cup drainer.passed ELSE reported
        /\ drainer'.pc = "idle" /\ drainer'.todo = {} /\ drainer'.cur = {}
        /\ drainer'.passed = drainer.passed
    BY <1>9 DEF DrainEnd, DrainerIdle
  <2>2. \A q : Settled(q) => Settled(q)'
    BY <2>1 DEF Settled
  <2>3. Open' = Open
    BY <2>1 DEF Open
  <2>4. OrderInv'
    BY <1>2, <2>1, <2>2, <2>3, OrderKept
  <2>5. NoSilentLoss'
    <3>1. CASE Warns
      BY <2>1, <3>1 DEF NoSilentLoss
    <3>2. CASE ~Warns
      <4>1. \A q \in drainer.passed : Settled(q)
        BY <2>1, <3>2 DEF Warns, LossInv, PassedInv
      <4>2. QED
        BY <2>1, <2>2, <4>1 DEF NoSilentLoss, Settled
    <3>3. QED
      BY <3>1, <3>2
  <2>6. PassedInv' /\ CurrentInv'
    BY <2>1 DEF PassedInv, CurrentInv
  <2>7. QED
    BY <1>3, <2>1, <2>4, <2>5, <2>6 DEF LossInv
<1>10. QED
  BY <1>4, <1>5, <1>6, <1>7, <1>8, <1>9 DEF DrainerNext

LEMMA RestartLoss ==
  ASSUME TypeOK, LossInv, CollectorRestart
  PROVE  LossInv'
<1> USE DrainerFields
<1>1. /\ UNCHANGED <<job, history, rows, reported>>
      /\ drainer' = DrainerIdle
      /\ faulted' = IF drainer.pc = "idle" THEN faulted ELSE faulted \cup Open
  BY DEF CollectorRestart, comfyVars, Open
<1>2. /\ drainer'.pc = "idle" /\ drainer'.todo = {} /\ drainer'.cur = {} /\ drainer'.passed = {}
      /\ Open' = {}
  BY <1>1 DEF DrainerIdle, Open
<1>3. \A p : Settled(p) => Settled(p)'
  BY <1>1 DEF Settled
<1>4. \A p \in Open : Settled(p)'
  <2>1. CASE drainer.pc = "idle"
    <3>1. Open = drainer.passed
      BY <2>1 DEF LossInv, CurrentInv, Open
    <3>2. QED
      BY <1>3, <2>1, <3>1 DEF LossInv, NoSilentLoss, Settled
  <2>2. CASE drainer.pc # "idle"
    BY <1>1, <2>2 DEF Settled
  <2>3. QED
    BY <2>1, <2>2
<1>5. OrderInv'
  BY <1>1, <1>2, <1>3, <1>4, OrderKept
<1>6. PassedInv' /\ CurrentInv' /\ NoSilentLoss' /\ FinishedInv'
  BY <1>1, <1>2 DEF LossInv, PassedInv, CurrentInv, NoSilentLoss, FinishedInv
<1>7. QED
  BY <1>5, <1>6 DEF LossInv

LEMMA InitLoss == Init => LossInv
BY DEF Init, LossInv, OrderInv, PassedInv, CurrentInv, FinishedInv, NoSilentLoss, DrainerIdle

LEMMA NextLoss == TypeOK /\ EstimateInv /\ LossInv /\ [Next]_vars => LossInv'
<1> SUFFICES ASSUME TypeOK, EstimateInv, LossInv, [Next]_vars PROVE LossInv'
  OBVIOUS
<1>1. ASSUME UNCHANGED <<job, history, drainer, rows, reported, faulted>> PROVE LossInv'
  BY <1>1 DEF LossInv, OrderInv, PassedInv, CurrentInv, FinishedInv, NoSilentLoss, Open, Settled
<1>2. CASE Tick \/ SamplerNext \/ UNCHANGED vars
  BY <1>1, <1>2 DEF Tick, SamplerNext, SampleBegin, GetQueue, GetQueueFails, ObserveQueued,
                    GetStats, InsertMetrics, comfyVars, drainVars, vars
<1>3. QED
  BY <1>2, ComfyLoss, DrainerLoss, RestartLoss DEF Next

LEMMA LossInductive == Spec => [](TypeOK /\ EstimateInv /\ LossInv)
<1>1. Init => TypeOK /\ EstimateInv /\ LossInv
  BY InitTypeOK, InitInv, InitLoss
<1>2. TypeOK /\ EstimateInv /\ LossInv /\ [Next]_vars => (TypeOK /\ EstimateInv /\ LossInv)'
  BY NextTypeOK, NextInv, NextLoss
<1>3. QED
  BY <1>1, <1>2, PTL DEF Spec

\* A job that was pushed off the history page without having been stored is covered by the
\* warning of DrainJobs, unless its own drain failed or was cut short.
THEOREM LossesAreReported == Spec => []NoSilentLoss
<1>1. LossInv => NoSilentLoss
  BY DEF LossInv
<1>2. QED
  BY <1>1, LossInductive, PTL

-----------------------------------------------------------------------------
(* What the sampler keeps and publishes. *)

\* A sample that is under way is not older than what was published and stored, and what it
\* saw of the queue has been applied by the time it is published.
LiveInv ==
    /\ live.at <= now /\ series <= now
    /\ sampler.pc # "idle" => live.at <= sampler.stamp /\ series <= sampler.stamp
    /\ sampler.pc = "queue" => ~sampler.queue
    /\ sampler.pc = "stats" /\ sampler.queue =>
          \A p \in Prompts : seen[p] > 0 => sampler.stamp - seen[p] <= SeenTTL
    /\ sampler.pc = "insert" => live.at = sampler.stamp
    /\ SeriesNotAheadOfLive
    /\ SeenBounded

LEMMA SamplerFields ==
  ASSUME TypeOK
  PROVE  /\ sampler \in Sampler /\ live \in Live
         /\ now \in Nat /\ series \in Nat /\ sampler.stamp \in Nat /\ live.at \in Nat
         /\ sampler.queue \in BOOLEAN /\ live.queue \in BOOLEAN
         /\ SeenTTL \in Nat /\ \A p \in Prompts : seen[p] \in Nat
BY PollerAssumption DEF TypeOK, Sampler, Live, Time

LEMMA InitLive == Init => LiveInv
BY DEF Init, LiveInv, SamplerIdle, NoLive, SeriesNotAheadOfLive, SeenBounded

LEMMA SamplerLive ==
  ASSUME TypeOK, EstimateInv, LiveInv, SamplerNext
  PROVE  LiveInv'
<1> USE SamplerFields
<1>a. sampler.stamp <= now
  BY DEF EstimateInv, SightingInv
<1>1. CASE SampleBegin
  <2>1. /\ sampler'.pc = "queue" /\ sampler'.stamp = now /\ sampler'.queue = FALSE
        /\ UNCHANGED <<now, seen, live, series>>
    BY <1>1 DEF SampleBegin, SamplerIdle
  <2>2. QED
    BY <2>1 DEF LiveInv, SeriesNotAheadOfLive, SeenBounded
<1>2. CASE GetQueue
  <2>1. /\ sampler.pc = "queue" /\ sampler'.pc = "observe" /\ sampler'.stamp = sampler.stamp
        /\ UNCHANGED <<now, seen, live, series>>
    BY <1>2 DEF GetQueue, Sampler
  <2>2. QED
    BY <2>1 DEF LiveInv, SeriesNotAheadOfLive, SeenBounded
<1>3. CASE GetQueueFails
  <2>1. /\ sampler.pc = "queue" /\ sampler'.pc = "stats" /\ sampler'.stamp = sampler.stamp
        /\ sampler'.queue = sampler.queue /\ UNCHANGED <<now, seen, live, series>>
    BY <1>3 DEF GetQueueFails, Sampler
  <2>2. QED
    BY <2>1 DEF LiveInv, SeriesNotAheadOfLive, SeenBounded
<1>4. CASE ObserveQueued
  <2>1. /\ sampler.pc = "observe" /\ sampler'.pc = "stats" /\ sampler'.stamp = sampler.stamp
        /\ sampler'.queue = sampler.queue /\ UNCHANGED <<now, live, series>>
        /\ seen' = Observed(seen, sampler.pending, sampler.stamp)
    BY <1>4 DEF ObserveQueued, Sampler
  <2>2. ASSUME NEW p \in Prompts, seen'[p] > 0 PROVE sampler.stamp - seen'[p] <= SeenTTL
    BY <2>1, <2>2 DEF Observed, Expired, Added
  <2>3. \A p \in Prompts : seen'[p] \in Nat
    BY <2>1 DEF Observed, Expired, Added
  <2>4. QED
    BY <2>1, <2>2, <2>3 DEF LiveInv, SeriesNotAheadOfLive, SeenBounded
<1>5. CASE GetStats
  <2>1. /\ sampler.pc = "stats" /\ sampler'.pc = "insert" /\ sampler'.stamp = sampler.stamp
        /\ live'.at = sampler.stamp /\ live'.queue = sampler.queue
        /\ UNCHANGED <<now, seen, series>>
    BY <1>5 DEF GetStats, Sampler
  <2>2. QED
    BY <1>a, <2>1 DEF LiveInv, SeriesNotAheadOfLive, SeenBounded
<1>6. CASE InsertMetrics
  <2>1. /\ sampler.pc = "insert" /\ sampler'.pc = "idle" /\ series' \in {series, sampler.stamp}
        /\ UNCHANGED <<now, seen, live>>
    BY <1>6 DEF InsertMetrics, SamplerIdle
  <2>2. QED
    BY <1>a, <2>1 DEF LiveInv, SeriesNotAheadOfLive, SeenBounded
<1>7. QED
  BY <1>1, <1>2, <1>3, <1>4, <1>5, <1>6 DEF SamplerNext

LEMMA NextLive == TypeOK /\ EstimateInv /\ LiveInv /\ [Next]_vars => LiveInv'
<1> SUFFICES ASSUME TypeOK, EstimateInv, LiveInv, [Next]_vars PROVE LiveInv'
  OBVIOUS
<1> USE SamplerFields
<1>1. ASSUME UNCHANGED <<live, series, sampler>>, now' \in {now, now + 1},
             \A p \in Prompts : seen'[p] \in {0, seen[p]}
      PROVE  LiveInv'
  BY <1>1 DEF LiveInv, SeriesNotAheadOfLive, SeenBounded
<1>2. CASE Tick \/ ComfyNext \/ UNCHANGED vars
  BY <1>1, <1>2, ComfyUnchanged DEF Tick, sampleVars, vars
<1>3. CASE DrainerNext
  <2>1. UNCHANGED <<live, series, sampler, now>>
    BY <1>3 DEF DrainerNext, GetHistory, GetHistoryFails, DrainPick, DrainSave, DrainSaveFails,
                DrainForget, DrainEnd, sampleVars
  <2>2. \A p \in Prompts : seen'[p] \in {0, seen[p]}
    BY <1>3 DEF DrainerNext, GetHistory, GetHistoryFails, DrainPick, DrainSave, DrainSaveFails,
                DrainForget, DrainEnd, sampleVars, TypeOK
  <2>3. QED
    BY <1>1, <2>1, <2>2
<1>4. CASE CollectorRestart
  <2>1. /\ live'.at = 0 /\ sampler'.pc = "idle" /\ UNCHANGED <<now, series>>
    BY <1>4 DEF CollectorRestart, NoLive, SamplerIdle
  <2>2. QED
    BY <2>1 DEF LiveInv, SeriesNotAheadOfLive, SeenBounded
<1>5. QED
  BY <1>2, <1>3, <1>4, SamplerLive DEF Next

LEMMA LiveInductive == Spec => []LiveInv
<1>1. Init => TypeOK /\ EstimateInv /\ LiveInv
  BY InitTypeOK, InitInv, InitLive
<1>2. TypeOK /\ EstimateInv /\ LiveInv /\ [Next]_vars => (TypeOK /\ EstimateInv /\ LiveInv)'
  BY NextTypeOK, NextInv, NextLive
<1>3. QED
  BY <1>1, <1>2, PTL DEF Spec

\* Once a reachable sample is published, nothing older than seenTTL is remembered.
THEOREM SightingsExpire == Spec => []SeenBounded
<1>1. LiveInv => SeenBounded
  BY DEF LiveInv
<1>2. QED
  BY <1>1, LiveInductive, PTL

\* The stored series is never ahead of the gauges the API serves as current.
THEOREM LiveLeads == Spec => []SeriesNotAheadOfLive
<1>1. LiveInv => SeriesNotAheadOfLive
  BY DEF LiveInv
<1>2. QED
  BY <1>1, LiveInductive, PTL

\* A sighting is dropped only when its process dies, its TTL is over or its job is stored.
THEOREM SightingsKeptUntilSaved == Spec => ForgottenOnlyWhenSaved
<1> DEFINE Dropped ==
      \A p \in Prompts : seen[p] > 0 /\ seen'[p] = 0 =>
          \/ rows[p].exists
          \/ restarts' = restarts + 1
          \/ sampler.stamp - seen[p] > SeenTTL
<1>1. TypeOK /\ LossInv /\ [Next]_vars => [Dropped]_vars
  <2> SUFFICES ASSUME TypeOK, LossInv, [Next]_vars, NEW p \in Prompts,
                      seen[p] > 0, seen'[p] = 0
               PROVE  \/ rows[p].exists
                      \/ restarts' = restarts + 1
                      \/ sampler.stamp - seen[p] > SeenTTL
    OBVIOUS
  <2>1. seen' # seen
    BY SamplerFields
  <2>2. CASE ObserveQueued
    BY <2>2, SamplerFields DEF ObserveQueued, Observed, Expired, Added
  <2>3. ASSUME NEW q \in Prompts, DrainForget(q) PROVE rows[p].exists
    <3>1. rows[q].exists
      BY <2>3 DEF DrainForget, LossInv, CurrentInv
    <3>2. p = q
      BY <2>3, SamplerFields DEF DrainForget, TypeOK
    <3>3. QED
      BY <3>1, <3>2
  <2>4. CASE CollectorRestart
    BY <2>4 DEF CollectorRestart
  <2>5. ObserveQueued \/ CollectorRestart \/ \E q \in Prompts : DrainForget(q)
    <3>1. ~Tick /\ ~ComfyNext /\ ~UNCHANGED vars
      BY <2>1, ComfyUnchanged DEF Tick, vars, sampleVars
    <3>2. SamplerNext => ObserveQueued
      BY <2>1 DEF SamplerNext, SampleBegin, GetQueue, GetQueueFails, GetStats, InsertMetrics
    <3>3. DrainerNext => \E q \in Prompts : DrainForget(q)
      BY <2>1 DEF DrainerNext, GetHistory, GetHistoryFails, DrainPick, DrainSave,
                  DrainSaveFails, DrainEnd, sampleVars
    <3>4. QED
      BY <3>1, <3>2, <3>3 DEF Next
  <2>6. QED
    BY <2>2, <2>3, <2>4, <2>5
<1>2. QED
  BY <1>1, LossInductive, PTL DEF Spec, ForgottenOnlyWhenSaved
=============================================================================
