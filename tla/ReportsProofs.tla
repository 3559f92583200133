---------------------------- MODULE ReportsProofs ----------------------------
(***************************************************************************)
(* An hour of a chart shows all the samples of that hour or none, and a    *)
(* day of a chart counts all the jobs that ended on it, with the           *)
(* percentiles of the nearest rank: for any lengths of hour, day, window   *)
(* and retention with a retention no shorter than the window, any samples, *)
(* labels and jobs, whichever queries fail, and however late the payload   *)
(* is drawn.                                                               *)
(***************************************************************************)
EXTENDS Reports, FiniteSetTheorems, WellFoundedInduction, TLAPS

LEMMA Constants ==
    /\ Hour \in Nat \ {0} /\ HoursPerDay \in Nat \ {0} /\ Days \in Nat \ {0}
    /\ Hours \in Nat \ {0} /\ Window \in Nat /\ Day \in Nat \ {0}
    /\ Retain \in Nat /\ Retain >= Window
<1>1. /\ Hour \in Nat \ {0} /\ HoursPerDay \in Nat \ {0} /\ Days \in Nat \ {0}
      /\ Retain \in Nat /\ Retain >= Window
  BY ReportsAssumption
<1>2. \A a, b \in Nat \ {0} : a * b \in Nat \ {0}
  OBVIOUS
<1>3. Day \in Nat \ {0} /\ Hours \in Nat \ {0}
  BY <1>1, <1>2 DEF Day, Hours
<1> QED
  BY <1>1, <1>2, <1>3 DEF Window

\* A slot of a chart that is drawn now was inside the window of a query that was made no later:
\* the window ends with the slot of the query and is a whole number of slots long.
LEMMA SlotInWindow ==
    ASSUME NEW size \in Nat \ {0}, NEW count \in Nat \ {0}, NEW t \in Nat, NEW n \in Nat,
           t \div size > (n \div size) - count
    PROVE  t >= n - size * count
<1> DEFINE q == n \div size
           h == t \div size
<1>1. q \in Int /\ n < size * q + size
  OBVIOUS
<1>2. h \in Int /\ size * h <= t
  OBVIOUS
<1>3. h >= q - count + 1
  BY <1>1, <1>2
<1>4. size * h >= size * q - size * count + size
  <2> HIDE DEF q, h
  <2>1. size * h >= size * (q - count + 1)
    BY <1>1, <1>2, <1>3
  <2>2. size * (q - count + 1) = size * q - size * count + size
    BY <1>1
  <2> QED
    BY <1>1, <1>2, <2>1, <2>2
<1> HIDE DEF q, h
<1>5. size * h \in Int /\ size * q \in Int /\ size * count \in Int
  BY <1>1, <1>2
<1> QED
  BY <1>1, <1>2, <1>4, <1>5

LEMMA SlotMonotone ==
    ASSUME NEW size \in Nat \ {0}, NEW n \in Nat
    PROVE  /\ n \div size \in Int /\ (n + 1) \div size \in Int
           /\ n \div size <= (n + 1) \div size
<1> DEFINE q == n \div size
           h == (n + 1) \div size
<1>1. q \in Int /\ size * q <= n
  OBVIOUS
<1>2. h \in Int /\ n + 1 < size * h + size
  OBVIOUS
<1>3. q <= h
  <2> HIDE DEF q, h
  <2> SUFFICES ASSUME h + 1 <= q PROVE FALSE
    BY <1>1, <1>2
  <2>1. size * (h + 1) <= size * q
    BY <1>1, <1>2
  <2>2. size * (h + 1) = size * h + size
    BY <1>2
  <2>3. size * h \in Int /\ size * q \in Int
    BY <1>1, <1>2
  <2> QED
    BY <1>1, <1>2, <2>1, <2>2, <2>3
<1> QED
  BY <1>1, <1>2, <1>3

LEMMA HourInWindow ==
    ASSUME NEW t \in Nat, NEW n \in Nat, HourOf(t) > HourOf(n) - Hours
    PROVE  t >= n - Window
<1>1. Hour * Hours = Window
  <2>1. \A a, b, c \in Nat : a * (b * c) = b * (c * a)
    OBVIOUS
  <2> QED
    BY <2>1, Constants DEF Hours, Window, Day
<1> QED
  BY <1>1, SlotInWindow, Constants DEF HourOf

LEMMA DayInWindow ==
    ASSUME NEW t \in Nat, NEW n \in Nat, DayOf(t) > DayOf(n) - Days
    PROVE  t >= n - Window
<1>1. Day * Days = Window
  BY Constants DEF Window
<1> QED
  BY <1>1, SlotInWindow, Constants DEF DayOf

LEMMA HourMonotone ==
    ASSUME NEW n \in Nat
    PROVE  HourOf(n) \in Int /\ HourOf(n + 1) \in Int /\ HourOf(n) <= HourOf(n + 1)
BY SlotMonotone, Constants DEF HourOf

LEMMA DayMonotone ==
    ASSUME NEW n \in Nat
    PROVE  DayOf(n) \in Int /\ DayOf(n + 1) \in Int /\ DayOf(n) <= DayOf(n + 1)
BY SlotMonotone, Constants DEF DayOf

-----------------------------------------------------------------------------
(* The invariant. *)

\* A row is there as long as it is young enough.
KeptInv == \A r \in taken : r.at >= now - Retain => r \in metrics

Shape ==
    payload = [series |-> payload.series, days |-> payload.days,
               imagesToday |-> payload.imagesToday, taken |-> payload.taken,
               told |-> payload.told, today |-> payload.today, failed |-> payload.failed,
               made |-> payload.made]

CallInv ==
    /\ Shape
    /\ DOMAIN payload.taken = Labels
    /\ pc = "labels" => payload = NoPayload
    /\ pc # "series" => todo = {}

\* The series that have been queried, from the answer to the labels on.
Queried == IF pc \in {"series", "today"} \/ (pc = "idle" /\ payload.made) THEN Labels \ todo ELSE {}

HourExact(l, h) ==
    LET rows == {r \in payload.taken[l] : HourOf(r.at) = h} IN
    DrawnHour(l, h) = IF rows = {} THEN Null ELSE Aggregate(rows)

SeriesInv ==
    "labels" \notin payload.failed =>
        \A l \in Queried \ payload.failed : \A h \in Int :
            h > HourOf(now) - Hours => HourExact(l, h)

\* What may be told of a prompt; a time that is not known is 0.
IsEntry(e) ==
    /\ e = [status |-> e.status, completed |-> e.completed, images |-> e.images,
            created |-> e.created, started |-> e.started, ended |-> e.ended, over |-> e.over]
    /\ e.created \in Nat /\ e.started \in Nat /\ e.ended \in Nat /\ e.over \in Nat
    /\ e.completed \in BOOLEAN

\* What a drain was told is still so, but that an end may have become known since.
ToldInv ==
    /\ \A p \in DOMAIN history : IsEntry(history[p])
    /\ \A p \in DOMAIN seen : seen[p] \in Nat \ {0}
    /\ \A p \in DOMAIN told :
          /\ IsEntry(told[p].entry) /\ told[p].seen \in Nat
          /\ told[p].entry.created = history[p].created
          /\ told[p].entry.started = history[p].started
          /\ told[p].entry.completed = history[p].completed
          /\ told[p].entry.ended \in {0, history[p].ended}

ReportsInv == TypeOK /\ now > 0 /\ KeptInv /\ CallInv /\ SeriesInv /\ ToldInv

NoneYet == [l \in {} |-> Null]

LEMMA NoPayloadShape ==
    /\ NoPayload.series = NoneYet /\ NoPayload.days = [d \in {} |-> Null]
    /\ NoPayload.taken = [l \in Labels |-> {}] /\ NoPayload.failed = {}
    /\ NoPayload.made = FALSE
    /\ NoPayload = [series |-> NoPayload.series, days |-> NoPayload.days,
                    imagesToday |-> NoPayload.imagesToday, taken |-> NoPayload.taken,
                    told |-> NoPayload.told, today |-> NoPayload.today,
                    failed |-> NoPayload.failed, made |-> NoPayload.made]
BY DEF NoPayload, NoneYet

LEMMA ReportsInit == Init => ReportsInv
<1> SUFFICES ASSUME Init PROVE ReportsInv
  OBVIOUS
<1>1. /\ now = Window + Day /\ metrics = {} /\ taken = {} /\ DOMAIN history = {}
      /\ DOMAIN seen = {} /\ DOMAIN jobs = {} /\ DOMAIN told = {} /\ pc = "idle" /\ todo = {} /\ payload = NoPayload
  BY DEF Init
<1>2. now \in Nat
  BY <1>1, Constants
<1>3. DOMAIN payload.series = {}
  BY <1>1, NoPayloadShape DEF NoneYet
<1>4. TypeOK
  BY <1>1, <1>2, <1>3 DEF TypeOK
<1>5. CallInv
  BY <1>1, NoPayloadShape DEF CallInv, Shape
<1>6. Queried = {}
  BY <1>1, NoPayloadShape DEF Queried
<1> QED
  BY <1>1, <1>2, <1>4, <1>5, <1>6, Constants DEF ReportsInv, KeptInv, SeriesInv, ToldInv

-----------------------------------------------------------------------------
(* Rows come and go; a payload that has been made only ages. *)

LEMMA SeriesStill ==
    ASSUME SeriesInv, UNCHANGED <<pc, todo, payload>>, now \in Nat, now' \in {now, now + 1}
    PROVE  SeriesInv'
<1>1. HourOf(now) \in Int /\ HourOf(now') \in Int /\ HourOf(now) <= HourOf(now')
  BY HourMonotone
<1>2. Queried' = Queried
  BY DEF Queried
<1>3. ASSUME NEW h \in Int, h > HourOf(now') - Hours
      PROVE  h > HourOf(now) - Hours
  BY <1>1, <1>3, Constants
<1>4. \A l, h : HourExact(l, h)' <=> HourExact(l, h)
  BY DEF HourExact, DrawnHour, At, Get
<1> QED
  BY <1>2, <1>3, <1>4 DEF SeriesInv

LEMMA TickKeeps ==
    ASSUME ReportsInv, Tick
    PROVE  ReportsInv'
<1>1. /\ now \in Nat /\ now' = now + 1
      /\ UNCHANGED <<metrics, taken, history, seen, jobs, told, pc, todo, payload>>
  BY DEF ReportsInv, TypeOK, Tick
<1>2. TypeOK'
  <2>1. \A r \in taken : r.at \in 0 .. now => r.at \in 0 .. now + 1
    BY <1>1
  <2>2. \A r \in taken' : r.at \in 0 .. now' /\ r.label \in Labels /\ r.value \in Values
    BY <1>1, <2>1 DEF ReportsInv, TypeOK
  <2> QED
    BY <1>1, <2>2 DEF ReportsInv, TypeOK
<1>3. KeptInv'
  <2> SUFFICES ASSUME NEW r \in taken', r.at >= now' - Retain PROVE r \in metrics'
    BY DEF KeptInv
  <2>1. r \in taken /\ r.at \in Nat
    BY <1>1 DEF ReportsInv, TypeOK
  <2> QED
    BY <1>1, <2>1, Constants DEF ReportsInv, KeptInv
<1>4. CallInv'
  BY <1>1 DEF ReportsInv, CallInv, Shape
<1>5. SeriesInv'
  BY <1>1, SeriesStill DEF ReportsInv
<1>6. now' > 0
  BY <1>1 DEF ReportsInv
<1>7. ToldInv'
  BY <1>1 DEF ReportsInv, ToldInv
<1> QED
  BY <1>2, <1>3, <1>4, <1>5, <1>6, <1>7 DEF ReportsInv

LEMMA InsertKeeps ==
    ASSUME ReportsInv, NEW l \in Labels, NEW v \in Values, NEW lag \in {0, 1},
           InsertMetrics(l, v, lag)
    PROVE  ReportsInv'
<1> DEFINE row == [at |-> now - lag, label |-> l, value |-> v]
<1>1. /\ now \in Nat /\ now > 0 /\ now' = now /\ metrics' = metrics \union {row}
      /\ taken' = taken \union {row}
      /\ UNCHANGED <<history, seen, jobs, told, pc, todo, payload>>
  BY DEF ReportsInv, TypeOK, InsertMetrics
<1>2. TypeOK'
  <2>1. row.at \in 0 .. now /\ row.label = l /\ row.value = v
    BY <1>1
  <2> HIDE DEF row
  <2> QED
    BY <1>1, <2>1 DEF ReportsInv, TypeOK
<1>3. KeptInv'
  BY <1>1 DEF ReportsInv, KeptInv
<1>4. CallInv'
  BY <1>1 DEF ReportsInv, CallInv, Shape
<1>5. SeriesInv'
  BY <1>1, SeriesStill DEF ReportsInv
<1>6. now' > 0
  BY <1>1 DEF ReportsInv
<1>7. ToldInv'
  BY <1>1 DEF ReportsInv, ToldInv
<1> QED
  BY <1>2, <1>3, <1>4, <1>5, <1>6, <1>7 DEF ReportsInv

LEMMA FinishKeeps ==
    ASSUME ReportsInv, NEW p, NEW kind \in Kinds, Finish(p, kind)
    PROVE  ReportsInv'
<1> DEFINE start == now - kind.exec
<1>1. /\ UNCHANGED <<now, metrics, taken, jobs, told, pc, todo, payload>>
      /\ p \notin DOMAIN history /\ DOMAIN history' = DOMAIN history \union {p}
      /\ \A q \in DOMAIN history : history'[q] = history[q]
      /\ \/ seen' = seen
         \/ /\ DOMAIN seen' = DOMAIN seen \union {p} /\ seen'[p] = start - 1
            /\ \A q \in DOMAIN seen : q # p => seen'[q] = seen[q]
  BY DEF With, Finish
<1>2. history'[p] =
          [status |-> kind.status, completed |-> kind.completed, images |-> kind.images,
           created |-> IF kind.created THEN start - 2 ELSE 0,
           started |-> IF kind.started THEN start ELSE 0,
           ended |-> IF kind.ended THEN now ELSE 0, over |-> now]
  BY DEF With, Finish
<1>3. start \in Nat /\ start > 2 /\ now \in Nat /\ kind.completed \in BOOLEAN
  BY ReportsAssumption DEF Finish, ReportsInv, TypeOK
<1>4. IsEntry(history'[p])
  BY <1>2, <1>3 DEF IsEntry
<1>5. \A q \in DOMAIN seen' : seen'[q] \in Nat \ {0}
  <2>1. start - 1 \in Nat \ {0}
    BY <1>3
  <2> HIDE DEF start
  <2> QED
    BY <1>1, <2>1 DEF ReportsInv, ToldInv
<1>6. ToldInv'
  <2>1. \A q \in DOMAIN told : q \in DOMAIN history
    BY DEF ReportsInv, TypeOK
  <2> QED
    BY <1>1, <1>4, <1>5, <2>1 DEF ReportsInv, ToldInv
<1>7. TypeOK'
  BY <1>1 DEF ReportsInv, TypeOK
<1>8. KeptInv' /\ CallInv'
  BY <1>1 DEF ReportsInv, KeptInv, CallInv, Shape
<1>9. SeriesInv'
  BY <1>1, SeriesStill DEF ReportsInv, TypeOK
<1> QED
  BY <1>1, <1>6, <1>7, <1>8, <1>9 DEF ReportsInv

LEMMA ReportEndKeeps ==
    ASSUME ReportsInv, NEW p, ReportEnd(p)
    PROVE  ReportsInv'
<1>1. /\ UNCHANGED <<now, metrics, taken, seen, jobs, told, pc, todo, payload>>
      /\ p \in DOMAIN history /\ DOMAIN history' = DOMAIN history /\ history[p].ended = 0
      /\ \A q \in DOMAIN history : q # p => history'[q] = history[q]
      /\ history' = [history EXCEPT ![p].ended = history[p].over, ![p].status = "success"]
  BY DEF ReportEnd
<1>2. /\ history'[p].created = history[p].created /\ history'[p].started = history[p].started
      /\ history'[p].completed = history[p].completed /\ history'[p].over = history[p].over
      /\ history'[p].ended = history[p].over
      /\ IsEntry(history'[p])
  <2> DEFINE e == history[p]
             f == [status |-> "success", completed |-> e.completed, images |-> e.images,
                   created |-> e.created, started |-> e.started, ended |-> e.over,
                   over |-> e.over]
  <2>1. IsEntry(e)
    BY <1>1 DEF ReportsInv, ToldInv
  <2>2. history'[p] = [e EXCEPT !.ended = e.over, !.status = "success"]
    BY <1>1
  <2>3. history'[p] = f
    <3> HIDE DEF e
    <3> QED
      BY <2>1, <2>2 DEF IsEntry
  <2> HIDE DEF e
  <2> QED
    BY <2>1, <2>3 DEF e, IsEntry
<1>3. \A q \in DOMAIN history' : IsEntry(history'[q])
  BY <1>1, <1>2 DEF ReportsInv, ToldInv
<1>4. ASSUME NEW q \in DOMAIN told
      PROVE  /\ IsEntry(told[q].entry) /\ told[q].seen \in Nat
             /\ told[q].entry.created = history'[q].created
             /\ told[q].entry.started = history'[q].started
             /\ told[q].entry.completed = history'[q].completed
             /\ told[q].entry.ended \in {0, history'[q].ended}
  <2>1. q \in DOMAIN history
    BY DEF ReportsInv, TypeOK
  <2>2. CASE q = p
    BY <1>1, <1>2, <2>2 DEF ReportsInv, ToldInv
  <2>3. CASE q # p
    BY <1>1, <2>1, <2>3 DEF ReportsInv, ToldInv
  <2> QED
    BY <2>2, <2>3
<1>5. ToldInv'
  BY <1>1, <1>3, <1>4 DEF ReportsInv, ToldInv
<1>6. TypeOK'
  BY <1>1 DEF ReportsInv, TypeOK
<1>7. KeptInv' /\ CallInv'
  BY <1>1 DEF ReportsInv, KeptInv, CallInv, Shape
<1>8. SeriesInv'
  BY <1>1, SeriesStill DEF ReportsInv, TypeOK
<1> QED
  BY <1>1, <1>5, <1>6, <1>7, <1>8 DEF ReportsInv

\* What a row says that is made of an entry and a sighting, or merged with the row before.
LEMMA RowOfFirst ==
    ASSUME NEW e, IsEntry(e), NEW s \in Nat
    PROVE  BuildJob(e, s) = Job([entry |-> e, seen |-> s])
BY DEF BuildJob, Job, SubmittedAt, EndOf, IsEntry

LEMMA RowMerged ==
    ASSUME NEW e, IsEntry(e), NEW s \in Nat, NEW old, IsEntry(old.entry), old.seen \in Nat,
           old.entry.created = e.created, old.entry.started = e.started,
           old.entry.completed = e.completed, old.entry.ended \in {0, e.ended}
    PROVE  Merged(Job(old), BuildJob(e, s))
              = Job([entry |-> e, seen |-> IF s > 0 THEN s ELSE old.seen])
<1> DEFINE row == BuildJob(e, s)
           merged == Job([entry |-> e, seen |-> IF s > 0 THEN s ELSE old.seen])
           Known(x, before) == IF x > 0 THEN x ELSE before
<1>1. Merged(Job(old), row) =
        [status |-> e.status, images |-> e.images,
         started |-> Known(row.started, Job(old).started),
         created |-> Known(row.created, Job(old).created),
         ended |-> Known(row.ended, Job(old).ended)]
  <2>1. row.status = e.status /\ row.images = e.images
    BY DEF BuildJob
  <2> HIDE DEF row
  <2> QED
    BY <2>1 DEF Merged
<1>2. Known(row.started, Job(old).started) = e.started
  BY DEF BuildJob, Job, IsEntry
<1>3. Known(row.created, Job(old).created) = merged.created
  BY DEF BuildJob, Job, SubmittedAt, IsEntry
<1>4. Known(row.ended, Job(old).ended) = merged.ended
  BY DEF BuildJob, Job, EndOf, IsEntry
<1>5. merged = [status |-> e.status, images |-> e.images, started |-> e.started,
              created |-> merged.created, ended |-> merged.ended]
  BY DEF Job
<1> HIDE DEF merged, row, Known
<1> QED
  BY <1>1, <1>2, <1>3, <1>4, <1>5 DEF merged, row

LEMMA UpsertKeeps ==
    ASSUME ReportsInv, NEW p, UpsertComfyJob(p)
    PROVE  ReportsInv'
<1> DEFINE s == Get(seen, p, 0)
           before == IF p \in DOMAIN jobs THEN told[p].seen ELSE 0
           entry == [entry |-> history[p], seen |-> Get(seen, p, before)]
<1>1. /\ UNCHANGED <<now, metrics, taken, history, pc, todo, payload>> /\ p \in DOMAIN history
      /\ seen' = [q \in DOMAIN seen \ {p} |-> seen[q]]
      /\ jobs' = With(jobs, p, IF p \in DOMAIN jobs
                                  THEN Merged(jobs[p], BuildJob(history[p], s))
                                  ELSE BuildJob(history[p], s))
      /\ told' = With(told, p, entry)
  BY DEF UpsertComfyJob
<1>2. /\ IsEntry(history[p]) /\ s \in Nat /\ before \in Nat
      /\ Get(seen, p, before) = IF s > 0 THEN s ELSE before
  BY <1>1 DEF ReportsInv, TypeOK, ToldInv, Get
<1>3. jobs'[p] = Job(entry)
  <2>1. CASE p \in DOMAIN jobs
    <3>1. p \in DOMAIN told /\ jobs[p] = Job(told[p]) /\ before = told[p].seen
      BY <2>1 DEF ReportsInv, TypeOK
    <3>2. /\ IsEntry(told[p].entry) /\ told[p].seen \in Nat
          /\ told[p].entry.created = history[p].created
          /\ told[p].entry.started = history[p].started
          /\ told[p].entry.completed = history[p].completed
          /\ told[p].entry.ended \in {0, history[p].ended}
      BY <3>1 DEF ReportsInv, ToldInv
    <3>3. jobs'[p] = Merged(Job(told[p]), BuildJob(history[p], s))
      BY <1>1, <2>1, <3>1 DEF With
    <3> HIDE DEF s
    <3> QED
      BY <1>2, <3>1, <3>2, <3>3, RowMerged
  <2>2. CASE p \notin DOMAIN jobs
    <3>1. jobs'[p] = BuildJob(history[p], s)
      BY <1>1, <2>2 DEF With
    <3>2. Get(seen, p, before) = s
      BY <2>2
    <3> HIDE DEF s, before
    <3> QED
      BY <1>2, <3>1, <3>2, RowOfFirst
  <2> QED
    BY <2>1, <2>2
<1>4. /\ DOMAIN jobs' = DOMAIN jobs \union {p} /\ DOMAIN told' = DOMAIN told \union {p}
      /\ told'[p] = entry
      /\ \A q \in DOMAIN jobs : q # p => jobs'[q] = jobs[q]
      /\ \A q \in DOMAIN told : q # p => told'[q] = told[q]
  BY <1>1 DEF With
<1>5. entry.entry = history[p] /\ entry.seen \in Nat
  BY <1>2
<1> HIDE DEF entry, s, before
<1>6. TypeOK'
  <2>1. \A q \in DOMAIN jobs' : jobs'[q] = Job(told'[q])
    BY <1>3, <1>4 DEF ReportsInv, TypeOK
  <2> QED
    BY <1>1, <1>4, <2>1 DEF ReportsInv, TypeOK
<1>7. ToldInv'
  BY <1>1, <1>2, <1>4, <1>5 DEF ReportsInv, ToldInv
<1>8. KeptInv' /\ CallInv'
  BY <1>1 DEF ReportsInv, KeptInv, CallInv, Shape
<1>9. SeriesInv'
  BY <1>1, SeriesStill DEF ReportsInv, TypeOK
<1> QED
  BY <1>1, <1>6, <1>7, <1>8, <1>9 DEF ReportsInv

LEMMA PruneKeeps ==
    ASSUME ReportsInv, PruneOld
    PROVE  ReportsInv'
<1>1. UNCHANGED <<now, taken, history, seen, told, pc, todo, payload>>
  BY DEF PruneOld
<1>2. \A r : r \in metrics' <=> r \in metrics /\ r.at >= now - Retain
  BY DEF PruneOld
<1>3. DOMAIN jobs' \subseteq DOMAIN jobs /\ \A p \in DOMAIN jobs' : jobs'[p] = jobs[p]
  BY DEF PruneOld
<1>4. TypeOK'
  BY <1>1, <1>2, <1>3 DEF ReportsInv, TypeOK
<1>5. KeptInv' /\ CallInv'
  BY <1>1, <1>2 DEF ReportsInv, KeptInv, CallInv, Shape
<1>6. SeriesInv'
  BY <1>1, SeriesStill DEF ReportsInv, TypeOK
<1>7. ToldInv'
  BY <1>1 DEF ReportsInv, ToldInv
<1> QED
  BY <1>1, <1>4, <1>5, <1>6, <1>7 DEF ReportsInv

-----------------------------------------------------------------------------
(* The queries. *)

\* Of an hour that a chart will show, the table has every row there ever was.
LEMMA HourInTable ==
    ASSUME ReportsInv, NEW r \in taken, HourOf(r.at) > HourOf(now) - Hours
    PROVE  r \in metrics /\ r.at >= Since(now)
<1>1. r.at \in Nat /\ now \in Nat
  BY DEF ReportsInv, TypeOK
<1>2. r.at >= now - Window
  BY <1>1, HourInWindow
<1>3. r.at >= now - Retain
  BY <1>1, <1>2, Constants
<1> QED
  BY <1>2, <1>3 DEF ReportsInv, KeptInv, Since

LEMMA BucketsExact ==
    ASSUME ReportsInv, NEW l, NEW h \in Int, h > HourOf(now) - Hours
    PROVE  LET rows == {r \in {r \in taken : r.label = l} : HourOf(r.at) = h} IN
           At(GetMetricBuckets(l), h) = IF rows = {} THEN Null ELSE Aggregate(rows)
<1> DEFINE all == {r \in {r \in taken : r.label = l} : HourOf(r.at) = h}
           inTable == {r \in metrics : r.label = l /\ r.at >= Since(now)}
           found == {r \in inTable : HourOf(r.at) = h}
<1>1. \A r : r \in all => r \in found
  BY HourInTable
<1>2. \A r : r \in found => r \in all
  BY DEF ReportsInv, TypeOK
<1>3. found = all
  BY <1>1, <1>2
<1>4. GetMetricBuckets(l) = [g \in {HourOf(r.at) : r \in inTable} |->
                                Aggregate({r \in inTable : HourOf(r.at) = g})]
  BY DEF GetMetricBuckets
<1>5. h \in {HourOf(r.at) : r \in inTable} <=> found # {}
  OBVIOUS
<1> DEFINE b == GetMetricBuckets(l)
<1>6. (h \in DOMAIN b <=> found # {}) /\ (found # {} => b[h] = Aggregate(found))
  <2> HIDE DEF inTable
  <2> QED
    BY <1>4, <1>5
<1> HIDE DEF all, found, b
<1>7. At(b, h) = IF all = {} THEN Null ELSE Aggregate(all)
  BY <1>3, <1>6 DEF At, Get
<1> QED
  BY <1>7 DEF all, b

LEMMA CallStill ==
    ASSUME ReportsInv, UNCHANGED <<now, metrics, taken, history, seen, jobs, told>>,
           pc' \in {"idle", "labels", "series", "today"}, todo' \subseteq Labels,
           DOMAIN payload'.series \subseteq Labels
    PROVE  TypeOK' /\ now' > 0 /\ KeptInv' /\ ToldInv'
BY DEF ReportsInv, TypeOK, KeptInv, ToldInv

LEMMA BeginKeeps ==
    ASSUME ReportsInv, Begin
    PROVE  ReportsInv'
<1>1. /\ UNCHANGED <<now, metrics, taken, history, seen, jobs, told, todo>> /\ pc = "idle"
      /\ pc' = "labels" /\ payload' = NoPayload /\ todo' = {}
  BY DEF Begin, Query, ReportsInv, CallInv
<1>2. DOMAIN payload'.series = {}
  BY <1>1, NoPayloadShape DEF NoneYet
<1>3. CallInv'
  BY <1>1, NoPayloadShape DEF CallInv, Shape
<1>4. Queried' = {}
  BY <1>1 DEF Queried
<1> QED
  BY <1>1, <1>2, <1>3, <1>4, CallStill DEF ReportsInv, SeriesInv

\* A label that the answer does not have has no sample that a chart would show.
LEMMA AskLabelsKeeps ==
    ASSUME ReportsInv, AskLabels
    PROVE  ReportsInv'
<1>1. /\ UNCHANGED <<now, metrics, taken, history, seen, jobs, told>> /\ pc = "labels"
      /\ pc' = "series" /\ payload = NoPayload /\ DOMAIN payload.taken = Labels /\ Shape
  BY DEF AskLabels, Query, ReportsInv, CallInv
<1>2. CASE todo' = {} /\ QueryFails("labels")
  <2>1. payload' = [payload EXCEPT !.failed = @ \union {"labels"}]
    BY <1>2 DEF QueryFails
  <2>2. /\ payload'.series = payload.series /\ payload'.taken = payload.taken
        /\ "labels" \in payload'.failed /\ Shape'
    BY <1>1, <2>1 DEF Shape
  <2>3. DOMAIN payload'.series = {}
    BY <1>1, <2>2, NoPayloadShape DEF NoneYet
  <2>4. CallInv'
    BY <1>1, <1>2, <2>2 DEF CallInv
  <2> QED
    BY <1>1, <1>2, <2>2, <2>3, <2>4, CallStill DEF ReportsInv, SeriesInv
<1>3. CASE /\ todo' = MetricLabels
           /\ payload' = [payload EXCEPT !.taken = [l \in Labels |-> {r \in taken : r.label = l}]]
  <2>1. /\ payload'.series = NoneYet /\ Shape'
        /\ payload'.taken = [l \in Labels |-> {r \in taken : r.label = l}]
    BY <1>1, <1>3, NoPayloadShape DEF Shape
  <2>2. todo' \subseteq Labels
    BY <1>3 DEF MetricLabels, ReportsInv, TypeOK
  <2>3. CallInv'
    BY <1>1, <2>1 DEF CallInv
  <2>4. ASSUME NEW l \in Labels \ todo', NEW h \in Int, h > HourOf(now) - Hours
        PROVE  HourExact(l, h)'
    <3>1. ASSUME NEW r \in taken, r.label = l, HourOf(r.at) = h PROVE FALSE
      <4>1. r \in metrics /\ r.at >= Since(now)
        BY <2>4, <3>1, HourInTable
      <4> QED
        BY <1>3, <2>4, <3>1, <4>1 DEF MetricLabels
    <3>2. {r \in payload'.taken[l] : HourOf(r.at) = h} = {}
      BY <2>1, <3>1
    <3>3. l \notin DOMAIN payload'.series
      BY <2>1 DEF NoneYet
    <3> QED
      BY <3>2, <3>3 DEF HourExact, DrawnHour
  <2>5. SeriesInv'
    BY <1>1, <2>4 DEF SeriesInv, Queried
  <2> QED
    BY <1>1, <2>1, <2>2, <2>3, <2>5, CallStill DEF ReportsInv, NoneYet
<1> QED
  BY <1>2, <1>3 DEF AskLabels

LEMMA AskSeriesKeeps ==
    ASSUME ReportsInv, NEW l \in Labels, AskSeries(l)
    PROVE  ReportsInv'
<1>1. /\ UNCHANGED <<now, metrics, taken, history, seen, jobs, told>> /\ pc = "series"
      /\ pc' = "series" /\ l \in todo /\ todo' = todo \ {l} /\ todo \subseteq Labels
      /\ DOMAIN payload.taken = Labels /\ Shape /\ DOMAIN payload.series \subseteq Labels
  BY DEF AskSeries, Query, ReportsInv, CallInv, TypeOK
<1>2. CASE QueryFails(l)
  <2>1. payload' = [payload EXCEPT !.failed = @ \union {l}]
    BY <1>2 DEF QueryFails
  <2>2. /\ payload'.series = payload.series /\ payload'.taken = payload.taken
        /\ payload'.failed = payload.failed \union {l} /\ Shape'
    BY <1>1, <2>1 DEF Shape
  <2>3. CallInv'
    BY <1>1, <2>2 DEF CallInv
  <2>4. \A k, h : HourExact(k, h)' <=> HourExact(k, h)
    BY <2>2 DEF HourExact, DrawnHour, At, Get
  <2>5. SeriesInv'
    <3>1. \A k \in Queried' \ payload'.failed : k \in Queried \ payload.failed
      BY <1>1, <2>2 DEF Queried
    <3> QED
      BY <1>1, <2>2, <2>4, <3>1 DEF SeriesInv, ReportsInv
  <2> QED
    BY <1>1, <2>2, <2>3, <2>5, CallStill DEF ReportsInv
<1>3. CASE payload' = [payload EXCEPT
             !.series = [k \in DOMAIN @ \union {l} |-> IF k = l THEN GetMetricBuckets(l) ELSE @[k]],
             !.taken[l] = {r \in taken : r.label = l}]
  <2>1. /\ DOMAIN payload'.series = DOMAIN payload.series \union {l}
        /\ payload'.series[l] = GetMetricBuckets(l)
        /\ \A k \in DOMAIN payload.series : k # l => payload'.series[k] = payload.series[k]
        /\ payload'.taken = [payload.taken EXCEPT ![l] = {r \in taken : r.label = l}]
        /\ payload'.failed = payload.failed /\ Shape'
    BY <1>1, <1>3 DEF Shape
  <2>2. CallInv'
    BY <1>1, <2>1 DEF CallInv
  <2>3. ASSUME NEW h \in Int, h > HourOf(now) - Hours
        PROVE  HourExact(l, h)'
    <3>1. payload'.taken[l] = {r \in taken : r.label = l}
      BY <1>1, <2>1
    <3>2. DrawnHour(l, h)' = At(GetMetricBuckets(l), h)
      BY <2>1 DEF DrawnHour, At, Get
    <3> QED
      BY <2>3, <3>1, <3>2, BucketsExact DEF HourExact
  <2>4. ASSUME NEW k, NEW h, k # l, k \in Labels, HourExact(k, h)
        PROVE  HourExact(k, h)'
    <3>1. payload'.taken[k] = payload.taken[k]
      BY <1>1, <2>1, <2>4
    <3>2. DrawnHour(k, h)' = DrawnHour(k, h)
      BY <2>1, <2>4 DEF DrawnHour, At, Get
    <3> QED
      BY <2>4, <3>1, <3>2 DEF HourExact
  <2>5. SeriesInv'
    <3>1. \A k \in Queried' \ payload'.failed :
             k \in Labels /\ (k # l => k \in Queried \ payload.failed)
      BY <1>1, <2>1 DEF Queried
    <3> QED
      BY <1>1, <2>1, <2>3, <2>4, <3>1 DEF SeriesInv, ReportsInv
  <2> QED
    BY <1>1, <2>1, <2>2, <2>5, CallStill DEF ReportsInv
<1> QED
  BY <1>2, <1>3 DEF AskSeries

\* The queries for the statistics leave the series alone.
LEMMA StatsKeep ==
    ASSUME ReportsInv, AskStats \/ CountToday
    PROVE  ReportsInv'
<1>1. /\ UNCHANGED <<now, metrics, taken, history, seen, jobs, told, todo>> /\ todo = {}
      /\ pc \in {"series", "today"} /\ pc' \in {"idle", "today"}
      /\ DOMAIN payload.taken = Labels /\ Shape
  BY DEF AskStats, CountToday, Query, ReportsInv, CallInv
<1>2. /\ payload'.series = payload.series /\ payload'.taken = payload.taken
      /\ payload'.failed \in {payload.failed, payload.failed \union {"stats"}}
      /\ Shape'
  BY <1>1 DEF AskStats, CountToday, Shape
<1>3. CallInv'
  BY <1>1, <1>2 DEF CallInv
<1>4. SeriesInv'
  <2>1. \A k, h : HourExact(k, h)' <=> HourExact(k, h)
    BY <1>2 DEF HourExact, DrawnHour, At, Get
  <2>2. \A k \in Queried' \ payload'.failed : k \in Queried \ payload.failed
    BY <1>1, <1>2 DEF Queried
  <2>3. "labels" \in payload.failed => "labels" \in payload'.failed
    BY <1>2
  <2> QED
    BY <1>1, <1>2, <2>1, <2>2, <2>3 DEF SeriesInv, ReportsInv
<1>5. DOMAIN payload'.series \subseteq Labels
  BY <1>2 DEF ReportsInv, TypeOK
<1> QED
  BY <1>1, <1>3, <1>4, <1>5, CallStill DEF ReportsInv, TypeOK

-----------------------------------------------------------------------------
LEMMA ReportsInvariant == Spec => []ReportsInv
<1>1. ReportsInv /\ [Next]_vars => ReportsInv'
  <2> SUFFICES ASSUME ReportsInv, [Next]_vars PROVE ReportsInv'
    OBVIOUS
  <2>1. CASE Tick
    BY <2>1, TickKeeps
  <2>2. CASE PruneOld
    BY <2>2, PruneKeeps
  <2>3. CASE Build
    BY <2>3, BeginKeeps, AskLabelsKeeps, AskSeriesKeeps, StatsKeep DEF Build
  <2>4. CASE \E l \in Labels, v \in Values, lag \in {0, 1} : InsertMetrics(l, v, lag)
    BY <2>4, InsertKeeps
  <2>5. CASE \E p \in Prompts, kind \in Kinds : Finish(p, kind)
    BY <2>5, FinishKeeps
  <2>6. CASE \E p \in Prompts : ReportEnd(p) \/ UpsertComfyJob(p)
    BY <2>6, ReportEndKeeps, UpsertKeeps
  <2>7. CASE UNCHANGED vars
    <3>1. UNCHANGED <<now, metrics, taken, history, seen, jobs, told, pc, todo, payload>>
      BY <2>7 DEF vars
    <3>2. SeriesInv'
      BY <3>1, SeriesStill DEF ReportsInv, TypeOK
    <3> QED
      BY <3>1, <3>2 DEF ReportsInv, TypeOK, KeptInv, CallInv, Shape, ToldInv
  <2> QED
    BY <2>1, <2>2, <2>3, <2>4, <2>5, <2>6, <2>7 DEF Next
<1> QED
  BY <1>1, ReportsInit, PTL DEF Spec

\* TypeOK: rows are what was sampled and all that was ever told of a job, however often it was
\* stored and whenever its sighting was forgotten.
THEOREM ReportTypes == Spec => []TypeOK
<1>1. ReportsInv => TypeOK
  BY DEF ReportsInv
<1> QED
  BY <1>1, ReportsInvariant, PTL

\* HoursExact: an hour that alignHourly draws began inside the window of every query made before,
\* and retention deletes nothing of that window.
THEOREM HourChartsExact == Spec => []HoursExact
<1>1. ReportsInv => HoursExact
  <2> SUFFICES ASSUME ReportsInv, pc = "idle", payload.made, "labels" \notin payload.failed,
                      NEW l \in Labels \ payload.failed, NEW h \in AlignHourly
               PROVE  HourExact(l, h)
    BY DEF HoursExact, HourExact
  <2>1. l \in Queried \ payload.failed
    BY DEF Queried, ReportsInv, CallInv
  <2>2. h \in Int /\ h > HourOf(now) - Hours
    <3>1. now \in Nat /\ HourOf(now) \in Int
      BY HourMonotone DEF ReportsInv, TypeOK
    <3> QED
      BY <3>1, Constants DEF AlignHourly
  <2> QED
    BY <2>1, <2>2 DEF ReportsInv, SeriesInv
<1> QED
  BY <1>1, ReportsInvariant, PTL

-----------------------------------------------------------------------------
(* The statistics by day. *)

\* Of a finite number of prompts it is known what the drains were told.
IsTold(f) == /\ IsFiniteSet(DOMAIN f)
             /\ \A p \in DOMAIN f : IsEntry(f[p].entry) /\ f[p].seen \in Nat

\* A job that was ever stored is there as long as it is young enough.
JobsKeptInv ==
    \A p \in DOMAIN told :
        EndOf(told[p]) > 0 /\ EndOf(told[p]) >= now - Retain => p \in DOMAIN jobs

\* The statistics have been queried and are those of every day that a chart may still show.
StatsKnown ==
    /\ "stats" \notin payload.failed
    /\ pc = "today" \/ (pc = "idle" /\ payload.made)

DayExact(d) ==
    IF EndedOn(d) = {} THEN d \notin DOMAIN payload.days
    ELSE d \in DOMAIN payload.days /\ payload.days[d] = DayStats(JobsOn(d), EndedOn(d))

TodayExact ==
    payload.imagesToday
        = SumFunction([p \in EndedOn(payload.today) |-> payload.told[p].entry.images])

DaysInv ==
    StatsKnown =>
        /\ IsTold(payload.told)
        /\ \A d \in Int : d > DayOf(now) - Days => DayExact(d)
        /\ pc = "idle" => TodayExact

JobsInv == now > Window /\ IsTold(told) /\ JobsKeptInv /\ DaysInv

-----------------------------------------------------------------------------
(* Jobs come and go; a payload that has been made only ages. *)

LEMMA EndOfType ==
    ASSUME NEW t, IsEntry(t.entry)
    PROVE  EndOf(t) \in Nat
BY DEF IsEntry, EndOf

LEMMA DaysStill ==
    ASSUME ReportsInv, DaysInv, UNCHANGED <<pc, payload>>, now' \in {now, now + 1}
    PROVE  DaysInv'
<1> SUFFICES ASSUME StatsKnown' PROVE DaysInv'
  BY DEF DaysInv
<1>1. StatsKnown
  BY DEF StatsKnown
<1>2. \A d : EndedOn(d)' = EndedOn(d) /\ JobsOn(d)' = JobsOn(d)
  BY DEF EndedOn, JobsOn
<1>3. \A d : DayExact(d)' <=> DayExact(d)
  BY <1>2 DEF DayExact
<1>4. DayOf(now) \in Int /\ DayOf(now') \in Int /\ DayOf(now) <= DayOf(now')
  BY DayMonotone DEF ReportsInv, TypeOK
<1>5. ASSUME NEW d \in Int, d > DayOf(now') - Days
      PROVE  DayExact(d)'
  <2>1. d > DayOf(now) - Days
    BY <1>4, <1>5, Constants
  <2> QED
    BY <1>1, <1>3, <2>1 DEF DaysInv
<1>6. TodayExact' <=> TodayExact
  BY <1>2 DEF TodayExact
<1> QED
  BY <1>1, <1>5, <1>6 DEF DaysInv

\* A step that leaves the table and what was told alone.
LEMMA JobsAlone ==
    ASSUME ReportsInv, JobsInv, UNCHANGED <<jobs, told>>, now' \in {now, now + 1}
    PROVE  now' > Window /\ IsTold(told)' /\ JobsKeptInv'
<1>1. now \in Nat /\ Window \in Nat /\ Retain \in Nat /\ now > Window
  BY Constants DEF ReportsInv, TypeOK, JobsInv
<1>2. JobsKeptInv'
  <2> SUFFICES ASSUME NEW p \in DOMAIN told, EndOf(told[p]) > 0,
                      EndOf(told[p]) >= now' - Retain
               PROVE  p \in DOMAIN jobs
    BY DEF JobsKeptInv
  <2>1. EndOf(told[p]) \in Nat
    BY EndOfType DEF JobsInv, IsTold
  <2> QED
    BY <1>1, <2>1 DEF JobsInv, JobsKeptInv
<1> QED
  BY <1>1, <1>2 DEF JobsInv, IsTold

LEMMA JobsStill ==
    ASSUME ReportsInv, JobsInv, UNCHANGED <<jobs, told, pc, payload>>, now' \in {now, now + 1}
    PROVE  JobsInv'
BY JobsAlone, DaysStill DEF JobsInv

LEMMA JobsUpsert ==
    ASSUME ReportsInv, JobsInv, NEW p, UpsertComfyJob(p)
    PROVE  JobsInv'
<1>1. UNCHANGED <<now, metrics, taken, history, pc, todo, payload>>
  BY DEF UpsertComfyJob
<1>2. PICK entry, row : /\ told' = With(told, p, [entry |-> history[p], seen |-> entry])
                        /\ jobs' = With(jobs, p, row)
  BY DEF UpsertComfyJob
<1>3. /\ DOMAIN jobs' = DOMAIN jobs \union {p} /\ DOMAIN told' = DOMAIN told \union {p}
      /\ \A q \in DOMAIN told : q # p => told'[q] = told[q]
  BY <1>2 DEF With
<1>4. IsTold(told)'
  <2>1. IsFiniteSet(DOMAIN told')
    BY <1>3, FS_AddElement DEF JobsInv, IsTold
  <2>2. ToldInv'
    BY UpsertKeeps DEF ReportsInv
  <2> QED
    BY <2>1, <2>2 DEF IsTold, ToldInv
<1>5. JobsKeptInv'
  BY <1>1, <1>3 DEF JobsInv, JobsKeptInv
<1>6. DaysInv'
  BY <1>1, DaysStill DEF JobsInv
<1> QED
  BY <1>1, <1>4, <1>5, <1>6 DEF JobsInv

LEMMA JobsPrune ==
    ASSUME ReportsInv, JobsInv, PruneOld
    PROVE  JobsInv'
<1>1. UNCHANGED <<now, taken, history, seen, told, pc, todo, payload>>
  BY DEF PruneOld
<1>2. JobsKeptInv'
  <2> SUFFICES ASSUME NEW p \in DOMAIN told, EndOf(told[p]) > 0, EndOf(told[p]) >= now - Retain
               PROVE  p \in DOMAIN jobs'
    BY <1>1 DEF JobsKeptInv
  <2>1. p \in DOMAIN jobs /\ jobs[p] = Job(told[p])
    BY DEF JobsInv, JobsKeptInv, ReportsInv, TypeOK
  <2>2. jobs[p].ended = EndOf(told[p])
    BY <2>1 DEF Job
  <2> QED
    BY <2>1, <2>2 DEF PruneOld
<1>3. DaysInv'
  BY <1>1, DaysStill DEF JobsInv
<1> QED
  BY <1>1, <1>2, <1>3 DEF JobsInv, IsTold

-----------------------------------------------------------------------------
(* The queries for the statistics. *)

\* The statistics of some jobs depend on their rows alone.
LEMMA DayStatsLocal ==
    ASSUME NEW f, NEW g, NEW P, \A p \in P : f[p] = g[p]
    PROVE  DayStats(f, P) = DayStats(g, P)
<1> DEFINE Execs(h) == [p \in {p \in P : h[p].started > 0 /\ h[p].ended > h[p].started} |->
                           h[p].ended - h[p].started]
           Waits(h) == [p \in {p \in P : h[p].created > 0 /\ h[p].started > 0} |->
                           Max({h[p].started - h[p].created, 0})]
           Images(h) == [p \in P |-> h[p].images]
           Among(s, h) == {p \in P : h[p].status \in s}
           Beside(s, h) == {p \in P : h[p].status \notin s}
           Is(s, h) == {p \in P : h[p].status = s}
<1>1. Execs(f) = Execs(g)
  OBVIOUS
<1>2. Waits(f) = Waits(g)
  OBVIOUS
<1>3. Images(f) = Images(g)
  OBVIOUS
<1>4. \A s : Is(s, f) = Is(s, g) /\ Among(s, f) = Among(s, g) /\ Beside(s, f) = Beside(s, g)
  OBVIOUS
<1>5. \A h : DayStats(h, P) =
        [jobs |-> Cardinality(P), images |-> SumFunction(Images(h)),
         ok |-> Cardinality(Is("success", h)), cancelled |-> Cardinality(Among(Cancelled, h)),
         failed |-> Cardinality(Beside(Cancelled \union {"success"}, h)),
         exec50 |-> Percentile(Execs(h), 50), exec95 |-> Percentile(Execs(h), 95),
         wait50 |-> Percentile(Waits(h), 50), wait95 |-> Percentile(Waits(h), 95)]
  BY DEF DayStats
<1> HIDE DEF Execs, Waits, Images, Among, Beside, Is
<1> QED
  BY <1>1, <1>2, <1>3, <1>4, <1>5

\* Of a day that a chart may show, the table has every job that was ever stored.
LEMMA StatsExact ==
    ASSUME ReportsInv, JobsInv, payload'.told = told,
           payload'.days = GetComfyStats, NEW d \in Int, d > DayOf(now) - Days
    PROVE  DayExact(d)'
<1> DEFINE P == {p \in DOMAIN jobs : jobs[p].ended >= Since(now)}
           Q == {p \in P : DayOf(jobs[p].ended) = d}
           E == {p \in DOMAIN told : EndOf(told[p]) > 0 /\ DayOf(EndOf(told[p])) = d}
           S == [p \in E |-> Job(told[p])]
<1>1. /\ now \in Nat /\ now > Window /\ Window \in Nat /\ Retain \in Nat /\ Retain >= Window
      /\ Since(now) = now - Window
  BY Constants DEF ReportsInv, TypeOK, JobsInv, Since
<1>2. EndedOn(d)' = E
  BY DEF EndedOn
<1>3. \A p \in DOMAIN jobs : /\ p \in DOMAIN told /\ jobs[p] = Job(told[p])
                             /\ jobs[p].ended = EndOf(told[p]) /\ EndOf(told[p]) \in Nat
  <2>1. \A p \in DOMAIN jobs : p \in DOMAIN told /\ jobs[p] = Job(told[p])
    BY DEF ReportsInv, TypeOK
  <2>2. \A p \in DOMAIN told : EndOf(told[p]) \in Nat
    BY EndOfType DEF JobsInv, IsTold
  <2>3. \A t : Job(t).ended = EndOf(t)
    BY DEF Job
  <2> QED
    BY <2>1, <2>2, <2>3
<1>4. ASSUME NEW p \in P
      PROVE  p \in DOMAIN told /\ jobs[p].ended = EndOf(told[p]) /\ EndOf(told[p]) > 0
  <2>1. p \in DOMAIN jobs /\ jobs[p].ended >= now - Window
    BY <1>1, <1>4
  <2> QED
    BY <1>1, <1>3, <2>1
<1>5. ASSUME NEW p \in DOMAIN told, EndOf(told[p]) > 0, DayOf(EndOf(told[p])) = d
      PROVE  p \in P /\ jobs[p].ended = EndOf(told[p])
  <2>1. EndOf(told[p]) \in Nat
    BY EndOfType DEF JobsInv, IsTold
  <2>2. EndOf(told[p]) >= now - Window
    BY <1>1, <1>5, <2>1, DayInWindow
  <2>3. p \in DOMAIN jobs
    BY <1>1, <1>5, <2>1, <2>2 DEF JobsInv, JobsKeptInv
  <2>4. jobs[p].ended = EndOf(told[p])
    BY <1>3, <2>3
  <2> QED
    BY <1>1, <2>2, <2>3, <2>4
<1>6. Q = E
  <2>1. \A p : p \in Q => p \in E
    BY <1>4
  <2>2. \A p : p \in E => p \in Q
    BY <1>5
  <2> QED
    BY <2>1, <2>2
<1>7. DayStats(jobs, E) = DayStats(S, E)
  <2>1. \A p \in E : jobs[p] = S[p]
    <3>1. \A p \in E : p \in DOMAIN jobs
      BY <1>6
    <3> HIDE DEF E
    <3> QED
      BY <1>3, <3>1
  <2> HIDE DEF E, S
  <2> QED
    BY <2>1, DayStatsLocal
<1>8. /\ d \in DOMAIN GetComfyStats <=> E # {}
      /\ E # {} => GetComfyStats[d] = DayStats(jobs, E)
  <2>1. GetComfyStats = [e \in {DayOf(jobs[p].ended) : p \in P} |->
                            DayStats(jobs, {p \in P : DayOf(jobs[p].ended) = e})]
    BY DEF GetComfyStats
  <2>2. d \in {DayOf(jobs[p].ended) : p \in P} <=> Q # {}
    OBVIOUS
  <2> HIDE DEF P, E
  <2> QED
    BY <1>6, <2>1, <2>2
<1>9. JobsOn(d)' = S
  BY <1>2 DEF JobsOn
<1> HIDE DEF E, S
<1> QED
  BY <1>2, <1>7, <1>8, <1>9 DEF DayExact

LEMMA EmptySum ==
    ASSUME NEW f, DOMAIN f = {}
    PROVE  SumFunction(f) = 0
<1> DEFINE IsSum(g) == g = [s \in SUBSET DOMAIN f |->
                               IF s = {} THEN 0
                               ELSE f[CHOOSE x \in s : TRUE] + g[s \ {CHOOSE x \in s : TRUE}]]
<1>1. SumFunction(f) = (CHOOSE g : IsSum(g))[DOMAIN f]
  BY DEF SumFunction, SumFunctionOnSet, FoldFunctionOnSet, MapThenFoldSet
<1>2. IsSum([s \in {{}} |-> 0])
  OBVIOUS
<1>3. IsSum(CHOOSE g : IsSum(g))
  <2> HIDE DEF IsSum
  <2> QED
    BY <1>2
<1> QED
  BY <1>1, <1>3

LEMMA JobsAskStats ==
    ASSUME ReportsInv, JobsInv, AskStats
    PROVE  JobsInv'
<1>1. UNCHANGED <<now, metrics, taken, history, seen, jobs, told>> /\ Shape
  BY DEF AskStats, Query, ReportsInv, CallInv
<1>2. CASE pc' = "idle" /\ payload' = [payload EXCEPT !.failed = @ \union {"stats"}, !.made = TRUE]
  <2>1. "stats" \in payload'.failed
    BY <1>1, <1>2 DEF Shape
  <2> QED
    BY <1>1, <2>1, JobsAlone DEF JobsInv, DaysInv, StatsKnown
<1>3. CASE pc' = "today" /\ payload' = [payload EXCEPT !.days = GetComfyStats, !.told = told]
  <2>1. payload'.days = GetComfyStats /\ payload'.told = told
    BY <1>1, <1>3 DEF Shape
  <2>2. \A d \in Int : d > DayOf(now) - Days => DayExact(d)'
    BY <2>1, StatsExact
  <2>3. IsTold(payload'.told)
    BY <2>1 DEF JobsInv
  <2>4. DaysInv'
    BY <1>1, <1>3, <2>2, <2>3 DEF DaysInv, IsTold
  <2> QED
    BY <1>1, <2>4, JobsAlone DEF JobsInv
<1> QED
  BY <1>2, <1>3 DEF AskStats, Query

\* Today is one of the days that a chart may show.
LEMMA JobsCountToday ==
    ASSUME ReportsInv, JobsInv, CountToday
    PROVE  JobsInv'
<1> DEFINE today == DayOf(now)
<1>1. /\ UNCHANGED <<now, metrics, taken, history, seen, jobs, told>> /\ Shape /\ pc = "today"
      /\ pc' = "idle"
  BY DEF CountToday, Query, ReportsInv, CallInv
<1>2. /\ payload'.told = payload.told /\ payload'.days = payload.days /\ payload'.today = today
      /\ payload'.failed = payload.failed
      /\ payload'.imagesToday = IF today \in DOMAIN payload.days
                                  THEN payload.days[today].images ELSE 0
  BY <1>1 DEF CountToday, Shape
<1>3. today \in Int /\ today > DayOf(now) - Days
  BY DayMonotone, Constants DEF ReportsInv, TypeOK
<1>4. \A d : EndedOn(d)' = EndedOn(d) /\ (DayExact(d)' <=> DayExact(d))
  <2>1. \A d : EndedOn(d)' = EndedOn(d) /\ JobsOn(d)' = JobsOn(d)
    BY <1>2 DEF EndedOn, JobsOn
  <2> QED
    BY <1>2, <2>1 DEF DayExact
<1>5. SUFFICES ASSUME StatsKnown' PROVE DaysInv'
  BY <1>1, JobsAlone DEF JobsInv, DaysInv
<1>6. StatsKnown
  BY <1>1, <1>2, <1>5 DEF StatsKnown
<1>7. DayExact(today)
  BY <1>3, <1>6 DEF JobsInv, DaysInv
<1> DEFINE E == EndedOn(today)
           images == [p \in E |-> payload.told[p].entry.images]
<1>8. payload'.imagesToday = SumFunction(images)
  <2>1. CASE E = {}
    BY <1>2, <1>7, <2>1, EmptySum DEF DayExact
  <2>2. CASE E # {}
    <3>1. payload'.imagesToday = DayStats(JobsOn(today), E).images
      BY <1>2, <1>7, <2>2 DEF DayExact
    <3>2. DayStats(JobsOn(today), E).images = SumFunction([p \in E |-> JobsOn(today)[p].images])
      BY DEF DayStats
    <3>3. [p \in E |-> JobsOn(today)[p].images] = images
      BY DEF JobsOn, Job
    <3> QED
      BY <3>1, <3>2, <3>3
  <2> QED
    BY <2>1, <2>2
<1>9. TodayExact'
  <2>1. EndedOn(payload.today)' = E
    BY <1>2 DEF EndedOn
  <2> HIDE DEF E, today
  <2> QED
    BY <1>2, <1>8, <2>1 DEF TodayExact
<1>10. IsTold(payload.told)'
  BY <1>2, <1>6 DEF JobsInv, DaysInv, IsTold
<1> QED
  BY <1>1, <1>2, <1>4, <1>6, <1>9, <1>10 DEF JobsInv, DaysInv

LEMMA JobsInvariant == Spec => []JobsInv
<1>1. Init => JobsInv
  <2> SUFFICES ASSUME Init PROVE JobsInv
    OBVIOUS
  <2>1. DOMAIN told = {} /\ now = Window + Day /\ pc = "idle" /\ ~payload.made
    BY NoPayloadShape DEF Init
  <2> QED
    BY <2>1, Constants, FS_EmptySet DEF JobsInv, IsTold, JobsKeptInv, DaysInv, StatsKnown
<1>2. ReportsInv /\ JobsInv /\ [Next]_vars => JobsInv'
  <2> SUFFICES ASSUME ReportsInv, JobsInv, [Next]_vars PROVE JobsInv'
    OBVIOUS
  <2>1. CASE Tick \/ UNCHANGED vars \/ \E l, v, lag : InsertMetrics(l, v, lag)
    BY <2>1, JobsStill DEF Tick, InsertMetrics, vars
  <2>2. CASE PruneOld
    BY <2>2, JobsPrune
  <2>3. CASE Begin \/ AskLabels \/ \E l \in Labels : AskSeries(l)
    <3>1. UNCHANGED <<now, jobs, told>> /\ pc' \in {"labels", "series"}
      BY <2>3 DEF Begin, AskLabels, AskSeries, Query
    <3> QED
      BY <3>1, JobsAlone DEF JobsInv, DaysInv, StatsKnown
  <2>4. CASE AskStats
    BY <2>4, JobsAskStats
  <2>5. CASE CountToday
    BY <2>5, JobsCountToday
  <2>6. CASE (\E p \in Prompts, kind \in Kinds : Finish(p, kind)) \/ \E p \in Prompts : ReportEnd(p)
    BY <2>6, JobsStill DEF Finish, ReportEnd
  <2>7. CASE \E p \in Prompts : UpsertComfyJob(p)
    BY <2>7, JobsUpsert
  <2> QED
    BY <2>1, <2>2, <2>3, <2>4, <2>5, <2>6, <2>7 DEF Next, Build
<1> QED
  BY <1>1, <1>2, ReportsInvariant, PTL DEF Spec

-----------------------------------------------------------------------------
(* Percentiles. *)

LEMMA LeastNumber ==
    ASSUME NEW T, T \subseteq Nat, T # {}
    PROVE  \E x \in T : \A y \in T : x <= y
<1>1. PICK x \in T : \A y \in T : <<y, x>> \notin OpToRel(<, Nat)
  BY NatLessThanWellFounded, WFMin
<1>2. ASSUME NEW y \in T PROVE x <= y
  <2>1. x \in Nat /\ y \in Nat /\ ~(y < x)
    BY <1>1 DEF OpToRel
  <2> QED
    BY <2>1
<1> QED
  BY <1>2

\* The values of f on a finite set, and how many of them are not above or are below a number.
UpTo(f, w) == {p \in DOMAIN f : f[p] <= w}
Below(f, w) == {p \in DOMAIN f : f[p] < w}

LEMMA Counts ==
    ASSUME NEW f, IsFiniteSet(DOMAIN f), \A p \in DOMAIN f : f[p] \in Nat, NEW w
    PROVE  /\ IsFiniteSet(UpTo(f, w)) /\ Cardinality(UpTo(f, w)) \in Nat
           /\ IsFiniteSet(Below(f, w)) /\ Cardinality(Below(f, w)) \in Nat
           /\ Cardinality(UpTo(f, w)) <= Cardinality(DOMAIN f)
BY FS_Subset, FS_CardinalityType DEF UpTo, Below

\* One of the values is not exceeded by any.
LEMMA GreatestValue ==
    ASSUME NEW f, IsFiniteSet(DOMAIN f), \A p \in DOMAIN f : f[p] \in Nat, DOMAIN f # {}
    PROVE  \E p \in DOMAIN f : \A q \in DOMAIN f : f[q] <= f[p]
<1> DEFINE n == Cardinality(DOMAIN f)
           above(p) == n - Cardinality(UpTo(f, f[p]))
           T == {above(p) : p \in DOMAIN f}
<1>1. n \in Nat
  BY FS_CardinalityType
<1>2. \A p \in DOMAIN f : above(p) \in Nat
  BY <1>1, Counts
<1>3. PICK x \in T : \A y \in T : x <= y
  BY <1>2, LeastNumber
<1>4. PICK p \in DOMAIN f : x = above(p)
  BY <1>3
<1>5. ASSUME NEW q \in DOMAIN f, f[p] < f[q]
      PROVE  FALSE
  <2>1. UpTo(f, f[p]) \subseteq UpTo(f, f[q])
    BY <1>4, <1>5 DEF UpTo
  <2>2. p \in DOMAIN f /\ q \in UpTo(f, f[q]) /\ q \notin UpTo(f, f[p])
    BY <1>4, <1>5 DEF UpTo
  <2>3. /\ Cardinality(UpTo(f, f[p])) \in Nat /\ Cardinality(UpTo(f, f[q])) \in Nat
        /\ Cardinality(UpTo(f, f[p])) < Cardinality(UpTo(f, f[q]))
    <3>1. /\ IsFiniteSet(UpTo(f, f[q])) /\ Cardinality(UpTo(f, f[q])) \in Nat
          /\ Cardinality(UpTo(f, f[p])) \in Nat
      BY Counts
    <3>2. /\ Cardinality(UpTo(f, f[p])) <= Cardinality(UpTo(f, f[q]))
          /\ Cardinality(UpTo(f, f[p])) # Cardinality(UpTo(f, f[q]))
      BY <2>1, <2>2, <3>1, FS_Subset
    <3> QED
      BY <3>1, <3>2
  <2>4. above(p) <= above(q)
    BY <1>3, <1>4
  <2> QED
    BY <1>1, <2>3, <2>4
<1> QED
  BY <1>4, <1>5

\* Percentile: of any finite number of values, the one that the code takes is that of the nearest
\* rank, for every whole percentage: the index exists, and neither rounding is off by one.
THEOREM PercentileIsNearestRank ==
    ASSUME NEW f, IsFiniteSet(DOMAIN f), \A p \in DOMAIN f : f[p] \in Nat, NEW pct \in 1 .. 100
    PROVE  NearestRank(f, pct, Percentile(f, pct))
<1>1. CASE DOMAIN f = {}
  BY <1>1 DEF NearestRank, Percentile
<1>2. CASE DOMAIN f # {}
  <2> DEFINE n == Cardinality(DOMAIN f)
             idx == (pct * n + 99) \div 100 - 1
             count(w) == Cardinality(UpTo(f, w))
             T == {w \in Nat : idx < count(w)}
             IsRank(v) == /\ v \in {f[p] : p \in DOMAIN f}
                          /\ Cardinality(Below(f, v)) <= idx /\ idx < count(v)
  <2>1. n \in Nat /\ n >= 1
    BY <1>2, FS_CardinalityType, FS_EmptySet
  <2>2. /\ pct * n \in Nat /\ 1 <= pct * n /\ pct * n <= 100 * n
        /\ idx \in Nat /\ 100 * idx < pct * n /\ pct * n <= 100 * (idx + 1) /\ idx < n
    <3>1. pct * n \in Nat /\ 1 <= pct * n /\ pct * n <= 100 * n
      BY <2>1
    <3> DEFINE x == pct * n
    <3> HIDE DEF n, x
    <3>2. \A m \in Nat : m >= 1 => LET i == (m + 99) \div 100 - 1 IN
             i \in Nat /\ 100 * i < m /\ m <= 100 * (i + 1)
      OBVIOUS
    <3> QED
      BY <2>1, <3>1, <3>2 DEF x
  <2>3. \A w : /\ count(w) \in Nat /\ Cardinality(Below(f, w)) \in Nat
               /\ IsFiniteSet(UpTo(f, w)) /\ IsFiniteSet(Below(f, w))
    BY Counts
  <2>4. PICK w \in T : \A y \in T : w <= y
    <3>1. PICK p \in DOMAIN f : \A q \in DOMAIN f : f[q] <= f[p]
      BY <1>2, GreatestValue
    <3>2. UpTo(f, f[p]) = DOMAIN f
      BY <3>1 DEF UpTo
    <3>3. f[p] \in T
      BY <2>2, <3>1, <3>2
    <3> QED
      BY <3>3, LeastNumber
  <2>5. w \in Nat /\ idx < count(w)
    BY <2>4
  <2>6. Cardinality(Below(f, w)) <= idx
    <3>1. CASE w = 0
      <4>1. Below(f, w) = {}
        BY <3>1 DEF Below
      <4> QED
        BY <2>2, <4>1, FS_EmptySet
    <3>2. CASE w # 0
      <4>1. Below(f, w) = UpTo(f, w - 1)
        BY <2>5, <3>2 DEF Below, UpTo
      <4>2. w - 1 \notin T /\ w - 1 \in Nat
        BY <2>4, <2>5, <3>2
      <4> QED
        BY <2>2, <2>3, <4>1, <4>2
    <3> QED
      BY <3>1, <3>2
  <2>7. w \in {f[p] : p \in DOMAIN f}
    <3> SUFFICES ASSUME \A p \in DOMAIN f : f[p] # w PROVE FALSE
      OBVIOUS
    <3>1. Below(f, w) = UpTo(f, w)
      BY <2>5 DEF Below, UpTo
    <3> QED
      BY <2>2, <2>3, <2>5, <2>6, <3>1
  <2>8. IsRank(Percentile(f, pct))
    <3>1. Percentile(f, pct) = CHOOSE v : IsRank(v)
      BY <1>2 DEF Percentile, UpTo, Below
    <3>2. IsRank(w)
      BY <2>5, <2>6, <2>7
    <3> HIDE DEF IsRank
    <3> QED
      BY <3>1, <3>2
  <2> DEFINE v == Percentile(f, pct)
  <2>9. 100 * count(v) >= pct * n
    BY <2>2, <2>3, <2>8
  <2>10. ASSUME NEW p \in DOMAIN f, f[p] < v
         PROVE  100 * count(f[p]) < pct * n
    <3>1. v \in Nat
      BY <2>8
    <3>2. UpTo(f, f[p]) \subseteq Below(f, v)
      BY <2>10, <3>1 DEF UpTo, Below
    <3>3. count(f[p]) <= Cardinality(Below(f, v))
      BY <2>3, <3>2, FS_Subset
    <3> QED
      BY <2>2, <2>3, <2>8, <3>3
  <2> QED
    BY <1>2, <2>9, <2>10 DEF NearestRank, UpTo
<1> QED
  BY <1>1, <1>2

LEMMA MaxOfZero ==
    ASSUME NEW a \in Int
    PROVE  Max({a, 0}) \in Nat
<1>1. \E x \in {a, 0} : \A y \in {a, 0} : x >= y
  OBVIOUS
<1>2. Max({a, 0}) \in {a, 0} /\ \A y \in {a, 0} : Max({a, 0}) >= y
  BY <1>1 DEF Max
<1> QED
  BY <1>2

\* The percentiles that GetComfyStats takes are those of the run times and the waits of the day.
LEMMA PercentilesExact ==
    ASSUME IsTold(payload.told), NEW d
    PROVE  LET stats == DayStats(JobsOn(d), EndedOn(d)) IN
           /\ NearestRank(RanFor(d), 50, stats.exec50) /\ NearestRank(RanFor(d), 95, stats.exec95)
           /\ NearestRank(WaitedFor(d), 50, stats.wait50)
           /\ NearestRank(WaitedFor(d), 95, stats.wait95)
<1> DEFINE E == EndedOn(d)
           f == JobsOn(d)
<1>1. /\ RanFor(d) = [p \in {p \in E : f[p].started > 0 /\ f[p].ended > f[p].started} |->
                         f[p].ended - f[p].started]
      /\ WaitedFor(d) = [p \in {p \in E : f[p].created > 0 /\ f[p].started > 0} |->
                            Max({f[p].started - f[p].created, 0})]
  BY DEF RanFor, WaitedFor
<1>2. /\ IsFiniteSet(E)
      /\ \A p \in E : f[p].created \in Nat /\ f[p].started \in Nat /\ f[p].ended \in Nat
  <2>1. \A p \in E : p \in DOMAIN payload.told /\ f[p] = Job(payload.told[p])
    BY DEF EndedOn, JobsOn
  <2>2. IsFiniteSet(E)
    BY FS_Subset DEF EndedOn, IsTold
  <2>3. ASSUME NEW t, IsEntry(t.entry), t.seen \in Nat
        PROVE  Job(t).created \in Nat /\ Job(t).started \in Nat /\ Job(t).ended \in Nat
    BY <2>3, EndOfType DEF Job, SubmittedAt, IsEntry
  <2> HIDE DEF E, f
  <2> QED
    BY <2>1, <2>2, <2>3 DEF IsTold
<1>3. /\ DayStats(f, E).exec50 = Percentile(RanFor(d), 50)
      /\ DayStats(f, E).exec95 = Percentile(RanFor(d), 95)
      /\ DayStats(f, E).wait50 = Percentile(WaitedFor(d), 50)
      /\ DayStats(f, E).wait95 = Percentile(WaitedFor(d), 95)
  <2> HIDE DEF E, f
  <2> QED
    BY <1>1 DEF DayStats
<1> HIDE DEF E, f
<1>4. IsFiniteSet(DOMAIN RanFor(d)) /\ \A p \in DOMAIN RanFor(d) : RanFor(d)[p] \in Nat
  <2>1. DOMAIN RanFor(d) \subseteq E
    BY <1>1
  <2>2. \A p \in DOMAIN RanFor(d) : RanFor(d)[p] \in Nat
    BY <1>1, <1>2
  <2> QED
    BY <1>2, <2>1, <2>2, FS_Subset
<1>5. IsFiniteSet(DOMAIN WaitedFor(d)) /\ \A p \in DOMAIN WaitedFor(d) : WaitedFor(d)[p] \in Nat
  <2>1. DOMAIN WaitedFor(d) \subseteq E
    BY <1>1
  <2>2. \A p \in E : f[p].started - f[p].created \in Int
    BY <1>2
  <2>3. \A p \in DOMAIN WaitedFor(d) : WaitedFor(d)[p] \in Nat
    BY <1>1, <2>2, MaxOfZero
  <2> QED
    BY <1>2, <2>1, <2>3, FS_Subset
<1> QED
  BY <1>3, <1>4, <1>5, PercentileIsNearestRank DEF E, f

\* DaysExact: a day that alignDaily draws began inside the window of the query and none of its
\* jobs had been deleted, so its statistics are those of every job that ended on it; the sorted
\* run times have at the index that the code computes the value of the nearest rank.
THEOREM DayChartsExact == Spec => []DaysExact
<1>1. ReportsInv /\ JobsInv => DaysExact
  <2> SUFFICES ASSUME ReportsInv, JobsInv, pc = "idle", payload.made, "stats" \notin payload.failed
               PROVE  DaysExact
    BY DEF DaysExact
  <2>1. StatsKnown
    BY DEF StatsKnown
  <2>2. TodayExact /\ IsTold(payload.told)
    BY <2>1 DEF JobsInv, DaysInv
  <2>3. ASSUME NEW d \in AlignDaily
        PROVE  DayExact(d)
    <3>1. now \in Nat /\ DayOf(now) \in Int
      BY DayMonotone DEF ReportsInv, TypeOK
    <3>2. d \in Int /\ d > DayOf(now) - Days
      BY <3>1, Constants DEF AlignDaily
    <3> QED
      BY <2>1, <3>2 DEF JobsInv, DaysInv
  <2>4. ASSUME NEW d \in AlignDaily
        PROVE  LET stats == DayStats(JobsOn(d), EndedOn(d)) IN
               IF EndedOn(d) = {} THEN DrawnDay(d) = Null
               ELSE /\ DrawnDay(d) = stats
                    /\ NearestRank(RanFor(d), 50, DrawnDay(d).exec50)
                    /\ NearestRank(RanFor(d), 95, DrawnDay(d).exec95)
                    /\ NearestRank(WaitedFor(d), 50, DrawnDay(d).wait50)
                    /\ NearestRank(WaitedFor(d), 95, DrawnDay(d).wait95)
    <3>1. IF EndedOn(d) = {} THEN DrawnDay(d) = Null
          ELSE DrawnDay(d) = DayStats(JobsOn(d), EndedOn(d))
      BY <2>3, <2>4 DEF DayExact, DrawnDay, At, Get
    <3> QED
      BY <2>2, <3>1, PercentilesExact
  <2> QED
    BY <2>2, <2>4 DEF DaysExact, TodayExact
<1> QED
  BY <1>1, ReportsInvariant, JobsInvariant, PTL
=============================================================================
