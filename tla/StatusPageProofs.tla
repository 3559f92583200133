-------------------------- MODULE StatusPageProofs --------------------------
(***************************************************************************)
(* How old unmarked data on the page may get, that older data only follows *)
(* newer with a mark, and that the grid shows every hour once: for any     *)
(* intervals, timeouts, limits and windows, and however collector and      *)
(* branch come and go.                                                     *)
(***************************************************************************)
EXTENDS StatusPage, FiniteSetTheorems, TLAPS

LEMMA Constants ==
    /\ Interval \in Nat /\ Timeout \in Nat /\ Stale \in Nat
    /\ 2 * Timeout < Interval
    /\ Hours \in Nat \ {0} /\ MinCells \in 1..Hours /\ Widths \subseteq Nat
  BY PageAssumption

Loads == [pc : {"rest", "live", "snapshot"}, clock : 0..Timeout]
Payloads == Payload \union {None}
ShownSet == [kind : {"loading", "error", "data"}, payload : Payloads,
             marked : BOOLEAN, group : 1..Hours]

LEMMA AgesTyped ==
    /\ Limit \in Nat /\ 0 \in Ages
    /\ \A a \in Ages : a \in Nat /\ Older(a) \in Ages /\ (Older(a) = a + 1 \/ (a > Limit /\ Older(a) = a))
  BY Constants DEF Ages, Limit, Older

LEMMA CeilTyped ==
    ASSUME NEW a \in Nat, NEW b \in Nat \ {0}, a >= 1
    PROVE  Ceil(a, b) \in 1..a
<1> DEFINE q == (a + b - 1) \div b
<1>1. q \in Int
  OBVIOUS
<1>2. b * q <= a + b - 1 /\ a + b - 1 < b * q + b
  OBVIOUS
<1>3. q >= 1
  BY <1>1, <1>2
<1>4. q <= a
  BY <1>1, <1>2
<1> QED
  BY <1>1, <1>3, <1>4 DEF Ceil

\* The cells of a grid: b hours each cover a hours, with none to spare.
LEMMA CeilCovers ==
    ASSUME NEW a \in Nat, NEW b \in Nat \ {0}
    PROVE  b * Ceil(a, b) >= a /\ b * (Ceil(a, b) - 1) < a
<1> DEFINE q == (a + b - 1) \div b
<1>1. q \in Int /\ b * q <= a + b - 1 /\ a + b - 1 < b * q + b
  OBVIOUS
<1>2. b * (q - 1) = b * q - b
  BY <1>1
<1> QED
  BY <1>1, <1>2 DEF Ceil

Cells(w) == Most(MinCells, Least(Hours, w))

LEMMA GroupTyped ==
    ASSUME NEW w \in Widths
    PROVE  /\ Cells(w) \in 1..Hours /\ Cells(w) <= Most(MinCells, w)
           /\ GroupSize(w) = Ceil(Hours, Cells(w)) /\ GroupSize(w) \in 1..Hours
<1>1. Cells(w) \in 1..Hours /\ Cells(w) <= Most(MinCells, w)
  BY Constants DEF Cells, Most, Least
<1>2. Cells(w) \in Nat \ {0} /\ Hours \in Nat /\ Hours >= 1
  BY <1>1, Constants
<1>3. Ceil(Hours, Cells(w)) \in 1..Hours
  BY <1>2, CeilTyped
<1> QED
  BY <1>1, <1>3 DEF GroupSize, Cells, Most

\* Every hour is in the cell of its own number of groups before now, and in no other.
LEMMA OneCell ==
    ASSUME NEW g \in 1..Hours, NEW h \in 0..(Hours - 1)
    PROVE  {c \in 0..(Count(g) - 1) : h \in CellHours(g, c)} = {h \div g}
<1> DEFINE q == h \div g
<1>0. g \in Nat \ {0} /\ h \in Nat /\ Hours \in Nat
  BY Constants
<1>1. q \in Int /\ g * q <= h /\ h < g * q + g
  BY <1>0
<1>2. q >= 0
  BY <1>0, <1>1
<1>3. g * Count(g) >= Hours /\ Count(g) \in Int
  BY <1>0, CeilCovers, CeilTyped, Constants DEF Count
<1>4. q < Count(g)
  BY <1>0, <1>1, <1>3
<1>5. \A c \in Int : h \in CellHours(g, c) <=> c * g <= h /\ h <= c * g + g - 1
  BY <1>0 DEF CellHours
<1>6. \A c \in Int : c * g <= h /\ h < c * g + g => c = q
  <2>1. TAKE c \in Int
  <2>2. HAVE c * g <= h /\ h < c * g + g
  <2>3. c * g = g * c
    BY <1>0
  <2>4. ~(c < q)
    BY <1>0, <1>1, <2>2, <2>3
  <2>5. ~(q < c)
    BY <1>0, <1>1, <2>2, <2>3
  <2> QED
    BY <1>1, <2>4, <2>5
<1>7. q * g = g * q
  BY <1>0, <1>1
<1>8. h \in CellHours(g, q) /\ q \in 0..(Count(g) - 1)
  BY <1>0, <1>1, <1>2, <1>3, <1>4, <1>5, <1>7
<1> QED
  BY <1>0, <1>3, <1>5, <1>6, <1>8

LEMMA CountFits ==
    ASSUME NEW w \in Widths
    PROVE  Count(GroupSize(w)) <= Most(MinCells, w)
<1> DEFINE t == Cells(w)
           g == GroupSize(w)
           q == Ceil(Hours, g)
<1>1. t \in Nat \ {0} /\ g \in Nat \ {0} /\ t <= Most(MinCells, w) /\ Hours \in Nat /\ Hours >= 1
  BY GroupTyped, Constants
<1>2. t * g >= Hours
  BY <1>1, GroupTyped, CeilCovers
<1>3. g * (q - 1) < Hours /\ q \in Nat
  BY <1>1, CeilCovers, CeilTyped
<1> HIDE DEF t, g, q
<1>4. g * (q - 1) < t * g
  <2>1. g * (q - 1) \in Int /\ t * g \in Int
    BY <1>1, <1>3
  <2> QED
    BY <1>1, <1>2, <1>3, <2>1
<1>5. q <= t
  <2>1. SUFFICES ASSUME q - 1 >= t PROVE FALSE
    BY <1>1, <1>3
  <2>2. g * (q - 1) >= g * t
    BY <1>1, <1>3, <2>1
  <2> QED
    BY <1>1, <1>3, <1>4, <2>2
<1>6. Count(GroupSize(w)) = q
  BY DEF Count, q, g
<1>7. Most(MinCells, w) \in Int
  BY Constants DEF Most
<1> QED
  BY <1>1, <1>3, <1>5, <1>6, <1>7

\* What a drawing makes of a payload.
LEMMA DrawnTyped ==
    ASSUME TypeOK, NEW payload \in Payload
    PROVE  /\ Drawn(payload) \in ShownSet
           /\ Drawn(payload).kind = "data" /\ Drawn(payload).payload = payload
           /\ Drawn(payload).group = GroupSize(width)
           /\ Drawn(payload).marked = FALSE => payload.age <= Stale
<1>1. GroupSize(width) \in 1..Hours
  BY GroupTyped DEF TypeOK
<1>2. Marked(payload) \in BOOLEAN
  BY DEF Marked
<1>3. Drawn(payload) = [kind |-> "data", payload |-> payload, marked |-> Marked(payload),
                        group |-> GroupSize(width)]
  BY DEF Drawn
<1>4. ~Marked(payload) => payload.age <= Stale
  <2>1. payload.age \in Nat
    BY AgesTyped DEF Payload
  <2> QED
    BY <2>1, Constants DEF Marked
<1> QED
  BY <1>1, <1>2, <1>3, <1>4 DEF ShownSet, Payloads

LEMMA BlankTyped ==
    \A kind \in {"loading", "error"} : Blank(kind) \in ShownSet /\ Blank(kind).kind = kind
  BY Constants DEF Blank, ShownSet, Payloads

LEMMA LoadsTyped ==
    /\ NoLoad \in Loads /\ NoLoad.pc = "rest"
    /\ \A pc \in {"live", "snapshot"} :
          Request(pc) \in Loads /\ Request(pc).pc = pc /\ Request(pc).clock = 0
  BY Constants DEF NoLoad, Request, Loads

PageInv == TypeOK /\ FreshInv /\ GridInv

LEMMA PageInit == Init => PageInv
<1> SUFFICES ASSUME Init PROVE PageInv
  OBVIOUS
<1>1. load \in Loads /\ load.pc = "live" /\ load.clock = 0 /\ timer = 0
  BY LoadsTyped DEF Init
<1>2. shown \in ShownSet /\ shown.kind = "loading"
  BY BlankTyped DEF Init
<1>3. TypeOK
  <2>1. timer \in 0..Interval /\ lastPayload \in Payload \union {None} /\ published \in Ages
    BY <1>1, Constants DEF Init
  <2>2. load \in [pc : {"rest", "live", "snapshot"}, clock : 0..Timeout]
    BY <1>1 DEF Loads
  <2>3. shown \in [kind : {"loading", "error", "data"}, payload : Payload \union {None},
                   marked : BOOLEAN, group : 1..Hours]
    BY <1>2 DEF ShownSet, Payloads
  <2>4. collector \in BOOLEAN /\ branch \in BOOLEAN /\ resizing \in BOOLEAN /\ width \in Widths
    BY DEF Init
  <2> QED
    BY <2>1, <2>2, <2>3, <2>4 DEF TypeOK
<1>4. FreshInv /\ GridInv
  BY <1>1, <1>2 DEF FreshInv, GridInv
<1> QED
  BY <1>3, <1>4 DEF PageInv

\* Time.
LEMMA TickKeeps == PageInv /\ Tick => PageInv'
<1> SUFFICES ASSUME PageInv, Tick PROVE PageInv'
  OBVIOUS
<1>0. /\ TypeOK /\ timer \in 0..Interval /\ load \in Loads /\ shown \in ShownSet
      /\ lastPayload \in Payloads /\ published \in Ages
  BY DEF PageInv, TypeOK, Loads, ShownSet, Payloads
<1>1. \A p \in Payloads : Aged(p) \in Payloads /\ p.age \in Ages /\ Aged(p).age \in Ages
        /\ Aged(p).age <= p.age + 1 /\ (p # None => Aged(p) # None)
  <2>1. TAKE p \in Payloads
  <2>2. CASE p = None
    BY <2>2, AgesTyped DEF Aged, None, Payloads
  <2>3. CASE p \in Payload /\ p # None
    <3>1. Aged(p) = [p EXCEPT !.age = Older(@)] /\ p.age \in Ages
      BY <2>3 DEF Aged, Payload
    <3>2. Older(p.age) \in Ages /\ Older(p.age) <= p.age + 1
      BY <3>1, AgesTyped
    <3>3. Aged(p) \in Payload /\ Aged(p).age = Older(p.age)
      BY <2>3, <3>1, <3>2 DEF Payload
    <3>4. Aged(p) # None
      BY <3>3 DEF Payload, None
    <3> QED
      BY <3>1, <3>2, <3>3, <3>4 DEF Payloads
  <2> QED
    BY <2>2, <2>3 DEF Payloads
<1>2. timer' = timer + 1 /\ timer' \in 0..Interval /\ width' = width
  BY <1>0, Constants DEF Tick
<1>3. /\ load' \in Loads /\ load'.pc = load.pc
      /\ load.pc # "rest" => load'.clock = load.clock + 1
  BY <1>0, Constants DEF Tick, Loads
<1>4. shown' = [shown EXCEPT !.payload = Aged(@)]
  BY DEF Tick
<1>5. /\ shown' \in ShownSet /\ shown'.kind = shown.kind /\ shown'.marked = shown.marked
      /\ shown'.payload = Aged(shown.payload) /\ shown'.group = shown.group
  BY <1>0, <1>1, <1>4 DEF ShownSet
<1>6. TypeOK'
  <2>1. lastPayload' \in Payloads
    BY <1>0, <1>1 DEF Tick
  <2>2. published' \in Ages
    BY <1>0, AgesTyped DEF Tick
  <2>3. UNCHANGED <<collector, branch, width, resizing>>
    BY DEF Tick
  <2> QED
    BY <1>0, <1>2, <1>3, <1>5, <2>1, <2>2, <2>3 DEF TypeOK, Loads, ShownSet, Payloads
<1>7. FreshInv'
  <2>1. shown.payload \in Payloads /\ load.clock \in Nat /\ timer \in Nat
    BY <1>0, Constants DEF ShownSet, Loads
  <2>2. shown.payload.age \in Nat /\ shown'.payload.age \in Nat
        /\ shown'.payload.age <= shown.payload.age + 1
    BY <1>1, <1>5, <2>1, AgesTyped
  <2>3. FreshInv
    BY DEF PageInv
  <2>4. load'.pc = "live" => timer' = load'.clock
    BY <1>2, <1>3, <2>1, <2>3 DEF FreshInv
  <2>5. load'.pc = "snapshot" => timer' <= Timeout + load'.clock
    BY <1>2, <1>3, <2>1, <2>3, Constants DEF FreshInv
  <2>6. shown'.kind = "data" /\ shown'.marked = FALSE =>
          shown'.payload.age <= Stale + timer' + (IF load'.pc = "rest" THEN 0 ELSE Interval)
    BY <1>2, <1>3, <1>5, <2>1, <2>2, <2>3, Constants DEF FreshInv
  <2> QED
    BY <2>4, <2>5, <2>6 DEF FreshInv
<1>8. GridInv'
  <2>1. lastPayload' = Aged(lastPayload) /\ resizing' = resizing
    BY DEF Tick
  <2>2. lastPayload # None => lastPayload' # None
    BY <1>0, <1>1, <2>1
  <2> QED
    BY <1>2, <1>5, <2>1, <2>2 DEF PageInv, GridInv
<1> QED
  BY <1>6, <1>7, <1>8 DEF PageInv

\* A load that ends: fresh data or an error is on the page.
LEMMA LoadedKeeps ==
    ASSUME PageInv, NEW payload \in Payload, Loaded(payload), UNCHANGED <<env, timer, width, resizing>>
    PROVE  PageInv'
<1>0. TypeOK /\ timer \in Nat
  BY Constants DEF PageInv, TypeOK
<1>1. lastPayload' = payload /\ shown' = Drawn(payload) /\ load' = NoLoad
  BY DEF Loaded
<1>2. TypeOK'
  BY <1>0, <1>1, DrawnTyped, LoadsTyped DEF TypeOK, env, Loads, ShownSet, Payloads
<1>3. FreshInv'
  <2>1. shown'.marked = FALSE => shown'.payload.age <= Stale /\ shown'.payload.age \in Nat
    BY <1>0, <1>1, DrawnTyped, AgesTyped DEF Payload
  <2>2. load'.pc = "rest" /\ timer' = timer
    BY <1>1, LoadsTyped
  <2> QED
    BY <1>0, <2>1, <2>2, Constants DEF FreshInv
<1>4. GridInv'
  <2>1. payload # None
    BY DEF Payload, None
  <2> QED
    BY <1>0, <1>1, <2>1, DrawnTyped DEF GridInv
<1> QED
  BY <1>2, <1>3, <1>4 DEF PageInv

LEMMA ErrorKeeps ==
    ASSUME PageInv, ShowError, UNCHANGED <<env, timer, lastPayload, width, resizing>>
    PROVE  PageInv'
<1>1. load' \in Loads /\ load'.pc = "rest" /\ shown' \in ShownSet /\ shown'.kind = "error"
  BY BlankTyped, LoadsTyped DEF ShowError
<1>2. TypeOK'
  BY <1>1 DEF PageInv, TypeOK, env, Loads, ShownSet, Payloads
<1> QED
  BY <1>1, <1>2 DEF PageInv, FreshInv, GridInv

\* The steps of a load.
LEMMA LoadKeeps == PageInv /\ LoadStep => PageInv'
<1> SUFFICES ASSUME PageInv, LoadStep PROVE PageInv'
  OBVIOUS
<1>0. /\ TypeOK /\ FreshInv /\ GridInv /\ timer \in Nat /\ load.clock \in 0..Timeout
      /\ shown \in ShownSet /\ published \in Ages
  BY Constants DEF PageInv, TypeOK, ShownSet, Payloads
<1>1. CASE Refresh
  <2>1. /\ load' \in Loads /\ load'.pc = "live" /\ load'.clock = 0 /\ timer' = 0
        /\ UNCHANGED <<env, lastPayload, shown, width, resizing>>
    BY <1>1, LoadsTyped DEF Refresh
  <2>2. timer = Interval /\ load.pc = "rest"
    BY <1>1 DEF Refresh
  <2>3. TypeOK'
    BY <1>0, <2>1, Constants DEF TypeOK, env, Loads
  <2>4. FreshInv'
    BY <1>0, <2>1, <2>2, Constants DEF FreshInv
  <2> QED
    BY <1>0, <2>1, <2>3, <2>4 DEF PageInv, GridInv
<1>2. CASE LiveAnswers
  <2>1. PICK age \in 0..load.clock : Loaded([source |-> "live", age |-> age])
    BY <1>2 DEF LiveAnswers
  <2>2. age \in Ages
    BY <1>0, Constants DEF Ages, Limit
  <2>3. [source |-> "live", age |-> age] \in Payload
    BY <2>2 DEF Payload
  <2>4. UNCHANGED <<env, timer, width, resizing>>
    BY <1>2 DEF LiveAnswers
  <2> QED
    BY <2>1, <2>3, <2>4, LoadedKeeps
<1>3. CASE LiveFails
  <2>1. UNCHANGED <<env, timer, lastPayload, width, resizing>>
    BY <1>3 DEF LiveFails
  <2>2. CASE HasSnapshot
    <3>1. load' \in Loads /\ load'.pc = "snapshot" /\ load'.clock = 0 /\ shown' = shown
      BY <1>3, <2>2, LoadsTyped DEF LiveFails
    <3>2. load.pc = "live" /\ timer = load.clock
      BY <1>0, <1>3 DEF LiveFails, FreshInv
    <3>3. TypeOK'
      BY <1>0, <2>1, <3>1 DEF TypeOK, env, Loads
    <3>4. FreshInv'
      BY <1>0, <2>1, <3>1, <3>2, Constants DEF FreshInv
    <3> QED
      BY <1>0, <2>1, <3>1, <3>3, <3>4 DEF PageInv, GridInv
  <2>3. CASE ~HasSnapshot
    BY <1>3, <2>1, <2>3, ErrorKeeps DEF LiveFails
  <2> QED
    BY <2>2, <2>3
<1>4. CASE SnapshotAnswers
  <2>1. [source |-> "snapshot", age |-> published] \in Payload
    BY <1>0 DEF Payload
  <2> QED
    BY <1>4, <2>1, LoadedKeeps DEF SnapshotAnswers
<1>5. CASE SnapshotFails
  BY <1>5, ErrorKeeps DEF SnapshotFails
<1> QED
  BY <1>1, <1>2, <1>3, <1>4, <1>5 DEF LoadStep

\* The window and the world.
LEMMA RedrawKeeps == PageInv /\ Redraw => PageInv'
<1> SUFFICES ASSUME PageInv, Redraw PROVE PageInv'
  OBVIOUS
<1>0. /\ TypeOK /\ FreshInv /\ timer \in Nat /\ load \in Loads /\ shown \in ShownSet
      /\ lastPayload \in Payloads
  BY Constants DEF PageInv, TypeOK, Loads, ShownSet, Payloads
<1>1. UNCHANGED <<env, timer, load, lastPayload, width>> /\ resizing' = FALSE
  BY DEF Redraw
<1>2. CASE lastPayload = None
  <2>1. shown' = shown
    BY <1>2 DEF Redraw
  <2>2. TypeOK' /\ FreshInv'
    BY <1>0, <1>1, <2>1 DEF TypeOK, FreshInv, env
  <2>3. shown.kind # "data"
    BY <1>2 DEF PageInv, GridInv
  <2> QED
    BY <2>1, <2>2, <2>3 DEF PageInv, GridInv
<1>3. CASE lastPayload # None
  <2>1. lastPayload \in Payload /\ shown' = Drawn(lastPayload)
    BY <1>0, <1>3 DEF Redraw, Payloads
  <2>2. TypeOK'
    BY <1>0, <1>1, <2>1, DrawnTyped DEF TypeOK, env, ShownSet, Payloads
  <2>3. FreshInv'
    <3>1. lastPayload.age \in Nat
      BY <2>1, AgesTyped DEF Payload
    <3>2. shown'.payload = lastPayload /\ (shown'.marked = FALSE => lastPayload.age <= Stale)
      BY <1>0, <2>1, DrawnTyped
    <3> QED
      BY <1>0, <1>1, <3>1, <3>2, Constants DEF FreshInv
  <2>4. GridInv'
    BY <1>0, <1>1, <1>3, <2>1, DrawnTyped DEF GridInv
  <2> QED
    BY <2>2, <2>3, <2>4 DEF PageInv
<1> QED
  BY <1>2, <1>3

LEMMA OthersKeep == PageInv /\ (World \/ Resize) => PageInv'
<1> SUFFICES ASSUME PageInv, World \/ Resize PROVE PageInv'
  OBVIOUS
<1>1. UNCHANGED <<timer, load, lastPayload, shown>>
  BY DEF World, Resize
<1>2. CASE World
  <2>1. UNCHANGED <<width, resizing>>
    BY <1>2 DEF World
  <2>2. collector' \in BOOLEAN /\ branch' \in BOOLEAN
    BY <1>2 DEF World, PageInv, TypeOK
  <2>3. published' \in Ages
    <3>1. published \in Ages
      BY DEF PageInv, TypeOK
    <3> QED
      BY <1>2, <3>1, Constants DEF World, Ages, Limit
  <2> QED
    BY <1>1, <2>1, <2>2, <2>3 DEF PageInv, TypeOK, FreshInv, GridInv
<1>3. CASE Resize
  <2>1. width' \in Widths /\ resizing' = TRUE /\ UNCHANGED env
    BY <1>3 DEF Resize
  <2> QED
    BY <1>1, <2>1 DEF PageInv, TypeOK, FreshInv, GridInv, env
<1> QED
  BY <1>2, <1>3

LEMMA PageStep == PageInv /\ [Next]_vars => PageInv'
<1> SUFFICES ASSUME PageInv, [Next]_vars PROVE PageInv'
  OBVIOUS
<1>1. CASE UNCHANGED vars
  BY <1>1 DEF vars, PageInv, TypeOK, FreshInv, GridInv
<1> QED
  BY <1>1, TickKeeps, LoadKeeps, RedrawKeeps, OthersKeep DEF Next

LEMMA PageAlways == Spec => []PageInv
  BY PageInit, PageStep, PTL DEF Spec

\* TypeOK: ages, timers and requests keep within their bounds.
THEOREM PageTypes == Spec => []TypeOK
<1>1. PageInv => TypeOK
  BY DEF PageInv
<1> QED
  BY <1>1, PageAlways, PTL

\* UnmarkedIsFresh: renderFreshness decides anew at every drawing, and every refresh replaces
\* what is on the page, if only by an error.
THEOREM UnmarkedFresh == Spec => []UnmarkedIsFresh
<1>1. PageInv => UnmarkedIsFresh
  <2> SUFFICES ASSUME PageInv, shown.kind = "data", ~shown.marked PROVE shown.payload.age <= Limit
    BY DEF UnmarkedIsFresh
  <2>1. /\ timer \in 0..Interval /\ load.clock \in 0..Timeout
        /\ load.pc \in {"rest", "live", "snapshot"} /\ shown.payload \in Payloads
        /\ shown.marked = FALSE
    BY DEF PageInv, TypeOK, Payloads
  <2>2. shown.payload.age \in Nat
    BY <2>1, AgesTyped DEF Payloads, Payload, None
  <2>3. load.pc # "rest" => timer <= 2 * Timeout
    BY <2>1, Constants DEF PageInv, FreshInv
  <2>4. shown.payload.age <= Stale + timer + (IF load.pc = "rest" THEN 0 ELSE Interval)
    BY <2>1 DEF PageInv, FreshInv
  <2> QED
    BY <2>1, <2>2, <2>3, <2>4, Constants DEF Limit
<1> QED
  BY <1>1, PageAlways, PTL

\* GridExact: cellsFor and renderGrid leave no hour out, show none twice, and fit the window.
THEOREM GridCovers == Spec => []GridExact
<1>1. PageInv => GridExact
  <2> SUFFICES ASSUME PageInv, shown.kind = "data" PROVE GridExact
    BY DEF GridExact
  <2>1. shown.group \in 1..Hours /\ width \in Widths
    BY DEF PageInv, TypeOK
  <2>2. ASSUME NEW h \in 0..(Hours - 1)
        PROVE  Cardinality({c \in 0..(Count(shown.group) - 1) : h \in CellHours(shown.group, c)}) = 1
    <3>1. {c \in 0..(Count(shown.group) - 1) : h \in CellHours(shown.group, c)}
            = {h \div shown.group}
      BY <2>1, <2>2, OneCell
    <3>2. \A x : Cardinality({x}) = 1
      BY FS_Singleton
    <3> QED
      BY <3>1, <3>2
  <2>3. ~resizing => Count(shown.group) <= Most(MinCells, width)
    BY <2>1, CountFits DEF PageInv, GridInv
  <2> QED
    BY <2>2, <2>3 DEF GridExact
<1> QED
  BY <1>1, PageAlways, PTL

-----------------------------------------------------------------------------
\* What is on the page is the last payload, which ages with it, and no load answers with
\* live data that is older than a payload that was there when its request was sent.
OrderInv ==
    /\ shown.kind = "data" => shown.payload = lastPayload
    /\ load.pc = "live" /\ lastPayload # None => load.clock <= lastPayload.age

LEMMA AgedTyped ==
    ASSUME NEW p \in Payloads
    PROVE  /\ p.age \in Nat /\ p.age <= Limit + 1
           /\ Aged(p) # None => p # None
           /\ p # None => Aged(p).age = Older(p.age)
<1>1. CASE p = None
  BY <1>1, Constants DEF None, Aged, Limit
<1>2. CASE p \in Payload /\ p # None
  <2>1. p.age \in Ages /\ Aged(p) = [p EXCEPT !.age = Older(@)]
    BY <1>2 DEF Aged, Payload
  <2>2. Aged(p).age = Older(p.age)
    BY <1>2, <2>1 DEF Payload
  <2> QED
    BY <1>2, <2>1, <2>2, Constants DEF Ages, Limit
<1> QED
  BY <1>1, <1>2 DEF Payloads

LEMMA OrderStep == PageInv /\ OrderInv /\ [Next]_vars => OrderInv'
<1> SUFFICES ASSUME PageInv, OrderInv, [Next]_vars PROVE OrderInv'
  OBVIOUS
<1>0. /\ TypeOK /\ FreshInv /\ lastPayload \in Payloads /\ shown \in ShownSet
      /\ timer \in 0..Interval /\ load \in Loads
  BY DEF PageInv, TypeOK, Payloads, ShownSet, Loads
<1>1. CASE UNCHANGED vars \/ World \/ Resize
  <2>1. UNCHANGED <<load, lastPayload, shown>>
    BY <1>1 DEF vars, World, Resize
  <2> QED
    BY <2>1 DEF OrderInv
<1>2. CASE Tick
  <2>1. /\ lastPayload' = Aged(lastPayload) /\ shown' = [shown EXCEPT !.payload = Aged(@)]
        /\ timer < Interval
        /\ load' = IF load.pc = "rest" THEN load ELSE [load EXCEPT !.clock = @ + 1]
    BY <1>2 DEF Tick
  <2>2. shown'.kind = shown.kind /\ shown'.payload = Aged(shown.payload)
    BY <1>0, <2>1 DEF ShownSet
  <2>3. ASSUME load'.pc = "live", lastPayload' # None
        PROVE  load'.clock <= lastPayload'.age
    <3>1. load.pc = "live" /\ load'.clock = load.clock + 1 /\ load.clock \in Nat
      BY <1>0, <2>1, <2>3, Constants DEF Loads
    <3>2. lastPayload # None /\ lastPayload'.age = Older(lastPayload.age)
      BY <1>0, <2>1, <2>3, AgedTyped
    <3>3. load.clock <= lastPayload.age /\ timer = load.clock
      BY <1>0, <3>1, <3>2 DEF OrderInv, FreshInv
    <3>4. lastPayload.age \in Nat /\ Limit \in Nat /\ Limit >= Interval
      BY <1>0, AgedTyped, Constants DEF Limit
    <3> QED
      BY <1>0, <2>1, <3>1, <3>2, <3>3, <3>4, Constants DEF Older
  <2> QED
    BY <2>1, <2>2, <2>3 DEF OrderInv
<1>3. CASE Refresh
  <2>1. load'.clock = 0 /\ UNCHANGED <<lastPayload, shown>>
    BY <1>3, LoadsTyped DEF Refresh
  <2> QED
    BY <1>0, <2>1, AgedTyped DEF OrderInv
<1>4. ASSUME NEW payload \in Payload, Loaded(payload)
      PROVE  OrderInv'
  <2>1. shown'.payload = payload /\ lastPayload' = payload /\ load'.pc = "rest"
    BY <1>0, <1>4, DrawnTyped, LoadsTyped DEF Loaded
  <2> QED
    BY <2>1 DEF OrderInv
<1>5. CASE LiveAnswers
  <2>1. PICK age \in 0..load.clock : Loaded([source |-> "live", age |-> age])
    BY <1>5 DEF LiveAnswers
  <2>2. age \in Ages
    BY <1>0, Constants DEF Ages, Limit, Loads
  <2>3. [source |-> "live", age |-> age] \in Payload
    BY <2>2 DEF Payload
  <2> QED
    BY <1>4, <2>1, <2>3
<1>6. CASE SnapshotAnswers
  <2>1. [source |-> "snapshot", age |-> published] \in Payload
    BY <1>0 DEF Payload, TypeOK
  <2> QED
    BY <1>4, <1>6, <2>1 DEF SnapshotAnswers
<1>7. CASE LiveFails \/ SnapshotFails
  <2>1. lastPayload' = lastPayload /\ load'.pc # "live"
    BY <1>7, LoadsTyped DEF LiveFails, SnapshotFails, ShowError
  <2>2. shown' = shown \/ shown'.kind = "error"
    BY <1>7, BlankTyped DEF LiveFails, SnapshotFails, ShowError
  <2> QED
    BY <2>1, <2>2 DEF OrderInv
<1>8. CASE Redraw
  <2>1. UNCHANGED <<load, lastPayload>>
    BY <1>8 DEF Redraw
  <2>2. CASE lastPayload = None
    BY <1>8, <2>1, <2>2 DEF Redraw, OrderInv
  <2>3. CASE lastPayload # None
    <3>1. lastPayload \in Payload /\ shown' = Drawn(lastPayload)
      BY <1>0, <1>8, <2>3 DEF Redraw, Payloads
    <3>2. shown'.payload = lastPayload
      BY <1>0, <3>1, DrawnTyped
    <3> QED
      BY <2>1, <3>2 DEF OrderInv
  <2> QED
    BY <2>2, <2>3
<1> QED
  BY <1>1, <1>2, <1>3, <1>5, <1>6, <1>7, <1>8 DEF Next, LoadStep

\* NewerOrMarked: the page never goes back to older data without saying so.  A live answer is
\* stamped after its request was sent, when the data on the page was already there.
THEOREM NewerOrMarkedAlways == Spec => NewerOrMarked
<1>1. Init => OrderInv
  <2> SUFFICES ASSUME Init PROVE OrderInv
    OBVIOUS
  <2>1. shown.kind = "loading" /\ lastPayload = None
    BY BlankTyped DEF Init
  <2> QED
    BY <2>1 DEF OrderInv
<1>2. Spec => [](PageInv /\ OrderInv)
  BY <1>1, PageInit, PageStep, OrderStep, PTL DEF Spec
<1>3. ASSUME PageInv, OrderInv, LoadStep \/ Redraw, shown.kind = "data", shown'.kind = "data"
      PROVE  shown'.payload.age <= shown.payload.age \/ shown'.marked
  <2>0. /\ TypeOK /\ lastPayload # None /\ shown.payload = lastPayload
        /\ lastPayload \in Payload /\ lastPayload.age \in Nat
    BY <1>3, AgedTyped DEF PageInv, GridInv, OrderInv, TypeOK, Payloads
  <2>1. CASE Refresh \/ LiveFails \/ SnapshotFails
    <3>1. shown' = shown
      BY <1>3, <2>1, BlankTyped DEF Refresh, LiveFails, SnapshotFails, ShowError
    <3> QED
      BY <2>0, <3>1
  <2>2. CASE LiveAnswers
    <3>1. PICK age \in 0..load.clock : Loaded([source |-> "live", age |-> age])
      BY <2>2 DEF LiveAnswers
    <3>2. load.pc = "live" /\ load.clock \in 0..Timeout
      BY <2>0, <2>2 DEF LiveAnswers, TypeOK
    <3>3. age \in Ages /\ age <= lastPayload.age
      BY <1>3, <2>0, <3>2, Constants DEF Ages, Limit, OrderInv
    <3>4. shown'.payload = [source |-> "live", age |-> age]
      <4>1. [source |-> "live", age |-> age] \in Payload
        BY <3>3 DEF Payload
      <4> QED
        BY <2>0, <3>1, <4>1, DrawnTyped DEF Loaded
    <3> QED
      BY <2>0, <3>3, <3>4
  <2>3. CASE SnapshotAnswers
    <3>1. shown' = Drawn([source |-> "snapshot", age |-> published])
      BY <2>3 DEF SnapshotAnswers, Loaded
    <3> QED
      BY <3>1 DEF Drawn, Marked
  <2>4. CASE Redraw
    <3>1. shown' = Drawn(lastPayload)
      BY <2>0, <2>4 DEF Redraw
    <3>2. shown'.payload = lastPayload
      BY <2>0, <3>1, DrawnTyped
    <3> QED
      BY <2>0, <3>2
  <2> QED
    BY <1>3, <2>1, <2>2, <2>3, <2>4 DEF LoadStep
<1>4. PageInv /\ OrderInv /\ [Next]_vars =>
        [(LoadStep \/ Redraw) /\ shown.kind = "data" /\ shown'.kind = "data"
            => shown'.payload.age <= shown.payload.age \/ shown'.marked]_vars
  BY <1>3
<1> QED
  BY <1>2, <1>4, PTL DEF Spec, NewerOrMarked
=============================================================================
