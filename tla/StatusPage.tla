---------------------------- MODULE StatusPage ----------------------------
(***************************************************************************)
(* The status page (web/index.html): it loads the payloads from the        *)
(* collector, or, when that does not answer, from the published snapshot;  *)
(* draws them; loads again on a timer; and draws the last payload anew     *)
(* when the window is resized.  A load that fails altogether shows an      *)
(* error instead, but the last payload is kept.                            *)
(*                                                                         *)
(* Time is the age of data.  Ages beyond what a page may show unmarked     *)
(* are all the same, so they end there.  Timers fire on time, as they do   *)
(* in a page that is visible.                                              *)
(***************************************************************************)
EXTENDS Integers, FiniteSets

CONSTANTS
    Interval,     \* between two refreshes
    Timeout,      \* of a request
    Stale,        \* age from which live data is marked
    HasSnapshot,  \* SNAPSHOT_BASE is configured
    Hours,        \* HOURS, the hours on the grid
    MinCells,     \* cells a grid has at least, however narrow the window
    Widths        \* the widths of the window, in cells that fit

ASSUME PageAssumption ==
    /\ Interval \in Nat /\ Timeout \in Nat /\ Stale \in Nat
    /\ 2 * Timeout < Interval
    /\ HasSnapshot \in BOOLEAN
    /\ Hours \in Nat \ {0} /\ MinCells \in 1..Hours
    /\ Widths \subseteq Nat

\* How old unmarked data gets at most: until the refresh after its drawing is over.
Limit == Stale + Interval + 2 * Timeout
Ages == 0..(Limit + 1)
Older(age) == IF age > Limit THEN age ELSE age + 1

\* What loadData returns: its source and the age of the status payload.
Payload == [source : {"live", "snapshot"}, age : Ages]
None == [source |-> "none", age |-> 0]
Aged(payload) == IF payload = None THEN None ELSE [payload EXCEPT !.age = Older(@)]

VARIABLES
    collector,    \* whether the collector answers
    branch,       \* whether the published files can be read
    published,    \* their age
    timer,        \* since the last refresh began
    load,         \* the call of loadData in progress: which request, and for how long
    lastPayload,  \* as in the page
    shown,        \* what is on the page: data, error, or nothing yet; marked by the chip; grouped hours
    width,        \* the width of the window
    resizing      \* the timer that redraws after a resize runs

vars == <<collector, branch, published, timer, load, lastPayload, shown, width, resizing>>
env == <<collector, branch, published>>

NoLoad == [pc |-> "rest", clock |-> 0]
Request(pc) == [pc |-> pc, clock |-> 0]
Blank(kind) == [kind |-> kind, payload |-> None, marked |-> FALSE, group |-> 1]

TypeOK ==
    /\ collector \in BOOLEAN /\ branch \in BOOLEAN
    /\ published \in Ages
    /\ timer \in 0..Interval
    /\ load \in [pc : {"rest", "live", "snapshot"}, clock : 0..Timeout]
    /\ lastPayload \in Payload \union {None}
    /\ shown \in [kind : {"loading", "error", "data"}, payload : Payload \union {None},
                  marked : BOOLEAN, group : 1..Hours]
    /\ width \in Widths
    /\ resizing \in BOOLEAN

\* refresh is called once when the page is opened.
Init ==
    /\ collector \in BOOLEAN /\ branch \in BOOLEAN
    /\ published \in Ages
    /\ timer = 0
    /\ load = Request("live")
    /\ lastPayload = None
    /\ shown = Blank("loading")
    /\ width \in Widths
    /\ resizing = FALSE

-----------------------------------------------------------------------------
\* The world: the collector and the branch come and go, the publisher pushes a newer snapshot.
World ==
    /\ \/ collector' = ~collector /\ UNCHANGED <<branch, published>>
       \/ branch' = ~branch /\ UNCHANGED <<collector, published>>
       \/ published' \in 0..(published - 1) /\ UNCHANGED <<collector, branch>>
    /\ UNCHANGED <<timer, load, lastPayload, shown, width, resizing>>

\* Time passes up to the next timer or timeout.
Tick ==
    /\ timer < Interval
    /\ load.pc # "rest" => load.clock < Timeout
    /\ ~resizing
    /\ timer' = timer + 1
    /\ load' = IF load.pc = "rest" THEN load ELSE [load EXCEPT !.clock = @ + 1]
    /\ published' = Older(published)
    /\ lastPayload' = Aged(lastPayload)
    /\ shown' = [shown EXCEPT !.payload = Aged(@)]
    /\ UNCHANGED <<collector, branch, width, resizing>>

-----------------------------------------------------------------------------
\* cellsFor: how many hours share a cell, and how many cells that makes.
Ceil(a, b) == (a + b - 1) \div b
Least(a, b) == IF a < b THEN a ELSE b
Most(a, b) == IF a > b THEN a ELSE b

\* Variant: rounded down, and the window may be wider than all hours.
GroupSizeDown(w) == Hours \div Most(MinCells, w)

GroupSize(w) == Most(1, Ceil(Hours, Most(MinCells, Least(Hours, w))))

\* renderGrid: the hours before now that cell c stands for; the last cell may be short.
\* Variant: the number of cells rounded down.
CountDown(group) == Hours \div group

Count(group) == Ceil(Hours, group)
CellHours(group, c) == {h \in c * group .. c * group + group - 1 : h < Hours}

\* renderFreshness: decided anew with every drawing.
\* Variant: only the age counts.
MarkedByAge(payload) == payload.age > Stale

Marked(payload) == payload.source = "snapshot" \/ payload.age > Stale

Drawn(payload) ==
    [kind |-> "data", payload |-> payload, marked |-> Marked(payload), group |-> GroupSize(width)]

-----------------------------------------------------------------------------
\* setInterval.
\* Variant: a page that has fallen back stays with the snapshot.
RefreshSticky ==
    /\ timer = Interval
    /\ load.pc = "rest"
    /\ timer' = 0
    /\ load' = Request(IF lastPayload.source = "snapshot" THEN "snapshot" ELSE "live")
    /\ UNCHANGED <<env, lastPayload, shown, width, resizing>>

Refresh ==
    /\ timer = Interval
    /\ load.pc = "rest"
    /\ timer' = 0
    /\ load' = Request("live")
    /\ UNCHANGED <<env, lastPayload, shown, width, resizing>>

Loaded(payload) ==
    /\ lastPayload' = payload
    /\ shown' = Drawn(payload)
    /\ load' = NoLoad

\* The collector stamps its answer somewhere between request and arrival.
LiveAnswers ==
    /\ load.pc = "live"
    /\ collector
    /\ \E age \in 0..load.clock : Loaded([source |-> "live", age |-> age])
    /\ UNCHANGED <<env, timer, width, resizing>>

\* An error, a bad status or the timeout.
\* Variant: of what failed nothing is shown.
ShowNothing == load' = NoLoad /\ UNCHANGED shown

ShowError == load' = NoLoad /\ shown' = Blank("error")

\* Variant of LiveFails: the fallback is for the first load only.
LiveFailsLater ==
    /\ load.pc = "live"
    /\ ~collector
    /\ IF HasSnapshot /\ lastPayload = None
       THEN load' = Request("snapshot") /\ UNCHANGED shown
       ELSE ShowError
    /\ UNCHANGED <<env, timer, lastPayload, width, resizing>>

LiveFails ==
    /\ load.pc = "live"
    /\ ~collector
    /\ IF HasSnapshot THEN load' = Request("snapshot") /\ UNCHANGED shown ELSE ShowError
    /\ UNCHANGED <<env, timer, lastPayload, width, resizing>>

SnapshotAnswers ==
    /\ load.pc = "snapshot"
    /\ branch
    /\ Loaded([source |-> "snapshot", age |-> published])
    /\ UNCHANGED <<env, timer, width, resizing>>

SnapshotFails ==
    /\ load.pc = "snapshot"
    /\ ~branch
    /\ ShowError
    /\ UNCHANGED <<env, timer, lastPayload, width, resizing>>

-----------------------------------------------------------------------------
\* resize: only a new width counts, and every one starts the timer again.
Resize ==
    /\ \E w \in Widths \ {width} : width' = w
    /\ resizing' = TRUE
    /\ UNCHANGED <<env, timer, load, lastPayload, shown>>

\* Variant: the age is not looked at again.
RedrawShown ==
    /\ resizing
    /\ resizing' = FALSE
    /\ shown' = IF lastPayload = None THEN shown
                ELSE [Drawn(lastPayload) EXCEPT !.marked = lastPayload.source = "snapshot"]
    /\ UNCHANGED <<env, timer, load, lastPayload, width>>

Redraw ==
    /\ resizing
    /\ resizing' = FALSE
    /\ shown' = IF lastPayload = None THEN shown ELSE Drawn(lastPayload)
    /\ UNCHANGED <<env, timer, load, lastPayload, width>>

-----------------------------------------------------------------------------
LoadStep == Refresh \/ LiveAnswers \/ LiveFails \/ SnapshotAnswers \/ SnapshotFails
Next == World \/ Tick \/ LoadStep \/ Resize \/ Redraw
Spec == Init /\ [][Next]_vars

\* Time passes, whatever else goes on; each timer and each request comes to its end.
Fairness == SF_vars(Tick) /\ WF_vars(LoadStep) /\ WF_vars(Redraw)
FairSpec == Spec /\ Fairness

-----------------------------------------------------------------------------
(* Properties *)

\* Data that the page shows without a mark is not older than Stale and one refresh, through any
\* sequence of failed loads and redraws of the last payload.
UnmarkedIsFresh == shown.kind = "data" /\ ~shown.marked => shown.payload.age <= Limit

\* The inductive form: unmarked data was fresh when it was drawn, which was after the last
\* refresh unless that is still under way.
FreshInv ==
    /\ load.pc = "live" => timer = load.clock
    /\ load.pc = "snapshot" => timer <= Timeout + load.clock
    /\ shown.kind = "data" /\ shown.marked = FALSE =>
          shown.payload.age <= Stale + timer + (IF load.pc = "rest" THEN 0 ELSE Interval)

\* Older data takes the place of newer data only with a mark.
NewerOrMarked ==
    [][(LoadStep \/ Redraw) /\ shown.kind = "data" /\ shown'.kind = "data"
          => shown'.payload.age <= shown.payload.age \/ shown'.marked]_vars

\* Once a resize has been drawn, the grid fits the window, and each hour is in one cell.
GridExact ==
    shown.kind = "data" =>
        /\ \A h \in 0..(Hours - 1) :
              Cardinality({c \in 0..(Count(shown.group) - 1) : h \in CellHours(shown.group, c)}) = 1
        /\ ~resizing => Count(shown.group) <= Most(MinCells, width)

\* Why the grid fits: it is drawn for the width the window has, and can be drawn again.
GridInv ==
    /\ shown.kind = "data" => lastPayload # None
    /\ shown.kind = "data" /\ ~resizing => shown.group = GroupSize(width)

\* When the collector stays away the page does not go on showing unmarked data, although a
\* redraw brings back what was loaded before.
OutageShows == <>[](~collector) => <>[](shown.kind = "data" => shown.marked)

\* When the collector stays away and the branch can be read, the page shows the last known state.
LastKnownStateShown ==
    HasSnapshot /\ <>[](~collector /\ branch) => <>[](shown.kind = "data" /\ shown.marked)

\* When the collector is back for good, so is its data.
RecoveryShows == <>[]collector => <>[](shown.kind = "data" /\ shown.payload.source = "live")
=============================================================================
