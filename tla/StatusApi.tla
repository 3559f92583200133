----------------------------- MODULE StatusApi -----------------------------
(***************************************************************************)
(* buildStatus of internal/api, next to the checker it reads from.  For    *)
(* every endpoint it asks the checks table twice, for the latest row and   *)
(* for the hourly buckets of the window, with nothing that holds the       *)
(* checker off in between.  A query that fails, as every query does once   *)
(* main has closed the database, leaves its part of the payload empty.     *)
(* What is built for one endpoint does not depend on the others, so any    *)
(* endpoint may be the next.                                               *)
(***************************************************************************)
EXTENDS Checker

CONSTANT Window  \* the days the API reports, in ticks

ASSUME WindowAssumption == Window \in 0..Retain

VARIABLE part    \* the EndpointStatus in the making

apiVars == <<vars, part>>

NotBegun == [pc |-> "latest", ep |-> "none", current |-> <<>>]

ApiTypeOK ==
    /\ TypeOK
    /\ \/ part = NotBegun
       \/ part \in [pc : {"buckets"}, ep : Watched, current : {<<>>} \union {<<r>> : r \in Row}]

ApiInit == Init /\ part = NotBegun

\* GetLatestCheck: rows are inserted in the order of their time.
LatestCheck(e) == IF checks[e] = <<>> THEN <<>> ELSE <<checks[e][Len(checks[e])]>>

\* GetHourBuckets: the rows of the window, counted by hour and outcome.
\* Variant: the hour that is not over yet is left out.
HourBucketsOfFullHours(e) ==
    [a \in 0..Window |-> [up \in BOOLEAN |->
        IF a = 0 THEN 0
        ELSE Cardinality({k \in DOMAIN checks[e] : checks[e][k] = [age |-> a, up |-> up]})]]

HourBuckets(e) ==
    [a \in 0..Window |-> [up \in BOOLEAN |->
        Cardinality({k \in DOMAIN checks[e] : checks[e][k] = [age |-> a, up |-> up]})]]

\* buildStatus serves requests and snapshots once main is past its start-up.
GetLatest ==
    /\ part.pc = "latest"
    /\ life = "serving"
    /\ \E e \in Watched :
          part' = [pc |-> "buckets", ep |-> e, current |-> LatestCheck(e)]

GetBuckets ==
    /\ part.pc = "buckets"
    /\ life = "serving"
    /\ part' = NotBegun

\* The database is closed, or the process is gone, before the second query.
QueryFails ==
    /\ part.pc = "buckets"
    /\ life # "serving"
    /\ part' = NotBegun

\* Hours pass between the two queries as well: what was read keeps its time.
PartAged == [part EXCEPT !.current = Aged(@)]

ApiStep == (GetLatest \/ GetBuckets \/ QueryFails) /\ UNCHANGED vars
ApiNext ==
    \/ Hour /\ part' = PartAged
    \/ Act /\ UNCHANGED part
    \/ ApiStep

ApiSpec == ApiInit /\ [][ApiNext]_apiVars
ApiFairSpec == ApiSpec /\ Fairness

-----------------------------------------------------------------------------
(* Properties *)

\* What a payload shows as the current state of an endpoint is counted in its buckets, as
\* long as it is of the window, whatever the checker inserts or prunes between the queries.
CurrentIsCounted ==
    [][GetBuckets =>
          \A k \in DOMAIN part.current :
              LET row == part.current[k]
              IN  row.age <= Window => HourBuckets(part.ep)[row.age][row.up] > 0]_apiVars

\* Within the window the table only grows: neither a restart nor PruneOld takes a row that
\* the API would still report.
Recent(rows) == Keeping(rows, {k \in DOMAIN rows : rows[k].age <= Window})
IsPrefixOf(s, t) == Len(s) <= Len(t) /\ \A k \in DOMAIN s : s[k] = t[k]

WindowKept ==
    [][\A e \in Watched :
          \/ IsPrefixOf(Recent(checks[e]), Recent(checks'[e]))
          \/ checks'[e] = Aged(checks[e])]_apiVars
=============================================================================
