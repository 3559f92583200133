------------------------------ MODULE Checker ------------------------------
(***************************************************************************)
(* The availability checker (internal/checker), the retention of the       *)
(* tables (PruneOld) and the life of the process around them (main).       *)
(*                                                                         *)
(* One goroutine runs RunOnce, first within the serial start-up of main,   *)
(* then on an hourly ticker: it asks one endpoint after the other, stores  *)
(* each result, and prunes the tables at the end of a complete round.      *)
(* SIGTERM cancels the context of a request that is under way; main then   *)
(* closes the database while the goroutine may still be at work.  A crash  *)
(* may come at any point.                                                  *)
(*                                                                         *)
(* Time is the age of a row, in ticks of the checker; an age beyond        *)
(* Retain is as good as any other, so ages end at Retain + 1.              *)
(***************************************************************************)
EXTENDS Integers, Sequences, FiniteSets

CONSTANTS
    Order,      \* the endpoints in the order of the configuration
    AutoModel,  \* those whose body names a model that has to be looked up first
    Watched,    \* the endpoints whose rows are followed: no row depends on those of others
    Retain,     \* retention, in ticks
    MaxFaults   \* bound on stops, crashes and failing statements together

ASSUME CheckerAssumption ==
    /\ Order \in Seq({Order[k] : k \in DOMAIN Order})
    /\ Watched \subseteq {Order[k] : k \in DOMAIN Order}
    /\ Retain \in Nat
    /\ MaxFaults \in Nat

Ages == 0..(Retain + 1)
Older(age) == IF age > Retain THEN age ELSE age + 1

\* The tables in the order in which PruneOld cuts them.
PruneOrder == <<"checks", "metrics", "comfy_jobs">>

\* The rows of the other tables, and which of them a DELETE may take: of the jobs only those
\* with a known end (ended_at > 0).
OtherRows == {"metrics", "ended jobs", "jobs without end"}
Takes == [metrics |-> {"metrics"}, comfy_jobs |-> {"ended jobs"}]

Row == [age : Ages, up : BOOLEAN]
\* What checkEndpoint returns; cut: it is down only because its context was cancelled.
Result == [age : Ages, up : BOOLEAN, cut : BOOLEAN]
NoResult == [age |-> 0, up |-> FALSE, cut |-> FALSE]

VARIABLES
    life,       \* the process: down, starting (serial start-up), serving, closing (database closed)
    cancelled,  \* the context of main is cancelled
    due,        \* the ticker's channel holds a tick
    round,      \* the call of RunOnce in progress
    checks,     \* the checks table: the rows of each watched endpoint, in the order of insertion
    stale,      \* the other rows of which there are some beyond the retention
    stops,      \* history: signals received
    cuts,       \* history: rows stored as down because of a signal
    faults      \* faults so far

vars == <<life, cancelled, due, round, checks, stale, stops, cuts, faults>>

\* Where the call is: gone is the goroutine that has left its loop.
Places == {"idle", "loop", "model", "ask", "insert", "prune", "gone"}
AtIdle == [pc |-> "idle", i |-> 1, table |-> 1, result |-> NoResult]
AtLoop == [AtIdle EXCEPT !.pc = "loop"]

TypeOK ==
    /\ life \in {"down", "starting", "serving", "closing"}
    /\ cancelled \in BOOLEAN
    /\ due \in BOOLEAN
    /\ round \in [pc : Places,
                  i : 1..(Len(Order) + 1), table : DOMAIN PruneOrder, result : Result]
    /\ checks \in [Watched -> Seq(Row)]
    /\ stale \subseteq OtherRows
    /\ stops \in 0..MaxFaults
    /\ cuts \in Nat
    /\ faults \in 0..MaxFaults

Init ==
    /\ life = "down"
    /\ cancelled = FALSE
    /\ due = FALSE
    /\ round = AtIdle
    /\ checks = [e \in Watched |-> <<>>]
    /\ stale = {}
    /\ stops = 0 /\ cuts = 0 /\ faults = 0

Fault == faults < MaxFaults /\ faults' = faults + 1
DbOpen == life \in {"starting", "serving"}

-----------------------------------------------------------------------------
\* Time: everything gets older and the ticker fires.  A round is much shorter than the
\* interval, so there is never a second tick before the first one is taken.  The other rows,
\* which other goroutines write, may cross the retention limit; of the jobs whose end is never
\* learnt one always does (the worst case, and nothing depends on their absence).
Aged(rows) == [k \in DOMAIN rows |-> [rows[k] EXCEPT !.age = Older(@)]]

Hour ==
    /\ ~due
    /\ due' = (life = "serving")
    /\ checks' = [e \in Watched |-> Aged(checks[e])]
    /\ round' = [round EXCEPT !.result.age = Older(@)]
    /\ \E rows \in SUBSET OtherRows : "jobs without end" \in rows /\ stale' = stale \union rows
    /\ UNCHANGED <<life, cancelled, stops, cuts, faults>>

\* A drain finds a job in ComfyUI's history whose row was pruned long ago, and stores it again;
\* or one of those recorded without an end, whose end it now learns.
StoreOldJob ==
    /\ life = "serving"
    /\ stale' = stale \union {"ended jobs"}
    /\ UNCHANGED <<life, cancelled, due, round, checks, stops, cuts, faults>>

-----------------------------------------------------------------------------
\* main.  The first round is part of the start-up.
StartUp ==
    /\ life = "down"
    /\ life' = "starting"
    /\ cancelled' = FALSE
    /\ round' = AtLoop
    /\ UNCHANGED <<due, checks, stale, stops, cuts, faults>>

\* Variant: the tickers only start, and main only waits for the signal, without a signal.
ServeUnlessCancelled ==
    /\ life = "starting"
    /\ ~cancelled
    /\ round.pc = "idle"
    /\ life' = "serving"
    /\ UNCHANGED <<cancelled, due, round, checks, stale, stops, cuts, faults>>

\* The first round and the calls after it are over: the tickers start.
Serve ==
    /\ life = "starting"
    /\ round.pc = "idle"
    /\ life' = "serving"
    /\ UNCHANGED <<cancelled, due, round, checks, stale, stops, cuts, faults>>

\* SIGTERM or SIGINT.
Stop ==
    /\ life \in {"starting", "serving"}
    /\ ~cancelled
    /\ cancelled' = TRUE
    /\ stops' = stops + 1
    /\ Fault
    /\ UNCHANGED <<life, due, round, checks, stale, cuts>>

\* The deferred db.Close of main; it waits for the start-up, but not for the goroutines.
CloseDb ==
    /\ life = "serving"
    /\ cancelled
    /\ life' = "closing"
    /\ UNCHANGED <<cancelled, due, round, checks, stale, stops, cuts, faults>>

Gone ==
    /\ life' = "down"
    /\ due' = FALSE
    /\ round' = AtIdle
    /\ UNCHANGED <<cancelled, checks, stale, stops, cuts>>

Exit == life = "closing" /\ Gone /\ UNCHANGED faults
Crash == life # "down" /\ Gone /\ Fault

-----------------------------------------------------------------------------
\* every: with a tick and a cancelled context the select takes either.
BeginRound ==
    /\ life \in {"serving", "closing"}
    /\ round.pc = "idle"
    /\ due
    /\ due' = FALSE
    /\ round' = AtLoop
    /\ UNCHANGED <<life, cancelled, checks, stale, stops, cuts, faults>>

LeaveLoop ==
    /\ life \in {"serving", "closing"}
    /\ round.pc = "idle"
    /\ cancelled
    /\ round' = [round EXCEPT !.pc = "gone"]
    /\ UNCHANGED <<life, cancelled, due, checks, stale, stops, cuts, faults>>

\* RunOnce, the head of its loop: a cancelled context ends the call, without pruning.
AskOrFetch(e) == IF e \in AutoModel THEN "model" ELSE "ask"

\* Variant: the context is not looked at.
NextEndpointRegardless ==
    /\ round.pc = "loop"
    /\ round' = IF round.i > Len(Order) THEN [AtIdle EXCEPT !.pc = "prune"]
                ELSE [round EXCEPT !.pc = AskOrFetch(Order[round.i])]
    /\ UNCHANGED <<life, cancelled, due, checks, stale, stops, cuts, faults>>

NextEndpoint ==
    /\ round.pc = "loop"
    /\ round' = IF round.i > Len(Order) THEN [AtIdle EXCEPT !.pc = "prune"]
                ELSE IF cancelled THEN AtIdle
                ELSE [round EXCEPT !.pc = AskOrFetch(Order[round.i])]
    /\ UNCHANGED <<life, cancelled, due, checks, stale, stops, cuts, faults>>

\* fetchFirstModel: whatever comes of it, the endpoint is asked; cancelled or not.
FetchModel ==
    /\ round.pc = "model"
    /\ round' = [round EXCEPT !.pc = "ask"]
    /\ UNCHANGED <<life, cancelled, due, checks, stale, stops, cuts, faults>>

\* The request.  A cancelled one is an error; otherwise the endpoint answers as expected or not.
Ask ==
    /\ round.pc = "ask"
    /\ \E up \in BOOLEAN :
          /\ cancelled => ~up
          /\ round' = [round EXCEPT !.pc = "insert",
                          !.result = [age |-> 0, up |-> up, cut |-> cancelled]]
    /\ UNCHANGED <<life, cancelled, due, checks, stale, stops, cuts, faults>>

\* InsertCheck.  An error is logged and the loop goes on.
Asked == Order[round.i]
Advance == round' = [AtLoop EXCEPT !.i = round.i + 1]
StoredRow == [age |-> round.result.age, up |-> round.result.up]
Store(e) == checks' = IF e \in Watched THEN [checks EXCEPT ![e] = Append(@, StoredRow)] ELSE checks

\* Variant: an endpoint that is down ends the round.
InsertAndStopWhenDown ==
    /\ round.pc = "insert"
    /\ DbOpen
    /\ Store(Asked)
    /\ cuts' = IF round.result.cut = TRUE THEN cuts + 1 ELSE cuts
    /\ IF round.result.up THEN Advance ELSE round' = AtIdle
    /\ UNCHANGED <<life, cancelled, due, stale, stops, faults>>

InsertCheck ==
    /\ round.pc = "insert"
    /\ DbOpen
    /\ Store(Asked)
    /\ cuts' = IF round.result.cut = TRUE THEN cuts + 1 ELSE cuts
    /\ Advance
    /\ UNCHANGED <<life, cancelled, due, stale, stops, faults>>

InsertFails ==
    /\ round.pc = "insert"
    /\ IF DbOpen THEN Fault ELSE UNCHANGED faults
    /\ Advance
    /\ UNCHANGED <<life, cancelled, due, checks, stale, stops, cuts>>

\* Variant: the limit is one tick too low.
YoungStrictly(row) == row.age < Retain

\* PruneOld: one DELETE after the other; the first error ends it.
Young(row) == row.age <= Retain

\* The rows at the indices K, in their order.
Nth(K, n) == CHOOSE k \in K : Cardinality({j \in K : j <= k}) = n
Keeping(rows, K) == [n \in 1 .. Cardinality(K) |-> rows[Nth(K, n)]]

Pruned(rows) == Keeping(rows, {k \in DOMAIN rows : Young(rows[k])})

PruneOne(last) ==
    /\ round.pc = "prune"
    /\ DbOpen
    /\ IF PruneOrder[round.table] = "checks"
       THEN /\ checks' = [e \in Watched |-> Pruned(checks[e])]
            /\ UNCHANGED stale
       ELSE /\ stale' = stale \ Takes[PruneOrder[round.table]]
            /\ UNCHANGED checks
    /\ round' = IF round.table = last THEN AtIdle
                ELSE [round EXCEPT !.table = round.table + 1]
    /\ UNCHANGED <<life, cancelled, due, stops, cuts, faults>>

\* Variants: the last table is forgotten; one statement too many.
PruneTwo == PruneOne(Len(PruneOrder) - 1)
PruneFour == PruneOne(Len(PruneOrder) + 1)

Prune == PruneOne(Len(PruneOrder))

PruneFails ==
    /\ round.pc = "prune"
    /\ IF DbOpen THEN Fault ELSE UNCHANGED faults
    /\ round' = AtIdle
    /\ UNCHANGED <<life, cancelled, due, checks, stale, stops, cuts>>

-----------------------------------------------------------------------------
RoundStep ==
    \/ BeginRound \/ LeaveLoop \/ NextEndpoint \/ FetchModel \/ Ask
    \/ InsertCheck \/ InsertFails \/ Prune \/ PruneFails
MainStep == StartUp \/ Serve \/ CloseDb \/ Exit
Act == RoundStep \/ MainStep \/ StoreOldJob \/ Stop \/ Crash
Next == Hour \/ Act

Spec == Init /\ [][Next]_vars

\* Time passes; systemd starts the process again; main and the goroutine go on, since each
\* of their calls ends within a timeout.
Fairness == WF_vars(Hour) /\ WF_vars(RoundStep) /\ WF_vars(MainStep)
FairSpec == Spec /\ Fairness

-----------------------------------------------------------------------------
(* Properties *)

\* A stop of the collector makes at most one check of an endpoint that may well be up look
\* like a failure: the request it cancels.  The loop asks no further endpoint, in this
\* round or in one that the ticker begins meanwhile.
OneFalseDownPerStop == cuts <= stops

\* The inductive form: a cut result on its way to the table, and a request under way when
\* the signal comes, are not counted yet.
StopInv ==
    /\ cuts <= stops
    /\ round.pc = "insert" /\ round.result.cut = TRUE => cuts < stops
    /\ round.pc \in {"model", "ask"} /\ cancelled = TRUE => cuts < stops

\* After a signal the process ends, however many endpoints do not answer.
StopEndsProcess == cancelled /\ life # "down" ~> life = "down"

\* Each table is rid of its old rows again and again, although a round may be cut short
\* and PruneOld may fail after the first table - but for the jobs whose end is not known:
\* those are not taken, however old.
OldRowsGo ==
    /\ \A e \in Watched : []<>(\A k \in DOMAIN checks[e] : checks[e][k].age <= Retain)
    /\ \A row \in OtherRows \ {"jobs without end"} : []<>(row \notin stale)

\* No endpoint is left out because of another one that is down: each has a check of the
\* running or the last hour again and again.
EveryEndpointChecked ==
    \A e \in Watched : []<>(\E k \in DOMAIN checks[e] : checks[e][k].age <= 1)
=============================================================================
