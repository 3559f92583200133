--------------------------- MODULE CheckerProofs ---------------------------
(***************************************************************************)
(* A stop makes at most one check look like a failure; the rows of the     *)
(* API's window stay whatever is pruned; and what a payload shows as the   *)
(* current state of an endpoint is counted in its buckets: for any         *)
(* endpoints, any retention, any window within it, and any number of       *)
(* stops, crashes and failing statements.                                  *)
(***************************************************************************)
EXTENDS StatusApi, FiniteSetTheorems, TLAPS

-----------------------------------------------------------------------------
(* Rows that are kept, in their order. *)

Rank(K, k) == Cardinality({j \in K : j <= k})

LEMMA RankType ==
    ASSUME NEW K, IsFiniteSet(K), NEW k
    PROVE  IsFiniteSet({j \in K : j <= k}) /\ Rank(K, k) \in Nat
BY FS_Subset, FS_CardinalityType DEF Rank

LEMMA RankIncreases ==
    ASSUME NEW K \in SUBSET Nat, IsFiniteSet(K), NEW k \in K, NEW l \in K, k < l
    PROVE  Rank(K, k) < Rank(K, l)
<1> DEFINE A == {j \in K : j <= k}
           B == {j \in K : j <= l}
<1>1. k \in Nat /\ l \in Nat
  OBVIOUS
<1>2. A \subseteq B /\ l \in B /\ l \notin A
  <2>1. \A j \in K : j \in Nat /\ (j <= k => j <= l)
    BY <1>1
  <2>2. l <= l /\ ~(l <= k)
    BY <1>1
  <2> QED
    BY <2>1, <2>2
<1>3. IsFiniteSet(A) /\ IsFiniteSet(B) /\ Cardinality(A) \in Nat /\ Cardinality(B) \in Nat
  BY RankType DEF Rank
<1>4. Cardinality(A) <= Cardinality(B) /\ Cardinality(A) # Cardinality(B)
  <2> HIDE DEF A, B
  <2> QED
    BY <1>2, <1>3, FS_Subset
<1>5. Cardinality(A) < Cardinality(B)
  <2> HIDE DEF A, B
  <2> QED
    BY <1>3, <1>4
<1> QED
  BY <1>5 DEF Rank

\* A finite set of numbers is counted by Nth, in order.
LEMMA NthCounts ==
    ASSUME NEW K \in SUBSET Nat, IsFiniteSet(K)
    PROVE  /\ Cardinality(K) \in Nat
           /\ \A n \in 1 .. Cardinality(K) : Nth(K, n) \in K /\ Rank(K, Nth(K, n)) = n
           /\ \A k \in K : Rank(K, k) \in 1 .. Cardinality(K) /\ Nth(K, Rank(K, k)) = k
<1> DEFINE N == Cardinality(K)
           f == [k \in K |-> Rank(K, k)]
<1>1. N \in Nat
  BY FS_CardinalityType
<1>2. ASSUME NEW k \in K
      PROVE  Rank(K, k) \in 1 .. N
  <2> DEFINE A == {j \in K : j <= k}
  <2>1. IsFiniteSet(A) /\ Cardinality(A) \in Nat
    BY RankType DEF Rank
  <2>2. A \subseteq K /\ A # {}
    BY <1>2
  <2>3. Cardinality(A) <= N /\ Cardinality(A) # 0
    <3> HIDE DEF A
    <3> QED
      BY <2>1, <2>2, FS_Subset, FS_EmptySet
  <2>4. Cardinality(A) \in 1 .. N
    <3> HIDE DEF A, N
    <3> QED
      BY <1>1, <2>1, <2>3
  <2> QED
    BY <2>4 DEF Rank
<1>3. \A k, l \in K : Rank(K, k) = Rank(K, l) => k = l
  <2> SUFFICES ASSUME NEW k \in K, NEW l \in K, Rank(K, k) = Rank(K, l), k # l PROVE FALSE
    OBVIOUS
  <2>1. k < l \/ l < k
    OBVIOUS
  <2>2. Rank(K, k) < Rank(K, l) \/ Rank(K, l) < Rank(K, k)
    BY <2>1, RankIncreases
  <2>3. Rank(K, k) \in Nat
    BY RankType
  <2> QED
    BY <2>2, <2>3
<1>4. \A n \in 1 .. N : \E k \in K : Rank(K, k) = n
  <2>1. f \in Injection(K, 1 .. N)
    BY <1>2, <1>3 DEF Injection, IsInjective
  <2>2. IsFiniteSet(1 .. N) /\ Cardinality(1 .. N) = N
    BY <1>1, FS_Interval
  <2>3. f \in Surjection(K, 1 .. N)
    BY <2>1, <2>2, FS_Injection
  <2> QED
    BY <2>3 DEF Surjection
<1>5. \A n : Nth(K, n) = CHOOSE k \in K : Rank(K, k) = n
  BY DEF Nth, Rank
<1>6. \A n \in 1 .. N : Nth(K, n) \in K /\ Rank(K, Nth(K, n)) = n
  BY <1>4, <1>5
<1>7. \A k \in K : Nth(K, Rank(K, k)) = k
  BY <1>2, <1>3, <1>6
<1> QED
  BY <1>1, <1>2, <1>6, <1>7

LEMMA NthIs ==
    ASSUME NEW K \in SUBSET Nat, IsFiniteSet(K), NEW k \in K, NEW n, Rank(K, k) = n
    PROVE  Nth(K, n) = k
BY NthCounts

LEMMA NthIncreases ==
    ASSUME NEW K \in SUBSET Nat, IsFiniteSet(K),
           NEW m \in 1 .. Cardinality(K), NEW n \in 1 .. Cardinality(K)
    PROVE  m <= n <=> Nth(K, m) <= Nth(K, n)
<1> DEFINE k == Nth(K, m)
           l == Nth(K, n)
<1>1. k \in K /\ l \in K /\ Rank(K, k) = m /\ Rank(K, l) = n /\ m \in Nat /\ n \in Nat
  BY NthCounts
<1> HIDE DEF k, l
<1>2. k \in Nat /\ l \in Nat
  BY <1>1
<1>3. k < l => m < n
  BY <1>1, RankIncreases
<1>4. l < k => n < m
  BY <1>1, RankIncreases
<1>5. m <= n <=> k <= l
  BY <1>1, <1>2, <1>3, <1>4
<1> QED
  BY <1>5 DEF k, l

\* As many numbers as places.
LEMMA AsManyPlaces ==
    ASSUME NEW K \in SUBSET Nat, IsFiniteSet(K), NEW X \in SUBSET (1 .. Cardinality(K))
    PROVE  IsFiniteSet(X) /\ Cardinality({Nth(K, n) : n \in X}) = Cardinality(X)
<1> DEFINE Y == {Nth(K, n) : n \in X}
           b == [n \in X |-> Nth(K, n)]
<1>1. IsFiniteSet(X)
  <2>1. Cardinality(K) \in Int /\ 1 \in Int
    BY NthCounts
  <2>2. IsFiniteSet(1 .. Cardinality(K))
    BY <2>1, FS_Interval
  <2> QED
    BY <2>2, FS_Subset
<1>2. b \in Bijection(X, Y)
  <2>1. b \in [X -> Y]
    OBVIOUS
  <2>2. \A m, n \in X : b[m] = b[n] => m = n
    BY NthCounts
  <2>3. \A y \in Y : \E n \in X : b[n] = y
    OBVIOUS
  <2> QED
    BY <2>1, <2>2, <2>3 DEF Bijection, Injection, Surjection, IsInjective
<1>3. Cardinality(Y) = Cardinality(X)
  <2> HIDE DEF b, Y
  <2> QED
    BY <1>1, <1>2, FS_Bijection DEF ExistsBijection
<1> QED
  BY <1>1, <1>3

\* What is kept of what was kept, if it would have been kept at once.
LEMMA NthOfNth ==
    ASSUME NEW K \in SUBSET Nat, IsFiniteSet(K), NEW W \in SUBSET K, NEW V,
           V = {n \in 1 .. Cardinality(K) : Nth(K, n) \in W}
    PROVE  /\ Cardinality(V) = Cardinality(W)
           /\ \A m \in 1 .. Cardinality(W) : Nth(K, Nth(V, m)) = Nth(W, m)
<1>1. /\ IsFiniteSet(W) /\ W \in SUBSET Nat
      /\ V \in SUBSET (1 .. Cardinality(K)) /\ V \in SUBSET Nat
  <2>1. IsFiniteSet(W)
    BY FS_Subset
  <2>2. V \subseteq 1 .. Cardinality(K)
    OBVIOUS
  <2>3. 1 .. Cardinality(K) \subseteq Nat
    BY NthCounts
  <2> QED
    BY <2>1, <2>2, <2>3
<1>2. IsFiniteSet(V)
  BY <1>1, AsManyPlaces
<1>3. W = {Nth(K, n) : n \in V}
  <2>1. \A k \in W : Rank(K, k) \in V /\ Nth(K, Rank(K, k)) = k
    BY NthCounts
  <2> QED
    BY <2>1
<1>4. Cardinality(V) = Cardinality(W)
  BY <1>1, <1>3, AsManyPlaces
<1>5. ASSUME NEW m \in 1 .. Cardinality(W)
      PROVE  Nth(K, Nth(V, m)) = Nth(W, m)
  <2> DEFINE n == Nth(V, m)
             k == Nth(K, n)
             X == {i \in V : i <= n}
  <2>1. n \in V /\ Rank(V, n) = m
    BY <1>1, <1>2, <1>4, NthCounts
  <2>2. k \in W
    BY <2>1
  <2>3. {j \in W : j <= k} = {Nth(K, i) : i \in X}
    <3>1. \A i \in V : i <= n <=> Nth(K, i) <= k
      BY <1>1, <2>1, NthIncreases
    <3> HIDE DEF n, k
    <3> QED
      BY <1>3, <3>1
  <2>4. Rank(W, k) = Cardinality(X)
    <3>1. X \in SUBSET (1 .. Cardinality(K))
      BY <1>1
    <3> HIDE DEF X, k
    <3> QED
      BY <2>3, <3>1, AsManyPlaces DEF Rank
  <2>5. Rank(W, k) = m
    BY <2>1, <2>4 DEF Rank
  <2>6. Nth(W, m) = k
    <3> HIDE DEF k
    <3> QED
      BY <1>1, <2>2, <2>5, NthIs
  <2> QED
    BY <2>6
<1> QED
  BY <1>4, <1>5

LEMMA TablePlaces ==
    ASSUME NEW rows \in Seq(Row), NEW K \in SUBSET DOMAIN rows
    PROVE  /\ DOMAIN rows = 1 .. Len(rows) /\ Len(rows) \in Nat
           /\ K \in SUBSET Nat /\ IsFiniteSet(K)
<1>1. DOMAIN rows = 1 .. Len(rows) /\ Len(rows) \in Nat
  OBVIOUS
<1>2. IsFiniteSet(DOMAIN rows)
  BY <1>1, FS_Interval
<1>3. DOMAIN rows \subseteq Nat
  BY <1>1
<1> QED
  BY <1>1, <1>2, <1>3, FS_Subset

LEMMA KeepingIsTable ==
    ASSUME NEW rows \in Seq(Row), NEW K \in SUBSET DOMAIN rows
    PROVE  /\ Keeping(rows, K) \in Seq(Row) /\ Len(Keeping(rows, K)) = Cardinality(K)
           /\ DOMAIN Keeping(rows, K) = 1 .. Cardinality(K) /\ Cardinality(K) \in Nat
           /\ \A n \in 1 .. Cardinality(K) : Keeping(rows, K)[n] = rows[Nth(K, n)]
<1> DEFINE N == Cardinality(K)
<1>1. N \in Nat /\ \A n \in 1 .. N : Nth(K, n) \in K
  BY TablePlaces, NthCounts
<1>2. \A k \in K : rows[k] \in Row
  BY TablePlaces
<1>3. Keeping(rows, K) = [n \in 1 .. N |-> rows[Nth(K, n)]]
  BY DEF Keeping
<1> HIDE DEF N
<1>4. [n \in 1 .. N |-> rows[Nth(K, n)]] \in [1 .. N -> Row]
  BY <1>1, <1>2
<1>5. Keeping(rows, K) \in Seq(Row) /\ Len(Keeping(rows, K)) = N
  BY <1>1, <1>3, <1>4
<1> QED
  BY <1>1, <1>3, <1>5 DEF N

\* No row of the window is beyond the retention.
LEMMA RecentOfPruned ==
    ASSUME NEW rows \in Seq(Row)
    PROVE  Recent(Pruned(rows)) = Recent(rows)
<1> DEFINE K == {k \in DOMAIN rows : Young(rows[k])}
           W == {k \in DOMAIN rows : rows[k].age <= Window}
           V == {n \in 1 .. Cardinality(K) : Nth(K, n) \in W}
           P == Keeping(rows, K)
<1>1. W \subseteq K
  <2>1. \A k \in DOMAIN rows : rows[k].age \in Nat
    <3>1. \A k \in DOMAIN rows : rows[k] \in Row
      OBVIOUS
    <3> QED
      BY <3>1, CheckerAssumption DEF Row, Ages
  <2>2. Window \in Nat /\ Retain \in Nat /\ Window <= Retain
    BY CheckerAssumption, WindowAssumption
  <2> QED
    BY <2>1, <2>2 DEF Young
<1>2. /\ K \in SUBSET Nat /\ IsFiniteSet(K) /\ K \in SUBSET DOMAIN rows /\ W \in SUBSET DOMAIN rows
  BY TablePlaces
<1>3. /\ Cardinality(V) = Cardinality(W)
      /\ \A m \in 1 .. Cardinality(W) : Nth(K, Nth(V, m)) = Nth(W, m)
  <2> HIDE DEF K, W
  <2> QED
    BY <1>1, <1>2, NthOfNth
<1>4. /\ DOMAIN P = 1 .. Cardinality(K) /\ P \in Seq(Row)
      /\ \A n \in DOMAIN P : P[n] = rows[Nth(K, n)] /\ Nth(K, n) \in DOMAIN rows
  <2> HIDE DEF K
  <2>1. /\ DOMAIN P = 1 .. Cardinality(K) /\ P \in Seq(Row)
        /\ \A n \in 1 .. Cardinality(K) : P[n] = rows[Nth(K, n)]
    BY <1>2, KeepingIsTable
  <2>2. \A n \in 1 .. Cardinality(K) : Nth(K, n) \in K
    BY <1>2, NthCounts
  <2> QED
    BY <1>2, <2>1, <2>2
<1>5. {n \in DOMAIN P : P[n].age <= Window} = V
  <2> HIDE DEF P, K
  <2> QED
    BY <1>4
<1>6. V \in SUBSET DOMAIN P
  BY <1>4
<1>7. Recent(P) = [m \in 1 .. Cardinality(V) |-> P[Nth(V, m)]]
  <2> HIDE DEF P, V
  <2>1. Recent(P) = Keeping(P, {n \in DOMAIN P : P[n].age <= Window})
    BY DEF Recent
  <2>2. Recent(P) = Keeping(P, V)
    BY <1>5, <2>1
  <2> QED
    BY <2>2 DEF Keeping
<1>8. \A m \in 1 .. Cardinality(W) : Nth(V, m) \in DOMAIN P
  <2> HIDE DEF V, P, W
  <2> QED
    BY <1>3, <1>4, <1>6, TablePlaces, NthCounts
<1>9. Recent(rows) = [m \in 1 .. Cardinality(W) |-> rows[Nth(W, m)]]
  BY DEF Recent, Keeping
<1>10. Pruned(rows) = P
  BY DEF Pruned
<1> HIDE DEF V, P, W, K
<1> QED
  BY <1>3, <1>4, <1>7, <1>8, <1>9, <1>10

LEMMA RecentOfAppended ==
    ASSUME NEW rows \in Seq(Row), NEW row \in Row
    PROVE  IsPrefixOf(Recent(rows), Recent(Append(rows, row)))
<1> DEFINE more == Append(rows, row)
           K == {k \in DOMAIN rows : rows[k].age <= Window}
           L == {k \in DOMAIN more : more[k].age <= Window}
           n == Len(rows)
<1>1. /\ more \in Seq(Row) /\ n \in Nat /\ DOMAIN rows = 1 .. n /\ DOMAIN more = 1 .. n + 1
      /\ \A k \in 1 .. n : more[k] = rows[k]
  OBVIOUS
<1>2. /\ K \in SUBSET Nat /\ IsFiniteSet(K) /\ L \in SUBSET Nat /\ IsFiniteSet(L)
      /\ K \in SUBSET DOMAIN rows /\ L \in SUBSET DOMAIN more
  <2> HIDE DEF more
  <2> QED
    BY <1>1, TablePlaces
<1>3. K \subseteq L /\ \A k \in L : k \in K \/ k = n + 1
  <2> HIDE DEF more
  <2> QED
    BY <1>1
<1>4. Cardinality(K) \in Nat /\ Cardinality(L) \in Nat /\ Cardinality(K) <= Cardinality(L)
  <2> HIDE DEF K, L
  <2> QED
    BY <1>2, <1>3, FS_Subset, FS_CardinalityType
<1>5. ASSUME NEW m \in 1 .. Cardinality(K)
      PROVE  Nth(L, m) = Nth(K, m) /\ Nth(K, m) \in K
  <2> DEFINE k == Nth(K, m)
  <2>1. k \in K /\ Rank(K, k) = m
    <3> HIDE DEF K
    <3> QED
      BY <1>2, NthCounts
  <2>2. k \in 1 .. n
    BY <1>1, <2>1
  <2>3. {j \in L : j <= k} = {j \in K : j <= k}
    <3> HIDE DEF K, L, k
    <3> QED
      BY <1>1, <1>3, <2>2
  <2>4. Rank(L, k) = m /\ k \in L
    BY <1>3, <2>1, <2>3 DEF Rank
  <2> HIDE DEF L
  <2>5. Nth(L, m) = k
    BY <1>2, <2>4, NthIs
  <2> QED
    BY <2>1, <2>5
<1>6. /\ Recent(rows) = Keeping(rows, K) /\ Recent(more) = Keeping(more, L)
  BY DEF Recent
<1> HIDE DEF K, L, more
<1>7. /\ Len(Recent(rows)) = Cardinality(K) /\ DOMAIN Recent(rows) = 1 .. Cardinality(K)
      /\ Len(Recent(more)) = Cardinality(L)
      /\ \A m \in 1 .. Cardinality(K) : Recent(rows)[m] = rows[Nth(K, m)]
      /\ \A m \in 1 .. Cardinality(L) : Recent(more)[m] = more[Nth(L, m)]
  BY <1>1, <1>2, <1>6, KeepingIsTable
<1>8. \A m \in 1 .. Cardinality(K) : m \in 1 .. Cardinality(L)
  BY <1>4
<1>9. \A m \in 1 .. Cardinality(K) : Recent(rows)[m] = Recent(more)[m]
  <2>1. \A k \in K : more[k] = rows[k]
    BY <1>1, <1>2
  <2> QED
    BY <1>5, <1>7, <1>8, <2>1
<1>10. IsPrefixOf(Recent(rows), Recent(more))
  BY <1>4, <1>7, <1>9 DEF IsPrefixOf
<1> QED
  BY <1>10 DEF more

-----------------------------------------------------------------------------
(* The types. *)

\* A request is made for an endpoint of the configuration.
Underway == round.pc \in {"model", "ask", "insert"} => round.i <= Len(Order)

CheckerInv == TypeOK /\ Underway /\ stops <= faults

AllRounds ==
    [pc : Places, i : 1 .. (Len(Order) + 1), table : DOMAIN PruneOrder, result : Result]

LEMMA CheckerConstants ==
    /\ Len(Order) \in Nat /\ Retain \in Nat /\ MaxFaults \in Nat
    /\ Window \in Nat /\ Window <= Retain
    /\ DOMAIN PruneOrder = 1 .. 3 /\ Len(PruneOrder) = 3
    /\ 0 \in Ages /\ \A a \in Ages : Older(a) \in Ages /\ a \in Nat
<1>1. Len(Order) \in Nat /\ Retain \in Nat /\ MaxFaults \in Nat
  BY CheckerAssumption
<1>2. Window \in Nat /\ Window <= Retain
  BY <1>1, WindowAssumption
<1>3. DOMAIN PruneOrder = 1 .. 3 /\ Len(PruneOrder) = 3
  BY DEF PruneOrder
<1>4. 0 \in Ages /\ \A a \in Ages : Older(a) \in Ages /\ a \in Nat
  BY <1>1 DEF Ages, Older
<1> QED
  BY <1>1, <1>2, <1>3, <1>4

LEMMA StandStill ==
    /\ AtIdle \in AllRounds /\ AtIdle.pc = "idle"
    /\ AtLoop \in AllRounds /\ AtLoop.pc = "loop"
    /\ [AtIdle EXCEPT !.pc = "prune"] \in AllRounds /\ [AtIdle EXCEPT !.pc = "prune"].pc = "prune"
    /\ \A k \in 1 .. (Len(Order) + 1) :
          [AtLoop EXCEPT !.i = k] \in AllRounds /\ [AtLoop EXCEPT !.i = k].pc = "loop"
<1>1. NoResult \in Result
  BY CheckerConstants DEF NoResult, Result
<1>2. 1 \in 1 .. (Len(Order) + 1) /\ 1 \in DOMAIN PruneOrder
  BY CheckerConstants
<1>3. "idle" \in Places /\ "loop" \in Places /\ "prune" \in Places
  BY DEF Places
<1>4. ASSUME NEW p \in Places, NEW k \in 1 .. (Len(Order) + 1)
      PROVE  [pc |-> p, i |-> k, table |-> 1, result |-> NoResult] \in AllRounds
  BY <1>1, <1>2 DEF AllRounds
<1>5. AtIdle = [pc |-> "idle", i |-> 1, table |-> 1, result |-> NoResult]
  BY DEF AtIdle
<1>6. AtLoop = [pc |-> "loop", i |-> 1, table |-> 1, result |-> NoResult]
  BY <1>5 DEF AtLoop
<1>7. [AtIdle EXCEPT !.pc = "prune"] = [pc |-> "prune", i |-> 1, table |-> 1, result |-> NoResult]
  BY <1>5
<1>8. \A k : [AtLoop EXCEPT !.i = k] = [pc |-> "loop", i |-> k, table |-> 1, result |-> NoResult]
  BY <1>6
<1> QED
  BY <1>2, <1>3, <1>4, <1>5, <1>6, <1>7, <1>8

LEMMA AgedIsTable ==
    ASSUME NEW rows \in Seq(Row)
    PROVE  /\ Aged(rows) \in Seq(Row) /\ DOMAIN Aged(rows) = DOMAIN rows
           /\ \A k \in DOMAIN rows : Aged(rows)[k] = [rows[k] EXCEPT !.age = Older(@)]
<1>1. \A k \in DOMAIN rows : rows[k] \in Row
  OBVIOUS
<1>2. \A r \in Row : [r EXCEPT !.age = Older(@)] \in Row
  BY CheckerConstants DEF Row
<1>3. Aged(rows) = [k \in 1 .. Len(rows) |-> [rows[k] EXCEPT !.age = Older(@)]]
  BY DEF Aged
<1>4. Len(rows) \in Nat /\ DOMAIN rows = 1 .. Len(rows)
  OBVIOUS
<1>5. Aged(rows) \in [1 .. Len(rows) -> Row]
  BY <1>1, <1>2, <1>3, <1>4
<1> QED
  BY <1>3, <1>4, <1>5

LEMMA PrunedIsTable ==
    ASSUME NEW rows \in Seq(Row)
    PROVE  Pruned(rows) \in Seq(Row)
BY KeepingIsTable DEF Pruned

\* What the steps of the checker do to the rows of an endpoint.
LEMMA ActSteps ==
    ASSUME CheckerInv, Act \/ UNCHANGED vars, NEW e \in Watched
    PROVE  \/ checks'[e] = checks[e]
           \/ \E row \in Row : checks'[e] = Append(checks[e], row)
           \/ checks'[e] = Pruned(checks[e])
<1>1. checks \in [Watched -> Seq(Row)] /\ round \in AllRounds
  BY DEF CheckerInv, TypeOK, AllRounds
<1>2. CASE InsertCheck
  <2>1. StoredRow \in Row
    BY <1>1 DEF StoredRow, Row, AllRounds, Result
  <2>2. CASE Asked \in Watched
    <3>1. checks' = [checks EXCEPT ![Asked] = Append(@, StoredRow)]
      BY <1>2, <2>2 DEF InsertCheck, Store
    <3>2. checks'[e] = checks[e] \/ checks'[e] = Append(checks[e], StoredRow)
      BY <1>1, <3>1
    <3> QED
      BY <2>1, <3>2
  <2>3. CASE Asked \notin Watched
    BY <1>2, <2>3 DEF InsertCheck, Store
  <2> QED
    BY <2>2, <2>3
<1>3. CASE Prune
  BY <1>3 DEF Prune, PruneOne
<1>4. RoundStep => InsertCheck \/ Prune \/ UNCHANGED checks
  BY DEF RoundStep, BeginRound, LeaveLoop, NextEndpoint, FetchModel, Ask, InsertFails, PruneFails
<1>5. MainStep \/ StoreOldJob \/ Stop \/ Crash \/ UNCHANGED vars => UNCHANGED checks
  BY DEF MainStep, StartUp, Serve, CloseDb, Exit, Gone, StoreOldJob, Stop, Crash, vars
<1> QED
  BY <1>2, <1>3, <1>4, <1>5 DEF Act

LEMMA TableSteps ==
    ASSUME CheckerInv, [Next]_vars, NEW e \in Watched
    PROVE  \/ checks'[e] = checks[e]
           \/ checks'[e] = Aged(checks[e])
           \/ \E row \in Row : checks'[e] = Append(checks[e], row)
           \/ checks'[e] = Pruned(checks[e])
BY ActSteps DEF Next, Hour

LEMMA TableTyped ==
    ASSUME CheckerInv, [Next]_vars
    PROVE  checks' \in [Watched -> Seq(Row)]
<1>1. checks \in [Watched -> Seq(Row)]
  BY DEF CheckerInv, TypeOK
<1>2. checks' = [e \in Watched |-> checks'[e]]
  <2>1. CASE Hour
    BY <2>1 DEF Hour
  <2>2. CASE RoundStep
    BY <1>1, <2>2 DEF RoundStep, BeginRound, LeaveLoop, NextEndpoint, FetchModel, Ask,
                      InsertCheck, Store, InsertFails, Prune, PruneOne, PruneFails
  <2>3. CASE MainStep \/ StoreOldJob \/ Stop \/ Crash \/ UNCHANGED vars
    BY <1>1, <2>3 DEF MainStep, StartUp, Serve, CloseDb, Exit, Gone, StoreOldJob, Stop, Crash, vars
  <2> QED
    BY <2>1, <2>2, <2>3 DEF Next, Act
<1>3. ASSUME NEW e \in Watched
      PROVE  checks'[e] \in Seq(Row)
  <2>1. checks[e] \in Seq(Row)
    BY <1>1
  <2>2. \A row \in Row : Append(checks[e], row) \in Seq(Row)
    BY <2>1
  <2> QED
    BY <2>1, <2>2, TableSteps, AgedIsTable, PrunedIsTable
<1> QED
  BY <1>2, <1>3

\* Where the call of RunOnce is after a step, and what it has in hand.
LEMMA RoundTyped ==
    ASSUME CheckerInv, [Next]_vars
    PROVE  round' \in AllRounds /\ Underway'
<1>1. round \in AllRounds /\ Underway /\ cancelled \in BOOLEAN
  BY DEF CheckerInv, TypeOK, AllRounds
<1>2. /\ Len(Order) \in Nat /\ round.i \in 1 .. (Len(Order) + 1) /\ round.table \in 1 .. 3
      /\ round.pc \in Places /\ round.result \in Result
  BY <1>1, CheckerConstants DEF AllRounds
<1>3. {"gone", "model", "ask", "insert"} \subseteq Places
  BY DEF Places
<1>4. CASE round' \in {AtIdle, AtLoop, [AtIdle EXCEPT !.pc = "prune"]}
  BY <1>4, StandStill DEF Underway
<1>5. CASE Hour
  <2>1. round' = [round EXCEPT !.result.age = Older(@)]
    BY <1>5 DEF Hour
  <2>2. [round.result EXCEPT !.age = Older(@)] \in Result
    BY <1>2, CheckerConstants DEF Result
  <2>3. round' = [round EXCEPT !.result = [round.result EXCEPT !.age = Older(@)]]
    BY <1>1, <2>1 DEF AllRounds
  <2>4. round' \in AllRounds /\ round'.pc = round.pc /\ round'.i = round.i
    BY <1>1, <2>2, <2>3 DEF AllRounds
  <2> QED
    BY <1>1, <2>4 DEF Underway
<1>6. CASE LeaveLoop
  <2>1. round' = [round EXCEPT !.pc = "gone"]
    BY <1>6 DEF LeaveLoop
  <2>2. round' \in AllRounds /\ round'.pc = "gone"
    BY <1>1, <1>3, <2>1 DEF AllRounds
  <2> QED
    BY <2>2 DEF Underway
<1>7. CASE round.i <= Len(Order) /\ \E p \in {"model", "ask"} : round' = [round EXCEPT !.pc = p]
  <2>1. PICK p \in {"model", "ask"} : round' = [round EXCEPT !.pc = p]
    BY <1>7
  <2>2. round' \in AllRounds /\ round'.i = round.i
    BY <1>1, <1>3, <2>1 DEF AllRounds
  <2> QED
    BY <1>7, <2>2 DEF Underway
<1>8. CASE Ask
  <2>1. PICK up \in BOOLEAN :
          round' = [round EXCEPT !.pc = "insert",
                       !.result = [age |-> 0, up |-> up, cut |-> cancelled]]
    BY <1>8 DEF Ask
  <2>2. [age |-> 0, up |-> up, cut |-> cancelled] \in Result
    BY <1>1, CheckerConstants DEF Result
  <2>3. round' \in AllRounds /\ round'.i = round.i
    BY <1>1, <1>3, <2>1, <2>2 DEF AllRounds
  <2> QED
    BY <1>1, <1>8, <2>3 DEF Underway, Ask
<1>9. CASE round.pc = "insert" /\ Advance
  <2>1. round.i + 1 \in 1 .. (Len(Order) + 1)
    BY <1>1, <1>2, <1>9 DEF Underway
  <2> QED
    BY <1>9, <2>1, StandStill DEF Advance, Underway
<1>10. CASE Prune
  <2>1. round.pc = "prune"
        /\ round' = IF round.table = 3 THEN AtIdle ELSE [round EXCEPT !.table = round.table + 1]
    BY <1>10, CheckerConstants DEF Prune, PruneOne
  <2>2. CASE round.table # 3
    <3>1. round.table + 1 \in DOMAIN PruneOrder
      BY <1>2, <2>2, CheckerConstants
    <3>2. round' \in AllRounds /\ round'.pc = "prune"
      BY <1>1, <2>1, <2>2, <3>1 DEF AllRounds
    <3> QED
      BY <3>2 DEF Underway
  <2> QED
    BY <1>4, <2>1, <2>2
<1>11. CASE UNCHANGED round
  BY <1>1, <1>11 DEF Underway
<1>12. CASE NextEndpoint
  <2>1. \/ round' \in {AtIdle, [AtIdle EXCEPT !.pc = "prune"]}
        \/ ~(round.i > Len(Order)) /\ round' = [round EXCEPT !.pc = AskOrFetch(Order[round.i])]
    BY <1>12 DEF NextEndpoint
  <2>2. AskOrFetch(Order[round.i]) \in {"model", "ask"}
    BY DEF AskOrFetch
  <2>3. ~(round.i > Len(Order)) => round.i <= Len(Order)
    BY <1>2
  <2> QED
    BY <1>4, <1>7, <2>1, <2>2, <2>3
<1>13. CASE FetchModel
  BY <1>1, <1>7, <1>13 DEF FetchModel, Underway
<1>14. CASE BeginRound \/ InsertCheck \/ InsertFails \/ PruneFails
  BY <1>4, <1>9, <1>14 DEF BeginRound, InsertCheck, InsertFails, PruneFails
<1>15. CASE MainStep \/ StoreOldJob \/ Stop \/ Crash \/ UNCHANGED vars
  BY <1>4, <1>11, <1>15 DEF MainStep, StartUp, Serve, CloseDb, Exit, Gone, StoreOldJob, Stop, Crash,
                            vars
<1> QED
  BY <1>5, <1>6, <1>8, <1>10, <1>12, <1>13, <1>14, <1>15 DEF Next, Act, RoundStep

LEMMA CheckerStep == CheckerInv /\ [Next]_vars => CheckerInv'
<1> SUFFICES ASSUME CheckerInv, [Next]_vars PROVE CheckerInv'
  OBVIOUS
<1>1. /\ life \in {"down", "starting", "serving", "closing"} /\ cancelled \in BOOLEAN
      /\ due \in BOOLEAN /\ stale \subseteq OtherRows /\ stops \in 0 .. MaxFaults /\ cuts \in Nat
      /\ faults \in 0 .. MaxFaults /\ stops <= faults /\ MaxFaults \in Nat
  BY CheckerConstants DEF CheckerInv, TypeOK
<1>2. checks' \in [Watched -> Seq(Row)] /\ round' \in AllRounds /\ Underway'
  BY TableTyped, RoundTyped
<1>3. /\ life' \in {"down", "starting", "serving", "closing"} /\ cancelled' \in BOOLEAN
      /\ due' \in BOOLEAN /\ stale' \subseteq OtherRows
  <2>1. CASE Hour \/ StoreOldJob \/ Stop \/ Crash \/ UNCHANGED vars
    BY <1>1, <2>1 DEF Hour, StoreOldJob, Stop, Crash, Gone, vars, OtherRows
  <2>2. CASE MainStep
    BY <1>1, <2>2 DEF MainStep, StartUp, Serve, CloseDb, Exit, Gone
  <2>3. CASE RoundStep
    BY <1>1, <2>3 DEF RoundStep, BeginRound, LeaveLoop, NextEndpoint, FetchModel, Ask,
                      InsertCheck, InsertFails, Prune, PruneOne, PruneFails
  <2> QED
    BY <2>1, <2>2, <2>3 DEF Next, Act
<1>4. /\ \/ UNCHANGED <<stops, faults>>
         \/ Fault /\ stops' = stops
         \/ Fault /\ stops' = stops + 1
      /\ cuts' \in {cuts, cuts + 1}
  <2>1. CASE Hour \/ StoreOldJob \/ Stop \/ Crash \/ UNCHANGED vars
    BY <2>1 DEF Hour, StoreOldJob, Stop, Crash, Gone, vars
  <2>2. CASE MainStep
    BY <2>2 DEF MainStep, StartUp, Serve, CloseDb, Exit, Gone
  <2>3. CASE RoundStep
    BY <2>3 DEF RoundStep, BeginRound, LeaveLoop, NextEndpoint, FetchModel, Ask,
                InsertCheck, InsertFails, Prune, PruneOne, PruneFails
  <2> QED
    BY <2>1, <2>2, <2>3 DEF Next, Act
<1>5. stops' \in 0 .. MaxFaults /\ faults' \in 0 .. MaxFaults /\ stops' <= faults' /\ cuts' \in Nat
  BY <1>1, <1>4 DEF Fault
<1> QED
  BY <1>2, <1>3, <1>5 DEF CheckerInv, TypeOK, AllRounds

LEMMA CheckerInit == Init => CheckerInv
<1> SUFFICES ASSUME Init PROVE CheckerInv
  OBVIOUS
<1>1. checks \in [Watched -> Seq(Row)]
  BY DEF Init
<1>2. round \in AllRounds /\ Underway
  BY StandStill DEF Init, Underway
<1>3. /\ life = "down" /\ cancelled = FALSE /\ due = FALSE /\ stale = {}
      /\ stops = 0 /\ cuts = 0 /\ faults = 0
  BY DEF Init
<1>4. 0 \in 0 .. MaxFaults
  BY CheckerConstants
<1>5. TypeOK
  BY <1>1, <1>2, <1>3, <1>4 DEF TypeOK, AllRounds
<1> QED
  BY <1>2, <1>3, <1>5 DEF CheckerInv

-----------------------------------------------------------------------------
(* Stops and the checks they cut. *)

\* No request and no result is pending.
Resting == round.pc \in {"idle", "loop", "prune", "gone"}

\* The only step that counts stores a cut result; all others, but for the requests, leave
\* nothing pending or what was.
LEMMA StopStep == CheckerInv /\ StopInv /\ [Next]_vars => StopInv'
<1> SUFFICES ASSUME CheckerInv, StopInv, [Next]_vars PROVE StopInv'
  OBVIOUS
<1>1. /\ round \in AllRounds /\ cancelled \in BOOLEAN /\ cuts \in Nat /\ stops \in Nat
      /\ cuts <= stops
  BY CheckerConstants DEF CheckerInv, TypeOK, AllRounds, StopInv
<1>2. ASSUME Resting', cuts' = cuts, stops' = stops
      PROVE  StopInv'
  BY <1>1, <1>2 DEF Resting, StopInv
<1>3. CASE UNCHANGED <<round, cancelled, cuts, stops>>
  BY <1>3 DEF StopInv
<1>4. CASE InsertCheck
  <2>1. Resting' /\ stops' = stops
    <3>1. round' = [AtLoop EXCEPT !.i = round.i + 1]
      BY <1>4 DEF InsertCheck, Advance
    <3>2. round'.pc = "loop"
      BY <3>1 DEF AtLoop, AtIdle
    <3> QED
      BY <1>4, <3>2 DEF Resting, InsertCheck
  <2>2. cuts' <= stops
    <3>1. CASE round.result.cut = TRUE
      <4>1. cuts < stops /\ cuts' = cuts + 1
        BY <1>4, <3>1 DEF InsertCheck, StopInv
      <4> QED
        BY <1>1, <4>1
    <3>2. CASE ~(round.result.cut = TRUE)
      BY <1>1, <1>4, <3>2 DEF InsertCheck
    <3> QED
      BY <3>1, <3>2
  <2> QED
    BY <2>1, <2>2 DEF Resting, StopInv
<1>5. CASE NextEndpoint
  <2>1. UNCHANGED <<cancelled, cuts, stops>>
    BY <1>5 DEF NextEndpoint
  <2>2. CASE Resting'
    BY <1>2, <2>1, <2>2
  <2>3. CASE ~Resting'
    <3>1. ~cancelled /\ round'.pc \in {"model", "ask"}
      <4>1. round' = [round EXCEPT !.pc = AskOrFetch(Order[round.i])] /\ ~cancelled
        BY <1>5, <2>3, StandStill DEF NextEndpoint, Resting
      <4> QED
        BY <1>1, <4>1 DEF AskOrFetch, AllRounds
    <3> QED
      BY <1>1, <2>1, <3>1 DEF StopInv
  <2> QED
    BY <2>2, <2>3
<1>6. CASE FetchModel
  <2>1. round.pc = "model" /\ round' = [round EXCEPT !.pc = "ask"]
        /\ UNCHANGED <<cancelled, cuts, stops>>
    BY <1>6 DEF FetchModel
  <2>2. round'.pc = "ask"
    BY <1>1, <2>1 DEF AllRounds
  <2> QED
    BY <2>1, <2>2 DEF StopInv
<1>7. CASE Ask
  <2>1. round.pc = "ask" /\ UNCHANGED <<cancelled, cuts, stops>>
    BY <1>7 DEF Ask
  <2>2. round'.pc = "insert" /\ round'.result.cut = cancelled
    BY <1>1, <1>7 DEF Ask, AllRounds
  <2> QED
    BY <1>1, <2>1, <2>2 DEF StopInv
<1>8. CASE Hour
  <2>1. UNCHANGED <<cancelled, cuts, stops>> /\ round' = [round EXCEPT !.result.age = Older(@)]
    BY <1>8 DEF Hour
  <2>2. round'.pc = round.pc /\ round'.result.cut = round.result.cut
    BY <1>1, <2>1 DEF AllRounds, Result
  <2> QED
    BY <2>1, <2>2 DEF StopInv
<1>9. CASE Stop
  <2>1. stops' = stops + 1 /\ cuts' = cuts
    BY <1>9 DEF Stop
  <2> QED
    BY <1>1, <2>1 DEF StopInv
<1>10. CASE BeginRound \/ LeaveLoop \/ InsertFails \/ Prune \/ PruneFails
  <2>1. cuts' = cuts /\ stops' = stops
    BY <1>10 DEF BeginRound, LeaveLoop, InsertFails, Prune, PruneOne, PruneFails
  <2>2. Resting'
    <3>1. CASE BeginRound \/ PruneFails
      BY <3>1, StandStill DEF BeginRound, PruneFails, Resting
    <3>2. CASE LeaveLoop
      BY <1>1, <3>2 DEF LeaveLoop, Resting, AllRounds
    <3>3. CASE InsertFails
      BY <3>3 DEF InsertFails, Advance, AtLoop, AtIdle, Resting
    <3>4. CASE Prune
      <4>1. round' = AtIdle \/ round' = [round EXCEPT !.table = round.table + 1]
        BY <3>4 DEF Prune, PruneOne
      <4>2. round.pc = "prune"
        BY <3>4 DEF Prune, PruneOne
      <4> QED
        BY <1>1, <4>1, <4>2, StandStill DEF Resting, AllRounds
    <3> QED
      BY <1>10, <3>1, <3>2, <3>3, <3>4
  <2> QED
    BY <1>2, <2>1, <2>2
<1>11. CASE StartUp \/ Exit \/ Crash
  BY <1>2, <1>11, StandStill DEF StartUp, Exit, Crash, Gone, Resting
<1>12. CASE Serve \/ CloseDb \/ StoreOldJob \/ UNCHANGED vars
  BY <1>3, <1>12 DEF Serve, CloseDb, StoreOldJob, vars
<1> QED
  BY <1>4, <1>5, <1>6, <1>7, <1>8, <1>9, <1>10, <1>11, <1>12 DEF Next, Act, RoundStep, MainStep

\* A step of the composition is a step of the checker, or leaves it alone.
LEMMA ApiRefinesChecker == ApiSpec => Spec
<1>1. ApiInit => Init
  BY DEF ApiInit
<1>2. [ApiNext]_apiVars => [Next]_vars
  BY DEF ApiNext, Next, ApiStep, apiVars
<1> QED
  BY <1>1, <1>2, PTL DEF ApiSpec, Spec

\* OneFalseDownPerStop: RunOnce looks at the context before every endpoint, so that only the
\* request under way at the moment of the signal can be cut.
THEOREM StopCostsOneCheck == ApiSpec => []OneFalseDownPerStop
<1>1. Init => CheckerInv /\ StopInv
  BY CheckerInit, StandStill DEF Init, StopInv
<1>2. StopInv => OneFalseDownPerStop
  BY DEF StopInv, OneFalseDownPerStop
<1> QED
  BY <1>1, <1>2, CheckerStep, StopStep, ApiRefinesChecker, PTL DEF Spec

-----------------------------------------------------------------------------
(* The API next to the checker. *)

PartOK ==
    \/ part = NotBegun
    \/ part \in [pc : {"buckets"}, ep : Watched, current : {<<>>} \union {<<r>> : r \in Row}]

\* The row that was read as the latest is in the table for as long as PruneOld keeps it.
CountedInv ==
    part.pc = "buckets" =>
        \A k \in DOMAIN part.current :
            part.current[k].age <= Retain =>
                \E j \in DOMAIN checks[part.ep] : checks[part.ep][j] = part.current[k]

ApiInv == CheckerInv /\ PartOK /\ CountedInv

LEMMA PrunedKeepsYoung ==
    ASSUME NEW rows \in Seq(Row), NEW j \in DOMAIN rows, Young(rows[j])
    PROVE  \E i \in DOMAIN Pruned(rows) : Pruned(rows)[i] = rows[j]
<1> DEFINE K == {k \in DOMAIN rows : Young(rows[k])}
<1>1. j \in K /\ K \in SUBSET DOMAIN rows
  OBVIOUS
<1>2. Pruned(rows) = Keeping(rows, K)
  BY DEF Pruned
<1> HIDE DEF K
<1>3. /\ DOMAIN Pruned(rows) = 1 .. Cardinality(K)
      /\ \A n \in 1 .. Cardinality(K) : Pruned(rows)[n] = rows[Nth(K, n)]
  BY <1>1, <1>2, KeepingIsTable
<1>4. Rank(K, j) \in 1 .. Cardinality(K) /\ Nth(K, Rank(K, j)) = j
  BY <1>1, TablePlaces, NthCounts
<1> QED
  BY <1>3, <1>4

LEMMA AgedParts ==
    /\ Aged(<<>>) = <<>>
    /\ \A r \in Row : Aged(<<r>>) \in {<<q>> : q \in Row}
<1>1. Aged(<<>>) = <<>>
  <2>1. <<>> \in Seq(Row) /\ DOMAIN <<>> = {}
    OBVIOUS
  <2> DEFINE s == Aged(<<>>)
  <2>2. s \in Seq(Row) /\ DOMAIN s = {}
    BY <2>1, AgedIsTable
  <2> HIDE DEF s
  <2>3. s = <<>>
    BY <2>2
  <2> QED
    BY <2>3 DEF s
<1>2. ASSUME NEW r \in Row
      PROVE  Aged(<<r>>) \in {<<q>> : q \in Row}
  <2>1. <<r>> \in Seq(Row) /\ DOMAIN <<r>> = 1 .. 1
    OBVIOUS
  <2>2. Aged(<<r>>) \in Seq(Row) /\ DOMAIN Aged(<<r>>) = 1 .. 1
    BY <2>1, AgedIsTable
  <2> DEFINE s == Aged(<<r>>)
  <2> HIDE DEF s
  <2>3. s \in Seq(Row) /\ DOMAIN s = 1 .. 1
    BY <2>2 DEF s
  <2>4. s[1] \in Row /\ s = <<s[1]>>
    BY <2>3
  <2> QED
    BY <2>4 DEF s
<1> QED
  BY <1>1, <1>2

\* Time: what was read and what is stored get older alike.
LEMMA HourKeepsPart ==
    ASSUME ApiInv, Hour, part' = PartAged
    PROVE  PartOK' /\ CountedInv'
<1>1. checks \in [Watched -> Seq(Row)] /\ checks' = [e \in Watched |-> Aged(checks[e])]
  BY DEF ApiInv, CheckerInv, TypeOK, Hour
<1>2. CASE part = NotBegun
  <2>1. part' = NotBegun
    BY <1>2, AgedParts DEF PartAged, NotBegun
  <2> QED
    BY <2>1 DEF PartOK, CountedInv, NotBegun
<1>3. CASE part \in [pc : {"buckets"}, ep : Watched, current : {<<>>} \union {<<r>> : r \in Row}]
  <2> DEFINE c == part.current
             rows == checks[part.ep]
  <2>1. /\ c \in {<<>>} \union {<<r>> : r \in Row} /\ part.ep \in Watched /\ part.pc = "buckets"
        /\ part'.pc = "buckets" /\ part'.ep = part.ep /\ part'.current = Aged(c)
        /\ part' = [pc |-> "buckets", ep |-> part.ep, current |-> Aged(c)]
    BY <1>3 DEF PartAged
  <2>2. Aged(c) \in {<<>>} \union {<<r>> : r \in Row}
    BY <2>1, AgedParts
  <2>3. PartOK'
    BY <2>1, <2>2 DEF PartOK
  <2>4. c \in Seq(Row) /\ rows \in Seq(Row) /\ checks'[part.ep] = Aged(rows)
    <3>1. <<>> \in Seq(Row) /\ \A r \in Row : <<r>> \in Seq(Row)
      OBVIOUS
    <3> QED
      BY <1>1, <2>1, <3>1
  <2>5. ASSUME NEW k \in DOMAIN c, Aged(c)[k].age <= Retain
        PROVE  \E j \in DOMAIN Aged(rows) : Aged(rows)[j] = Aged(c)[k]
    <3>1. Aged(c)[k] = [c[k] EXCEPT !.age = Older(@)] /\ c[k] \in Row
      BY <2>4, AgedIsTable
    <3>2. Aged(c)[k].age = Older(c[k].age) /\ c[k].age \in Nat
      BY <3>1, CheckerConstants DEF Row
    <3>3. c[k].age <= Retain
      BY <2>5, <3>2, CheckerConstants DEF Older
    <3>4. PICK j \in DOMAIN rows : rows[j] = c[k]
      BY <2>1, <3>3 DEF ApiInv, CountedInv
    <3>5. j \in DOMAIN Aged(rows) /\ Aged(rows)[j] = [rows[j] EXCEPT !.age = Older(@)]
      BY <2>4, AgedIsTable
    <3> QED
      BY <3>1, <3>4, <3>5
  <2>6. DOMAIN Aged(c) = DOMAIN c
    BY <2>4, AgedIsTable
  <2>7. CountedInv'
    BY <2>1, <2>4, <2>5, <2>6 DEF CountedInv
  <2> QED
    BY <2>3, <2>7
<1> QED
  BY <1>2, <1>3 DEF ApiInv, PartOK

\* The checker only adds rows and takes those beyond the retention.
LEMMA ActKeepsPart ==
    ASSUME ApiInv, Act \/ UNCHANGED vars, UNCHANGED part
    PROVE  PartOK' /\ CountedInv'
<1>1. PartOK'
  BY DEF ApiInv, PartOK
<1>2. SUFFICES ASSUME part.pc = "buckets", NEW k \in DOMAIN part.current,
                      part.current[k].age <= Retain
               PROVE  \E j \in DOMAIN checks'[part.ep] : checks'[part.ep][j] = part.current[k]
  BY <1>1 DEF CountedInv
<1> DEFINE rows == checks[part.ep]
<1>3. part.ep \in Watched
  BY <1>2 DEF ApiInv, PartOK, NotBegun
<1>4. rows \in Seq(Row)
  BY <1>3 DEF ApiInv, CheckerInv, TypeOK
<1>5. PICK j \in DOMAIN rows : rows[j] = part.current[k]
  BY <1>2 DEF ApiInv, CountedInv
<1>6. CASE checks'[part.ep] = rows
  BY <1>5, <1>6
<1>7. ASSUME NEW row \in Row, checks'[part.ep] = Append(rows, row)
      PROVE  \E i \in DOMAIN checks'[part.ep] : checks'[part.ep][i] = part.current[k]
  <2>1. j \in DOMAIN Append(rows, row) /\ Append(rows, row)[j] = rows[j]
    BY <1>4, <1>5
  <2> QED
    BY <1>5, <1>7, <2>1
<1>8. CASE checks'[part.ep] = Pruned(rows)
  BY <1>2, <1>4, <1>5, <1>8, PrunedKeepsYoung DEF Young
<1> QED
  BY <1>3, <1>6, <1>7, <1>8, ActSteps DEF ApiInv

LEMMA QueriesKeepPart ==
    ASSUME ApiInv, ApiStep
    PROVE  PartOK' /\ CountedInv'
<1>1. checks' = checks /\ checks \in [Watched -> Seq(Row)]
  BY DEF ApiStep, vars, ApiInv, CheckerInv, TypeOK
<1>2. CASE GetLatest
  <2>1. PICK e \in Watched : part' = [pc |-> "buckets", ep |-> e, current |-> LatestCheck(e)]
    BY <1>2 DEF GetLatest
  <2> DEFINE rows == checks[e]
  <2>2. rows \in Seq(Row)
    BY <1>1
  <2>3. CASE rows = <<>>
    <3>1. LatestCheck(e) = <<>> /\ DOMAIN <<>> = {}
      BY <2>3 DEF LatestCheck
    <3> QED
      BY <2>1, <3>1 DEF PartOK, CountedInv
  <2>4. CASE rows # <<>>
    <3>1. Len(rows) \in DOMAIN rows /\ rows[Len(rows)] \in Row
      BY <2>2, <2>4
    <3>2. LatestCheck(e) = <<rows[Len(rows)]>>
      BY <2>4 DEF LatestCheck
    <3>3. PartOK'
      BY <2>1, <3>1, <3>2 DEF PartOK
    <3>4. \A k \in DOMAIN LatestCheck(e) : LatestCheck(e)[k] = rows[Len(rows)]
      BY <3>2
    <3>5. part'.ep = e /\ part'.current = LatestCheck(e)
      BY <2>1
    <3> QED
      BY <1>1, <3>1, <3>3, <3>4, <3>5 DEF CountedInv
  <2> QED
    BY <2>3, <2>4
<1>3. CASE part' = NotBegun
  BY <1>3 DEF PartOK, CountedInv, NotBegun
<1> QED
  BY <1>2, <1>3 DEF ApiStep, GetBuckets, QueryFails

LEMMA ApiInvariant == ApiSpec => []ApiInv
<1>1. ApiInit => ApiInv
  BY CheckerInit DEF ApiInit, ApiInv, PartOK, CountedInv, NotBegun
<1>2. ApiInv /\ [ApiNext]_apiVars => ApiInv'
  <2> SUFFICES ASSUME ApiInv, [ApiNext]_apiVars PROVE ApiInv'
    OBVIOUS
  <2>1. [Next]_vars
    BY DEF ApiNext, Next, ApiStep, apiVars
  <2>2. CheckerInv'
    BY <2>1, CheckerStep DEF ApiInv
  <2>3. PartOK' /\ CountedInv'
    BY HourKeepsPart, ActKeepsPart, QueriesKeepPart DEF ApiNext, apiVars
  <2> QED
    BY <2>2, <2>3 DEF ApiInv
<1> QED
  BY <1>1, <1>2, PTL DEF ApiSpec

\* The type invariant: Prune stays within its tables, the loop within the endpoints, and there
\* are no more stops than faults.
THEOREM ApiTypes == ApiSpec => []ApiTypeOK
<1>1. ApiInv => ApiTypeOK
  BY DEF ApiInv, CheckerInv, PartOK, ApiTypeOK
<1> QED
  BY <1>1, ApiInvariant, PTL

\* CurrentIsCounted: between the two queries of buildStatus the checker may add rows, and
\* PruneOld takes none that the window of the buckets still reaches.
THEOREM CurrentCounted == ApiSpec => CurrentIsCounted
<1>1. ASSUME ApiInv, GetBuckets, NEW k \in DOMAIN part.current, part.current[k].age <= Window
      PROVE  HourBuckets(part.ep)[part.current[k].age][part.current[k].up] > 0
  <2> DEFINE row == part.current[k]
             rows == checks[part.ep]
             Same == {j \in DOMAIN rows : rows[j] = [age |-> row.age, up |-> row.up]}
  <2>1. part.pc = "buckets" /\ part.ep \in Watched /\ row \in Row
    BY <1>1 DEF GetBuckets, ApiInv, PartOK, NotBegun
  <2>2. rows \in Seq(Row)
    <3>1. checks \in [Watched -> Seq(Row)]
      BY <1>1 DEF ApiInv, CheckerInv, TypeOK
    <3> QED
      BY <2>1, <3>1
  <2>3. row.age \in Nat /\ row.up \in BOOLEAN /\ row = [age |-> row.age, up |-> row.up]
    BY <2>1, CheckerConstants DEF Row
  <2>4. row.age \in 0 .. Window /\ row.age <= Retain
    BY <1>1, <2>3, CheckerConstants
  <2>5. PICK j \in DOMAIN rows : rows[j] = row
    BY <1>1, <2>1, <2>4 DEF ApiInv, CountedInv
  <2>6. j \in Same
    BY <2>3, <2>5
  <2>7. IsFiniteSet(Same) /\ Cardinality(Same) \in Nat /\ Cardinality(Same) # 0
    <3>1. IsFiniteSet(Same)
      BY <2>2, TablePlaces
    <3> HIDE DEF Same
    <3> QED
      BY <2>6, <3>1, FS_EmptySet, FS_CardinalityType
  <2>8. HourBuckets(part.ep)[row.age][row.up] = Cardinality(Same)
    <3> HIDE DEF row
    <3> QED
      BY <2>3, <2>4 DEF HourBuckets
  <2> QED
    BY <2>7, <2>8
<1>2. ApiInv => (GetBuckets => \A k \in DOMAIN part.current :
                    LET row == part.current[k]
                    IN  row.age <= Window => HourBuckets(part.ep)[row.age][row.up] > 0)
  BY <1>1
<1> QED
  BY <1>2, ApiInvariant, PTL DEF CurrentIsCounted

\* WindowKept: PruneOld takes no row of the window, and a restart none at all.
THEOREM WindowIsKept == ApiSpec => WindowKept
<1>1. ASSUME ApiInv, [ApiNext]_apiVars, NEW e \in Watched
      PROVE  \/ IsPrefixOf(Recent(checks[e]), Recent(checks'[e]))
             \/ checks'[e] = Aged(checks[e])
  <2>1. [Next]_vars
    BY <1>1 DEF ApiNext, Next, ApiStep, apiVars
  <2>2. checks[e] \in Seq(Row)
    BY <1>1 DEF ApiInv, CheckerInv, TypeOK
  <2>3. IsPrefixOf(Recent(checks[e]), Recent(checks[e]))
    <3>1. Len(Recent(checks[e])) \in Nat
      BY <2>2, KeepingIsTable DEF Recent
    <3> QED
      BY <3>1 DEF IsPrefixOf
  <2> QED
    BY <1>1, <2>1, <2>2, <2>3, TableSteps, RecentOfPruned, RecentOfAppended DEF ApiInv
<1>2. ApiInv /\ [ApiNext]_apiVars =>
         [\A e \in Watched :
             \/ IsPrefixOf(Recent(checks[e]), Recent(checks'[e]))
             \/ checks'[e] = Aged(checks[e])]_apiVars
  BY <1>1
<1> QED
  BY <1>2, ApiInvariant, PTL DEF ApiSpec, WindowKept
=============================================================================
