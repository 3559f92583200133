--------------------------- MODULE PublishProofs ---------------------------
(***************************************************************************)
(* The stages of publication follow each other, nothing that a killed cp   *)
(* left is staged, and the files of the branch stem from snapshots that    *)
(* are near each other: for any files in any order, any number of          *)
(* half-written snapshots, calls that meet at any point, and whatever      *)
(* pushes fail and commands are killed.                                    *)
(***************************************************************************)
EXTENDS Publish, FiniteSetTheorems, TLAPS

Types ==
    /\ call \in Nat /\ left \in [Calls -> 0 .. Len(WriteOrder)] /\ met \in BOOLEAN
    /\ misses \in 0 .. MaxMisses
    /\ pc \in Commands \union {"idle"} /\ todo \subseteq Files /\ overlap \in 0 .. 2
    /\ repo \in {"none", "init", "remote", "ready"} /\ locked \in BOOLEAN
    /\ work \in [Files -> {Torn} \union 0 .. call]
    /\ snapshot \in [Files -> 0 .. call] /\ index \in [Files -> 0 .. call]
    /\ head \in [Files -> 0 .. call] /\ remote \in [Files -> 0 .. call]

Order(f) ==
    /\ index[f] <= snapshot[f] + 1
    /\ head[f] <= index[f] + 1 /\ head[f] <= snapshot[f] + 1
    /\ remote[f] <= head[f] + 1 /\ remote[f] <= index[f] + 1 /\ remote[f] <= snapshot[f] + 1
    /\ work[f] # Torn =>
          /\ work[f] <= snapshot[f] + 1
          /\ index[f] <= work[f] + 1 /\ head[f] <= work[f] + 1 /\ remote[f] <= work[f] + 1

Orders == \A f \in Files : Order(f)

\* How many calls are under way, and how many calls the oldest file of the directory may lag
\* behind the latest one: a file may be of the call before that an overlapping one wrote last.
Count == (IF left["earlier"] > 0 THEN 1 ELSE 0) + (IF left["later"] > 0 THEN 1 ELSE 0)
Lag == misses + Count + 1

\* What a call under way has written is not older than the earlier of the calls that met.
WriterInv ==
    /\ left["later"] > 0 => met
    /\ \A c \in UnderWay : Number(c) > 0
    /\ \A f \in Files : snapshot[f] > 0 => call - snapshot[f] <= Lag
    /\ \A c \in UnderWay : \A k \in 1 .. Len(WriteOrder) - left[c] :
          snapshot[WriteOrder[k]] >= Number("earlier")

RepoInv ==
    /\ pc = "init" => repo = "none"
    /\ repo = "none" => \A f \in Files : remote[f] = 0

\* What cp has copied is no older than what the directory held when it began, and at most two
\* calls have been under way since.
CopiedSince(f) == pc = "add" \/ (pc = "cp" /\ f \notin todo)
Since == IF pc = "cp" THEN overlap ELSE 2

CopyInv ==
    /\ pc = "cp" => (\A f \in todo : snapshot[f] > 0) /\ Count <= overlap
    /\ \A f \in Files : CopiedSince(f) =>
          /\ work[f] # Torn
          /\ work[f] > 0 => call - work[f] <= MaxMisses + 1 + Since
    /\ \A f \in Files : work[f] # 0 => snapshot[f] > 0

PublishInv == Types /\ Orders /\ WriterInv /\ RepoInv /\ CopyInv /\ PartsTogether

-----------------------------------------------------------------------------
(* The numbers after a renumbering. *)

LEMMA LowNumbers ==
    ASSUME call \in Nat, NEW v \in Int
    PROVE  IsFiniteSet({n \in Kept : n <= v}) /\ Cardinality({n \in Kept : n <= v}) \in Nat
<1>1. IsFiniteSet(1 .. call)
  BY FS_Interval
<1>2. {n \in Kept : n <= v} \in SUBSET (1 .. call)
  BY DEF Kept
<1>3. IsFiniteSet({n \in Kept : n <= v})
  BY <1>1, <1>2, FS_Subset
<1> QED
  BY <1>3, FS_CardinalityType

LEMMA RenumberTyped ==
    ASSUME call \in Nat, NEW v \in Int
    PROVE  /\ Renumber(v) \in Int
           /\ v \in Nat => Renumber(v) \in Nat
           /\ v <= 0 => Renumber(v) = v
<1>1. Cardinality({n \in Kept : n <= v}) \in Nat
  BY LowNumbers
<1> QED
  BY <1>1 DEF Renumber

\* The newer stays the newer, and no distance grows.
LEMMA RenumberMonotone ==
    ASSUME call \in Nat, NEW v \in Int, NEW w \in Int, v <= w
    PROVE  /\ Renumber(v) <= Renumber(w)
           /\ Renumber(w) - Renumber(v) <= w - v
<1> DEFINE Low(x) == {n \in Kept : n <= x}
<1>1. /\ IsFiniteSet(Low(v)) /\ Cardinality(Low(v)) \in Nat
      /\ IsFiniteSet(Low(w)) /\ Cardinality(Low(w)) \in Nat
  BY LowNumbers
<1>2. \A n \in Kept : n \in 1 .. call /\ n \in Int
  BY DEF Kept
<1>3. Low(v) \in SUBSET Low(w)
  <2>1. \A n \in Kept : n <= v => n <= w
    BY <1>2
  <2> QED
    BY <2>1
<1>4. Cardinality(Low(v)) <= Cardinality(Low(w))
  BY <1>1, <1>3, FS_Subset
<1>5. \A b \in Int : b >= 0 /\ b <= w => Cardinality(Low(w)) <= Cardinality(Low(b)) + (w - b)
  <2> SUFFICES ASSUME NEW b \in Int, b >= 0, b <= w
               PROVE  Cardinality(Low(w)) <= Cardinality(Low(b)) + (w - b)
    OBVIOUS
  <2>1. IsFiniteSet(Low(b)) /\ Cardinality(Low(b)) \in Nat
    BY LowNumbers
  <2>2. IsFiniteSet(b + 1 .. w) /\ Cardinality(b + 1 .. w) = w - b
    <3>1. b + 1 \in Int
      OBVIOUS
    <3>2. /\ IsFiniteSet(b + 1 .. w)
          /\ Cardinality(b + 1 .. w) = IF b + 1 > w THEN 0 ELSE w - (b + 1) + 1
      BY <3>1, FS_Interval
    <3> QED
      BY <3>2
  <2>3. /\ IsFiniteSet(Low(b) \cup (b + 1 .. w))
        /\ Cardinality(Low(b) \cup (b + 1 .. w))
             = Cardinality(Low(b)) + Cardinality(b + 1 .. w) - Cardinality(Low(b) \cap (b + 1 .. w))
    BY <2>1, <2>2, FS_Union
  <2>4. Low(b) \cap (b + 1 .. w) = {}
    BY <1>2
  <2>5. Cardinality(Low(b) \cap (b + 1 .. w)) = 0
    BY <2>4, FS_EmptySet
  <2>6. Low(w) \in SUBSET (Low(b) \cup (b + 1 .. w))
    <3>1. \A n \in Kept : n <= w => n <= b \/ n \in b + 1 .. w
      BY <1>2
    <3> QED
      BY <3>1
  <2>7. Cardinality(Low(w)) <= Cardinality(Low(b) \cup (b + 1 .. w))
    BY <2>3, <2>6, FS_Subset
  <2> HIDE DEF Low
  <2> QED
    BY <2>1, <2>2, <2>3, <2>5, <2>7
<1>6. Cardinality(Low(0)) = 0
  <2>1. Low(0) = {}
    BY <1>2
  <2> QED
    BY <2>1, FS_EmptySet
<1>7. /\ Renumber(v) = IF v <= 0 THEN v ELSE Cardinality(Low(v))
      /\ Renumber(w) = IF w <= 0 THEN w ELSE Cardinality(Low(w))
  BY DEF Renumber
<1> HIDE DEF Low
<1>8. CASE w <= 0
  BY <1>7, <1>8
<1>9. CASE w > 0 /\ v <= 0
  <2>1. Cardinality(Low(w)) <= w
    BY <1>5, <1>6, <1>9
  <2> QED
    BY <1>1, <1>7, <1>9, <2>1
<1>10. CASE v > 0
  <2>1. Cardinality(Low(w)) <= Cardinality(Low(v)) + (w - v)
    BY <1>5, <1>10
  <2> QED
    BY <1>1, <1>4, <1>7, <1>10, <2>1
<1> QED
  BY <1>8, <1>9, <1>10

LEMMA RenumberBack ==
    ASSUME call \in Nat, NEW v \in Int, NEW w \in Int, v <= w + 1
    PROVE  Renumber(v) <= Renumber(w) + 1
<1>1. Renumber(v) \in Int /\ Renumber(w) \in Int
  BY RenumberTyped
<1>2. CASE v <= w
  <2>1. Renumber(v) <= Renumber(w)
    BY <1>2, RenumberMonotone
  <2> QED
    BY <1>1, <2>1
<1>3. CASE w <= v
  <2>1. Renumber(v) - Renumber(w) <= v - w
    BY <1>3, RenumberMonotone
  <2> QED
    BY <1>1, <2>1
<1> QED
  BY <1>2, <1>3

\* A number in use stays one.
LEMMA RenumberPresent ==
    ASSUME call \in Nat, NEW v \in Kept
    PROVE  Renumber(v) > 0
<1> DEFINE Low == {n \in Kept : n <= v}
<1>1. v \in 1 .. call
  BY DEF Kept
<1>2. v \in Low /\ IsFiniteSet(Low) /\ Cardinality(Low) \in Nat
  <2>1. v <= v
    BY <1>1
  <2>2. v \in Low
    BY <2>1
  <2>3. IsFiniteSet(Low) /\ Cardinality(Low) \in Nat
    BY <1>1, LowNumbers
  <2> QED
    BY <2>2, <2>3
<1>3. Cardinality(Low) # 0
  BY <1>2, FS_EmptySet
<1>4. Renumber(v) = Cardinality(Low)
  BY <1>1 DEF Renumber
<1> HIDE DEF Low
<1> QED
  BY <1>2, <1>3, <1>4

LEMMA PresentKept ==
    ASSUME Types, PublishAssumption
    PROVE  /\ \A f \in Files : snapshot[f] > 0 => snapshot[f] \in Kept
           /\ call > 0 => call \in Kept
<1>1. call \in Nat /\ Apart \in Nat /\ Apart > 0
  BY DEF Types, Apart, PublishAssumption
<1>2. ASSUME NEW f \in Files, snapshot[f] > 0
      PROVE  snapshot[f] \in Kept
  <2>1. snapshot[f] \in 1 .. call
    BY <1>2 DEF Types
  <2>2. snapshot[f] \in InUse
    BY DEF InUse
  <2> QED
    BY <2>1, <2>2 DEF Kept
<1>3. ASSUME call > 0
      PROVE  call \in Kept
  <2>1. call \in Compared
    BY DEF Compared
  <2>2. call \in 1 .. call /\ call <= call /\ call < call + Apart
    BY <1>1, <1>3
  <2>3. \E u, v \in Compared : v <= call /\ call <= u /\ u < call + Apart
    BY <2>1, <2>2
  <2> QED
    BY <2>2, <2>3 DEF Kept
<1> QED
  BY <1>2, <1>3

LEMMA RenumberTogether ==
    ASSUME Types, PublishAssumption, NEW t, \A f \in Files : t[f] \in Nat, Together(t)
    PROVE  Together(Renumbered(t))
<1> SUFFICES ASSUME NEW f \in Files, NEW g \in Files,
                    Renumbered(t)[f] > 0, Renumbered(t)[g] > 0
             PROVE  Renumbered(t)[f] - Renumbered(t)[g] <= 3 + MaxMisses
  BY DEF Together
<1>1. /\ call \in Nat /\ MaxMisses \in Nat /\ t[f] \in Nat /\ t[g] \in Nat
      /\ Renumbered(t)[f] = Renumber(t[f]) /\ Renumbered(t)[g] = Renumber(t[g])
  BY DEF Types, PublishAssumption, Renumbered
<1>2. Renumber(t[f]) \in Nat /\ Renumber(t[g]) \in Nat
  BY <1>1, RenumberTyped
<1>3. t[f] > 0 /\ t[g] > 0
  BY <1>1, RenumberTyped
<1>4. t[f] - t[g] <= 3 + MaxMisses
  BY <1>3 DEF Together
<1>5. CASE t[g] <= t[f]
  <2>1. Renumber(t[f]) - Renumber(t[g]) <= t[f] - t[g]
    BY <1>1, <1>5, RenumberMonotone
  <2> QED
    BY <1>1, <1>2, <1>4, <2>1
<1>6. CASE t[f] <= t[g]
  <2>1. Renumber(t[f]) <= Renumber(t[g])
    BY <1>1, <1>6, RenumberMonotone
  <2> QED
    BY <1>1, <1>2, <2>1
<1> QED
  BY <1>1, <1>5, <1>6

-----------------------------------------------------------------------------
(* The collector. *)

LEMMA Numbers ==
    ASSUME Types, NEW f \in Files
    PROVE  /\ call \in Nat
           /\ snapshot[f] \in Nat /\ snapshot[f] <= call /\ work[f] \in Int /\ work[f] <= call
           /\ index[f] \in Nat /\ index[f] <= call /\ head[f] \in Nat /\ head[f] <= call
           /\ remote[f] \in Nat /\ remote[f] <= call
           /\ work[f] = Torn \/ work[f] \in Nat
BY DEF Types, Torn

\* There are at most two calls under way.
LEMMA Counted ==
    ASSUME Types
    PROVE  Count \in 0 .. 2 /\ Cardinality(UnderWay) = Count /\ (Count = 0 <=> UnderWay = {})
<1>1. left["earlier"] \in Nat /\ left["later"] \in Nat
  BY DEF Types, Calls
<1>2. Cardinality({}) = 0
  BY FS_EmptySet
<1>3. Cardinality({"earlier"}) = 1 /\ Cardinality({"later"}) = 1
  BY FS_Singleton
<1>4. IsFiniteSet({"earlier"}) /\ "later" \notin {"earlier"}
  BY FS_Singleton
<1>5. Cardinality({"earlier"} \cup {"later"}) = 2
  BY <1>3, <1>4, FS_AddElement
<1>6. CASE left["earlier"] > 0 /\ left["later"] > 0
  <2>1. UnderWay = {"earlier"} \cup {"later"} /\ Count = 2
    BY <1>6 DEF UnderWay, Calls, Count
  <2> QED
    BY <1>5, <2>1
<1>7. CASE left["earlier"] > 0 /\ ~(left["later"] > 0)
  <2>1. UnderWay = {"earlier"} /\ Count = 1
    BY <1>7 DEF UnderWay, Calls, Count
  <2> QED
    BY <1>3, <2>1
<1>8. CASE ~(left["earlier"] > 0) /\ left["later"] > 0
  <2>1. UnderWay = {"later"} /\ Count = 1
    BY <1>8 DEF UnderWay, Calls, Count
  <2> QED
    BY <1>3, <2>1
<1>9. CASE ~(left["earlier"] > 0) /\ ~(left["later"] > 0)
  <2>1. UnderWay = {} /\ Count = 0
    BY <1>9 DEF UnderWay, Calls, Count
  <2> QED
    BY <1>2, <2>1
<1> QED
  BY <1>6, <1>7, <1>8, <1>9

LEMMA PublishInit == PublishAssumption /\ Init => PublishInv
<1> SUFFICES ASSUME PublishAssumption, Init PROVE PublishInv
  OBVIOUS
<1>1. Len(WriteOrder) \in Nat /\ MaxMisses \in Nat
  BY DEF PublishAssumption
<1>2. /\ call = 0 /\ met = FALSE /\ misses = 0 /\ pc = "idle" /\ todo = {} /\ overlap = 0
      /\ repo = "none" /\ locked = FALSE /\ left = [c \in Calls |-> 0]
      /\ snapshot = Nothing /\ work = Nothing /\ index = Nothing /\ head = Nothing
      /\ remote = Nothing
  BY DEF Init
<1>3. \A f \in Files : Nothing[f] = 0
  BY DEF Nothing
<1>4. Nothing \in [Files -> 0 .. 0] /\ Nothing \in [Files -> {Torn} \union 0 .. 0]
  BY DEF Nothing
<1>5. Types
  <2>1. left \in [Calls -> 0 .. Len(WriteOrder)]
    BY <1>1, <1>2
  <2>2. /\ work \in [Files -> {Torn} \union 0 .. call] /\ snapshot \in [Files -> 0 .. call]
        /\ index \in [Files -> 0 .. call] /\ head \in [Files -> 0 .. call]
        /\ remote \in [Files -> 0 .. call]
    BY <1>2, <1>4
  <2>3. /\ call \in Nat /\ met \in BOOLEAN /\ misses \in 0 .. MaxMisses
        /\ pc \in Commands \union {"idle"} /\ todo \subseteq Files /\ overlap \in 0 .. 2
        /\ repo \in {"none", "init", "remote", "ready"} /\ locked \in BOOLEAN
    <3>1. call \in Nat /\ misses \in 0 .. MaxMisses /\ overlap \in 0 .. 2
      BY <1>1, <1>2
    <3>2. met \in BOOLEAN /\ locked \in BOOLEAN /\ todo \subseteq Files
      BY <1>2
    <3>3. pc \in Commands \union {"idle"} /\ repo \in {"none", "init", "remote", "ready"}
      BY <1>2
    <3> QED
      BY <3>1, <3>2, <3>3
  <2> QED
    BY <2>1, <2>2, <2>3 DEF Types
<1>6. Orders
  BY <1>2, <1>3 DEF Orders, Order
<1>7. UnderWay = {} /\ left["later"] = 0
  BY <1>2 DEF UnderWay, Calls
<1>8. WriterInv
  BY <1>2, <1>3, <1>7 DEF WriterInv
<1>9. RepoInv /\ CopyInv
  BY <1>2, <1>3 DEF RepoInv, CopyInv, CopiedSince
<1>10. PartsTogether
  BY <1>2, <1>3 DEF PartsTogether, Together
<1> QED
  BY <1>5, <1>6, <1>8, <1>9, <1>10 DEF PublishInv

LEMMA BeginWriteKeeps ==
    ASSUME PublishAssumption, PublishInv, BeginWrite
    PROVE  PublishInv'
<1> USE DEF PublishInv
<1> DEFINE new == IF UnderWay = {} THEN "earlier" ELSE "later"
<1>1. /\ call \in Nat /\ Renumber(call) \in Nat /\ call' = Renumber(call) + 1
      /\ Len(WriteOrder) \in Nat /\ Len(WriteOrder) > 0 /\ new \in Calls
      /\ left' = [left EXCEPT ![new] = Len(WriteOrder)] /\ met' = (UnderWay # {})
      /\ UnderWay = {} \/ (UnderWay = {"earlier"} /\ ~met)
      /\ MaxMisses \in Nat /\ misses \in 0 .. MaxMisses /\ misses' = misses /\ Torn = -1
      /\ pc' = pc /\ todo' = todo /\ repo' = repo /\ locked' = locked
      /\ pc \in {"idle", "cp"} /\ overlap' = (IF pc = "cp" THEN overlap + 1 ELSE 0)
      /\ overlap \in 0 .. 2 /\ (pc = "cp" => overlap < 2)
  <2>1. call \in Nat /\ call \in Int /\ overlap \in 0 .. 2 /\ misses \in 0 .. MaxMisses
    BY DEF Types
  <2>2. Renumber(call) \in Nat
    BY <2>1, RenumberTyped
  <2>3. Len(WriteOrder) \in Nat /\ Len(WriteOrder) > 0 /\ MaxMisses \in Nat /\ Torn = -1
    BY DEF PublishAssumption, Torn
  <2>4. /\ call' = Renumber(call) + 1 /\ left' = [left EXCEPT ![new] = Len(WriteOrder)]
        /\ met' = (UnderWay # {})
        /\ UnderWay = {} \/ (UnderWay = {"earlier"} /\ ~met)
        /\ misses' = misses /\ pc' = pc /\ todo' = todo /\ repo' = repo /\ locked' = locked
        /\ pc \in {"idle", "cp"} /\ overlap' = (IF pc = "cp" THEN overlap + 1 ELSE 0)
        /\ pc = "cp" => overlap < 2
    BY DEF BeginWrite, DirectoryRead
  <2>5. new \in Calls
    BY DEF Calls
  <2> QED
    BY <2>1, <2>2, <2>3, <2>4, <2>5
<1>2. /\ left \in [Calls -> 0 .. Len(WriteOrder)] /\ left' \in [Calls -> 0 .. Len(WriteOrder)]
      /\ \A c \in Calls : left'[c] = IF c = new THEN Len(WriteOrder) ELSE left[c]
  BY <1>1 DEF Types
<1>3. \A f \in Files : /\ snapshot'[f] = Renumber(snapshot[f]) /\ work'[f] = Renumber(work[f])
                       /\ index'[f] = Renumber(index[f]) /\ head'[f] = Renumber(head[f])
                       /\ remote'[f] = Renumber(remote[f])
  BY DEF BeginWrite, Renumbered
<1>4. \A v \in Int : /\ Renumber(v) \in Int /\ (v \in Nat => Renumber(v) \in Nat)
                     /\ v <= 0 => Renumber(v) = v
                     /\ v <= call => Renumber(v) <= Renumber(call)
                     /\ v <= call => Renumber(call) - Renumber(v) <= call - v
  <2> TAKE v \in Int
  <2>1. Renumber(v) \in Int /\ (v \in Nat => Renumber(v) \in Nat) /\ (v <= 0 => Renumber(v) = v)
    BY <1>1, RenumberTyped
  <2>2. ASSUME v <= call
        PROVE  /\ Renumber(v) <= Renumber(call)
               /\ Renumber(call) - Renumber(v) <= call - v
    <3>1. call \in Int
      BY <1>1
    <3> QED
      BY <1>1, <2>2, <3>1, RenumberMonotone
  <2> QED
    BY <2>1, <2>2
<1>5. Types'
  <2>1. DOMAIN snapshot' = Files /\ DOMAIN work' = Files /\ DOMAIN index' = Files
        /\ DOMAIN head' = Files /\ DOMAIN remote' = Files
    BY DEF BeginWrite, Renumbered
  <2>2. ASSUME NEW f \in Files
        PROVE  /\ snapshot'[f] \in 0 .. call' /\ index'[f] \in 0 .. call' /\ head'[f] \in 0 .. call'
               /\ remote'[f] \in 0 .. call' /\ work'[f] \in {Torn} \union 0 .. call'
    <3>1. ASSUME NEW v \in Nat, v <= call
          PROVE  Renumber(v) \in 0 .. call'
      <4>1. v \in Int /\ Renumber(v) \in Nat /\ Renumber(v) <= Renumber(call)
        BY <1>4, <3>1
      <4> QED
        BY <1>1, <4>1
    <3>2. work[f] = Torn => Renumber(work[f]) = Torn
      BY <1>1, <1>4
    <3> QED
      BY <1>3, <3>1, <3>2, Numbers
  <2>3. /\ snapshot' \in [Files -> 0 .. call'] /\ index' \in [Files -> 0 .. call']
        /\ head' \in [Files -> 0 .. call'] /\ remote' \in [Files -> 0 .. call']
    <3>1. /\ snapshot' = [f \in Files |-> snapshot'[f]] /\ index' = [f \in Files |-> index'[f]]
          /\ head' = [f \in Files |-> head'[f]] /\ remote' = [f \in Files |-> remote'[f]]
      BY DEF BeginWrite, Renumbered
    <3> QED
      BY <2>2, <3>1
  <2>4. work' \in [Files -> {Torn} \union 0 .. call']
    <3>1. work' = [f \in Files |-> work'[f]]
      BY DEF BeginWrite, Renumbered
    <3> QED
      BY <2>2, <3>1
  <2>5. /\ call' \in Nat /\ met' \in BOOLEAN /\ misses' \in 0 .. MaxMisses
        /\ pc' \in Commands \union {"idle"} /\ todo' \subseteq Files /\ overlap' \in 0 .. 2
        /\ repo' \in {"none", "init", "remote", "ready"} /\ locked' \in BOOLEAN
    BY <1>1 DEF Types
  <2> QED
    BY <1>2, <2>3, <2>4, <2>5 DEF Types
<1>6. Orders'
  <2> SUFFICES ASSUME NEW f \in Files PROVE Order(f)'
    BY DEF Orders
  <2>1. /\ snapshot[f] \in Int /\ work[f] \in Int /\ index[f] \in Int /\ head[f] \in Int
        /\ remote[f] \in Int /\ call \in Nat /\ Order(f)
    BY Numbers DEF Orders
  <2>2. \A v, u \in Int : v <= u + 1 => Renumber(v) <= Renumber(u) + 1
    BY <2>1, RenumberBack
  <2>3. work'[f] # Torn => work[f] # Torn
    <3>1. work[f] = Torn => work[f] <= 0
      BY <1>1
    <3> QED
      BY <1>3, <1>4, <2>1, <3>1
  <2>4. /\ index'[f] <= snapshot'[f] + 1
        /\ head'[f] <= index'[f] + 1 /\ head'[f] <= snapshot'[f] + 1
        /\ remote'[f] <= head'[f] + 1 /\ remote'[f] <= index'[f] + 1
        /\ remote'[f] <= snapshot'[f] + 1
    BY <1>3, <2>1, <2>2 DEF Order
  <2>5. work[f] # Torn =>
          /\ work'[f] <= snapshot'[f] + 1
          /\ index'[f] <= work'[f] + 1 /\ head'[f] <= work'[f] + 1 /\ remote'[f] <= work'[f] + 1
    BY <1>3, <2>1, <2>2 DEF Order
  <2> QED
    BY <2>3, <2>4, <2>5 DEF Order
<1>7. Count' = Count + 1 /\ Count \in 0 .. 1 /\ Lag' = Lag + 1 /\ Lag \in Nat
  <2>1. Count' = Count + 1 /\ Count \in 0 .. 1
    <3>1. CASE UnderWay = {}
      <4>1. left["earlier"] = 0 /\ left["later"] = 0
        BY <1>2, <3>1 DEF UnderWay, Calls
      <4> QED
        BY <1>1, <1>2, <3>1, <4>1 DEF Count, Calls
    <3>2. CASE UnderWay = {"earlier"}
      <4>1. left["earlier"] > 0 /\ left["later"] = 0
        BY <1>2, <3>2 DEF UnderWay, Calls
      <4> QED
        BY <1>1, <1>2, <3>2, <4>1 DEF Count, Calls
    <3> QED
      BY <1>1, <3>1, <3>2
  <2> QED
    BY <1>1, <2>1 DEF Lag
<1>8. WriterInv'
  <2>1. left'["later"] > 0 => met'
    BY <1>1, <1>2 DEF WriterInv, UnderWay, Calls
  <2>2. \A c \in UnderWay' : Number(c)' > 0
    <3>1. CASE UnderWay = {}
      <4>1. \A c \in UnderWay' : Number(c)' = call'
        BY <1>1, <3>1 DEF Number
      <4> QED
        BY <1>1, <4>1
    <3>2. CASE UnderWay = {"earlier"} /\ ~met
      <4>1. call > 0
        BY <3>2 DEF WriterInv, Number
      <4>2. Renumber(call) > 0
        BY <1>1, <4>1, PresentKept, RenumberPresent
      <4> QED
        BY <1>1, <4>2 DEF Number
    <3> QED
      BY <1>1, <3>1, <3>2
  <2>3. ASSUME NEW f \in Files, snapshot'[f] > 0
        PROVE  call' - snapshot'[f] <= Lag'
    <3>1. /\ snapshot[f] \in Nat /\ snapshot[f] <= call /\ Renumber(snapshot[f]) \in Nat
          /\ snapshot'[f] = Renumber(snapshot[f]) /\ snapshot[f] \in Int
      <4>1. snapshot[f] \in Nat /\ snapshot[f] <= call /\ snapshot[f] \in Int
        BY Numbers
      <4> QED
        BY <1>3, <1>4, <4>1
    <3>2. snapshot[f] > 0
      BY <1>4, <2>3, <3>1
    <3>3. call - snapshot[f] <= Lag
      BY <3>2 DEF WriterInv
    <3>4. Renumber(call) - Renumber(snapshot[f]) <= call - snapshot[f]
      BY <1>4, <3>1
    <3> QED
      BY <1>1, <1>7, <3>1, <3>3, <3>4
  <2>4. ASSUME NEW c \in UnderWay', NEW k \in 1 .. Len(WriteOrder) - left'[c]
        PROVE  snapshot'[WriteOrder[k]] >= Number("earlier")'
    <3>1. c \in Calls /\ c # new
      BY <1>1, <1>2, <2>4 DEF UnderWay
    <3>2. left[c] = left'[c] /\ c \in UnderWay
      BY <1>2, <2>4, <3>1 DEF UnderWay
    <3>3. UnderWay = {"earlier"} /\ ~met /\ c = "earlier" /\ met'
      BY <1>1, <3>2
    <3>4. WriteOrder[k] \in Files
      BY <1>1, <1>2, <3>1 DEF PublishAssumption
    <3>5. snapshot[WriteOrder[k]] >= call
      BY <3>2, <3>3 DEF WriterInv, Number
    <3>6. /\ snapshot[WriteOrder[k]] \in Nat /\ snapshot[WriteOrder[k]] <= call
          /\ snapshot'[WriteOrder[k]] = Renumber(snapshot[WriteOrder[k]])
      BY <1>3, <3>4, Numbers
    <3>7. snapshot'[WriteOrder[k]] = Renumber(call)
      <4>1. snapshot[WriteOrder[k]] = call
        BY <1>1, <3>5, <3>6
      <4> QED
        BY <3>6, <4>1
    <3>8. Number("earlier")' = Renumber(call)
      BY <1>1, <3>3 DEF Number
    <3> QED
      BY <1>1, <3>7, <3>8
  <2> QED
    BY <2>1, <2>2, <2>3, <2>4 DEF WriterInv
<1>9. RepoInv'
  <2>1. \A f \in Files : remote[f] = 0 => remote'[f] = 0
    BY <1>3, <1>4
  <2> QED
    BY <1>1, <2>1 DEF RepoInv
<1>10. CopyInv'
  <2>1. \A f \in Files : snapshot[f] > 0 => snapshot'[f] > 0
    BY <1>1, <1>3, PresentKept, RenumberPresent
  <2>2. ASSUME NEW f \in Files, CopiedSince(f)'
        PROVE  /\ work'[f] # Torn
               /\ work'[f] > 0 => call' - work'[f] <= MaxMisses + 1 + Since'
    <3>1. CopiedSince(f) /\ pc = "cp" /\ Since = overlap /\ Since' = overlap + 1
      BY <1>1, <2>2 DEF CopiedSince, Since
    <3>2. /\ work[f] # Torn /\ work[f] \in Nat /\ work[f] <= call
          /\ work'[f] = Renumber(work[f]) /\ Renumber(work[f]) \in Nat
          /\ Renumber(call) - Renumber(work[f]) <= call - work[f]
          /\ work[f] <= 0 => Renumber(work[f]) = work[f]
      BY <1>3, <1>4, <3>1, Numbers DEF CopyInv
    <3>3. work[f] > 0 => call - work[f] <= MaxMisses + 1 + overlap
      BY <3>1 DEF CopyInv
    <3>4. work'[f] # Torn
      BY <1>1, <3>2
    <3>5. work'[f] > 0 => call' - work'[f] <= MaxMisses + 1 + (overlap + 1)
      <4>1. work'[f] > 0 => work[f] > 0
        BY <3>2
      <4> QED
        BY <1>1, <3>2, <3>3, <4>1
    <3> QED
      BY <3>1, <3>4, <3>5
  <2>3. \A f \in Files : work'[f] # 0 => snapshot'[f] > 0
    <3> TAKE f \in Files
    <3>1. work'[f] # 0 => work[f] # 0
      BY <1>3, <1>4, Numbers
    <3> QED
      BY <2>1, <3>1 DEF CopyInv
  <2>4. pc' = "cp" => (\A f \in todo' : snapshot'[f] > 0) /\ Count' <= overlap'
    <3>1. pc = "cp" => (\A f \in todo : snapshot[f] > 0) /\ Count <= overlap
      BY DEF CopyInv
    <3>2. todo \subseteq Files
      BY DEF Types
    <3> QED
      BY <1>1, <1>7, <2>1, <3>1, <3>2
  <2> QED
    BY <2>2, <2>3, <2>4 DEF CopyInv
<1>11. PartsTogether'
  <2>1. \A f \in Files : index[f] \in Nat /\ head[f] \in Nat /\ remote[f] \in Nat
    BY Numbers
  <2>2. Together(Renumbered(index)) /\ Together(Renumbered(head)) /\ Together(Renumbered(remote))
    BY <2>1, RenumberTogether DEF PartsTogether
  <2>3. index' = Renumbered(index) /\ head' = Renumbered(head) /\ remote' = Renumbered(remote)
    BY DEF BeginWrite
  <2> QED
    BY <2>2, <2>3 DEF PartsTogether, Together
<1> QED
  BY <1>5, <1>6, <1>8, <1>9, <1>10, <1>11

\* What a step of a call leaves alone, and how many calls are under way after it.
LEMMA LeaveFacts ==
    ASSUME Types, NEW c \in UnderWay, NEW n \in 0 .. Len(WriteOrder), n < left[c], LeaveAt(c, n)
    PROVE  /\ UNCHANGED <<call, pc, todo, overlap, work, gitVars>>
           /\ left' \in [Calls -> 0 .. Len(WriteOrder)] /\ met' \in BOOLEAN
           /\ \A d \in Calls : left'[d] = IF d = c THEN n ELSE left[d]
           /\ UnderWay' \subseteq UnderWay /\ c \in Calls
           /\ UnderWay' # {} => (met' <=> met) /\ \A d \in Calls : Number(d)' = Number(d)
           /\ Count \in 0 .. 2 /\ Count' = Count - (IF n = 0 THEN 1 ELSE 0)
<1>1. /\ UNCHANGED <<call, pc, todo, overlap, work, gitVars>>
      /\ left' = [left EXCEPT ![c] = n] /\ met' = (met /\ UnderWay' # {})
  BY DEF LeaveAt
<1>2. c \in Calls /\ left \in [Calls -> 0 .. Len(WriteOrder)] /\ met \in BOOLEAN
  BY DEF UnderWay, Types
<1>3. /\ left' \in [Calls -> 0 .. Len(WriteOrder)] /\ met' \in BOOLEAN
      /\ \A d \in Calls : left'[d] = IF d = c THEN n ELSE left[d]
  BY <1>1, <1>2
<1>4. left[c] > 0 /\ \A d \in Calls : left[d] \in Int /\ left'[d] \in Int /\ left[d] >= 0
  BY <1>2, <1>3 DEF UnderWay
<1>5. UnderWay' \subseteq UnderWay
  BY <1>3, <1>4 DEF UnderWay
<1>6. UnderWay' # {} => (met' <=> met) /\ \A d \in Calls : Number(d)' = Number(d)
  BY <1>1, <1>2 DEF Number
<1>7. Count \in 0 .. 2 /\ Count' = Count - (IF n = 0 THEN 1 ELSE 0)
  <2>1. c = "earlier" \/ c = "later"
    BY <1>2 DEF Calls
  <2>2. CASE c = "earlier"
    <3>1. left'["earlier"] = n /\ left'["later"] = left["later"] /\ left["earlier"] > 0
      BY <1>3, <1>4, <2>2 DEF Calls
    <3> QED
      BY <3>1 DEF Count
  <2>3. CASE c = "later"
    <3>1. left'["later"] = n /\ left'["earlier"] = left["earlier"] /\ left["later"] > 0
      BY <1>3, <1>4, <2>3 DEF Calls
    <3> QED
      BY <3>1 DEF Count
  <2> QED
    BY <2>1, <2>2, <2>3
<1> QED
  BY <1>1, <1>2, <1>3, <1>5, <1>6, <1>7

LEMMA NumberBounds ==
    ASSUME Types, NEW c \in Calls
    PROVE  /\ Number(c) \in Int /\ Number("earlier") \in Int
           /\ Number("earlier") <= Number(c) /\ Number(c) <= call /\ call <= Number("earlier") + 1
BY DEF Types, Number

LEMMA WriteFileKeeps ==
    ASSUME PublishAssumption, PublishInv, NEW c \in Calls, WriteFile(c)
    PROVE  PublishInv'
<1> USE DEF PublishInv
<1> DEFINE place == Len(WriteOrder) - left[c] + 1
           written == WriteOrder[place]
           n == left[c] - 1
<1>1. /\ c \in UnderWay /\ LeaveAt(c, n)
      /\ snapshot' = [snapshot EXCEPT ![written] = Number(c)]
      /\ misses' = IF left[c] = 1 THEN 0 ELSE misses
  BY DEF WriteFile
<1>2. /\ Len(WriteOrder) \in Nat /\ left[c] \in 1 .. Len(WriteOrder)
      /\ place \in 1 .. Len(WriteOrder) /\ n \in 0 .. Len(WriteOrder) /\ n < left[c] /\ written \in Files
      /\ call \in Nat /\ MaxMisses \in Nat /\ misses \in 0 .. MaxMisses
  <2>1. Len(WriteOrder) \in Nat /\ MaxMisses \in Nat
    BY DEF PublishAssumption
  <2>2. call \in Nat /\ misses \in 0 .. MaxMisses /\ left[c] \in 1 .. Len(WriteOrder)
    BY <1>1, <2>1 DEF Types, UnderWay
  <2>3. place \in 1 .. Len(WriteOrder) /\ n \in 0 .. Len(WriteOrder) /\ n < left[c]
    BY <2>1, <2>2
  <2>4. written \in Files
    BY <2>3 DEF PublishAssumption
  <2> QED
    BY <2>1, <2>2, <2>3, <2>4
<1>3. /\ UNCHANGED <<call, pc, todo, overlap, work, gitVars>>
      /\ left' \in [Calls -> 0 .. Len(WriteOrder)] /\ met' \in BOOLEAN
      /\ \A d \in Calls : left'[d] = IF d = c THEN n ELSE left[d]
      /\ UnderWay' \subseteq UnderWay
      /\ UnderWay' # {} => (met' <=> met) /\ \A d \in Calls : Number(d)' = Number(d)
      /\ Count \in 0 .. 2 /\ Count' = Count - (IF n = 0 THEN 1 ELSE 0)
  <2> HIDE DEF n
  <2> QED
    BY <1>1, <1>2, LeaveFacts
<1>4. UNCHANGED <<call, pc, todo, overlap, work, repo, locked, index, head, remote>>
  BY <1>3 DEF gitVars
<1> HIDE DEF n, written, place
<1>5. /\ Number(c) \in Int /\ Number("earlier") \in Int /\ Number(c) > 0
      /\ Number("earlier") <= Number(c) /\ Number(c) <= call /\ call <= Number("earlier") + 1
  BY <1>1, NumberBounds DEF WriterInv
<1>6. \A f \in Files : snapshot'[f] = IF f = written THEN Number(c) ELSE snapshot[f]
  BY <1>1 DEF Types
<1>7. Types'
  <2>1. snapshot' \in [Files -> 0 .. call']
    <3>1. Number(c) \in 0 .. call
      BY <1>2, <1>5
    <3>2. snapshot \in [Files -> 0 .. call]
      BY DEF Types
    <3> QED
      BY <1>1, <1>4, <3>1, <3>2
  <2>2. misses' \in 0 .. MaxMisses
    BY <1>1, <1>2
  <2> QED
    BY <1>3, <1>4, <2>1, <2>2 DEF Types
<1>8. Orders'
  <2> SUFFICES ASSUME NEW f \in Files PROVE Order(f)'
    BY DEF Orders
  <2>1. Order(f)
    BY DEF Orders
  <2>2. CASE f # written
    BY <1>4, <1>6, <2>1, <2>2 DEF Order
  <2>3. CASE f = written
    <3>1. snapshot'[f] = Number(c)
      BY <1>6, <2>3
    <3>2. /\ index[f] <= Number(c) + 1 /\ head[f] <= Number(c) + 1 /\ remote[f] <= Number(c) + 1
          /\ work[f] <= Number(c) + 1
      BY <1>2, <1>5, Numbers
    <3> QED
      BY <1>4, <2>1, <3>1, <3>2 DEF Order
  <2> QED
    BY <2>2, <2>3
<1>9. \A d \in UnderWay : \A k \in 1 .. Len(WriteOrder) - left'[d] :
         snapshot'[WriteOrder[k]] >= Number("earlier")
  <2> SUFFICES ASSUME NEW d \in UnderWay, NEW k \in 1 .. Len(WriteOrder) - left'[d]
               PROVE  snapshot'[WriteOrder[k]] >= Number("earlier")
    OBVIOUS
  <2>1. d \in Calls /\ left'[d] \in 0 .. Len(WriteOrder) /\ left[d] \in 0 .. Len(WriteOrder)
    BY <1>3 DEF UnderWay, Types
  <2>2. k \in 1 .. Len(WriteOrder) /\ WriteOrder[k] \in Files
    BY <1>2, <2>1 DEF PublishAssumption
  <2>3. CASE WriteOrder[k] = written
    BY <1>5, <1>6, <2>2, <2>3
  <2>4. CASE WriteOrder[k] # written
    <3>1. k \in 1 .. Len(WriteOrder) - left[d]
      <4>1. CASE d = c
        <5>1. k # place
          BY <2>4 DEF written
        <5> QED
          BY <1>2, <1>3, <2>1, <2>2, <4>1, <5>1 DEF place, n
      <4>2. CASE d # c
        BY <1>3, <2>1, <2>2, <4>2
      <4> QED
        BY <4>1, <4>2
    <3>2. snapshot[WriteOrder[k]] >= Number("earlier")
      BY <3>1 DEF WriterInv
    <3> QED
      BY <1>6, <2>2, <2>4, <3>2
  <2> QED
    BY <2>3, <2>4
<1>10. WriterInv'
  <2>1. left'["later"] > 0 => met'
    <3>1. "later" \in Calls
      BY DEF Calls
    <3>2. left'["later"] > 0 => "later" \in UnderWay'
      BY <3>1 DEF UnderWay
    <3>3. left'["later"] > 0 => left["later"] > 0
      BY <1>3, <3>1, <3>2 DEF UnderWay
    <3> QED
      BY <1>3, <3>2, <3>3 DEF WriterInv
  <2>2. \A d \in UnderWay' : Number(d)' > 0
    BY <1>3 DEF WriterInv, UnderWay
  <2>3. ASSUME NEW f \in Files, snapshot'[f] > 0
        PROVE  call' - snapshot'[f] <= Lag'
    <3>1. Lag' \in Nat /\ Lag' >= 1
      <4>1. Count' \in Nat
        BY <1>2, <1>3, Counted DEF n, Count
      <4>2. misses' \in Nat
        BY <1>1, <1>2
      <4>3. Lag' = misses' + Count' + 1
        BY DEF Lag
      <4>4. \A x, y \in Nat : x + y + 1 \in Nat /\ x + y + 1 >= 1
        OBVIOUS
      <4>5. misses' + Count' + 1 \in Nat /\ misses' + Count' + 1 >= 1
        BY <4>1, <4>2, <4>4
      <4> QED
        BY <4>3, <4>5
    <3>2. CASE f = written
      BY <1>2, <1>4, <1>5, <1>6, <3>1, <3>2
    <3>3. CASE f # written /\ left[c] = 1
      <4>1. PICK k \in 1 .. Len(WriteOrder) : f = WriteOrder[k]
        BY <1>2 DEF Files, ToSet
      <4>2. left'[c] = 0
        BY <1>2, <1>3, <3>3 DEF n
      <4>3. snapshot'[f] >= Number("earlier")
        BY <1>1, <1>2, <1>9, <4>1, <4>2
      <4>4. snapshot'[f] \in Int
        BY <1>6, <3>3, Numbers
      <4> QED
        BY <1>2, <1>4, <1>5, <3>1, <4>3, <4>4
    <3>4. CASE f # written /\ left[c] # 1
      <4>1. n # 0
        BY <1>2, <3>4 DEF n
      <4>2. Lag' = Lag
        BY <1>1, <1>3, <3>4, <4>1 DEF Lag
      <4> QED
        BY <1>4, <1>6, <2>3, <3>4, <4>2 DEF WriterInv
    <3> QED
      BY <3>2, <3>3, <3>4
  <2>4. \A d \in UnderWay' : \A k \in 1 .. Len(WriteOrder) - left'[d] :
           snapshot'[WriteOrder[k]] >= Number("earlier")'
    <3>1. UnderWay' # {} => Number("earlier")' = Number("earlier")
      BY <1>3 DEF Calls
    <3> QED
      BY <1>3, <1>9, <3>1
  <2> QED
    BY <2>1, <2>2, <2>3, <2>4 DEF WriterInv
<1>11. RepoInv' /\ PartsTogether'
  BY <1>4 DEF RepoInv, PartsTogether, Together
<1>12. CopyInv'
  <2>1. \A f \in Files : snapshot[f] > 0 => snapshot'[f] > 0
    BY <1>5, <1>6
  <2>2. Count' <= Count
    BY <1>3
  <2>3. Since' = Since /\ \A f \in Files : CopiedSince(f)' <=> CopiedSince(f)
    BY <1>4 DEF Since, CopiedSince
  <2>4. pc' = "cp" => (\A f \in todo' : snapshot'[f] > 0) /\ Count' <= overlap'
    <3>1. todo \subseteq Files /\ overlap \in Int /\ Count' \in Int /\ Count \in Int
      BY <1>3 DEF Types
    <3> QED
      BY <1>4, <2>1, <2>2, <3>1 DEF CopyInv
  <2> QED
    BY <1>4, <2>1, <2>3, <2>4 DEF CopyInv
<1> QED
  BY <1>7, <1>8, <1>10, <1>11, <1>12

LEMMA WriteFailsKeeps ==
    ASSUME PublishAssumption, PublishInv, NEW c \in Calls, WriteFails(c)
    PROVE  PublishInv'
<1> USE DEF PublishInv
<1>1. /\ c \in UnderWay /\ LeaveAt(c, 0) /\ misses < MaxMisses /\ misses' = misses + 1
      /\ snapshot' = snapshot
  BY DEF WriteFails
<1>2. /\ Len(WriteOrder) \in Nat /\ 0 \in 0 .. Len(WriteOrder) /\ 0 < left[c]
      /\ MaxMisses \in Nat /\ misses \in 0 .. MaxMisses /\ call \in Nat
  BY <1>1 DEF Types, UnderWay, PublishAssumption
<1>3. /\ UNCHANGED <<call, pc, todo, overlap, work, gitVars>>
      /\ left' \in [Calls -> 0 .. Len(WriteOrder)] /\ met' \in BOOLEAN
      /\ \A d \in Calls : left'[d] = IF d = c THEN 0 ELSE left[d]
      /\ UnderWay' \subseteq UnderWay
      /\ UnderWay' # {} => (met' <=> met) /\ \A d \in Calls : Number(d)' = Number(d)
      /\ Count \in 0 .. 2 /\ Count' = Count - 1
  BY <1>1, <1>2, LeaveFacts
<1>4. UNCHANGED <<call, pc, todo, overlap, work, repo, locked, index, head, remote, snapshot>>
  BY <1>1, <1>3 DEF gitVars
<1>5. Types'
  <2>1. misses' \in 0 .. MaxMisses
    BY <1>1, <1>2
  <2> QED
    BY <1>3, <1>4, <2>1 DEF Types
<1>6. Orders' /\ RepoInv' /\ PartsTogether'
  BY <1>4 DEF Orders, Order, RepoInv, PartsTogether, Together
<1>7. WriterInv'
  <2>1. Lag' = Lag
    BY <1>1, <1>2, <1>3 DEF Lag
  <2>2. "later" \in Calls /\ "earlier" \in Calls
    BY DEF Calls
  <2>3. left'["later"] > 0 => met'
    <3>1. left'["later"] > 0 => "later" \in UnderWay' /\ "later" \in UnderWay
      BY <1>3, <2>2 DEF UnderWay
    <3> QED
      BY <1>3, <3>1 DEF WriterInv, UnderWay
  <2>4. \A d \in UnderWay' : Number(d)' > 0
    BY <1>3 DEF WriterInv, UnderWay
  <2>5. ASSUME NEW d \in UnderWay', NEW k \in 1 .. Len(WriteOrder) - left'[d]
        PROVE  snapshot'[WriteOrder[k]] >= Number("earlier")'
    <3>1. d \in UnderWay /\ d \in Calls /\ Number("earlier")' = Number("earlier")
      BY <1>3, <2>2 DEF UnderWay
    <3>2. left'[d] = left[d]
      BY <1>3, <2>5, <3>1 DEF UnderWay
    <3> QED
      BY <1>4, <2>5, <3>1, <3>2 DEF WriterInv
  <2> QED
    BY <1>4, <2>1, <2>3, <2>4, <2>5 DEF WriterInv
<1>8. CopyInv'
  <2>1. Since' = Since /\ \A f \in Files : CopiedSince(f)' <=> CopiedSince(f)
    BY <1>4 DEF Since, CopiedSince
  <2>2. pc' = "cp" => Count' <= overlap'
    <3>1. overlap \in Int
      BY DEF Types
    <3> QED
      BY <1>3, <1>4, <3>1 DEF CopyInv
  <2> QED
    BY <1>4, <2>1, <2>2 DEF CopyInv
<1> QED
  BY <1>5, <1>6, <1>7, <1>8

-----------------------------------------------------------------------------
(* The script. *)

LEMMA WriterStill ==
    ASSUME WriterInv, UNCHANGED writerVars
    PROVE  WriterInv' /\ Count' = Count
BY DEF WriterInv, Lag, Count, UnderWay, Number, writerVars

LEMMA AwayFromCopy ==
    ASSUME CopyInv, UNCHANGED <<writerVars, work>>, pc' \notin {"cp", "add"}
    PROVE  CopyInv'
BY DEF CopyInv, CopiedSince, writerVars

\* The start of cp: nothing has been copied yet, and what is missing has no copy either.
LEMMA GlobKeeps ==
    ASSUME Types, WriterInv, CopyInv, ExpandGlob, UNCHANGED work
    PROVE  WriterInv' /\ CopyInv'
<1>1. /\ UNCHANGED writerVars /\ pc' = "cp" /\ todo' = {f \in Files : snapshot[f] > 0}
      /\ overlap' = Count
  BY Counted DEF ExpandGlob, Present
<1>2. WriterInv' /\ Count' = Count
  BY <1>1, WriterStill
<1>3. Count' <= overlap'
  <2>1. Count \in 0 .. 2
    BY Counted
  <2> QED
    BY <1>1, <1>2, <2>1
<1>4. \A f \in Files : CopiedSince(f)' => work'[f] # Torn /\ ~(work'[f] > 0)
  <2> SUFFICES ASSUME NEW f \in Files, CopiedSince(f)' PROVE work'[f] # Torn /\ ~(work'[f] > 0)
    OBVIOUS
  <2>1. ~(snapshot[f] > 0)
    BY <1>1 DEF CopiedSince
  <2>2. work'[f] = 0
    BY <2>1 DEF CopyInv
  <2> QED
    BY <2>2 DEF Torn
<1>5. /\ \A f \in todo' : snapshot'[f] > 0
      /\ \A f \in Files : work'[f] # 0 => snapshot'[f] > 0
  BY <1>1 DEF CopyInv, writerVars
<1> QED
  BY <1>2, <1>3, <1>4, <1>5 DEF CopyInv

\* Begin, AddRemote, CheckoutBranch and PushFails leave the files alone.
LEMMA FilesStillKeeps ==
    ASSUME PublishAssumption, PublishInv, Begin \/ AddRemote \/ CheckoutBranch \/ PushFails
    PROVE  PublishInv'
<1> USE DEF PublishInv
<1>1. /\ UNCHANGED <<writerVars, work, index, head, remote, locked>>
      /\ \/ ExpandGlob
         \/ UNCHANGED <<todo, overlap>> /\ pc' \in {"init", "branch", "idle"}
  BY DEF Begin, AddRemote, CheckoutBranch, PushFails, Goto, gitVars, ExpandGlob
<1>2. /\ repo' \in {"none", "init", "remote", "ready"}
      /\ pc' = "init" => repo' = "none"
      /\ repo' = "none" => repo = "none"
  BY DEF Begin, AddRemote, CheckoutBranch, PushFails, Goto, gitVars, ExpandGlob, Types
<1>3. pc' \in Commands \union {"idle"} /\ todo' \subseteq Files /\ overlap' \in 0 .. 2
  BY <1>1, Counted DEF Types, Commands, ExpandGlob
<1>4. Types'
  BY <1>1, <1>2, <1>3 DEF Types, writerVars
<1>5. WriterInv' /\ CopyInv'
  <2>1. CASE ExpandGlob
    BY <1>1, <2>1, GlobKeeps
  <2>2. CASE pc' \in {"init", "branch", "idle"}
    BY <1>1, <2>2, WriterStill, AwayFromCopy
  <2> QED
    BY <1>1, <2>1, <2>2
<1>6. Orders' /\ RepoInv' /\ PartsTogether'
  BY <1>1, <1>2 DEF Orders, Order, RepoInv, PartsTogether, Together, writerVars
<1> QED
  BY <1>4, <1>5, <1>6

LEMMA InitRepoKeeps ==
    ASSUME PublishAssumption, PublishInv, InitRepo
    PROVE  PublishInv'
<1> USE DEF PublishInv
<1>1. /\ UNCHANGED <<writerVars, todo, overlap, remote, locked>>
      /\ pc' = "remote" /\ repo' = "init" /\ pc = "init"
      /\ work' = Nothing /\ index' = Nothing /\ head' = Nothing
  BY DEF InitRepo, Goto
<1>2. \A f \in Files : work'[f] = 0 /\ index'[f] = 0 /\ head'[f] = 0 /\ remote'[f] = 0
  BY <1>1 DEF RepoInv, Nothing
<1>3. Types'
  <2>1. call \in Nat
    BY DEF Types
  <2>2. Nothing \in [Files -> 0 .. call]
    BY <2>1 DEF Nothing
  <2>3. Nothing \in [Files -> {Torn} \union 0 .. call]
    BY <2>1 DEF Nothing
  <2> QED
    BY <1>1, <2>2, <2>3 DEF Types, Commands, writerVars
<1>4. Orders'
  <2> SUFFICES ASSUME NEW f \in Files PROVE Order(f)'
    BY DEF Orders
  <2>1. snapshot'[f] \in Nat
    BY <1>1, Numbers DEF writerVars
  <2> QED
    BY <1>2, <2>1 DEF Order
<1>5. WriterInv'
  BY <1>1, WriterStill
<1>6. CopyInv'
  BY <1>1, <1>2 DEF CopyInv, CopiedSince
<1>7. RepoInv' /\ PartsTogether'
  BY <1>1, <1>2 DEF RepoInv, PartsTogether, Together
<1> QED
  BY <1>3, <1>4, <1>5, <1>6, <1>7

\* The copy is as old as the file of the directory, which lags behind by the calls that stopped
\* half way, those under way, and the one that an older one may have overwritten.
LEMMA CopyFileKeeps ==
    ASSUME PublishAssumption, PublishInv, CopyFile
    PROVE  PublishInv'
<1> USE DEF PublishInv
<1>1. PICK f \in Upcoming : work' = [work EXCEPT ![f] = snapshot[f]] /\ Copied(f)
  BY DEF CopyFile
<1>2. /\ UNCHANGED <<writerVars, gitVars>> /\ pc = "cp" /\ f \in todo /\ f \in Files
      /\ todo' = todo \ {f} /\ todo \subseteq Files
      /\ pc' = IF todo' = {} THEN "add" ELSE "cp"
      /\ overlap' = IF todo' = {} THEN 0 ELSE overlap
  BY <1>1 DEF CopyFile, Copied, Upcoming, Types
<1>3. \A g \in Files : work'[g] = IF g = f THEN snapshot[f] ELSE work[g]
  BY <1>1, <1>2 DEF Types
<1>4. /\ snapshot[f] \in Nat /\ snapshot[f] > 0 /\ snapshot[f] <= call /\ call \in Nat
      /\ overlap \in 0 .. 2 /\ Count \in 0 .. 2 /\ MaxMisses \in Nat /\ misses \in 0 .. MaxMisses
  <2>1. snapshot[f] > 0 /\ overlap \in 0 .. 2 /\ misses \in 0 .. MaxMisses
    BY <1>2 DEF CopyInv, Types
  <2>2. snapshot[f] \in Nat /\ snapshot[f] <= call /\ call \in Nat
    BY <1>2, Numbers
  <2>3. Count \in 0 .. 2 /\ MaxMisses \in Nat
    BY Counted DEF PublishAssumption
  <2> QED
    BY <2>1, <2>2, <2>3
<1>5. Types'
  <2>1. work' \in [Files -> {Torn} \union 0 .. call]
    <3>1. snapshot[f] \in 0 .. call /\ work \in [Files -> {Torn} \union 0 .. call]
      BY <1>2 DEF Types
    <3> QED
      BY <1>1, <3>1
  <2>2. pc' \in Commands \union {"idle"} /\ overlap' \in 0 .. 2 /\ todo' \subseteq Files
    BY <1>2, <1>4 DEF Commands
  <2> QED
    BY <1>2, <2>1, <2>2 DEF Types, writerVars, gitVars
<1>6. Orders'
  <2> SUFFICES ASSUME NEW g \in Files PROVE Order(g)'
    BY DEF Orders
  <2>1. /\ snapshot'[g] = snapshot[g] /\ index'[g] = index[g] /\ head'[g] = head[g]
        /\ remote'[g] = remote[g] /\ Order(g)
    BY <1>2 DEF writerVars, gitVars, Orders
  <2>2. CASE g = f
    <3>1. work'[g] = snapshot[g] /\ snapshot[g] <= snapshot[g] + 1
      BY <1>3, <1>4, <2>2
    <3> QED
      BY <2>1, <3>1 DEF Order
  <2>3. CASE g # f
    BY <1>3, <2>1, <2>3 DEF Order
  <2> QED
    BY <2>2, <2>3
<1>7. WriterInv' /\ Count' = Count
  BY <1>2, WriterStill
<1>8. CopyInv'
  <2>1. Count <= overlap /\ Since = overlap /\ Since' \in Int /\ Since' >= overlap
    BY <1>2, <1>4 DEF CopyInv, Since
  <2>2. call - snapshot[f] <= MaxMisses + 1 + Since'
    <3>1. call - snapshot[f] <= Lag
      BY <1>2, <1>4 DEF WriterInv
    <3> QED
      BY <1>4, <2>1, <3>1 DEF Lag
  <2>3. \A g \in Files : CopiedSince(g)' => g = f \/ CopiedSince(g)
    BY <1>2 DEF CopiedSince
  <2>4. ASSUME NEW g \in Files, CopiedSince(g)'
        PROVE  /\ work'[g] # Torn
               /\ work'[g] > 0 => call' - work'[g] <= MaxMisses + 1 + Since'
    <3>1. CASE g = f
      BY <1>2, <1>3, <1>4, <2>2, <3>1 DEF Torn, writerVars
    <3>2. CASE g # f
      <4>1. CopiedSince(g) /\ work'[g] = work[g]
        BY <1>3, <2>3, <2>4, <3>2
      <4>2. work[g] # Torn /\ (work[g] > 0 => call - work[g] <= MaxMisses + 1 + overlap)
        BY <2>1, <4>1 DEF CopyInv
      <4>3. work[g] \in Int /\ call' = call
        BY <1>2, Numbers DEF writerVars
      <4> QED
        BY <1>4, <2>1, <4>1, <4>2, <4>3
    <3> QED
      BY <3>1, <3>2
  <2>5. pc' = "cp" => (\A g \in todo' : snapshot'[g] > 0) /\ Count' <= overlap'
    BY <1>2, <1>7, <2>1 DEF CopyInv, writerVars
  <2>6. \A g \in Files : work'[g] # 0 => snapshot'[g] > 0
    BY <1>2, <1>3, <1>4 DEF CopyInv, writerVars
  <2> QED
    BY <2>4, <2>5, <2>6 DEF CopyInv
<1>9. RepoInv' /\ PartsTogether'
  BY <1>2 DEF RepoInv, PartsTogether, Together, gitVars
<1> QED
  BY <1>5, <1>6, <1>7, <1>8, <1>9

\* When cp is over nothing is left of a killed one, and the copies are near each other: that
\* is what is staged.
LEMMA AddKeeps ==
    ASSUME PublishAssumption, PublishInv, Add
    PROVE  PublishInv'
<1> USE DEF PublishInv
<1>1. /\ UNCHANGED <<writerVars, todo, overlap, repo, locked, work, head, remote>>
      /\ pc = "add" /\ pc' \in {"idle", "commit"}
      /\ index' = IF locked THEN index ELSE work
  BY DEF Add, Goto
<1>2. \A f \in Files : /\ work[f] # Torn
                       /\ work[f] > 0 => call - work[f] <= MaxMisses + 1 + 2
  BY <1>1 DEF CopyInv, CopiedSince, Since
<1>3. \A f \in Files : work[f] \in 0 .. call
  BY <1>2 DEF Types
<1>4. Types'
  <2>1. index' \in [Files -> 0 .. call]
    BY <1>1, <1>3 DEF Types
  <2> QED
    BY <1>1, <2>1 DEF Types, Commands, writerVars
<1>5. Orders'
  <2> SUFFICES ASSUME NEW f \in Files PROVE Order(f)'
    BY DEF Orders
  <2>1. /\ snapshot'[f] = snapshot[f] /\ work'[f] = work[f] /\ head'[f] = head[f]
        /\ remote'[f] = remote[f] /\ Order(f) /\ work[f] # Torn /\ work[f] \in Int
        /\ index'[f] = IF locked THEN index[f] ELSE work[f]
    BY <1>1, <1>2, Numbers DEF Orders, writerVars
  <2>2. CASE locked
    BY <2>1, <2>2 DEF Order
  <2>3. CASE ~locked
    BY <2>1, <2>3 DEF Order
  <2> QED
    BY <2>2, <2>3
<1>6. WriterInv' /\ CopyInv'
  BY <1>1, WriterStill, AwayFromCopy
<1>7. PartsTogether'
  <2>1. Together(work)
    <3> SUFFICES ASSUME NEW f \in Files, NEW g \in Files, work[f] > 0, work[g] > 0
                 PROVE  work[f] - work[g] <= 3 + MaxMisses
      BY DEF Together
    <3>1. call - work[g] <= MaxMisses + 1 + 2
      BY <1>2
    <3>2. /\ call \in Nat /\ MaxMisses \in Nat /\ work[f] \in Int /\ work[g] \in Int
          /\ work[f] <= call
      BY Numbers DEF PublishAssumption
    <3> QED
      BY <3>1, <3>2
  <2> QED
    BY <1>1, <2>1 DEF PartsTogether, Together
<1>8. RepoInv'
  BY <1>1 DEF RepoInv
<1> QED
  BY <1>4, <1>5, <1>6, <1>7, <1>8

LEMMA CommitKeeps ==
    ASSUME PublishAssumption, PublishInv, Commit
    PROVE  PublishInv'
<1> USE DEF PublishInv
<1>1. /\ UNCHANGED <<writerVars, todo, overlap, repo, locked, work, index, remote>>
      /\ pc' = "push" /\ head' = index
  BY DEF Commit, Goto
<1>2. Types'
  BY <1>1 DEF Types, Commands, writerVars
<1>3. Orders'
  <2> SUFFICES ASSUME NEW f \in Files PROVE Order(f)'
    BY DEF Orders
  <2>1. index[f] \in Nat /\ Order(f)
    BY Numbers DEF Orders
  <2> QED
    BY <1>1, <2>1 DEF Order, writerVars
<1>4. WriterInv' /\ CopyInv'
  BY <1>1, WriterStill, AwayFromCopy
<1>5. RepoInv' /\ PartsTogether'
  BY <1>1 DEF RepoInv, PartsTogether, Together
<1> QED
  BY <1>2, <1>3, <1>4, <1>5

LEMMA PushKeeps ==
    ASSUME PublishAssumption, PublishInv, Push
    PROVE  PublishInv'
<1> USE DEF PublishInv
<1>1. /\ UNCHANGED <<writerVars, todo, overlap, repo, locked, work, index, head>>
      /\ pc' = "idle" /\ remote' = head /\ repo = "ready"
  BY DEF Push, Goto
<1>2. Types'
  BY <1>1 DEF Types, writerVars
<1>3. Orders'
  <2> SUFFICES ASSUME NEW f \in Files PROVE Order(f)'
    BY DEF Orders
  <2>1. head[f] \in Nat /\ Order(f)
    BY Numbers DEF Orders
  <2> QED
    BY <1>1, <2>1 DEF Order, writerVars
<1>4. WriterInv' /\ CopyInv'
  BY <1>1, WriterStill, AwayFromCopy
<1>5. RepoInv' /\ PartsTogether'
  BY <1>1 DEF RepoInv, PartsTogether, Together
<1> QED
  BY <1>2, <1>3, <1>4, <1>5

LEMMA CrashKeeps ==
    ASSUME PublishAssumption, PublishInv, Crash
    PROVE  PublishInv'
<1> USE DEF PublishInv
<1>1. /\ UNCHANGED <<writerVars, index, head, remote>>
      /\ pc' = "idle" /\ todo' = {} /\ overlap' = 0
      /\ repo' \in IF pc = "init" THEN {"none", "init"} ELSE {repo}
      /\ locked' \in BOOLEAN
  BY DEF Crash, Types
<1>2. \A f \in Files : work'[f] = work[f] \/ (work'[f] = Torn /\ snapshot[f] > 0)
  <2>1. CASE pc = "cp"
    <3>1. \A f \in Files : f \in todo \/ work[f] > 0 => snapshot[f] > 0
      BY <2>1 DEF CopyInv
    <3> QED
      BY <2>1, <3>1 DEF Crash
  <2>2. CASE pc # "cp"
    BY <2>2 DEF Crash
  <2> QED
    BY <2>1, <2>2
<1>3. Types'
  <2>1. work' \in [Files -> {Torn} \union 0 .. call]
    <3>1. work \in [Files -> {Torn} \union 0 .. call]
      BY DEF Types
    <3>2. work' = [f \in Files |-> work'[f]]
      BY <3>1 DEF Crash
    <3> QED
      BY <1>2, <3>1, <3>2
  <2>2. repo' \in {"none", "init", "remote", "ready"}
    BY <1>1 DEF Types
  <2>3. overlap' \in 0 .. 2 /\ todo' \subseteq Files /\ pc' \in Commands \union {"idle"}
    BY <1>1
  <2> QED
    BY <1>1, <2>1, <2>2, <2>3 DEF Types, writerVars
<1>4. Orders'
  BY <1>1, <1>2 DEF Orders, Order, writerVars
<1>5. WriterInv'
  BY <1>1, WriterStill
<1>6. CopyInv'
  <2>1. \A f \in Files : work'[f] # 0 => snapshot'[f] > 0
    BY <1>1, <1>2 DEF CopyInv, writerVars
  <2> QED
    BY <1>1, <2>1 DEF CopyInv, CopiedSince
<1>7. RepoInv' /\ PartsTogether'
  BY <1>1 DEF RepoInv, PartsTogether, Together
<1> QED
  BY <1>3, <1>4, <1>5, <1>6, <1>7

-----------------------------------------------------------------------------
LEMMA PublishInvariant == Spec => []PublishInv
<1>1. Init => PublishInv
  BY PublishAssumption, PublishInit
<1>2. PublishInv /\ [Next]_vars => PublishInv'
  <2> SUFFICES ASSUME PublishInv, [Next]_vars PROVE PublishInv'
    OBVIOUS
  <2>1. CASE BeginWrite
    BY <2>1, PublishAssumption, BeginWriteKeeps
  <2>2. ASSUME NEW c \in Calls, WriteFile(c)
        PROVE  PublishInv'
    BY <2>2, PublishAssumption, WriteFileKeeps
  <2>3. ASSUME NEW c \in Calls, WriteFails(c)
        PROVE  PublishInv'
    BY <2>3, PublishAssumption, WriteFailsKeeps
  <2>4. CASE Begin \/ AddRemote \/ CheckoutBranch \/ PushFails
    BY <2>4, PublishAssumption, FilesStillKeeps
  <2>5. CASE InitRepo
    BY <2>5, PublishAssumption, InitRepoKeeps
  <2>6. CASE CopyFile
    BY <2>6, PublishAssumption, CopyFileKeeps
  <2>7. CASE Add
    BY <2>7, PublishAssumption, AddKeeps
  <2>8. CASE Commit
    BY <2>8, PublishAssumption, CommitKeeps
  <2>9. CASE Push
    BY <2>9, PublishAssumption, PushKeeps
  <2>10. CASE Crash
    BY <2>10, PublishAssumption, CrashKeeps
  <2>11. CASE UNCHANGED vars
    <3>1. /\ UNCHANGED <<writerVars, pc, todo, overlap, work, repo, locked, index, head, remote>>
      BY <2>11 DEF vars, gitVars
    <3>2. WriterInv' /\ Count' = Count
      BY <3>1, WriterStill DEF PublishInv
    <3>3. Types' /\ Orders' /\ RepoInv' /\ PartsTogether'
      BY <3>1 DEF PublishInv, Types, Orders, Order, RepoInv, PartsTogether, Together, writerVars
    <3>4. CopyInv'
      BY <3>1, <3>2 DEF PublishInv, CopyInv, CopiedSince, Since, writerVars
    <3> QED
      BY <3>2, <3>3, <3>4 DEF PublishInv
  <2> QED
    BY <2>1, <2>2, <2>3, <2>4, <2>5, <2>6, <2>7, <2>8, <2>9, <2>10, <2>11
       DEF Next, Collector, Script
<1> QED
  BY <1>1, <1>2, PTL DEF Spec

\* The stages of publication follow each other but for the one call that an older one may have
\* overwritten, and nothing that a killed cp left is staged.
THEOREM StagesFollow == Spec => []StagesInOrder
<1>1. PublishInv => StagesInOrder
  <2> SUFFICES ASSUME PublishInv PROVE StagesInOrder
    OBVIOUS
  <2>1. Types /\ \A f \in Files : Order(f)
    BY DEF PublishInv, Orders
  <2>2. /\ AtMostOneBack(index, snapshot) /\ AtMostOneBack(head, index)
        /\ AtMostOneBack(head, snapshot) /\ AtMostOneBack(remote, head)
        /\ AtMostOneBack(remote, index) /\ AtMostOneBack(remote, snapshot)
    BY <2>1 DEF Order, AtMostOneBack
  <2>3. \A f \in Files : work[f] # Torn =>
          /\ work[f] <= snapshot[f] + 1
          /\ index[f] <= work[f] + 1 /\ head[f] <= work[f] + 1 /\ remote[f] <= work[f] + 1
    BY <2>1 DEF Order
  <2>4. \A t \in {snapshot, index, head, remote} : t \in [Files -> 0 .. call]
    BY <2>1 DEF Types
  <2> QED
    BY <2>1, <2>2, <2>3, <2>4 DEF StagesInOrder, Types
<1> QED
  BY <1>1, PublishInvariant, PTL

\* The files of the branch stem from WriteSnapshot calls that are near each other: 3 apart at
\* most and the calls that stopped half way besides, whatever met and was replaced while cp
\* was at work.
THEOREM BranchPartsTogether == Spec => []PartsTogether
<1>1. PublishInv => PartsTogether
  BY DEF PublishInv
<1> QED
  BY <1>1, PublishInvariant, PTL
=============================================================================
