------------------------- MODULE HostMetricsProofs -------------------------
(***************************************************************************)
(* What the registry may show of a machine, for any machines, any age      *)
(* limit, and however often machines and the collector go down.            *)
(***************************************************************************)
EXTENDS HostReadings, FiniteSetTheorems, SequenceTheorems, WellFoundedInduction, TLAPS

LEMMA Constants ==
    /\ MaxAge \in Nat /\ MaxNow \in Nat /\ MaxOutages \in Nat
    /\ Len(Order) \in Nat /\ Len(Order) >= 1
<1>1. Order \in Seq(Machines) /\ Order # <<>>
  BY HostAssumption
<1>2. Len(Order) \in Nat /\ Len(Order) # 0
  BY <1>1, EmptySeq
<1> QED
  BY <1>2, HostAssumption

LEMMA UnreadGood == Unread \in Sample /\ GoodSample(Unread)
<1>1. NoCpu \in Cpus /\ NoCpu.boots = 0
  BY Constants DEF NoCpu, Cpus, Time
<1>2. Unread \in Sample
  BY <1>1 DEF Unread, Sample
<1>3. Unread.cpu = NoCpu
  BY DEF Unread
<1> QED
  BY <1>1, <1>2, <1>3 DEF GoodSample

MachineStates == [up : BOOLEAN, boot : Time, idle : Time, dates : BOOLEAN]
Rounds == [pc : {"rest", "read", "publish"}, i : 1..Len(Order), sample : Sample]

LEMMA RoundsTyped ==
    /\ AtRest \in Rounds /\ AtRest.sample = Unread
    /\ \A k \in 1..Len(Order) : ReadAt(k) \in Rounds /\ ReadAt(k).sample = Unread
    /\ \A k \in 1..Len(Order), s \in Sample :
          ReadFrom(k, s) \in Rounds /\ ReadFrom(k, s).sample = s
<1>1. 1 \in 1..Len(Order) /\ Unread \in Sample
  BY Constants, UnreadGood
<1> QED
  BY <1>1 DEF AtRest, ReadAt, ReadFrom, Rounds

\* A utilisation of two boots: the new counter has overtaken the old one since the boot, so
\* that the time between the readings exceeds the old one.
LEMMA CpuGood ==
    ASSUME TypeOK, ClocksOK, NEW m \in Watched
    PROVE  CpuOf(counter[m], m) \in Cpus
           /\ (CpuOf(counter[m], m).boots = 2 =>
                 CpuOf(counter[m], m).gap > CpuOf(counter[m], m).since)
<1> DEFINE c == counter[m]
<1>1. /\ now \in Time
      /\ machine[m].boot \in Time /\ machine[m].idle \in Time
      /\ c.total \in Time /\ c.at \in Time
      /\ machine[m].boot <= now /\ c.at <= now
  BY DEF TypeOK, ClocksOK, Counter
<1>2. CASE Usable(c, machine[m].idle, Total(m))
  <2>1. now - machine[m].boot > c.total
    BY <1>2 DEF Usable, Total
  <2> DEFINE k == IF machine[m].boot > c.at THEN 2 ELSE 1
  <2>2. CpuOf(c, m) = [boots |-> k, gap |-> now - c.at, since |-> c.total]
    BY <1>2 DEF CpuOf
  <2>3. k \in 0..2 /\ now - c.at \in Time
    BY <1>1, Constants DEF Time
  <2>4. k = 2 => now - c.at > c.total
    BY <1>1, <2>1, Constants DEF Time
  <2>5. CpuOf(c, m) \in Cpus
    BY <1>1, <2>2, <2>3 DEF Cpus
  <2> QED
    BY <2>2, <2>4, <2>5
<1>3. CASE ~Usable(c, machine[m].idle, Total(m))
  <2>1. CpuOf(c, m) = NoCpu
    BY <1>3 DEF CpuOf
  <2> QED
    BY <2>1, UnreadGood, Constants DEF NoCpu, Cpus, Time
<1> QED
  BY <1>2, <1>3

LEMMA GpuGood ==
    ASSUME TypeOK, ClocksOK, NEW m \in Watched
    PROVE  GpuOf(m) \in Time \union {None}
<1>1. now \in Time /\ gpuProm[m] \in Time \union {None} /\ gpuProm[m] <= now
  BY DEF TypeOK, ClocksOK
<1> QED
  BY <1>1, Constants DEF GpuOf, Time, None

\* Whatever can be read of a machine makes a good sample and a good counter.
LEMMA ReadingGood ==
    ASSUME HostInv, NEW m \in Watched, NEW counted \in BOOLEAN, NEW reachable \in BOOLEAN,
           Reading(m, counted, reachable), UNCHANGED <<now, machine, gpuProm, last>>,
           outages' \in 0..MaxOutages
    PROVE  HostInv'
<1>0. TypeOK /\ ClocksOK
  BY DEF HostInv
<1> DEFINE update == counted /\ Total(m) > 0
           cpu == IF update THEN CpuOf(counter[m], m) ELSE NoCpu
           gpu == IF reachable /\ m # Local THEN GpuOf(m) ELSE None
           sample == [reachable |-> reachable, cpu |-> cpu, gpu |-> gpu]
<1>1. cpu \in Cpus /\ (cpu.boots = 2 => cpu.gap > cpu.since)
  <2>1. NoCpu \in Cpus /\ NoCpu.boots # 2
    BY Constants DEF NoCpu, Cpus, Time
  <2> QED
    BY <1>0, <2>1, CpuGood
<1>2. gpu \in Time \union {None}
  BY <1>0, GpuGood
<1> HIDE DEF cpu, gpu
<1>3. sample \in Sample /\ GoodSample(sample)
  <2>1. sample \in Sample
    BY <1>1, <1>2 DEF Sample
  <2>2. sample.cpu = cpu /\ sample.gpu = gpu
    OBVIOUS
  <2> QED
    BY <1>1, <1>2, <2>1, <2>2 DEF GoodSample
<1>4. round' = ReadFrom(round.i, sample)
  BY DEF Reading, cpu, gpu
<1> HIDE DEF sample
<1>5. round' \in Rounds /\ round'.sample = sample
  <2>1. round.i \in 1..Len(Order)
    BY <1>0 DEF TypeOK
  <2> QED
    BY <1>3, <1>4, <2>1, RoundsTyped
<1>6. counter' \in [Watched -> Counter] /\ \A n \in Watched : counter'[n].at <= now
  <2> DEFINE new == [primed |-> TRUE, idle |-> machine[m].idle, total |-> Total(m), at |-> now]
  <2>1. counter' = counter \/ counter' = [counter EXCEPT ![m] = new]
    BY DEF Reading
  <2>2. new \in Counter /\ new.at = now
    <3>1. now \in Time /\ machine[m].boot \in Time /\ machine[m].boot <= now
      BY <1>0 DEF TypeOK, ClocksOK
    <3>2. machine[m].idle \in Time /\ Total(m) \in Time
      BY <1>0, <3>1, Constants DEF TypeOK, Total, Time
    <3> QED
      BY <3>1, <3>2 DEF Counter
  <2>3. now <= now
    BY <1>0, Constants DEF TypeOK, Time
  <2> HIDE DEF new
  <2> QED
    BY <1>0, <2>1, <2>2, <2>3 DEF TypeOK, ClocksOK
<1>7. TypeOK'
  BY <1>0, <1>5, <1>6 DEF TypeOK, Rounds
<1>8. ClocksOK'
  BY <1>0, <1>6 DEF ClocksOK
<1>9. GoodSample(round.sample)'
  BY <1>3, <1>5 DEF GoodSample
<1>10. (\A n \in Watched : GoodSample(last[n]))'
  BY DEF HostInv, GoodSample
<1> QED
  BY <1>7, <1>8, <1>9, <1>10 DEF HostInv

LEMMA HostInit == Init => HostInv
<1> SUFFICES ASSUME Init PROVE HostInv
  OBVIOUS
<1>1. Unprimed \in Counter
  BY Constants DEF Unprimed, Counter, Time
<1>2. TypeOK
  BY <1>1, RoundsTyped, UnreadGood, Constants DEF Init, TypeOK, Time, Rounds
<1>3. ClocksOK
  BY Constants DEF Init, ClocksOK, Unprimed, None, Time
<1>4. GoodSample(round.sample) /\ \A m \in Watched : GoodSample(last[m])
  BY RoundsTyped, UnreadGood DEF Init
<1> QED
  BY <1>2, <1>3, <1>4 DEF HostInv

\* The collector's own steps.
LEMMA SamplingStep == HostInv /\ SampleAll => HostInv'
<1> SUFFICES ASSUME HostInv, SampleAll PROVE HostInv'
  OBVIOUS
<1>0. /\ TypeOK /\ ClocksOK
      /\ GoodSample(round.sample) /\ round.sample \in Sample
      /\ \A m \in Watched : GoodSample(last[m])
      /\ round.i \in 1..Len(Order)
  BY DEF HostInv, TypeOK
<1>1. CASE Read
  <2>1. PICK m \in Watched : Reading(m, TRUE, TRUE)
    BY <1>1 DEF Read
  <2>2. UNCHANGED <<now, machine, gpuProm, last>> /\ outages' = outages
    BY <1>1 DEF Read
  <2>3. outages' \in 0..MaxOutages
    BY <1>0, <2>2 DEF TypeOK
  <2> QED
    BY <2>1, <2>2, <2>3, ReadingGood
<1>2. CASE ReadFails
  <2>1. PICK counted \in BOOLEAN, reachable \in BOOLEAN :
          /\ Outage \/ UNCHANGED outages
          /\ Reading(Current, counted, reachable)
    BY <1>2 DEF ReadFails
  <2>2. Current \in Watched /\ UNCHANGED <<now, machine, gpuProm, last>>
    BY <1>2 DEF ReadFails
  <2>3. outages' \in 0..MaxOutages
    BY <1>0, <2>1, Constants DEF TypeOK, Outage
  <2> QED
    BY <2>1, <2>2, <2>3, ReadingGood
<1>3. CASE Begin \/ ReadOther \/ Publish
  <2>1. UNCHANGED <<now, machine, gpuProm, counter, outages>>
    BY <1>3 DEF Begin, ReadOther, Publish
  <2>2. round' \in Rounds /\ GoodSample(round'.sample)
    <3>1. CASE Begin
      BY <3>1, RoundsTyped, UnreadGood, Constants DEF Begin
    <3>2. CASE ReadOther
      <4>1. PICK reachable \in BOOLEAN :
              round' = ReadFrom(round.i, [Unread EXCEPT !.reachable = reachable])
        BY <3>2 DEF ReadOther
      <4> DEFINE s == [Unread EXCEPT !.reachable = reachable]
      <4>2. s \in Sample /\ s.cpu = Unread.cpu /\ s.gpu = Unread.gpu
        BY UnreadGood DEF Sample
      <4> HIDE DEF s
      <4>3. GoodSample(s)
        BY <4>2, UnreadGood DEF GoodSample
      <4> QED
        BY <1>0, <4>1, <4>2, <4>3, RoundsTyped DEF s
    <3>3. CASE Publish
      <4>1. round' = AtRest \/ (round.i # Len(Order) /\ round' = ReadAt(round.i + 1))
        BY <3>3 DEF Publish, NextMachine
      <4>2. round.i # Len(Order) => round.i + 1 \in 1..Len(Order)
        BY <1>0, Constants
      <4> QED
        BY <4>1, <4>2, RoundsTyped, UnreadGood
    <3> QED
      BY <1>3, <3>1, <3>2, <3>3
  <2>3. last' = last \/ (Current \in Watched /\ last' = [last EXCEPT ![Current] = round.sample])
    BY <1>3 DEF Begin, ReadOther, Publish
  <2>4. last' \in [Watched -> Sample] /\ \A m \in Watched : GoodSample(last'[m])
    BY <1>0, <2>3 DEF TypeOK
  <2>5. TypeOK'
    BY <1>0, <2>1, <2>2, <2>4 DEF TypeOK, Rounds
  <2>6. ClocksOK'
    BY <1>0, <2>1 DEF ClocksOK
  <2>7. GoodSample(round.sample)' /\ (\A m \in Watched : GoodSample(last[m]))'
    BY <2>2, <2>4 DEF GoodSample
  <2> QED
    BY <2>5, <2>6, <2>7 DEF HostInv
<1> QED
  BY <1>1, <1>2, <1>3 DEF SampleAll

\* Time passes and machines count it.
LEMMA TickStep == HostInv /\ Tick => HostInv'
<1> SUFFICES ASSUME HostInv, Tick PROVE HostInv'
  OBVIOUS
<1>0. TypeOK /\ ClocksOK /\ machine \in [Watched -> MachineStates]
  BY DEF HostInv, TypeOK, MachineStates
<1>1. UNCHANGED <<gpuProm, counter, round, last, outages>>
  BY DEF Tick
<1>2. now \in Time /\ now' \in Time /\ now' = now + 1
  BY <1>0, Constants DEF Tick, TypeOK, Time
<1>3. PICK idlers \in SUBSET Watched :
        machine' = [m \in Watched |->
            IF m \in idlers THEN [machine[m] EXCEPT !.idle = @ + 1] ELSE machine[m]]
  BY DEF Tick
<1>4. \A m \in Watched :
        /\ machine'[m] \in MachineStates
        /\ machine'[m].boot <= now'
        /\ machine'[m].idle <= now' - machine'[m].boot
  <2>1. TAKE m \in Watched
  <2>2. /\ machine[m] \in MachineStates
        /\ machine[m].boot <= now /\ machine[m].idle <= now - machine[m].boot
    BY <1>0 DEF TypeOK, ClocksOK, MachineStates
  <2>3. CASE m \in idlers
    <3>1. machine'[m] = [machine[m] EXCEPT !.idle = @ + 1]
      BY <1>3, <2>3
    <3>0. machine[m].idle \in Nat /\ machine[m].boot \in Nat
      BY <2>2, Constants DEF MachineStates, Time
    <3>2. machine[m].idle + 1 \in Time /\ machine[m].idle + 1 <= now' - machine[m].boot
      BY <1>2, <2>2, <3>0, Constants DEF Time
    <3>3. machine[m].boot <= now'
      BY <1>2, <2>2, <3>0, Constants DEF Time
    <3> QED
      BY <2>2, <3>1, <3>2, <3>3 DEF MachineStates
  <2>4. CASE m \notin idlers
    <3>1. machine'[m] = machine[m]
      BY <1>3, <2>4
    <3>2. machine[m].idle \in Nat /\ machine[m].boot \in Nat
      BY <2>2, Constants DEF MachineStates, Time
    <3> QED
      BY <1>2, <2>2, <3>1, <3>2, Constants DEF Time
  <2> QED
    BY <2>3, <2>4
<1>5. machine' \in [Watched -> MachineStates]
  BY <1>3, <1>4
<1>6. TypeOK'
  BY <1>0, <1>1, <1>2, <1>5 DEF TypeOK, MachineStates
<1>7. \A m \in Watched : gpuProm[m] <= now' /\ counter[m].at <= now'
  <2>1. TAKE m \in Watched
  <2>2. gpuProm[m] \in Time \union {None} /\ counter[m].at \in Time
        /\ gpuProm[m] <= now /\ counter[m].at <= now
    BY <1>0 DEF TypeOK, ClocksOK, Counter
  <2> QED
    BY <1>2, <2>2, Constants DEF Time, None
<1>8. ClocksOK'
  BY <1>1, <1>4, <1>7 DEF ClocksOK
<1>9. (GoodSample(round.sample) /\ \A m \in Watched : GoodSample(last[m]))'
  BY <1>1 DEF HostInv, GoodSample
<1> QED
  BY <1>6, <1>8, <1>9 DEF HostInv

\* A machine is booted or goes down, or its GPU is read.
LEMMA MachineStepGood ==
    ASSUME HostInv, NEW m \in Watched, NEW new \in MachineStates,
           new.boot <= now, new.idle <= now - new.boot,
           machine' = machine \/ machine' = [machine EXCEPT ![m] = new],
           gpuProm' = gpuProm \/ gpuProm' = [gpuProm EXCEPT ![m] = now],
           now' = now, counter' = counter, round' = round, last' = last,
           outages' \in 0..MaxOutages
    PROVE  HostInv'
<1>0. TypeOK /\ ClocksOK /\ now \in Time /\ now <= now
  BY Constants DEF HostInv, TypeOK, Time
<1>1. machine' \in [Watched -> MachineStates]
      /\ \A n \in Watched : machine'[n].boot <= now /\ machine'[n].idle <= now - machine'[n].boot
  <2>1. machine \in [Watched -> MachineStates]
    BY <1>0 DEF TypeOK, MachineStates
  <2>2. machine' \in [Watched -> MachineStates]
    BY <2>1
  <2>3. \A n \in Watched : machine'[n] = machine[n] \/ machine'[n] = new
    BY <2>1
  <2>4. \A n \in Watched : machine[n].boot <= now /\ machine[n].idle <= now - machine[n].boot
    BY <1>0 DEF ClocksOK
  <2> QED
    BY <2>2, <2>3, <2>4
<1>2. gpuProm' \in [Watched -> Time \union {None}] /\ \A n \in Watched : gpuProm'[n] <= now
  <2>1. gpuProm \in [Watched -> Time \union {None}] /\ \A n \in Watched : gpuProm[n] <= now
    BY <1>0 DEF TypeOK, ClocksOK
  <2>2. gpuProm' \in [Watched -> Time \union {None}]
    BY <1>0, <2>1
  <2>3. \A n \in Watched : gpuProm'[n] = gpuProm[n] \/ gpuProm'[n] = now
    BY <2>1
  <2> QED
    BY <1>0, <2>1, <2>2, <2>3
<1>3. TypeOK'
  BY <1>0, <1>1, <1>2 DEF TypeOK, MachineStates
<1>4. ClocksOK'
  BY <1>0, <1>1, <1>2 DEF ClocksOK
<1>5. (GoodSample(round.sample) /\ \A n \in Watched : GoodSample(last[n]))'
  BY DEF HostInv, GoodSample
<1> QED
  BY <1>3, <1>4, <1>5 DEF HostInv

LEMMA BootedMachine ==
    ASSUME NEW m \in Watched
    PROVE  Booted(m) = [machine EXCEPT ![m] =
                           [up |-> TRUE, boot |-> now, idle |-> 0, dates |-> machine[m].dates]]
BY DEF Booted

LEMMA MachinesStep ==
    ASSUME HostInv, NEW m \in Watched, WriteGpuProm(m) \/ GoDown(m) \/ Boot(m)
    PROVE  HostInv'
<1>0. /\ TypeOK /\ ClocksOK /\ now \in Time
      /\ machine \in [Watched -> MachineStates] /\ machine[m] \in MachineStates
      /\ machine[m].boot <= now /\ machine[m].idle <= now - machine[m].boot
      /\ outages \in 0..MaxOutages
  BY DEF HostInv, TypeOK, ClocksOK, MachineStates
<1>1. now' = now /\ counter' = counter /\ round' = round /\ last' = last
  BY DEF WriteGpuProm, GoDown, Boot
<1>2. CASE WriteGpuProm(m)
  BY <1>0, <1>1, <1>2, MachineStepGood DEF WriteGpuProm
<1>3. CASE GoDown(m)
  <2> DEFINE new == [machine[m] EXCEPT !.up = FALSE]
  <2>1. machine' = [machine EXCEPT ![m] = new] /\ gpuProm' = gpuProm
    BY <1>0, <1>3 DEF GoDown, TypeOK
  <2>2. new \in MachineStates /\ new.boot = machine[m].boot /\ new.idle = machine[m].idle
    BY <1>0 DEF MachineStates
  <2>3. outages' \in 0..MaxOutages
    BY <1>0, <1>3, Constants DEF GoDown, Outage
  <2> HIDE DEF new
  <2> QED
    BY <1>0, <1>1, <2>1, <2>2, <2>3, MachineStepGood
<1>4. CASE Boot(m)
  <2> DEFINE new == [up |-> TRUE, boot |-> now, idle |-> 0, dates |-> machine[m].dates]
  <2>1. machine' = [machine EXCEPT ![m] = new] /\ gpuProm' = gpuProm /\ outages' = outages
    BY <1>0, <1>4, BootedMachine DEF Boot
  <2>2. new \in MachineStates /\ new.boot <= now /\ new.idle <= now - new.boot
    BY <1>0, Constants DEF Time, MachineStates
  <2> HIDE DEF new
  <2> QED
    BY <1>0, <1>1, <2>1, <2>2, MachineStepGood
<1> QED
  BY <1>2, <1>3, <1>4

LEMMA RestartStep == HostInv /\ RestartCollector => HostInv'
<1> SUFFICES ASSUME HostInv, RestartCollector PROVE HostInv'
  OBVIOUS
<1> DEFINE new(m) == [up |-> TRUE, boot |-> now, idle |-> 0, dates |-> machine[m].dates]
<1>0. TypeOK /\ ClocksOK /\ now \in Time /\ machine \in [Watched -> MachineStates]
  BY DEF HostInv, TypeOK, MachineStates
<1>1. /\ counter' = [m \in Watched |-> Unprimed] /\ round' = AtRest
      /\ last' = [m \in Watched |-> Unread] /\ now' = now /\ gpuProm' = gpuProm
  BY DEF RestartCollector, Forget
<1>2. machine' = machine \/ \E m \in Watched : machine' = [machine EXCEPT ![m] = new(m)]
  <2>1. machine' = machine \/ \E m \in Watched : machine' = Booted(m)
    BY DEF RestartCollector
  <2> QED
    BY <1>0, <2>1, BootedMachine
<1>3. \A m \in Watched :
        new(m) \in MachineStates /\ new(m).boot <= now /\ new(m).idle <= now - new(m).boot
  BY <1>0, Constants DEF Time, MachineStates
<1> HIDE DEF new
<1>4. /\ machine' \in [Watched -> MachineStates]
      /\ \A n \in Watched : machine'[n].boot <= now /\ machine'[n].idle <= now - machine'[n].boot
  <2>1. \A n \in Watched : machine[n].boot <= now /\ machine[n].idle <= now - machine[n].boot
    BY <1>0 DEF ClocksOK
  <2>2. CASE machine' = machine
    BY <1>0, <2>1, <2>2
  <2>3. CASE machine' # machine
    <3>1. PICK m \in Watched : machine' = [machine EXCEPT ![m] = new(m)]
      BY <1>2, <2>3
    <3>2. machine' \in [Watched -> MachineStates]
      BY <1>0, <1>3, <3>1
    <3>3. \A n \in Watched : machine'[n] = machine[n] \/ machine'[n] = new(m)
      BY <1>0, <3>1
    <3> QED
      BY <1>3, <2>1, <3>2, <3>3
  <2> QED
    BY <2>2, <2>3
<1>5. Unprimed \in Counter /\ Unprimed.at = 0 /\ 0 <= now
  BY <1>0, Constants DEF Unprimed, Counter, Time
<1>6. outages' \in 0..MaxOutages
  BY <1>0, Constants DEF RestartCollector, Outage, TypeOK
<1>7. TypeOK'
  BY <1>0, <1>1, <1>4, <1>5, <1>6, RoundsTyped, UnreadGood DEF TypeOK, Rounds, MachineStates
<1>8. ClocksOK'
  BY <1>0, <1>1, <1>4, <1>5 DEF ClocksOK
<1>9. (GoodSample(round.sample) /\ \A m \in Watched : GoodSample(last[m]))'
  BY <1>1, RoundsTyped, UnreadGood DEF GoodSample
<1> QED
  BY <1>7, <1>8, <1>9 DEF HostInv

LEMMA HostStep == HostInv /\ [Next]_vars => HostInv'
<1> SUFFICES ASSUME HostInv, [Next]_vars PROVE HostInv'
  OBVIOUS
<1>1. CASE UNCHANGED vars
  BY <1>1 DEF vars, HostInv, TypeOK, ClocksOK, GoodSample
<1> QED
  BY <1>1, SamplingStep, TickStep, RestartStep, MachinesStep DEF Next, MachineStep

LEMMA HostAlways == Spec => []HostInv
  BY HostInit, HostStep, PTL DEF Spec

\* TypeOK: every recorded time is one the clock has shown, and a round stays within the machines.
THEOREM HostTypes == Spec => []TypeOK
<1>1. HostInv => TypeOK
  BY DEF HostInv
<1> QED
  BY <1>1, HostAlways, PTL

\* MixedOnlyAfterGap: cpuCounter drops every value of two boots, except when the machine has
\* been away from the collector for longer than it had been up when it was last read.
THEOREM RebootNoticed == Spec => []MixedOnlyAfterGap
<1>1. HostInv => MixedOnlyAfterGap
  BY DEF HostInv, GoodSample, MixedOnlyAfterGap, Samples
<1> QED
  BY <1>1, HostAlways, PTL

-----------------------------------------------------------------------------
(* The two ways of reading a machine. *)

LEMMA MaxOfTwo ==
    ASSUME NEW a \in Int, NEW b \in Int
    PROVE  Max({a, b}) = IF a >= b THEN a ELSE b
<1> DEFINE top == IF a >= b THEN a ELSE b
<1>1. top \in {a, b} /\ \A y \in {a, b} : top >= y
  OBVIOUS
<1>2. \A x \in {a, b} : (\A y \in {a, b} : x >= y) => x = top
  OBVIOUS
<1> HIDE DEF top
<1>3. Max({a, b}) = top
  BY <1>1, <1>2 DEF Max
<1> QED
  BY <1>3 DEF top

LEMMA MinOfTwo ==
    ASSUME NEW a \in Int, NEW b \in Int
    PROVE  Min({a, b}) = IF a <= b THEN a ELSE b
<1> DEFINE least == IF a <= b THEN a ELSE b
<1>1. least \in {a, b} /\ \A y \in {a, b} : least <= y
  OBVIOUS
<1>2. \A x \in {a, b} : (\A y \in {a, b} : x <= y) => x = least
  OBVIOUS
<1> HIDE DEF least
<1>3. Min({a, b}) = least
  BY <1>1, <1>2 DEF Min
<1> QED
  BY <1>3 DEF least

LEMMA TenthsClamped ==
    ASSUME NEW part \in Int, NEW whole \in Nat \ {0}
    PROVE  LET q == (2000 * part + whole) \div (2 * whole) IN
           /\ q \in Int
           /\ Tenths(part, whole) = IF q < 0 THEN 0 ELSE IF q > 1000 THEN 1000 ELSE q
<1> DEFINE q == (2000 * part + whole) \div (2 * whole)
<1>1. 2 * whole \in Nat \ {0} /\ 2000 * part + whole \in Int
  OBVIOUS
<1>2. q \in Int
  BY <1>1
<1>3. Tenths(part, whole) = Max({0, Min({1000, q})})
  BY DEF Tenths
<1> HIDE DEF q
<1>4. Min({1000, q}) = IF 1000 <= q THEN 1000 ELSE q
  BY <1>2, MinOfTwo
<1>5. Min({1000, q}) \in Int
  BY <1>2, <1>4
<1>6. Max({0, Min({1000, q})}) = IF 0 >= Min({1000, q}) THEN 0 ELSE Min({1000, q})
  BY <1>5, MaxOfTwo
<1>7. Tenths(part, whole) = IF q < 0 THEN 0 ELSE IF q > 1000 THEN 1000 ELSE q
  BY <1>2, <1>3, <1>4, <1>6
<1> QED
  BY <1>2, <1>7 DEF q

\* Time that is counted twice, as busy time and in the total, raises the share of busy time.
LEMMA GuestsLookBusier ==
    ASSUME NEW busy \in Int, NEW time \in Nat \ {0}, busy <= time, time + busy > 0
    PROVE  Tenths(busy + busy, time + busy) >= Tenths(busy, time)
<1> DEFINE once == (2000 * busy + time) \div (2 * time)
           twice == (2000 * (busy + busy) + (time + busy)) \div (2 * (time + busy))
<1>1. time + busy \in Nat \ {0} /\ busy + busy \in Int
  OBVIOUS
<1>2. /\ once \in Int
      /\ Tenths(busy, time) = IF once < 0 THEN 0 ELSE IF once > 1000 THEN 1000 ELSE once
  BY TenthsClamped
<1>3. /\ twice \in Int
      /\ Tenths(busy + busy, time + busy)
           = IF twice < 0 THEN 0 ELSE IF twice > 1000 THEN 1000 ELSE twice
  BY <1>1, TenthsClamped
<1>4. 2 * time * once <= 2000 * busy + time
  <2>1. 2 * time \in Nat \ {0} /\ 2000 * busy + time \in Int
    OBVIOUS
  <2>2. \A a \in Int, b \in Nat \ {0} : b * (a \div b) <= a
    OBVIOUS
  <2> QED
    BY <2>1, <2>2
<1>5. 4000 * busy + time + busy < 2 * (time + busy) * twice + 2 * (time + busy)
  <2> DEFINE a == 2000 * (busy + busy) + (time + busy)
             b == 2 * (time + busy)
  <2>1. a \in Int /\ b \in Nat \ {0}
    OBVIOUS
  <2>2. twice = a \div b /\ a = 4000 * busy + time + busy
    OBVIOUS
  <2> HIDE DEF a, twice
  <2>3. a < b * twice + b
    <3> HIDE DEF b
    <3> QED
      BY <2>1, <2>2
  <2> QED
    BY <2>2, <2>3
<1> HIDE DEF once, twice
<1>6. once <= 1000
  <2> SUFFICES ASSUME once >= 1001 PROVE FALSE
    BY <1>2
  <2>1. time * once >= time * 1001
    BY <1>2
  <2> QED
    BY <1>2, <1>4, <2>1
<1>7. CASE busy < 0
  <2>1. once <= 0
    <3> SUFFICES ASSUME once >= 1 PROVE FALSE
      BY <1>2
    <3>1. time * once >= time
      BY <1>2
    <3> QED
      BY <1>2, <1>4, <1>7, <3>1
  <2> QED
    BY <1>2, <1>3, <2>1
<1>8. CASE busy >= 0 /\ once > 0
  <2>1. busy * once <= busy * 1000
    BY <1>2, <1>6, <1>8
  <2>2. 2 * (time + busy) * once = 2 * time * once + 2 * (busy * once)
    BY <1>2
  <2>3. 2 * (time + busy) * once <= 4000 * busy + time
    BY <1>2, <1>4, <2>1, <2>2
  <2>4. 2 * (time + busy) * once < 2 * (time + busy) * (twice + 1)
    <3>1. 2 * (time + busy) * (twice + 1) = 2 * (time + busy) * twice + 2 * (time + busy)
      BY <1>3
    <3> QED
      BY <1>2, <1>3, <1>5, <1>8, <2>3, <3>1
  <2>5. once <= twice
    <3> SUFFICES ASSUME once >= twice + 1 PROVE FALSE
      BY <1>2, <1>3
    <3>1. (time + busy) * once >= (time + busy) * (twice + 1)
      BY <1>1, <1>2, <1>3
    <3> QED
      BY <1>1, <1>2, <1>3, <2>4, <3>1
  <2> QED
    BY <1>2, <1>3, <1>6, <2>5
<1>9. CASE once <= 0
  BY <1>2, <1>3, <1>9
<1> QED
  BY <1>2, <1>7, <1>8, <1>9

LEMMA CpuGaugesAgree == TypeOK => CpuAgrees
<1> SUFFICES ASSUME TypeOK, NEW m \in Watched
             PROVE  /\ LocalCpu(m, FALSE) = RemoteCpu(m)
                    /\ \A local \in LocalCpu(m, TRUE), remote \in RemoteCpu(m) : local >= remote
  BY DEF CpuAgrees
<1> DEFINE c == counter[m]
           idle == machine[m].idle
           total == Total(m)
<1>1. /\ c \in Counter /\ c.total \in Int /\ c.idle \in Int /\ idle \in Int /\ total \in Int
  BY Constants DEF TypeOK, Counter, Time, Total
<1> HIDE DEF c, idle, total
<1>2. LocalCpu(m, FALSE) = RemoteCpu(m)
  <2>1. LocalTotal(idle, total, FALSE) = total /\ LocalTotal(c.idle, c.total, FALSE) = c.total
    BY <1>1 DEF LocalTotal
  <2>2. [c EXCEPT !.total = c.total] = c
    BY <1>1 DEF Counter
  <2>3. LocalCpu(m, FALSE) = Utilisation([c EXCEPT !.total = LocalTotal(c.idle, c.total, FALSE)],
                                         idle, LocalTotal(idle, total, FALSE))
    BY DEF LocalCpu, c, idle, total
  <2> QED
    BY <2>1, <2>2, <2>3 DEF RemoteCpu, c, idle, total
<1>3. ASSUME NEW local \in LocalCpu(m, TRUE), NEW remote \in RemoteCpu(m)
      PROVE  local >= remote
  <2> DEFINE time == total - c.total
             busy == total - c.total - (idle - c.idle)
             g == [c EXCEPT !.total = LocalTotal(c.idle, c.total, TRUE)]
             all == LocalTotal(idle, total, TRUE)
  <2>1. LocalCpu(m, TRUE) = Utilisation(g, idle, all)
    BY DEF LocalCpu, c, idle, total
  <2>2. g.idle = c.idle /\ g.total = c.total + (c.total - c.idle) /\ all = total + (total - idle)
    BY <1>1 DEF Counter, LocalTotal
  <2>3. RemoteCpu(m) = Utilisation(c, idle, total)
    BY DEF RemoteCpu, c, idle, total
  <2>4. total > c.total /\ idle >= c.idle /\ remote = Tenths(busy, time)
    BY <1>3, <2>3 DEF Utilisation, Usable
  <2>5. all > g.total /\ local = Tenths(all - g.total - (idle - g.idle), all - g.total)
    BY <1>3, <2>1 DEF Utilisation, Usable
  <2>6. all - g.total = time + busy /\ all - g.total - (idle - g.idle) = busy + busy
    <3> HIDE DEF g, all
    <3> QED
      BY <1>1, <2>2
  <2>7. busy \in Int /\ time \in Nat \ {0} /\ busy <= time /\ time + busy > 0
    <3>1. all - g.total > 0
      <4>1. all \in Int /\ g.total \in Int
        <5> HIDE DEF g, all
        <5> QED
          BY <1>1, <2>2
      <4> HIDE DEF g, all
      <4> QED
        BY <2>5, <4>1
    <3> HIDE DEF g, all
    <3> QED
      BY <1>1, <2>4, <2>6, <3>1
  <2> HIDE DEF time, busy, g, all
  <2>8. Tenths(busy + busy, time + busy) >= Tenths(busy, time)
    BY <2>7, GuestsLookBusier
  <2> QED
    BY <2>4, <2>5, <2>6, <2>8
<1> QED
  BY <1>2, <1>3

\* Memory, swap, load and temperatures: the exporter's sensors of kind thermal are the zones.
LEMMA GaugesAgree ==
    ASSUME NEW d \in Contents, NEW fresh \in BOOLEAN, d.mem.total > 0, d.mem.available # 0
    PROVE  Common(Metrics(LocalSample(d), {})) = Common(Metrics(RemoteSample(d, fresh), {}))
<1> DEFINE l == LocalSample(d)
           r == RemoteSample(d, fresh)
<1>1. LocalAvailable(d.mem) = RemoteAvailable(d.mem)
  <2>1. {d.mem.free, d.mem.buffers, d.mem.cached} \subseteq Nat
    BY ReadingsAssumption
  <2>2. d.mem.free + d.mem.buffers + d.mem.cached = d.mem.free + d.mem.cached + d.mem.buffers
    BY <2>1
  <2> QED
    BY <2>2 DEF LocalAvailable, RemoteAvailable
<1>2. l.reachable = TRUE /\ r.reachable = TRUE /\ l.load = r.load /\ l.mem = r.mem /\ l.swap = r.swap
  BY <1>1 DEF LocalSample, RemoteSample
<1>3. \A t : t.sensor # "gpu" => (t \in l.temps <=> t \in r.temps)
  <2> DEFINE localBoard == Readings({c \in d.chips : c.kind # "nvme"})
             remoteBoard == Readings({c \in d.chips : c.kind \notin {"nvme", "thermal"}})
             gpus == IF fresh THEN {g.celsius : g \in d.gpus} ELSE {}
  <2>1. d.zones = {} => localBoard = remoteBoard
    <3> HAVE d.zones = {}
    <3>1. \A c \in d.chips : c.kind # "thermal"
      BY ReadingsAssumption
    <3>2. {c \in d.chips : c.kind # "nvme"} = {c \in d.chips : c.kind \notin {"nvme", "thermal"}}
      BY <3>1
    <3> QED
      BY <3>2
  <2>2. (IF d.zones = {} THEN localBoard ELSE d.zones) = (IF d.zones = {} THEN remoteBoard ELSE d.zones)
    BY <2>1
  <2>3. /\ l.temps = Temps(d, localBoard, {})
        /\ r.temps = Temps(d, remoteBoard, gpus)
    BY DEF LocalSample, RemoteSample, LocalTemps, RemoteTemps
  <2> HIDE DEF localBoard, remoteBoard, gpus, l, r
  <2>4. \A t, readings : t \in Hottest("gpu", readings) => t.sensor = "gpu"
    BY DEF Hottest
  <2> QED
    BY <2>2, <2>3, <2>4 DEF Temps
<1> HIDE DEF l, r
<1>4. \A g : g \in Common(Metrics(l, {})) <=> g \in Common(Metrics(r, {}))
  <2> TAKE g
  <2> DEFINE Kept(s) ==
               \/ g = Gauge("load1", "", s.load) \/ g = Gauge("mem_used_pct", "", s.mem)
               \/ s.swap # 0 /\ g = Gauge("swap_used_pct", "", s.swap)
               \/ \E t \in s.temps : t.sensor # "gpu" /\ g = Gauge("temp_c", t.sensor, t.celsius)
  <2>1. ASSUME NEW s, s.reachable = TRUE
        PROVE  g \in Common(Metrics(s, {})) <=> Kept(s)
    <3>1. g \in Metrics(s, {}) <=>
             \/ g = Gauge("load1", "", s.load) \/ g = Gauge("mem_used_pct", "", s.mem)
             \/ s.swap # 0 /\ g = Gauge("swap_used_pct", "", s.swap)
             \/ \E k \in s.disks : g = Gauge("disk_used_pct", k.mount, k.used)
             \/ \E t \in s.temps : g = Gauge("temp_c", t.sensor, t.celsius)
             \/ s.power # 0 /\ g = Gauge("gpu_power_w", "", s.power)
      BY <2>1 DEF Metrics
    <3> DEFINE Counts == /\ g.name \notin {"disk_used_pct", "gpu_power_w", "cpu_used_pct"}
                         /\ g.label # "gpu"
    <3>2. g \in Common(Metrics(s, {})) <=> g \in Metrics(s, {}) /\ Counts
      BY DEF Common
    <3>0. ASSUME NEW name, NEW label, NEW value, g = Gauge(name, label, value)
          PROVE  g.name = name /\ g.label = label
      BY <3>0 DEF Gauge
    <3>3. /\ g = Gauge("load1", "", s.load) => Counts
          /\ g = Gauge("mem_used_pct", "", s.mem) => Counts
          /\ g = Gauge("swap_used_pct", "", s.swap) => Counts
          /\ g = Gauge("gpu_power_w", "", s.power) => ~Counts
      <4>1. ASSUME g = Gauge("load1", "", s.load) PROVE Counts
        <5>1. g.name = "load1" /\ g.label = ""
          BY <4>1, <3>0
        <5> QED
          BY <5>1
      <4>2. ASSUME g = Gauge("mem_used_pct", "", s.mem) PROVE Counts
        <5>1. g.name = "mem_used_pct" /\ g.label = ""
          BY <4>2, <3>0
        <5> QED
          BY <5>1
      <4>3. ASSUME g = Gauge("swap_used_pct", "", s.swap) PROVE Counts
        <5>1. g.name = "swap_used_pct" /\ g.label = ""
          BY <4>3, <3>0
        <5> QED
          BY <5>1
      <4>4. ASSUME g = Gauge("gpu_power_w", "", s.power) PROVE ~Counts
        BY <4>4, <3>0
      <4> QED
        BY <4>1, <4>2, <4>3, <4>4
    <3>4. \A k \in s.disks : g = Gauge("disk_used_pct", k.mount, k.used) => ~Counts
      BY <3>0
    <3>5. \A t \in s.temps : g = Gauge("temp_c", t.sensor, t.celsius) =>
                              (Counts <=> t.sensor # "gpu")
      BY <3>0
    <3> HIDE DEF Counts
    <3> QED
      BY <3>1, <3>2, <3>3, <3>4, <3>5
  <2>2. Kept(l) <=> Kept(r)
    BY <1>2, <1>3
  <2> HIDE DEF Kept
  <2> QED
    BY <1>2, <2>1, <2>2
<1>5. Common(Metrics(l, {})) = Common(Metrics(r, {}))
  BY <1>4
<1> QED
  BY <1>5 DEF l, r

LEMMA LeastIndex ==
    ASSUME NEW T, T \subseteq Nat, T # {}
    PROVE  \E x \in T : \A y \in T : x <= y
<1>1. PICK x \in T : \A y \in T : <<y, x>> \notin OpToRel(<, Nat)
  BY NatLessThanWellFounded, WFMin
<1>2. ASSUME NEW y \in T PROVE x <= y
  <2>1. x \in Nat /\ y \in Nat
    OBVIOUS
  <2>2. ~(y < x)
    BY <1>1, <2>1 DEF OpToRel
  <2> QED
    BY <2>1, <2>2
<1> QED
  BY <1>2

\* What a disk of the local sample is: the path with that number is the first that named the
\* device of the volume that holds it.
FirstAt(d, k, v) ==
    /\ v \in VolumesAt(d, DiskPaths[k])
    /\ \A j \in 1 .. k - 1 : \A w \in VolumesAt(d, DiskPaths[j]) : w.device # v.device

LEMMA LocalDisk ==
    ASSUME NEW d, NEW x
    PROVE  x \in LocalDisks(d) <=>
              \E k \in DOMAIN DiskPaths : \E v : FirstAt(d, k, v) /\ x = DiskOf(DiskPaths[k], v)
BY DEF LocalDisks, FirstAt

\* Paths lie in one volume each, and volumes have mount points of their own, so a disk of either
\* sample tells its volume.
LEMMA DisksTellVolumes ==
    ASSUME NEW d \in Contents
    PROVE  DisksAgree(d)
<1>1. \A v, w \in d.volumes : v.mount = w.mount \/ v.paths \intersect w.paths # {} => v = w
  BY ReadingsAssumption
<1>2. ASSUME NEW v \in d.volumes, NEW k \in LocalDisks(d), NEW r \in RemoteDisks(d),
             k.mount \in v.paths, r.mount = v.mount
      PROVE  k.used = r.used /\ k.total = r.total
  <2>1. PICK i, u : i \in DOMAIN DiskPaths /\ FirstAt(d, i, u) /\ k = DiskOf(DiskPaths[i], u)
    BY <1>2, LocalDisk
  <2>2. u \in d.volumes /\ DiskPaths[i] \in u.paths /\ k.mount = DiskPaths[i]
    BY <2>1 DEF FirstAt, VolumesAt, DiskOf
  <2>3. u = v
    BY <1>1, <1>2, <2>2
  <2>4. PICK w \in d.volumes : r = DiskOf(w.mount, w)
    BY DEF RemoteDisks
  <2>5. w = v
    BY <1>1, <1>2, <2>4 DEF DiskOf
  <2> QED
    BY <2>1, <2>3, <2>4, <2>5 DEF DiskOf
<1>3. ASSUME NEW v \in d.volumes, v.size > 0, \E k \in DOMAIN DiskPaths : DiskPaths[k] \in v.paths
      PROVE  Cardinality({k \in LocalDisks(d) :
                 k.mount \in UNION {w.paths : w \in {w \in d.volumes : w.device = v.device}}}) = 1
  <2> DEFINE paths == UNION {w.paths : w \in {w \in d.volumes : w.device = v.device}}
             named == {k \in DOMAIN DiskPaths :
                          \E w \in VolumesAt(d, DiskPaths[k]) : w.device = v.device}
  <2>1. named # {}
    BY <1>3 DEF VolumesAt
  <2>2. DOMAIN DiskPaths \subseteq Nat /\ \A k \in DOMAIN DiskPaths : 1 .. k - 1 \subseteq DOMAIN DiskPaths
    BY PathsAssumption, LenProperties
  <2>3. PICK least \in named : \A k \in named : least <= k
    BY <2>1, <2>2, LeastIndex
  <2>4. PICK w \in VolumesAt(d, DiskPaths[least]) : w.device = v.device
    OBVIOUS
  <2>5. least \in DOMAIN DiskPaths /\ least \in Nat /\ w \in d.volumes /\ DiskPaths[least] \in w.paths
    BY <2>2 DEF VolumesAt
  <2>6. FirstAt(d, least, w)
    <3>1. SUFFICES ASSUME NEW j \in 1 .. least - 1, NEW other \in VolumesAt(d, DiskPaths[j]),
                          other.device = w.device
                   PROVE  FALSE
      BY DEF FirstAt
    <3>2. j \in named
      BY <2>2, <2>4, <2>5, <3>1
    <3>3. least <= j
      BY <2>3, <3>2
    <3> QED
      BY <2>5, <3>3
  <2>7. DiskOf(DiskPaths[least], w) \in {k \in LocalDisks(d) : k.mount \in paths}
    <3>1. DiskOf(DiskPaths[least], w) \in LocalDisks(d)
      BY <2>5, <2>6, LocalDisk
    <3>2. DiskPaths[least] \in paths
      BY <2>4, <2>5
    <3> QED
      BY <3>1, <3>2 DEF DiskOf
  <2>8. ASSUME NEW x \in LocalDisks(d), x.mount \in paths
        PROVE  x = DiskOf(DiskPaths[least], w)
    <3>1. PICK i, u : i \in DOMAIN DiskPaths /\ FirstAt(d, i, u) /\ x = DiskOf(DiskPaths[i], u)
      BY LocalDisk
    <3>2. u \in VolumesAt(d, DiskPaths[i]) /\ u \in d.volumes /\ DiskPaths[i] \in u.paths
          /\ x.mount = DiskPaths[i]
      BY <3>1 DEF FirstAt, VolumesAt, DiskOf
    <3>3. PICK o \in d.volumes : o.device = v.device /\ x.mount \in o.paths
      BY <2>8
    <3>4. u = o
      BY <1>1, <3>2, <3>3
    <3>5. i \in named /\ i \in Nat
      BY <2>2, <3>1, <3>2, <3>3, <3>4
    <3>6. least <= i
      BY <2>3, <3>5
    <3>7. ~(least < i)
      <4>1. ASSUME least < i PROVE FALSE
        <5>1. least \in 1 .. i - 1
          <6>1. least >= 1
            BY <2>5, PathsAssumption, LenProperties
          <6> QED
            BY <2>5, <3>5, <4>1, <6>1
        <5>2. w.device # u.device
          BY <3>1, <5>1 DEF FirstAt
        <5> QED
          BY <2>4, <3>3, <3>4, <5>2
      <4> QED
        BY <4>1
    <3>8. i = least
      BY <2>5, <3>5, <3>6, <3>7
    <3>9. u = w
      BY <1>1, <2>5, <3>2, <3>8
    <3> QED
      BY <3>1, <3>8, <3>9
  <2>9. {k \in LocalDisks(d) : k.mount \in paths} = {DiskOf(DiskPaths[least], w)}
    BY <2>7, <2>8
  <2> QED
    BY <2>9, FS_Singleton
<1> QED
  BY <1>2, <1>3 DEF DisksAgree

\* TwinsAgree: Local and NodeExporter.fill, with the exceptions named, make the same gauges of a
\* machine: of its CPU at every moment, of its memory, disks and sensors whatever they are.
THEOREM TwinReadingsAgree == Spec => []TwinsAgree
<1>1. ContentsAgree
  BY GaugesAgree, DisksTellVolumes DEF ContentsAgree
<1>2. HostInv => TwinsAgree
  BY <1>1, CpuGaugesAgree DEF HostInv, TwinsAgree
<1> QED
  BY <1>2, HostAlways, PTL
=============================================================================
