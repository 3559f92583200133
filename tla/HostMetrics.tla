---------------------------- MODULE HostMetrics ----------------------------
(***************************************************************************)
(* The host registry (internal/host): one goroutine samples one machine    *)
(* after the other, keeps the latest sample of each for the API and stores *)
(* its gauges.  CPU utilisation is the difference of two readings of the   *)
(* machine's counters, which start again when it boots.  GPU readings come *)
(* from a file that a timer on the machine rewrites and that is served     *)
(* long after the timer has died.                                          *)
(*                                                                         *)
(* One machine may be the one the collector runs on (Local), which is read *)
(* from /proc; the others answer through node_exporter, over a network     *)
(* that may fail.  The counters of a machine count from its boot, so their *)
(* total is the time since then.                                           *)
(***************************************************************************)
EXTENDS Integers, Sequences

CONSTANTS
    Order,       \* the machines in the order they are configured in, each with a name of its own
    Watched,     \* the machines whose data is followed: no sample depends on those of others
    Local,       \* the machine the collector runs on; any other value when it samples only others
    MaxAge,      \* how old gpu.prom may be before it is ignored
    MaxNow,      \* bound on the clock
    MaxOutages   \* bound on the times machines or the collector go down

Machines == {Order[k] : k \in 1..Len(Order)}

ASSUME HostAssumption ==
    /\ Order \in Seq(Machines) /\ Order # <<>>
    /\ Watched \subseteq Machines
    /\ MaxAge \in Nat
    /\ MaxNow \in Nat
    /\ MaxOutages \in Nat

None == -1
Time == 0..MaxNow

\* The CPU part of a sample: of how many boots it is; 0 is no value.
\* gap, since: history, the time between the two readings and the uptime at the first.
NoCpu == [boots |-> 0, gap |-> 0, since |-> 0]
Cpus == [boots : 0..2, gap : Time, since : Time]

\* A sample: whether the machine answered, CPU, and the age of the GPU reading it carries.
Sample == [reachable : BOOLEAN, cpu : Cpus, gpu : Time \union {None}]
Unread == [reachable |-> FALSE, cpu |-> NoCpu, gpu |-> None]

\* cpuCounter; at: history, the time of the reading it holds.
Unprimed == [primed |-> FALSE, idle |-> 0, total |-> 0, at |-> 0]
Counter == [primed : BOOLEAN, idle : Time, total : Time, at : Time]

VARIABLES
    now,      \* the clock
    machine,  \* up, the time of its boot, the idle time it has counted since, and whether its
              \* exporter dates the textfile: tells its own clock and when the file was written
    gpuProm,  \* the time of the reading in gpu.prom, None without the file
    counter,  \* the previous reading of each sampler
    round,    \* the call of SampleAll in progress
    last,     \* what Registry.Latest returns: the latest sample, Unread before the first one
    outages   \* how often something went down

vars == <<now, machine, gpuProm, counter, round, last, outages>>

AtRest == [pc |-> "rest", i |-> 1, sample |-> Unread]
ReadAt(k) == [pc |-> "read", i |-> k, sample |-> Unread]
ReadFrom(k, sample) == [pc |-> "publish", i |-> k, sample |-> sample]

TypeOK ==
    /\ now \in Time
    /\ machine \in [Watched -> [up : BOOLEAN, boot : Time, idle : Time, dates : BOOLEAN]]
    /\ gpuProm \in [Watched -> Time \union {None}]
    /\ counter \in [Watched -> Counter]
    /\ round \in [pc : {"rest", "read", "publish"},
                  i : 1..Len(Order), sample : Sample]
    /\ last \in [Watched -> Sample]
    /\ outages \in 0..MaxOutages

Init ==
    /\ now = 0
    /\ \E dating \in SUBSET Watched :
          machine = [m \in Watched |->
                        [up |-> TRUE, boot |-> 0, idle |-> 0, dates |-> m \in dating]]
    /\ gpuProm = [m \in Watched |-> None]
    /\ counter = [m \in Watched |-> Unprimed]
    /\ round = AtRest
    /\ last = [m \in Watched |-> Unread]
    /\ outages = 0

-----------------------------------------------------------------------------
\* The machines.  Time is busy or idle on each.
Tick ==
    /\ now < MaxNow
    /\ now' = now + 1
    /\ \E idlers \in SUBSET {m \in Watched : machine[m].up} :
          machine' = [m \in Watched |->
              IF m \in idlers THEN [machine[m] EXCEPT !.idle = @ + 1] ELSE machine[m]]
    /\ UNCHANGED <<gpuProm, counter, round, last, outages>>

\* gpu-textfile.sh: nvidia-smi first, and only what it says replaces the file.
WriteGpuProm(m) ==
    /\ machine[m].up
    /\ gpuProm' = [gpuProm EXCEPT ![m] = now]
    /\ UNCHANGED <<now, machine, counter, round, last, outages>>

Outage == outages < MaxOutages /\ outages' = outages + 1

\* The collector loses what it keeps in memory; so it does with the machine it runs on.
Forget ==
    /\ counter' = [m \in Watched |-> Unprimed]
    /\ round' = AtRest
    /\ last' = [m \in Watched |-> Unread]

Booted(m) ==
    [machine EXCEPT ![m] = [up |-> TRUE, boot |-> now, idle |-> 0, dates |-> machine[m].dates]]

GoDown(m) ==
    /\ machine[m].up
    /\ m # Local
    /\ machine' = [machine EXCEPT ![m].up = FALSE]
    /\ Outage
    /\ UNCHANGED <<now, gpuProm, counter, round, last>>

Boot(m) ==
    /\ ~machine[m].up
    /\ machine' = Booted(m)
    /\ UNCHANGED <<now, gpuProm, counter, round, last, outages>>

RestartCollector ==
    /\ Outage
    /\ Forget
    /\ machine' \in {machine} \union {Booted(m) : m \in Watched \intersect {Local}}
    /\ UNCHANGED <<now, gpuProm>>

-----------------------------------------------------------------------------
\* SampleAll.  The ticker begins a round; the machines are taken in order, each asked and its
\* sample published before the next.
Current == Order[round.i]

Begin ==
    /\ round.pc = "rest"
    /\ round' = ReadAt(1)
    /\ UNCHANGED <<now, machine, gpuProm, counter, last, outages>>

Total(m) == now - machine[m].boot

\* cpuCounter.update
\* Variant: only the idle counter is looked at.
UsableByIdle(c, idle, total) == c.primed /\ idle >= c.idle

Usable(c, idle, total) == c.primed /\ total > c.total /\ idle >= c.idle

CpuOf(c, m) ==
    IF Usable(c, machine[m].idle, Total(m))
    THEN [boots |-> IF machine[m].boot > c.at THEN 2 ELSE 1, gap |-> now - c.at, since |-> c.total]
    ELSE NoCpu

\* Variant: a file counts for as long as there is one.
GpuOfAnyAge(m) == IF gpuProm[m] # None THEN now - gpuProm[m] ELSE None

\* gpuTextfile: a file that is dated counts while it is fresh by the machine's own clock.  Without
\* a clock or a date it counts whatever its age.
GpuOf(m) ==
    IF gpuProm[m] # None /\ (machine[m].dates => now - gpuProm[m] <= MaxAge)
    THEN now - gpuProm[m] ELSE None

\* What is read of a machine.  Counters that cannot be read, or are still 0, leave the previous
\* ones alone; the collector's own machine has its GPU read from nowhere.
Reading(m, counted, reachable) ==
    LET update == counted /\ Total(m) > 0
    IN  /\ counter' = IF update
                      THEN [counter EXCEPT ![m] = [primed |-> TRUE, idle |-> machine[m].idle,
                                                   total |-> Total(m), at |-> now]]
                      ELSE counter
        /\ round' = ReadFrom(round.i,
              [reachable |-> reachable,
               cpu |-> IF update THEN CpuOf(counter[m], m) ELSE NoCpu,
               gpu |-> IF reachable /\ m # Local THEN GpuOf(m) ELSE None])

Read ==
    /\ round.pc = "read"
    /\ Current \in Watched
    /\ machine[Current].up
    /\ Reading(Current, TRUE, TRUE)
    /\ UNCHANGED <<now, machine, gpuProm, last, outages>>

\* No answer within the timeout, not a good one, or one without counters; of the collector's
\* own machine the memory may be what cannot be read, after the counters.
ReadFails ==
    /\ round.pc = "read"
    /\ Current \in Watched
    /\ \E counted, reachable \in BOOLEAN :
          /\ ~(counted /\ reachable)
          /\ counted => Current = Local
          /\ IF machine[Current].up THEN Outage ELSE ~reachable /\ UNCHANGED outages
          /\ Reading(Current, counted, reachable)
    /\ UNCHANGED <<now, machine, gpuProm, last>>

\* A machine that is not followed answers or does not.
ReadOther ==
    /\ round.pc = "read"
    /\ Current \notin Watched
    /\ \E reachable \in BOOLEAN :
          round' = ReadFrom(round.i, [Unread EXCEPT !.reachable = reachable])
    /\ UNCHANGED <<now, machine, gpuProm, counter, last, outages>>

\* Registry.last and the gauges.  A sample that failed replaces the previous one as well, and
\* whether its gauges can be stored changes nothing here.
\* Variant: the round ends one machine too late.
NextMachinePastEnd ==
    round' = IF round.i > Len(Order) THEN AtRest ELSE ReadAt(round.i + 1)

NextMachine ==
    round' = IF round.i = Len(Order) THEN AtRest ELSE ReadAt(round.i + 1)

\* Variants: a failed sample does not replace the previous one; it ends the round.
PublishIfReachable ==
    /\ round.pc = "publish"
    /\ last' = IF Current \in Watched /\ round.sample.reachable
             THEN [last EXCEPT ![Current] = round.sample]
             ELSE last
    /\ NextMachine
    /\ UNCHANGED <<now, machine, gpuProm, counter, outages>>

PublishOrStop ==
    /\ round.pc = "publish"
    /\ last' = IF Current \in Watched THEN [last EXCEPT ![Current] = round.sample] ELSE last
    /\ IF round.sample.reachable THEN NextMachine ELSE round' = AtRest
    /\ UNCHANGED <<now, machine, gpuProm, counter, outages>>

Publish ==
    /\ round.pc = "publish"
    /\ last' = IF Current \in Watched THEN [last EXCEPT ![Current] = round.sample] ELSE last
    /\ NextMachine
    /\ UNCHANGED <<now, machine, gpuProm, counter, outages>>

-----------------------------------------------------------------------------
SampleAll == Begin \/ Read \/ ReadFails \/ ReadOther \/ Publish
MachineStep ==
    \/ Tick
    \/ RestartCollector
    \/ \E m \in Watched : WriteGpuProm(m) \/ GoDown(m) \/ Boot(m)

Next == SampleAll \/ MachineStep
Spec == Init /\ [][Next]_vars

\* The ticker fires and each call of a round ends, in an answer or by its timeout.
Fairness == WF_vars(SampleAll)
FairSpec == Spec /\ Fairness

-----------------------------------------------------------------------------
(* Properties *)

Samples == {round.sample} \union {last[m] : m \in Watched}

\* A utilisation is computed from the counters of two boots only if the machine was not read
\* for longer than it had been up when it was read before: a reboot between two readings of
\* a machine that is read regularly is always noticed.
MixedOnlyAfterGap ==
    \A s \in Samples : s.cpu.boots = 2 => s.cpu.gap > s.cpu.since

\* What the types rest on: nothing recorded is later than now, and no machine was idle for
\* longer than it has been up.
ClocksOK ==
    \A m \in Watched :
        /\ machine[m].boot <= now
        /\ machine[m].idle <= now - machine[m].boot
        /\ gpuProm[m] <= now
        /\ counter[m].at <= now

GoodSample(s) ==
    /\ s \in Sample
    /\ s.cpu.boots = 2 => s.cpu.gap > s.cpu.since

HostInv ==
    /\ TypeOK
    /\ ClocksOK
    /\ GoodSample(round.sample)
    /\ \A m \in Watched : GoodSample(last[m])

\* A machine that stays down is shown as unreachable in the end, and stays so.
DeadMachineShows ==
    \A m \in Watched :
        <>[](~machine[m].up) => <>[](~last[m].reachable)

\* When the timer that writes gpu.prom has died for good and the file has become too old, its
\* reading goes from what the API shows and stays away, whether the machine is up, down or boots
\* with the old file - provided the exporter dates the file.  (One that does not has it shown for
\* ever.)
DeadTimerShows ==
    \A m \in Watched :
        <>[](machine[m].dates /\ now - gpuProm[m] > MaxAge) => <>[](last[m].gpu = None)

\* A machine that stays up is shown as reachable in the end, although others do not answer.
LiveMachineShows ==
    \A m \in Watched : <>[](machine[m].up) => <>[](last[m].reachable)
=============================================================================
