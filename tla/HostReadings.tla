---------------------------- MODULE HostReadings ----------------------------
(***************************************************************************)
(* What a sample says of a machine.  The same gauges are made in two ways: *)
(* Local reads /proc, /sys and statfs of the machine the collector runs    *)
(* on, NodeExporter.fill takes the answer of a node_exporter.  Both are    *)
(* operators on one description of a machine, its content, so that it can  *)
(* be asked whether they say the same of it.  CPU counters are those of    *)
(* HostMetrics.                                                            *)
(*                                                                         *)
(* Percentages and temperatures are in tenths, as they are reported.       *)
(***************************************************************************)
EXTENDS HostMetrics, FiniteSets, FiniteSetsExt

CONSTANTS
    Contents,   \* the machines: memory, volumes, thermal zones, sensor chips, GPUs
    DiskPaths,  \* -host-disks: the configured paths, in order
    MinSize     \* minFilesystemBytes

ASSUME PathsAssumption == DiskPaths \in Seq(STRING)

ASSUME ReadingsAssumption == \A d \in Contents :
    /\ {d.mem.free, d.mem.buffers, d.mem.cached} \subseteq Nat
    /\ d.mem.available # None => d.mem.available <= d.mem.total
    /\ d.mem.free + d.mem.buffers + d.mem.cached <= d.mem.total
    /\ d.mem.swapFree <= d.mem.swapTotal
    /\ \A v \in d.volumes : v.avail <= v.size
    /\ \A v, w \in d.volumes : v.mount = w.mount \/ v.paths \intersect w.paths # {} => v = w
    /\ (\E c \in d.chips : c.kind = "thermal") => d.zones # {}  \* the zones, mirrored

\* round1(clampPct(part / whole * 100)).
Tenths(part, whole) == Max({0, Min({1000, (2000 * part + whole) \div (2 * whole)})})

-----------------------------------------------------------------------------
(* CPU.  guest: whether the machine spends its busy time in virtual machines, which /proc/stat *)
(* counts as user time and again as guest time; node_cpu_seconds_total has no guest mode.       *)

LocalTotal(idle, total, guest) == total + (IF guest THEN total - idle ELSE 0)

Utilisation(c, idle, total) ==
    IF Usable(c, idle, total) THEN {Tenths(total - c.total - (idle - c.idle), total - c.total)}
                              ELSE {}

RemoteCpu(m) == Utilisation(counter[m], machine[m].idle, Total(m))

LocalCpu(m, guest) ==
    LET c == counter[m]
        total == LocalTotal(machine[m].idle, Total(m), guest)
    IN  Utilisation([c EXCEPT !.total = LocalTotal(c.idle, c.total, guest)], machine[m].idle, total)

-----------------------------------------------------------------------------
(* Memory. *)

LocalAvailable(mem) ==
    IF mem.available # None THEN mem.available ELSE mem.free + mem.buffers + mem.cached

\* A family the answer does not have counts as 0.
\* Variant: kernels that do not tell what is available are not provided for.
RemoteAvailableAsTold(mem) == IF mem.available # None THEN mem.available ELSE 0

RemoteAvailable(mem) ==
    IF mem.available \in {None, 0} THEN mem.free + mem.cached + mem.buffers ELSE mem.available

MemUsed(mem, available) == IF mem.total > 0 THEN Tenths(mem.total - available, mem.total) ELSE 0
SwapUsed(mem) ==
    IF mem.swapTotal > 0 THEN Tenths(mem.swapTotal - mem.swapFree, mem.swapTotal) ELSE 0

-----------------------------------------------------------------------------
(* Disks.  What is reserved for root counts as used. *)

DiskOf(mount, v) == [mount |-> mount, used |-> Tenths(v.size - v.avail, v.size), total |-> v.size]

\* The volume that holds a configured path; none if the path cannot be read.
VolumesAt(d, path) == {v \in d.volumes : v.size > 0 /\ path \in v.paths}

\* Each device once, under the first path that named it.
LocalDisks(d) ==
    UNION {{DiskOf(DiskPaths[k], v) :
               v \in {v \in VolumesAt(d, DiskPaths[k]) :
                         \A j \in 1 .. k - 1 : \A w \in VolumesAt(d, DiskPaths[j]) :
                             w.device # v.device}} : k \in DOMAIN DiskPaths}

\* Every mount point that is large enough and no pseudo file system.
RemoteDisks(d) == {DiskOf(v.mount, v) : v \in {v \in d.volumes : v.size >= MinSize /\ ~v.pseudo}}

-----------------------------------------------------------------------------
(* Temperatures. *)

\* Sensors that are absent report 0, -273.15 or 65261.85.
Hottest(sensor, readings) ==
    LET plausible == {t \in readings : t > 0 /\ t < 1500}
    IN  IF plausible = {} THEN {} ELSE {[sensor |-> sensor, celsius |-> Max(plausible)]}

Readings(chips) == UNION {{c.temps[k] : k \in DOMAIN c.temps} : c \in chips}
Composite(d) == {c.temps[1] : c \in {c \in d.chips : c.kind = "nvme" /\ c.temps # <<>>}}

\* Without thermal zones the sensors of the other chips stand in for them.
Temps(d, board, gpus) ==
    Hottest("zone", IF d.zones = {} THEN board ELSE d.zones)
        \union Hottest("gpu", gpus) \union Hottest("nvme", Composite(d))

LocalTemps(d) == Temps(d, Readings({c \in d.chips : c.kind # "nvme"}), {})

\* gpuTextfile: the temperatures and the power of all GPUs, while the file is fresh.
RemoteTemps(d, fresh) ==
    Temps(d, Readings({c \in d.chips : c.kind \notin {"nvme", "thermal"}}),
          IF fresh THEN {g.celsius : g \in d.gpus} ELSE {})

GpuPower(d, fresh) ==
    IF fresh THEN MapThenSumSet(LAMBDA g : Max({g.watts, 0}), d.gpus) ELSE 0

-----------------------------------------------------------------------------
(* Samples and the rows made of them. *)

\* A machine without a total in /proc/meminfo is not sampled.
LocalSample(d) ==
    [reachable |-> d.mem.total > 0, load |-> d.load, mem |-> MemUsed(d.mem, LocalAvailable(d.mem)),
     swap |-> SwapUsed(d.mem), disks |-> LocalDisks(d), temps |-> LocalTemps(d), power |-> 0]

RemoteSample(d, fresh) ==
    [reachable |-> TRUE, load |-> d.load, mem |-> MemUsed(d.mem, RemoteAvailable(d.mem)),
     swap |-> SwapUsed(d.mem), disks |-> RemoteDisks(d), temps |-> RemoteTemps(d, fresh),
     power |-> GpuPower(d, fresh)]

\* Sample.Metrics; cpu holds the utilisation if there is one.
Gauge(name, label, value) == [name |-> name, label |-> label, value |-> value]

Metrics(s, cpu) ==
    IF ~s.reachable THEN {}
    ELSE {Gauge("load1", "", s.load), Gauge("mem_used_pct", "", s.mem)}
         \union {Gauge("cpu_used_pct", "", v) : v \in cpu}
         \union {Gauge("swap_used_pct", "", v) : v \in {s.swap} \ {0}}
         \union {Gauge("disk_used_pct", k.mount, k.used) : k \in s.disks}
         \union {Gauge("temp_c", t.sensor, t.celsius) : t \in s.temps}
         \union {Gauge("gpu_power_w", "", v) : v \in {s.power} \ {0}}

-----------------------------------------------------------------------------
(* Properties *)

\* Whichever way a machine is read, its gauges are the same, with the exceptions the code
\* makes: GPUs are only read remotely, volumes are chosen differently (below), a machine that
\* does not tell its memory is not sampled locally, one that has none left at all looks less
\* used remotely, and guests count twice locally, which makes the machine look busier.
Common(gauges) ==
    {g \in gauges : g.name \notin {"disk_used_pct", "gpu_power_w", "cpu_used_pct"} /\ g.label # "gpu"}

CpuAgrees ==
    \A m \in Watched :
        /\ LocalCpu(m, FALSE) = RemoteCpu(m)
        /\ \A local \in LocalCpu(m, TRUE), remote \in RemoteCpu(m) : local >= remote

\* A volume that both report is reported with the same use; locally, every volume that holds
\* a configured path is reported once.
DisksAgree(d) ==
    /\ \A v \in d.volumes, k \in LocalDisks(d), r \in RemoteDisks(d) :
          k.mount \in v.paths /\ r.mount = v.mount => k.used = r.used /\ k.total = r.total
    /\ \A v \in d.volumes :
          LET paths == UNION {w.paths : w \in {w \in d.volumes : w.device = v.device}}
          IN  v.size > 0 /\ (\E k \in DOMAIN DiskPaths : DiskPaths[k] \in v.paths) =>
                  Cardinality({k \in LocalDisks(d) : k.mount \in paths}) = 1

ContentsAgree == \A d \in Contents, fresh \in BOOLEAN :
    /\ d.mem.total > 0 /\ d.mem.available # 0 =>
          Common(Metrics(LocalSample(d), {})) = Common(Metrics(RemoteSample(d, fresh), {}))
    /\ DisksAgree(d)

TwinsAgree == CpuAgrees /\ ContentsAgree
=============================================================================
