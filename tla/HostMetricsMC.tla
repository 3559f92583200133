--------------------------- MODULE HostMetricsMC ---------------------------
(* A small instance of HostMetrics: the collector's own machine and a remote one, and machines
   that differ from an ordinary one in one respect each. *)
EXTENDS HostReadings, TLC

LocalAndRemote == <<"nas", "spark">>
Remote == {"spark"}

OrdinaryMemory == [total |-> 16, available |-> 9, free |-> 2, buffers |-> 1, cached |-> 5,
                   swapTotal |-> 4, swapFree |-> 1]
Volume(device, mount, paths, size, avail, pseudo) ==
    [device |-> device, mount |-> mount, paths |-> paths, size |-> size, avail |-> avail,
     pseudo |-> pseudo]
Root == Volume(1, "/", {"/", "/var"}, 30, 7, FALSE)
Chip(kind, temps) == [kind |-> kind, temps |-> temps]
Ordinary == [load |-> 3, mem |-> OrdinaryMemory, volumes |-> {Root}, zones |-> {455, 620},
             chips |-> {Chip("nvme", <<381, 702>>), Chip("board", <<800>>)},
             gpus |-> {[celsius |-> 511, watts |-> 90]}]

\* Full, empty, old kernels, exhausted, no swap, swap unused, no total.
Memories == {OrdinaryMemory,
    [OrdinaryMemory EXCEPT !.available = 16], [OrdinaryMemory EXCEPT !.available = None],
    [OrdinaryMemory EXCEPT !.available = 0], [OrdinaryMemory EXCEPT !.swapTotal = 0, !.swapFree = 0],
    [OrdinaryMemory EXCEPT !.swapFree = 4],
    [total |-> 0, available |-> 0, free |-> 0, buffers |-> 0, cached |-> 0,
     swapTotal |-> 0, swapFree |-> 0]}

\* A data volume, full or not; one mounted twice; boot partitions; a pseudo file system.
Layouts == {{Root}, {Root, Volume(2, "/data", {"/data"}, 64, 0, FALSE)},
    {[Root EXCEPT !.paths = {"/"}], Volume(2, "/data", {"/data"}, 64, 32, FALSE),
     Volume(2, "/var", {"/var"}, 64, 32, FALSE)},
    {Root, Volume(3, "/boot", {"/data"}, 1, 1, FALSE)},
    {Root, Volume(4, "/run", {"/data"}, 8, 8, TRUE)}, {Volume(4, "/run", {"/data"}, 0, 0, TRUE)}}

\* No zones, so that the chips stand in; zones mirrored as chips; sensors that read nothing.
Sensors == {[zones |-> {}, chips |-> Ordinary.chips], [zones |-> {}, chips |-> {}],
    [zones |-> {455}, chips |-> {Chip("thermal", <<455>>), Chip("board", <<300>>)}],
    [zones |-> {0, -2732}, chips |-> {Chip("nvme", <<652618>>)}],
    [zones |-> {}, chips |-> {Chip("nvme", <<>>), Chip("board", <<1499, 1500>>)}]}

Surveyed == {Ordinary}
    \union {[Ordinary EXCEPT !.mem = mem] : mem \in Memories}
    \union {[Ordinary EXCEPT !.volumes = volumes] : volumes \in Layouts}
    \union {[Ordinary EXCEPT !.zones = s.zones, !.chips = s.chips] : s \in Sensors}
Configured == <<"/", "/var", "/data", "/missing">>
=============================================================================
