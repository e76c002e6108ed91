----------------------------- MODULE Collectors -----------------------------
(***************************************************************************)
(* The collectors (collect_*.c), as what each of them updates behind which *)
(* sysctl and what it clears afterwards.  All of them return 0 whatever    *)
(* happens: a sysctl that fails ends the collector early, before it clears.*)
(* groups are the updates behind each sysctl or malloc, and most is how    *)
(* many of these can succeed.                                              *)
(*                                                                         *)
(* The metrics of a collector that have the same labels and are treated    *)
(* alike are one metric here; of a fixed set of labels two are kept.       *)
(***************************************************************************)
EXTENDS Metrics

Plain == <<0>>
Pair == <<1, 2>>
Update(n, labels) == [i \in DOMAIN labels |-> [metric |-> n, label |-> labels[i]]]

\* mm_register: the metrics of each.
cpu_register   == {"cpu_time"}
uvm_register   == {"uvm"}
pf_register    == {"pf", "pf_ops"}
procs_register == {"nprocs", "maxproc"}
ip_register    == {"ip", "ip_ops"}
disk_register  == {"disk"}
if_register    == {"if"}
pools_register == {"pools"}

Register(name) ==
    CASE name = "pf" -> pf_register
      [] name = "cpu" -> cpu_register
      [] name = "if" -> if_register
      [] name = "uvm" -> uvm_register
      [] name = "pools" -> pools_register
      [] name = "procs" -> procs_register
      [] name = "disk" -> disk_register
      [] name = "ip" -> ip_register

Steps(groups, clears) == [groups |-> groups, clears |-> clears, most |-> Len(groups)]

cpu_collect == Steps(<< Update("cpu_time", Pair) >>, {})
uvm_collect == Steps(<< Update("uvm", Plain) >>, {})
pf_collect  == Steps(<< Update("pf", Plain) \o Update("pf_ops", Pair) >>, {})

\* Six times a sysctl and one value; two are kept.
procs_collect ==
    Steps(<< Update("nprocs", Plain), Update("maxproc", Plain) >>, {})

\* The metrics with a reason are not among those that are cleared.
ip_collect ==
    Steps(<< Update("ip", Plain) \o Update("ip_ops", Pair) >>, {"ip"})

\* Disks, interfaces and pools come and go, also while they are collected: the
\* kernel has was, in its order, up to group j of the collector and now after it.

\* HW_DISKCOUNT, then HW_DISKSTATS for as many: places of the zeroed array that it
\* does not fill are updated all the same, under an empty name.
disk_collect(was, now) ==
    [groups |-> << <<>>, Update("disk", [i \in DOMAIN was |-> IF i \in DOMAIN now THEN now[i] ELSE 0]) >>,
     clears |-> {"disk"}, most |-> IF Len(now) > Len(was) THEN 1 ELSE 2]

\* The size of the list, the malloc of a larger buffer, the list.
if_collect(was, now) ==
    [groups |-> << <<>>, <<>>, Update("if", now) >>, clears |-> {"if"},
     most |-> IF Len(now) > Len(was) THEN 2 ELSE 3]

\* bsize after if_collect, and whether it has grown: then buf, which was read
\* before, points to what is freed when the list is written to it.
Grown(bsize, was, done) == done >= 2 /\ Len(was) > bsize

\* One sysctl for the number of pools, then one group of calls for each.
pools_collect(was, now, j) ==
    LET pool(i) == IF i < j THEN was[i] ELSE now[i]
        found == IF Len(now) < Len(was) THEN Len(now) ELSE Len(was)
    IN  [groups |-> << <<>> >> \o [i \in DOMAIN was |->
                        IF i < j \/ i \in DOMAIN now THEN Update("pools", <<pool(i)>>) ELSE <<>>],
         clears |-> {"pools"}, most |-> 1 + (IF found < j - 1 THEN j - 1 ELSE found)]

Collector(name, was, now, j) ==
    CASE name = "pf" -> pf_collect
      [] name = "cpu" -> cpu_collect
      [] name = "if" -> if_collect(was, now)
      [] name = "uvm" -> uvm_collect
      [] name = "pools" -> pools_collect(was, now, j)
      [] name = "procs" -> procs_collect
      [] name = "disk" -> disk_collect(was, now)
      [] name = "ip" -> ip_collect

\* The modules that are compiled in, in the order of collection: registry_build
\* puts every module of modops before the ones it has.
modops(build) ==
    SelectSeq(<<"ip", "disk", "procs", "pools", "uvm", "if", "cpu", "pf">>,
              LAMBDA n : n \in build)

\* The collectors of a scrape in which the machine changes from was to now after
\* group j of module k.
Mods(build, was, now, k, j) ==
    [i \in DOMAIN modops(build) |->
       Collector(modops(build)[i], IF i <= k THEN was ELSE now, IF i < k THEN was ELSE now, j)]

AllMetrics(build) == UNION {Register(n) : n \in build}
=============================================================================
