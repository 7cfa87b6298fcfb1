---------------------------- MODULE MCPerfGroups ----------------------------
(* A finite instance of PerfGroups for TLC: a group of two events on one   *)
(* cpu of each of two packages, a group of one on every cpu.               *)
EXTENDS PerfGroups

CONSTANTS core, rapl, pkg0, pkg1, cpu0, cpu1, cpu2

SomeSlots ==
    << <<rapl, pkg0, cpu0>>, <<rapl, pkg1, cpu2>>,
       <<core, pkg0, cpu0>>, <<core, pkg0, cpu1>>, <<core, pkg1, cpu2>> >>

SomeEvents == [g \in {core, rapl} |-> IF g = core THEN 1 ELSE 2]
=============================================================================
