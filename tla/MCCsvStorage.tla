---------------------------- MODULE MCCsvStorage ----------------------------
(* A finite instance of CsvStorage for TLC: two groups, two cpus, and the  *)
(* reports of an actor, of an actor with other events in a group of the    *)
(* same name, and of an actor that has a callchain for one cpu only.       *)
EXTENDS CsvStorage

CONSTANTS g1, g2, cpu0, cpu1, cycles, misses, callchain

TwoGroups == {g1, g2}
TwoCpus   == {cpu0, cpu1}

Everywhere(events) == [c \in TwoCpus |-> events]

SomeReports ==
    { [g \in {g1, g2} |-> Everywhere({cycles})],
      [g \in {g1} |-> Everywhere({cycles, misses})],
      [g \in {g1} |-> [c \in TwoCpus |-> IF c = cpu0 THEN {cycles, callchain} ELSE {cycles}]] }
=============================================================================
