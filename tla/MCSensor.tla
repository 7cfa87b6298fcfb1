------------------------------ MODULE MCSensor ------------------------------
(* Finite instances of Sensor for TLC: one container besides the whole     *)
(* system, or two that may share a bucket of the table.                    *)
EXTENDS Sensor

CONSTANTS c1, c2

OneContainer  == {c1}
TwoContainers == {c1, c2}
=============================================================================
