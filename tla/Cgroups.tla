------------------------------ MODULE Cgroups -------------------------------
(***************************************************************************)
(* The environment of the sensor: the cgroup hierarchy a container runtime *)
(* creates and removes directories in, at any time.                        *)
(***************************************************************************)
EXTENDS Channels

CONSTANT MaxBirths      \* bound: times the cgroup of one container is created

ASSUME MaxBirthsAssumption == MaxBirths \in Nat

VARIABLES alive,        \* containers whose cgroup directory exists
          born          \* born[c]: incarnations of the cgroup of c so far

cgroupVars == <<alive, born>>

CgroupsInit ==
    /\ alive \in SUBSET Containers
    /\ born = [c \in Containers |-> IF c \in alive THEN 1 ELSE 0]

CgroupsTypeOK ==
    /\ alive \subseteq Containers
    /\ born \in [Containers -> Nat]

CgroupCreate(c) ==
    /\ c \in Containers \ alive
    /\ born[c] < MaxBirths
    /\ alive' = alive \union {c}
    /\ born' = [born EXCEPT ![c] = @ + 1]

CgroupRemove(c) ==
    /\ c \in alive
    /\ alive' = alive \ {c}
    /\ UNCHANGED born
=============================================================================
