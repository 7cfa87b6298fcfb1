------------------------------- MODULE HwInfo -------------------------------
(***************************************************************************)
(* The detection of the packages (src/src/hwinfo.c): main reads a          *)
(* directory that has one link per cpu, in any order, passes over the cpus *)
(* that are offline and asks for the package of the others.                *)
(***************************************************************************)
EXTENDS Naturals

CONSTANTS Cpus,         \* the cpus of the machine
          PackageOf,    \* PackageOf[c]: the package of cpu c
          Online        \* the cpus online when they are looked at

ASSUME HwInfoAssumption == DOMAIN PackageOf = Cpus /\ Online \subseteq Cpus

VARIABLES
    unread,     \* entries of the directory not read yet
    entry,      \* the entry being looked at: a set of one cpu or none
    pkgs        \* pkgs[p]: cpus_id of package p, a list in the code

hwVars == <<unread, entry, pkgs>>

HwInfoInit == unread = Cpus /\ entry = {} /\ pkgs = [p \in {} |-> {}]

\* readdir and get_cpu_online_status.
ReadEntry ==
    /\ entry = {}
    /\ \E c \in unread :
        /\ unread' = unread \ {c}
        /\ entry' = {c} \intersect Online
    /\ UNCHANGED pkgs

\* Variant: the cpu goes to the package that was created, not to its copy in the
\* table.
AddedToOriginal(table, p, c) ==
    [q \in DOMAIN table \union {p} |->
        IF q \notin DOMAIN table THEN {}
        ELSE table[q] \union (IF q = p THEN {c} ELSE {})]

\* The package is created when it is met first, and looked up in the table.
Added(table, p, c) ==
    [q \in DOMAIN table \union {p} |->
        (IF q \in DOMAIN table THEN table[q] ELSE {}) \union (IF q = p THEN {c} ELSE {})]

AddCpu ==
    \E c \in entry :
        /\ pkgs' = Added(pkgs, PackageOf[c], c)
        /\ entry' = {}
        /\ UNCHANGED unread

Detected == unread = {} /\ entry = {}

-----------------------------------------------------------------------------
HwInfoTypeOK ==
    /\ unread \subseteq Cpus
    /\ entry \subseteq Online \ unread
    /\ \A p \in DOMAIN pkgs : pkgs[p] \subseteq Online

\* In whatever order the directory is read, the packages have every online cpu
\* once, in its own package, and there is no other package: PERF groups are
\* opened from this table alone (hwinfo.c:155-223).
PackagesComplete ==
    Detected => pkgs = [p \in {PackageOf[c] : c \in Online} |-> {c \in Online : PackageOf[c] = p}]
=============================================================================
