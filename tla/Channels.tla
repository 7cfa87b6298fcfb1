------------------------------ MODULE Channels ------------------------------
(***************************************************************************)
(* The plumbing between the threads of the sensor: the czmq actor pipes,   *)
(* the "inproc://ticker" PUB/SUB socket, the "inproc://reporting"          *)
(* PUSH/PULL socket and the interrupt flag.  czmq is not part of the       *)
(* repository; its sockets are modelled from how sensor.c, perf.c and      *)
(* report.c use them.                                                      *)
(*                                                                         *)
(* Every queue is FIFO and carries numbered items, so a queue is the set   *)
(* of its items and its head is the smallest one.                          *)
(***************************************************************************)
EXTENDS Naturals, FiniteSets

CONSTANTS Containers,   \* the identifiable leaf cgroups under cgroup_basepath
          System,       \* the target TARGET_TYPE_ALL
          Reporter,     \* the reporting actor
          Nobody,       \* no actor
          MaxTick,      \* bound: ticks published before the clock stands still
          MaxSignals,   \* bound: interrupt signals delivered to the process
          TickHwm,      \* high-water mark of a subscriber of the ticker
          ReportHwm,    \* high-water mark of a sender of reports
          MayFail       \* a system call or an allocation may fail

ASSUME ActorsAssumption ==
    /\ System \notin Containers
    /\ Reporter \notin Containers \union {System}
    /\ Nobody \notin Containers \union {System, Reporter}

ASSUME BoundsAssumption ==
    /\ MaxTick \in Nat
    /\ MaxSignals \in Nat
    /\ TickHwm \in Nat \ {0}
    /\ ReportHwm \in Nat \ {0}

ASSUME MayFailAssumption == MayFail \in BOOLEAN

Monitors == Containers \union {System}
Actors   == Monitors \union {Reporter}

\* A payload is known by the thread that sent it (target and generation of
\* its actor) and by the tick it answers.
Payload  == [from : Monitors, gen : Nat, tick : Nat]
NoReport == [from |-> Nobody, gen |-> 0, tick |-> 0]

SameSender(p, q) == p.from = q.from /\ p.gen = q.gen

VARIABLES signals,    \* interrupt signals handled so far
          pipe,       \* actors whose pipe holds a "$TERM"
          inbox,      \* inbox[m]: ticks waiting in the SUB socket of m
          reporting,  \* payloads between a PUSH socket and the PULL socket
          pull,       \* the PULL socket: bound, closed, or never bound
          clock,      \* last tick published
          sent        \* history: every payload handed to a PUSH socket

channelVars == <<signals, pipe, inbox, reporting, pull, clock, sent>>

\* zsys_interrupted, set by the signal handler czmq installs.
interrupted == signals > 0

\* The PULL socket is the reporting actor's to bind: see ReporterInit.
ChannelsInit ==
    /\ signals = 0
    /\ pipe = {}
    /\ inbox = [m \in Monitors |-> {}]
    /\ reporting = {}
    /\ clock = 0
    /\ sent = {}

ChannelsTypeOK ==
    /\ signals \in Nat
    /\ pipe \subseteq Actors
    /\ inbox \in [Monitors -> SUBSET Nat]
    /\ reporting \subseteq Payload
    /\ pull \in {"unbound", "bound", "closed"}
    /\ clock \in Nat
    /\ sent \subseteq Payload

\* zstr_send(pipe, "$TERM"), the first half of zactor_destroy.
SendTerm(a) == pipe' = pipe \union {a}

\* zsock_send on the PUB socket: a subscriber whose queue is full misses the
\* tick, the publisher never blocks.
Publish(t, subscribers) ==
    inbox' = [m \in Monitors |->
                IF m \in subscribers /\ Cardinality(inbox[m]) < TickHwm
                THEN inbox[m] \union {t}
                ELSE inbox[m]]

\* zsock_send on a PUSH socket: blocks while the PULL socket is gone or the
\* sender's own queue is full.  A socket connected to an inproc name that is not
\* bound yet queues as well.
CanPush(p) ==
    /\ pull # "closed"
    /\ Cardinality({q \in reporting : SameSender(p, q)}) < ReportHwm

Push(p) ==
    /\ CanPush(p)
    /\ reporting' = reporting \union {p}
    /\ sent' = sent \union {p}

\* zsock_recv on the PULL socket: the queues of the senders are served in any
\* order, each one from its head.
Pull(p) ==
    /\ p \in reporting
    /\ \A q \in reporting : SameSender(p, q) => p.tick <= q.tick
    /\ reporting' = reporting \ {p}
=============================================================================
