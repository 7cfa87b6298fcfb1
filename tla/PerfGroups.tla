----------------------------- MODULE PerfGroups -----------------------------
(***************************************************************************)
(* What one perf monitoring actor (src/src/perf.c) holds of the system:    *)
(* the contexts of its events groups, their perf event descriptors and     *)
(* mappings, and the counters it reads and resets at each tick.  Any       *)
(* allocation and any system call may fail; other threads of the process   *)
(* open and close descriptors, and the kernel counts, between two steps.   *)
(*                                                                         *)
(* A slot <<g, p, c>> is a cpu of a package for a group of events; the     *)
(* contexts are named by the prefixes <<g>>, <<g, p>> and <<g, p, c>>.     *)
(***************************************************************************)
EXTENDS Naturals, Sequences, SequencesExt

CONSTANTS Slots,        \* the slots, in the order of the three nested loops
          EventsOf,     \* EventsOf[g]: number of events of group g
          HasCgroup,    \* the target is a cgroup, not the whole system
          MaxFd,        \* bound: descriptors of the process
          MaxTicks,     \* bound: ticks received
          MaxCount      \* bound: events that occur, all slots together

SlotSet == Range(Slots)
Groups  == {s[1] : s \in SlotSet}

ASSUME SlotsAssumption ==
    /\ Slots \in Seq(SlotSet)
    /\ IsInjective(Slots)
    /\ \A s \in SlotSet : s \in Seq(Range(s)) /\ Len(s) = 3
    /\ Slots # <<>>
ASSUME EventsAssumption == EventsOf \in [Groups -> Nat]
ASSUME PerfGroupsBoundsAssumption ==
    /\ HasCgroup \in BOOLEAN
    /\ MaxFd \in Nat /\ MaxTicks \in Nat /\ MaxCount \in Nat

VARIABLES
    pc,         \* where the actor stands
    at,         \* slot of the loops, an index of Slots
    fd,         \* fd[n]: what descriptor n stands for
    cgroup_fd,  \* ctx->cgroup_fd, 0 for -1
    locals,     \* group_ctx, pkg_ctx and cpu_ctx: the context they point to
    ctx,        \* ctx[path]: state of a context
    perf_fds,   \* perf_fds[s]: descriptors of the cpu context of s, leader first
    mapped,     \* slots whose ring buffer is mapped: nothing ever unmaps it
    count,      \* count[s]: the counters of s
    buffer,     \* perf_read_buffer
    values,     \* values[s]: what the payload has for s
    ticks       \* ticks received so far

\* History, read by the properties only.
VARIABLES
    foreign,    \* a descriptor of another thread was closed
    twice,      \* something was destroyed after it was freed
    nomem,      \* an allocation has failed, which the actor does not survive
    occurred,   \* occurred[s]: events since the counters were enabled
    reported,   \* reported[s]: what the payloads sent have for s
    lost        \* slots with events lost: between a read and its reset, or in a
                \* payload dropped after they were reset

contextVars == <<locals, ctx, perf_fds, mapped>>
countVars   == <<count, buffer, values, ticks, occurred, reported, lost>>
faultVars   == <<foreign, twice, nomem>>
vars == <<pc, at, fd, cgroup_fd, contextVars, countVars, faultVars>>

Fds      == 1 .. MaxFd
Slot     == Slots[at]
GroupOf(s) == SubSeq(s, 1, 1)
PkgOf(s)   == SubSeq(s, 1, 2)
Contexts == UNION {{GroupOf(s), PkgOf(s), s} : s \in SlotSet}

\* The cpu is the last one of its package, the package the last of the group.
LastSlot    == at = Len(Slots)
LastOfPkg   == LastSlot \/ PkgOf(Slots[at + 1]) # PkgOf(Slot)
LastOfGroup == LastSlot \/ GroupOf(Slots[at + 1]) # GroupOf(Slot)

Init ==
    /\ pc = "start"
    /\ at = 1
    /\ fd = [n \in Fds |-> "free"]
    /\ cgroup_fd = 0
    /\ locals = [group |-> <<>>, pkg |-> <<>>, cpu |-> <<>>]
    /\ ctx = [c \in Contexts |-> "none"]
    /\ perf_fds = [s \in SlotSet |-> <<>>]
    /\ mapped = {}
    /\ count = [s \in SlotSet |-> 0]
    /\ buffer = 0
    /\ values = [s \in SlotSet |-> 0]
    /\ ticks = 0
    /\ foreign = FALSE /\ twice = FALSE /\ nomem = FALSE
    /\ occurred = [s \in SlotSet |-> 0]
    /\ reported = [s \in SlotSet |-> 0]
    /\ lost = {}

-----------------------------------------------------------------------------
\* Descriptors: a call that opens one gets the smallest free number.
Opens(n, what) ==
    /\ fd[n] = "free"
    /\ \A k \in 1 .. n - 1 : fd[k] # "free"
    /\ fd' = [fd EXCEPT ![n] = what]

\* Closing numbers: those that belong to another thread are closed all the same.
Closes(numbers) ==
    /\ fd' = [n \in Fds |-> IF n \in numbers THEN "free" ELSE fd[n]]
    /\ foreign' = (foreign \/ \E n \in numbers : fd[n] = "other")

\* The contexts freed with context c: itself and what its table holds.
Owned(state, c) ==
    {d \in Contexts : IsPrefix(c, d) /\
        \A n \in Len(c) + 1 .. Len(d) : state[SubSeq(d, 1, n)] = "stored"}

\* Destroying the contexts of a sequence, one after the other.  A context that
\* an earlier one has freed is freed again, after which nothing is defined.
Doomed(cs) == UNION {Owned(ctx, cs[i]) : i \in {j \in DOMAIN cs : cs[j] # <<>>}}
DestroysTwice(state, cs) ==
    \E k \in DOMAIN cs :
        /\ cs[k] # <<>>
        /\ \/ state[cs[k]] = "freed"
           \/ \E i \in 1 .. k - 1 :
                 cs[i] # <<>> /\ Owned(state, cs[k]) \intersect Owned(state, cs[i]) # {}

DescriptorsOf(cs) == UNION {Range(perf_fds[s]) : s \in cs \intersect SlotSet}

\* Free the contexts cs and close the descriptor of the cgroup.
Release(cs, next) ==
    /\ ctx' = [c \in Contexts |-> IF c \in Doomed(cs) THEN "freed" ELSE ctx[c]]
    /\ Closes(DescriptorsOf(Doomed(cs)) \union ({cgroup_fd} \ {0}))
    /\ twice' = (twice \/ DestroysTwice(ctx, cs))
    /\ pc' = IF twice' THEN "undefined" ELSE next
    /\ UNCHANGED <<at, cgroup_fd, locals, perf_fds, mapped, countVars, nomem>>

-----------------------------------------------------------------------------
\* perf_events_groups_initialize.
OpenCgroup ==
    /\ pc = "start"
    /\ IF HasCgroup
       THEN \E n \in Fds : Opens(n, "cgroup") /\ cgroup_fd' = n
       ELSE UNCHANGED <<fd, cgroup_fd>>
    /\ pc' = "group"
    /\ UNCHANGED <<at, contextVars, countVars, faultVars>>

OpenCgroupFails ==
    /\ pc = "start"
    /\ HasCgroup
    /\ pc' = "error"
    /\ UNCHANGED <<at, fd, cgroup_fd, contextVars, countVars, faultVars>>

\* One of the three levels creates its context.
Levels == {"group", "pkg", "cpu"}
ContextAt(level) ==
    CASE level = "group" -> GroupOf(Slot) [] level = "pkg" -> PkgOf(Slot) [] OTHER -> Slot

\* Variant: a context is stored when it is created.
CreateContextStored(level) ==
    /\ pc = level
    /\ ctx' = [ctx EXCEPT ![ContextAt(level)] = "stored"]
    /\ locals' = [locals EXCEPT ![level] = ContextAt(level)]
    /\ pc' = CASE level = "group" -> "pkg" [] level = "pkg" -> "cpu" [] OTHER -> "open"
    /\ UNCHANGED <<at, fd, cgroup_fd, perf_fds, mapped, countVars, faultVars>>

CreateContext(level) ==
    /\ pc = level
    /\ ctx' = [ctx EXCEPT ![ContextAt(level)] = "fresh"]
    /\ locals' = [locals EXCEPT ![level] = ContextAt(level)]
    /\ pc' = CASE level = "group" -> "pkg" [] level = "pkg" -> "cpu" [] OTHER -> "open"
    /\ UNCHANGED <<at, fd, cgroup_fd, perf_fds, mapped, countVars, faultVars>>

CreateFails(level) ==
    /\ pc = level
    /\ locals' = [locals EXCEPT ![level] = <<>>]
    /\ nomem' = TRUE
    /\ pc' = "error"
    /\ UNCHANGED <<at, fd, cgroup_fd, ctx, perf_fds, mapped, countVars, foreign, twice>>

\* perf_events_group_setup_cpu: the leader of a group of a cgroup samples, and
\* has its ring buffer mapped.
Samples == HasCgroup /\ perf_fds[Slot] = <<>>

OpenEvent ==
    /\ pc = "open"
    /\ Len(perf_fds[Slot]) < EventsOf[Slot[1]]
    /\ \E n \in Fds :
          /\ Opens(n, "perf")
          /\ perf_fds' = [perf_fds EXCEPT ![Slot] = Append(@, n)]
    /\ mapped' = IF Samples THEN mapped \union {Slot} ELSE mapped
    /\ UNCHANGED <<pc, at, cgroup_fd, locals, ctx, countVars, faultVars>>

\* Variant: the group leader is closed on the way out.
OpenEventFailsClosing ==
    /\ pc = "open"
    /\ Len(perf_fds[Slot]) < EventsOf[Slot[1]]
    /\ Closes({perf_fds[Slot][i] : i \in DOMAIN perf_fds[Slot] \intersect {1}})
    /\ pc' = "error"
    /\ UNCHANGED <<at, cgroup_fd, contextVars, countVars, twice, nomem>>

OpenEventFails ==
    /\ pc = "open"
    /\ Len(perf_fds[Slot]) < EventsOf[Slot[1]]
    /\ pc' = "error"
    /\ UNCHANGED <<at, fd, cgroup_fd, contextVars, countVars, faultVars>>

\* The descriptor is open and in no list.
MapFails ==
    /\ pc = "open"
    /\ Samples /\ EventsOf[Slot[1]] > 0
    /\ \E n \in Fds : Opens(n, "unlisted")
    /\ pc' = "error"
    /\ UNCHANGED <<at, cgroup_fd, contextVars, countVars, faultVars>>

\* Variant: the last package of a group is not stored.
StoreWithoutPkg ==
    /\ pc = "open"
    /\ Len(perf_fds[Slot]) = EventsOf[Slot[1]]
    /\ ctx' = [c \in Contexts |->
                 IF c = Slot \/ (c = GroupOf(Slot) /\ LastOfGroup) \/ (c = PkgOf(Slot) /\ ~LastOfGroup)
                 THEN "stored" ELSE ctx[c]]
    /\ at' = IF LastSlot THEN 1 ELSE at + 1
    /\ pc' = IF LastSlot THEN "enable"
             ELSE IF LastOfGroup THEN "group"
             ELSE IF LastOfPkg THEN "pkg" ELSE "cpu"
    /\ UNCHANGED <<fd, cgroup_fd, locals, perf_fds, mapped, countVars, faultVars>>

\* The cpu context goes into the table of its package, and at the end of each
\* loop the package's into that of the group, the group's into that of ctx.
Store ==
    /\ pc = "open"
    /\ Len(perf_fds[Slot]) = EventsOf[Slot[1]]
    /\ ctx' = [c \in Contexts |->
                 IF \/ c = Slot
                    \/ c = PkgOf(Slot) /\ LastOfPkg
                    \/ c = GroupOf(Slot) /\ LastOfGroup
                 THEN "stored" ELSE ctx[c]]
    /\ at' = IF LastSlot THEN 1 ELSE at + 1
    /\ pc' = IF LastSlot THEN "enable"
             ELSE IF LastOfGroup THEN "group"
             ELSE IF LastOfPkg THEN "pkg" ELSE "cpu"
    /\ UNCHANGED <<fd, cgroup_fd, locals, perf_fds, mapped, countVars, faultVars>>

\* The error label, and then the cleanup label of perf_monitoring_actor.
InitializeError ==
    /\ pc = "error"
    /\ Release(<<locals.group, locals.pkg, locals.cpu>>, "cleanup")

\* perf_context_destroy.
DestroyContext ==
    /\ pc = "cleanup"
    /\ LET stored == {c \in Contexts : Len(c) = 1 /\ ctx[c] = "stored"}
       IN  Release(SetToSeq(stored), "exited")

-----------------------------------------------------------------------------
\* perf_events_groups_enable: the counters are reset and start to count.
EnableGroups ==
    /\ pc = "enable"
    /\ pc' = "idle"
    /\ UNCHANGED <<at, fd, cgroup_fd, contextVars, countVars, faultVars>>

\* Variant: the counters are reset at the start of a tick.
HandleTickerResetting ==
    /\ pc = "idle"
    /\ ticks < MaxTicks
    /\ ticks' = ticks + 1
    /\ at' = 1
    /\ values' = [s \in SlotSet |-> 0]
    /\ count' = [s \in SlotSet |-> 0]
    /\ pc' = "read"
    /\ UNCHANGED <<fd, cgroup_fd, contextVars, faultVars, buffer, occurred, reported, lost>>

\* handle_ticker, and populate_payload slot by slot.
HandleTicker ==
    /\ pc = "idle"
    /\ ticks < MaxTicks
    /\ ticks' = ticks + 1
    /\ at' = 1
    /\ values' = [s \in SlotSet |-> 0]
    /\ pc' = "read"
    /\ UNCHANGED <<fd, cgroup_fd, contextVars, faultVars, count, buffer, occurred, reported, lost>>

\* perf_events_group_read_cpu: read(2), then PERF_EVENT_IOC_RESET.
ReadCpu ==
    /\ pc = "read"
    /\ perf_fds[Slot] # <<>>
    /\ buffer' = count[Slot]
    /\ pc' = "reset"
    /\ UNCHANGED <<at, fd, cgroup_fd, contextVars, faultVars, count, values, ticks, occurred,
                   reported, lost>>

\* Variant: the loop goes past the last slot.
ResetCpuPastEnd ==
    /\ pc = "reset"
    /\ lost' = IF count[Slot] = buffer THEN lost ELSE lost \union {Slot}
    /\ count' = [count EXCEPT ![Slot] = 0]
    /\ values' = [values EXCEPT ![Slot] = buffer]
    /\ buffer' = 0
    /\ pc' = IF LastSlot THEN "send" ELSE "read"
    /\ at' = at + 1
    /\ UNCHANGED <<fd, cgroup_fd, contextVars, faultVars, ticks, occurred, reported>>

\* Variant: the counters are not reset.
ResetCpuSkipped ==
    /\ pc = "reset"
    /\ values' = [values EXCEPT ![Slot] = buffer]
    /\ buffer' = 0
    /\ pc' = IF LastSlot THEN "send" ELSE "read"
    /\ at' = IF LastSlot THEN 1 ELSE at + 1
    /\ UNCHANGED <<fd, cgroup_fd, contextVars, faultVars, ticks, occurred, reported, count, lost>>

ResetCpu ==
    /\ pc = "reset"
    /\ lost' = IF count[Slot] = buffer THEN lost ELSE lost \union {Slot}
    /\ count' = [count EXCEPT ![Slot] = 0]
    /\ values' = [values EXCEPT ![Slot] = buffer]
    /\ buffer' = 0
    /\ pc' = IF LastSlot THEN "send" ELSE "read"
    /\ at' = IF LastSlot THEN 1 ELSE at + 1
    /\ UNCHANGED <<fd, cgroup_fd, contextVars, faultVars, ticks, occurred, reported>>

\* The tables of the payload at slot i, named as the contexts are: stored once
\* their loop is done, and being filled while it runs.
Begun(i, c)  == \E j \in 1 .. i - 1 : IsPrefix(c, Slots[j])
Passed(i, c) == Begun(i, c) /\ ~IsPrefix(c, Slots[i])
PayloadTables(i) == [c \in Contexts |-> IF Passed(i, c) THEN "stored" ELSE "fresh"]

\* What cpu_data, pkg_data and group_data point to when an allocation fails at
\* slot i, or a system call: a table of the loop before is pointed to still.
Failures == {"group", "buffer", "pkg", "cpu", "call"}
Data(i, failed) ==
    LET cpu == IF i = 1 THEN <<>> ELSE Slots[i - 1]
        pkg == IF i = 1 THEN <<>> ELSE PkgOf(cpu)
        s   == Slots[i]
    IN  CASE failed = "group"  -> <<cpu, pkg, <<>>>>
          [] failed = "buffer" -> <<cpu, pkg, GroupOf(s)>>
          [] failed = "pkg"    -> <<cpu, <<>>, GroupOf(s)>>
          [] failed = "cpu"    -> <<<<>>, PkgOf(s), GroupOf(s)>>
          [] OTHER             -> <<s, PkgOf(s), GroupOf(s)>>

\* The error label, and then payload_destroy for the groups already stored.
FreesTwice ==
    [i \in DOMAIN Slots |-> [failed \in Failures |->
        DestroysTwice(PayloadTables(i),
            Data(i, failed) \o SetToSeq({c \in Contexts : Len(c) = 1 /\ Passed(i, c)}))]]

\* Tables are created before the counters are read, each at its first slot.
MayFail(failed) ==
    CASE failed \in {"group", "buffer"} -> pc = "read" /\ ~Begun(at, GroupOf(Slot))
      [] failed = "pkg" -> pc = "read" /\ ~Begun(at, PkgOf(Slot))
      [] failed = "cpu" -> pc = "read"
      [] OTHER          -> pc \in {"read", "reset"}

\* The whole payload is dropped.
PopulateFails(failed) ==
    /\ MayFail(failed)
    /\ twice' = FreesTwice[at][failed]
    /\ pc' = IF twice' THEN "undefined" ELSE "idle"
    /\ nomem' = (twice' /\ failed # "call")
    /\ at' = 1
    /\ buffer' = 0
    /\ values' = [s \in SlotSet |-> 0]
    /\ lost' = lost \union {s \in SlotSet : values[s] # 0}
    /\ UNCHANGED <<fd, cgroup_fd, contextVars, foreign, count, ticks, occurred, reported>>

SendPayload ==
    /\ pc = "send"
    /\ pc' = "idle"
    /\ reported' = [s \in SlotSet |-> reported[s] + values[s]]
    /\ values' = [s \in SlotSet |-> 0]
    /\ UNCHANGED <<at, fd, cgroup_fd, contextVars, faultVars, count, buffer, ticks, occurred, lost>>

\* "$TERM" or an interrupt.
Terminate ==
    /\ pc = "idle"
    /\ pc' = "cleanup"
    /\ UNCHANGED <<at, fd, cgroup_fd, contextVars, countVars, faultVars>>

-----------------------------------------------------------------------------
\* The kernel counts an event of slot s.
Counting == pc \in {"idle", "read", "reset", "send"}

AllOccurred == FoldFunction(+, 0, occurred)

CountEvent(s) ==
    /\ Counting /\ perf_fds[s] # <<>>
    /\ AllOccurred < MaxCount
    /\ count' = [count EXCEPT ![s] = @ + 1]
    /\ occurred' = [occurred EXCEPT ![s] = @ + 1]
    /\ UNCHANGED <<pc, at, fd, cgroup_fd, contextVars, faultVars, buffer, values, ticks, reported,
                   lost>>

\* Another thread of the process; it holds one descriptor at most.
OtherOpens ==
    /\ pc # "undefined"
    /\ \A n \in Fds : fd[n] # "other"
    /\ \E n \in Fds : Opens(n, "other")
    /\ UNCHANGED <<pc, at, cgroup_fd, contextVars, countVars, faultVars>>

OtherCloses ==
    /\ pc # "undefined"
    /\ \E n \in Fds : fd[n] = "other" /\ fd' = [fd EXCEPT ![n] = "free"]
    /\ UNCHANGED <<pc, at, cgroup_fd, contextVars, countVars, faultVars>>

ActorStep ==
    \/ OpenCgroup
    \/ OpenCgroupFails
    \/ \E level \in Levels : CreateContext(level) \/ CreateFails(level)
    \/ OpenEvent
    \/ OpenEventFails
    \/ MapFails
    \/ Store
    \/ InitializeError
    \/ DestroyContext
    \/ EnableGroups
    \/ HandleTicker
    \/ ReadCpu
    \/ ResetCpu
    \/ \E failed \in Failures : PopulateFails(failed)
    \/ SendPayload
    \/ Terminate

Next ==
    \/ ActorStep
    \/ \E s \in SlotSet : CountEvent(s)
    \/ OtherOpens
    \/ OtherCloses

Spec == Init /\ [][Next]_vars

-----------------------------------------------------------------------------
TypeOK ==
    /\ pc \in {"start", "group", "pkg", "cpu", "open", "enable", "idle", "read", "reset", "send",
               "error", "cleanup", "exited", "undefined"}
    /\ at \in DOMAIN Slots
    /\ fd \in [Fds -> {"free", "cgroup", "perf", "unlisted", "other"}]
    /\ cgroup_fd \in Fds \union {0}
    /\ locals \in [Levels -> Contexts \union {<<>>}]
    /\ ctx \in [Contexts -> {"none", "fresh", "stored", "freed"}]
    /\ perf_fds \in [SlotSet -> Seq(Fds)]
    /\ mapped \subseteq SlotSet
    /\ buffer \in Nat /\ ticks \in Nat
    /\ {count, values, occurred, reported} \subseteq [SlotSet -> Nat]
    /\ {foreign, twice, nomem} \subseteq BOOLEAN
    /\ lost \subseteq SlotSet

\* An actor that has ended leaves no context, and no descriptor but the one of
\* an event whose mapping has failed.
NothingLeft ==
    pc = "exited" =>
        /\ \A c \in Contexts : ctx[c] \in {"none", "freed"}
        /\ \A n \in Fds : fd[n] \in {"free", "other", "unlisted"}

\* The error paths of the set-up and of a payload free each context and each
\* table once, whatever was already stored, unless it was an allocation that
\* failed: the pointers are then those of the loop before (perf.c:430, perf.c:699).
FreedOnce == twice => nomem

\* The descriptors the actor works on are its own, and it closes those of
\* others only on the error path of a cgroup, where cgroup_fd is closed twice.
\* The leader of every group of a cgroup has a ring buffer to take samples from.
OwnDescriptors ==
    /\ \A s \in SlotSet : ctx[s] \in {"fresh", "stored"} =>
          \A i \in DOMAIN perf_fds[s] : fd[perf_fds[s][i]] = "perf"
    /\ \A s \in SlotSet : ctx[s] = "stored" => (s \in mapped <=> HasCgroup /\ perf_fds[s] # <<>>)
    /\ foreign => HasCgroup /\ pc \in {"exited", "undefined"} /\ ticks = 0

\* No event is reported twice, over all the payloads of the actor.
CountedOnce == \A s \in SlotSet : reported[s] + values[s] <= occurred[s]

\* Every event is in a payload or still in its counter, but for those that came
\* between a read and its reset and those of a payload dropped after the reset:
\* a failed read or reset by itself loses nothing.
NothingUncounted ==
    \A s \in SlotSet \ lost : reported[s] + values[s] + count[s] = occurred[s]
=============================================================================
