# A TLA+ model of hwpc-sensor

This directory holds a model of hwpc-sensor, the program under `src/` that
samples hardware performance counters per container and hands the reports to a
storage module. It has TLA+ modules, TLC configurations, and proofs checked by
TLAPS. `PROJECT.json` lists, definition by definition, the lines of code each
one stands for.

## The system

One process, several threads that only share czmq sockets and a few pointers.

| part | code | state | operations |
|---|---|---|---|
| main thread | `sensor.c`, `target.c` | the table of perf actors (keyed by cgroup path), the interrupt flag | rounds: walk the cgroup hierarchy, stop dead actors, start new ones, publish a tick; then deinitialise the storage and stop everything |
| perf monitoring actors | `perf.c` | sockets, cgroup descriptor, tables of contexts (group, package, cpu), event descriptors, ring buffers | set-up, one payload per tick, cleanup |
| payload | `payload.c` | tables group, package, cpu, event | built by a perf actor, sent as a pointer, freed by the reporting actor |
| reporting actor | `report.c` | a PULL socket | store each payload, then destroy it |
| storage modules | `storage*.c` | one socket with a backoff; one file per group; a MongoDB client; nothing | initialize, ping, store_report, deinitialize, destroy |
| configuration | `config.c`, `events.c` | settings and groups of events | parsing of the command line or of a file, validation |
| hardware, PMU, targets' names | `hwinfo.c`, `pmu.c`, `target_*.c` | tables filled once | detection at start |

Interaction: main starts and stops the actors with `zactor_new` and
`zactor_destroy` (which sends `$TERM` and waits for the thread); ticks go from
main to the perf actors over PUB/SUB (dropped when a queue is full or the
subscriber is not there); payloads go from the perf actors to the reporting
actor over PUSH/PULL (which blocks when full or without a receiver); main and
the reporting actor both call the storage module, without a lock. A signal sets
a flag that every poll notices.

What is hard here: the order of a shutdown (main deinitialises the storage
before it stops anybody, the reporting actor leaves at once on an interrupt and
the perf actors do not); containers that come and go while main walks their
directories or an actor initialises; failing system calls half-way through a
set-up or a payload; counters that are read and reset in two steps; a
connection that breaks at any point of a send; a kill in the middle of a file.
`PROJECT.json` lists these hazards by line, with the properties for each.

What makes each part correct:

- main and actors: no thread is leaked, the table follows the containers (within
  a few rounds), a shutdown ends, the storage module is not used after its end;
- pipeline: payloads are conserved, in order per actor, and each tick is
  answered;
- perf groups: what is taken is given back once, each event is in one payload;
- socket storage: no duplicate, errors are honest, the backoff is bounded and
  the module recovers;
- csv storage: every file is a table, as far as its writes succeed, what is said
  to be stored is, restarts leave old files alone;
- configuration: what is accepted can be run, and what the messages require is
  required.

## Modules

    Channels <- Cgroups <- PerfActor  \
    Channels <- ReportingActor         > Sensor <- MCSensor, SensorProofs
                ReportStream          /
    PerfGroups     <- MCPerfGroups, PerfGroupsProofs <- PerfContextsProofs
    PerfRing       <- PerfRingProofs
    SocketStorage  <- MCSocketStorage, SocketStorageProofs
    CsvStorage     <- MCCsvStorage, CsvStorageProofs
    Config, HwInfo <- Startup <- MCStartup, StartupProofs
    Arithmetic     <- PerfRingProofs, SocketStorageProofs, StartupProofs

(`A <- B`: B extends A; Sensor instantiates ReportStream.)

**Channels** (external, but for the payloads): the pipes, the tick queues, the
report queue and the signals, as the code uses czmq. **Cgroups** (external):
containers that are created and removed; `born` tells the successive cgroups of
one path apart.

**PerfActor**: `perf[m]` is the place of the actor of target `m` in
`perf_monitoring_actor`. `Spawn` is `zactor_new`; `CreateContext`,
`ResolveFails`, `InitializeGroups` and `InitializeFails` are the start-up up to
the poll; `PerfPoll`, `PerfTerminated`, `PerfHandlePipe` and `HandleTicker` are
one turn of the loop; `PopulatePayload`, `PopulateFails` and `SendPayload` are
`handle_ticker`, whose last call blocks. A payload is the tick it answers.

**ReportingActor**: the same for `report.c`, with the life of the storage
module it calls (`storage`, and `late`, the stores on a deinitialised module).
`ReporterInit` has two outcomes: without memory for its context the thread ends and
main goes on without it, since `zactor_new` returns an actor all the same. Nothing
is bound then, the payloads stay in the sockets of the actors, and an actor whose
socket is full waits for ever.

**Sensor**: the composition, with main as a program counter. `Visit`,
`DiscoverDone` and `DiscoverFails` are `target_discover_running` directory by
directory, `StopDead`, `StopDone`, `StartNew` and `StartDone` the two loops of
`sync_cgroups_running_monitored`, `Tick`, `Deinitialize`, `Cleanup` and
`DestroyStorage` the rest of `main`. A wait in `zactor_destroy` is a state
(`waiting`), which a second signal may cut short. A walk may miss containers
(`MayMiss`: `fts_read` fails, or a target cannot be created); main does not notice,
and stops their actors as dead. `zhashx_delete` takes the cursor of the iteration
away, and `zhashx_next` then goes on with the next bucket: once a round has
`deleted` an entry, `StopDone` may come while other actors are `Dead`. Which
entries share a bucket is left open. `StartAborts` is a failing
`perf_config_create`, whose NULL the new thread dereferences: the process ends.

**ReportStream**: what the pipeline promises, without threads: senders extend
their streams, the storage is given each stream in order. `Sensor` implements
it with `sent` and `handled`.

**PerfGroups**: the same actor as PerfActor from the inside, one actor at a
time. The contexts of the three nested loops are named by their path; `locals`
are the three local pointers with their stale values; `fd` is the descriptor
table of the process, where another thread may take a number as soon as it is
free. `Release` is the error label and the destructors. `ReadCpu` and
`ResetCpu` are the two system calls of `perf_events_group_read_cpu`, between
which `CountEvent` may happen. Frees and closes that follow each other without
an allocation are one step; the two closes of `cgroup_fd` are two. The tables
of a payload are named as the contexts are. They are created in the order the
slots are read, so which of them are stored, and which the pointers of
`populate_payload` still point to, follows from the slot where it fails:
`PopulateFails(failed)` runs its error label and `payload_destroy` over them.

**PerfRing**: one ring buffer of callchains. The kernel writes a record into the
free space (`KernelWrite`, external) and then moves `data_head`
(`KernelPublish`, external); `get_callchains` reads `data_head` (`Begin`), looks
at the header of a record and copies a sample that wraps (`Fetch`), takes its
addresses one by one (`AppendSymbol`, `AppendBar`) and moves `data_tail`
(`Release`), while the kernel goes on. A word is 8 bytes; records begin on
words, so that a header is never split. A word of the buffer tells the record
and the place it comes from, so the model knows what was really read, also when
a record is not the sample it is taken for. `Strapp` is the growth of the string
of `util.c`, with memory that may fail.

**SocketStorage**: `pc` is the place in `socket_store_report`. A send takes the
whole report (`SendWhole`), a part of it (`SendCut`) or fails (`SendFails`);
a send may fail or fall short on any connection, also one that stays up (a signal,
no memory in the kernel). `TooEarly`, `ConnectFails` and `Reconnect` are the
outcomes of `socket_try_reconnect`. A connection is up, half (the other end is gone and
nobody knows) or broken. Time is the number of seconds since `last_retry_time`,
saturated above the largest backoff.

**CsvStorage**: a file is a sequence of lines (header, row, torn line), and a
line is the report, cpu and columns it has. `pending` is the buffer of the
stream. `Stop` flushes it, `Crash` leaves any prefix, possibly cut inside a
line, and `Start` runs again on the same directory. A write that fails, on a full
disk, leaves a prefix as well, and stdio forgets the rest (`WriteFails`): the calls
that follow write on after it. `HeaderFails` and `ValueFails` are such writes or
lines that are never written; `WriteGroupHeader` has one that nobody notices, since
the result of its `fflush` is not looked at. `cut` remembers the files this has
happened to.

**Config**: the options arrive one by one, from the command line or from a
document, and build the settings and the groups of events; `Valid` is
`config_validate`. `current` is the pointer to the group named last. The parts
of a document may come in any order and more than once, so nothing remembers
which part is being read. The port is read from a record that `config_create`
leaves as the allocation found it: its first value is any of {0, not 0}. `Parsed` is
`strtoul`, which takes a negative number modulo `ULONG_MAX + 1`: of those, the ones
that come out within an unsigned int are accepted.
**HwInfo**: the walk over the links of the cpus, in any order, with cpus that are
offline, into the table of packages.

**Arithmetic** models nothing: it has the lemmas about numbers that several
proofs need.

**Startup**: the life of main, from its first call to its return: `alive` is what
is allocated, open or running. Each step takes something or gives up; while no
thread runs, giving up is one step, which takes in the whole cleanup label. With
threads, `CleanUp` goes through the label in the order they can tell apart. A signal
ends the loop, and cuts a wait of `zactor_destroy` (`Interrupt`): the thread is then
`left`, main goes on, and what it frees next may be in use. The
rounds of main are one step here (`SyncContainers`); they are the subject of
Sensor.

Operators whose comment begins with "Variant:" are not part of the model: each
is a definition with a plausible mistake, and shows that the property it is
paired with in `PROJECT.json` fails when the code goes wrong in that way.

## Runs

Checked with `tlc -workers 2 -config X.cfg M`. CHECK_DEADLOCK is FALSE in all:
the sensor returns from main and an actor or a module really ends; the one
deadlock that matters is the subject of `HangOnlyOnSend`.

| run | shows | bounds |
|---|---|---|
| `sensor_safety` | `NothingLost`, `StreamSpec`: reports are conserved and in order. `LateStores`: at most one store after the deinitialisation. `ModuleOutlivesReporter`, `NoOrphanActor`: lives of module and actors. `HangOnlyOnSend`: when every thread has ended or waits, main has returned or waits for an actor stuck in its send | a container and the whole system, up to 3 actors of that container, which walks may miss, 2 ticks, 2 signals, queues of one message, every failure |
| `sensor_liveness` | `TicksAnswered`, `DeadIsStopped`, `RunningIsRegistered`; `ShutdownEndsOrHangs` | two containers, one cgroup each, one tick, one signal, no failing resource |
| `perf_groups` | `NothingLeft`, `FreedOnce`, `OwnDescriptors`: the set-up and its error path. `CountedOnce`, `NothingUncounted`: the counts of payloads | two groups on two packages and three cpus, two ticks, two events, 9 descriptors |
| `perf_ring` | `OnlySamples`, `NothingSkipped`: the addresses of each sample are taken once, in order, whatever the kernel writes meanwhile. `StringFits`: the string stays in its allocation. `RecordsTaken`: the ring is emptied | a ring of 9 words, 4 records: samples of 2 addresses (the limit) or of 3, and records of losses of 3 words; a string of 2 characters, symbols of 4 |
| `startup` | `AsGiven`: the configuration is the one the options describe. `PackagesComplete`: every online cpu is in its package. `StorageHasSettings`: what is accepted has what its storage module uses. `ThreadsServed`: what threads use is there. `NothingKept`: what is taken is given back | two names, two events, 6 options of which 4 are about groups, integers of 16 bits and longs of 24, the numbers -ULONG_MAX, -1, 0 and UINT_MAX + 1, two signals, four cpus on two packages, one of them offline; symmetric in names and events |
| `socket_storage` | `NoDuplicate`, `ErrorMeansLost`, `BackoffCeiling`, `BackoffDoubles`, `ClosesOwnSocket`, `Recovers` | sends that fail or fall short on any connection; maximum 8 s, jitter up to 2, attempts and pauses of 0, 1 and 3 s, failures in a row counted to 6 |
| `csv_storage` | `Tables`, `RowsInOrder`, `StoredIsWritten`, `FilesOnlyGrow` | two groups, two cpus, two reports of three shapes, one too wide for the line buffer, any number of runs, any write may fail |
| `dead_is_dropped` | violated: an actor stays on the cgroup that was removed when its path comes back within a round | one container, 2 cgroups, no tick, no signal |
| `running_is_monitored` | violated: a container whose actor ended in its set-up is never monitored | as `dead_is_dropped` |
| `port_required` | violated: the socket storage is accepted without a port | as `startup`, one option about groups, 4 in all |
| `next_try_as_announced`, `cut_is_sent_again` | violated: an attempt comes sooner than announced, a report sent in part is returned as stored | as `socket_storage` |

Why the bounds are enough. Sensor: the code treats containers alike and one at
a time, and two monitored targets are the smallest number whose reports can
mix; two cgroups under one path give every staleness (`dead_is_dropped`); queues of one make
"full", "empty" and "dropped" all happen; a second signal is what can cut a
wait, and a third one can do no more. With system and container actors the
table, the reporter and main already give 2.1 million states. There the container has one cgroup: a walk that
misses it is to main as if it were gone and back, and stops or starts an actor in any
of its states; `MaxStarts` lets that happen until the third actor of the path, so that
actors are finitely many. Two containers
are what it takes for a round to stop one dead actor and leave the other, which is
why `sensor_liveness` has two of them. PerfGroups: two
groups and two packages make every local pointer go stale at every level, one
package has a second cpu so that the inner loop goes round, one group has a
follower; two ticks and two events are what a double report or an overtaken
reset needs. SocketStorage: a maximum of 8 takes three doublings, the last of
which overshoots, and durations below, at and above the first delays occur;
the proofs cover the real constants. PerfRing: in a
ring of 9 words two samples, or a sample and a loss, fit, so that the kernel
writes one while the other is read, and a third does not; records of 3, 4 and 5
words in any order wrap at different words, and the fourth takes the place of
those already given back; a string of 2 characters must be doubled more than once for one symbol. Startup:
with two names and two tables a group is left, taken for another and named
again; the proofs cover any number of options. CsvStorage: two reports of different
shapes meet every combination of header and row, and the number of restarts is
not bounded.

`TypeOK` in each run is the type invariant.

## Fairness

`Sensor!Fairness` is weak fairness of main, of each perf actor and of the
reporting actor: they are operating system threads and each is scheduled.
Nothing is assumed of signals, containers or failures. A blocked `zsock_send`
is not enabled, so fairness does not unblock it. `SocketStorage!Fairness`:
reports keep coming, calls go on, time passes, and TCP eventually reports a
connection whose other end is gone. `Recovers` further supposes an endpoint that
accepts and keeps connections from some time on, and a send(2) that works on a
connection that is up: a signal or a kernel without memory at each send would keep
every report away. `PerfRing!Spec`: the kernel
publishes what it has written, and ticks keep coming, with memory for a string
at some of them. Safety runs need no fairness.

A tick is answered "unless" the actor is being stopped, or the process
interrupted: the code gives no more. A dead actor is stopped "eventually", not in
the round that finds it dead: a round may pass over it, but only when it stops
another one, and in the model containers are born finitely often. With failing resources a payload may be
dropped for ever, so `sensor_liveness` has `MayFail = FALSE`.

Wall-clock time never goes back in SocketStorage (a clock set back delays a
reconnection by that much).

## Proofs

`tlapm` checks `SensorProofs.tla`, `SocketStorageProofs.tla`, `PerfGroupsProofs.tla`,
`PerfContextsProofs.tla`, `PerfRingProofs.tla`, `CsvStorageProofs.tla`,
`StartupProofs.tla` and `Arithmetic.tla`; no step is left unproved. They use the
assumptions on constants named in the modules, which TLC evaluates in the runs.
Every invariant of a passing run is a theorem, and so are its action properties and
its refinement; what is left to TLC is liveness.

SensorProofs, for any containers, queue sizes and bounds:

- `TypeCorrect`: `TypeOK` with `Holding`, which says where a thread holds a tick
  or a payload.
- `Supervised`: `Supervision` ties the table, the places of the threads, main's
  place and the storage's life. It is needed because `NoOrphanActor` alone is
  not inductive: that a new actor is started only for a path without one follows
  from where main is in its round. `NoOrphan` and `StorageOutlivesReporter` follow.
- `AtMostOneLateStore`: `Closing` says that after the interrupt the reporting
  actor can take at most the message its poll has already returned.
- `Conservation`: `Pipeline` adds that a payload being made is fresh (its tick
  is later than those its actor has sent), so that sets of payloads count.
- `ImplementsReportStream`: from `Pipeline`, each step maps to a step of
  ReportStream or to a stutter.
- `HangsOnlyOnSend`: `PerfBlocked`, `ReporterBlocked` and `MainBlocked` say where a
  thread waits, so that the property speaks of states only. The invariant `Told` adds
  that the thread main waits for has been sent "$TERM" or has read it. One that waits
  in its poll has therefore a message to read, and a reporting actor that waits has
  emptied the queues; what remains is an actor in its send, and no reporting actor.
- `RoundsAgree`: at the end of a round each container the walk has found is in the
  table, and no other is unless the round has deleted an entry, which may hide others
  of its bucket. `Rounds`: once the dead are stopped, those left run, or one was
  deleted.
- `ShutdownIsFinite`, `ShutdownIsShort`, for finitely many containers: `Work` is the
  set of steps that main and the threads can still take after a signal. Each step of
  theirs takes some away, nothing else adds any, and there are at most seven for each
  container and 18 more. With `HangsOnlyOnSend` this is what can be proved of
  `ShutdownEndsOrHangs`: after so many steps, every thread has ended or waits, and
  then main has returned or hangs in the one way that is known.
- `OneOrphanPerSignal`: threads that run and of which main holds no handle are no
  more than the signals received, since only a signal cuts a wait, and only one.

SocketStorageProofs, for any maximum, jitter and durations: one inductive
invariant (`Calling`: the sends and copies of a report by the place of the call;
`Owning`: whose descriptor `socket_fd` is; `BackoffCeiling`; `BackoffDoubles`), from
which `SendsSafely`, `FailureIsHonest`, `BackoffBounded` and `OwnSocketOnly`.
`FailuresDouble` holds for any number of failures counted (`MaxFailures`): the
backoff at least doubles at each of them, and `PowerOfTwo` says the same of 2^k.
`CallEnds`: a call takes at most four steps (`StepsLeft`), since a failed send is
tried again once.

PerfGroupsProofs, for any slots: `Collecting` says that a payload has values only
for the slots the loop has passed, and that what was read is still in the
counter until its reset; with it `NeverTwice` and `NeverMissed`. A payload that
fails half-way, error label included, is a step of that induction.

PerfContextsProofs, of the same module, for any slots, descriptors and failures:
`NothingIsLeft`, `FreesOnce` and `DescriptorsAreOwn`. The three say little of the
states before the end, so the inductive invariant `Holding` says who holds what
at each place: `Places`, which contexts are in no table yet, and that exactly the
pointers of the running loops point to them; `Rooted`, that a context not yet
freed is in the table of one not yet freed, so that destroying the tables from
their root reaches all; `Descriptors`, that the descriptors of events are those
of the contexts not yet freed, and no two share one; `Cgroup`, the same of
`cgroup_fd` until its second close. That `Release` frees each context once then
rests on `NoneTwice` (no context is destroyed twice when those a release starts from
are distinct and none is in the table of another), and that nothing is lost on
`Survivors` (what is left is in the tables of what is left). `CallFreesOnce` is the
same for the tables of a payload in its error label. `HandlersEnd`: from the start of
its set-up, of a tick or of its end, the actor comes back to its poller or ends after
a number of steps bounded by the slots and the events of a group.

PerfRingProofs, for a ring of any size, records and symbols of any length:
`SamplesAreTold`, `NothingIsSkipped` and `StringAlwaysFits`. `Layout` says that the
records lie one after the other, with `data_head` and `data_tail` between two of
them; `Contents`, that what was not given back fits into the ring and is there word
for word, which is what a kernel that writes meanwhile could break; `Current`, that
the size and the copy at hand are those of the record being read; `Told` and
`Complete` tie what is in the strings to the record and frame reached. Two lemmas
carry the arithmetic modulo the size of the ring: `Place` (going on from the place
of a word is going on from its count) and `Distance` (how far apart the places of two
counts are, when those are less than a ring apart). For `StringFits`, `GrownFits` says that doubling the
allocation reaches any length, by `PowerExceeds`. `CallEnds`: `data_head` is read once,
so that a call has at most the words of a ring to go through (`Bounded`), and what
the kernel writes meanwhile does not make it longer.

CsvStorageProofs, for any groups, cpus, reports and number of runs:
`FilesAreTables`, `RowsAreOrdered`, `StoredReportsAreWritten` and the action property
`FilesGrow`. `Calling` says where a call stands and that a header is still to be
written only for a group just opened; `Streams`, that a group with a stream has a
file this process has written alone, all rows of which have the columns the process
remembers; that its header is there and no line torn holds until a write to it fails
(`cut`). A row that is appended therefore has the header's columns.
`Ordered` and `Written` add, at each place of a call, which groups and cpus have no
row of the report yet, and that all the others have one. A crash or a failed write leaves a prefix
of what was to be written (`Survivors`), after a crash the last of the file, since
the next run does not open it again. `CallEnds`, for finitely many
groups and cpus: each step of a call takes one from what is left of it, a crash all.

The four bounds (`CallEnds` three times, `HandlersEnd`) are why Sensor may take a
set-up, a collection and a store as one step each: the loops in them end. That
the system calls in them return is assumed; send(2) to an endpoint that no longer
reads need not (see the hazards).

StartupProofs, for any machine, options and bounds: the inductive invariant is
`TypeOK` with `Packed` (the table has exactly the online cpus whose entry has been
handled, which gives `EveryCpuFound`), `Accepted` (from the validation on, the
configuration has what its module uses: `SettingsPresent`) and `Ladder`, which
says what main can have taken at each of its places. `Ladder` is needed because
`NothingKept` speaks of the end only: that the cleanup label gives back
everything follows from what could have been taken before each of its entries.
`Excused` says what signals can have done to it: which threads are left at each
place, and that the storage module outlives the reporting actor until the second
signal. `ServedThreads` and `EverythingGivenBack` follow from the two.

`OptionsAreMeant` is that `AsGiven` holds: the code keeps one pointer to the group
named last, the property reads the whole list of options at once. `Meaning` adds to
it `Owned`: the pointer is that of the group named last in the list, and every option
has a group named before it. One option more then leaves the owners of the others
alone (`OwnerAppended`), so that only the meaning of its own group changes
(`AboutAppended`, `Change`); a group named again keeps what it has, and one named
for the first time has nothing meant for it yet (`OwnerIsNamed`).

Arithmetic has induction as the least element of a set of numbers, which the
provers can use where they cannot use the library's theorem, powers of two as
numbers of subsets, and division with its remainder.

Only model-checked: liveness (`TicksAnswered`, `ShutdownEndsOrHangs`,
`DeadIsStopped`, `RunningIsRegistered`, `Recovers`, `RecordsTaken`), which rests on
ENABLED through fairness: that a thread which is not blocked can take a step is shown
by TLC only. The prover reaches neither. The properties of the runs that expect a violation
are not theorems either.

## What the runs found

Besides the five findings of `PROJECT.json`, two behaviours that no comment
denies and that the properties allow explicitly: a shutdown hangs when a perf
actor sends after the reporting actor has left (`ShutdownEndsOrHangs` and
`HangOnlyOnSend` say exactly that), and a store may come after the
deinitialisation of the storage module (`LateStores`). The error path of
`perf_events_groups_initialize` frees contexts twice after a failed allocation
(`FreedOnce` excepts it) and closes `cgroup_fd` twice (`OwnDescriptors` excepts
it). Others of this kind:

- the error path of `populate_payload` (perf.c:699) destroys a table twice after a
  failed allocation, since its pointers are those of the loop before (`FreedOnce`
  excepts allocations, and holds for failing system calls);
- the record of a loss whose id is within the limit of callchains is read as a
  sample (`OnlySamples` says nothing of what is taken from one, and shows that
  the samples around it are not disturbed);
- the backoff exceeds `MAX_DURATION_CONNECTION_RETRY`, since it is doubled and
  jittered after the comparison (`BackoffCeiling` states how far it goes);
- the document of the configuration file is freed before the threads stop, and
  the handles of MongoDB are destroyed before them (`ThreadsServed` excepts both
  during the cleanup);
- a second signal that cuts main's wait for the reporting actor lets it free the
  storage module that actor may be using (`ThreadsServed` and `ModuleOutlivesReporter`
  hold up to the second signal), and threads that were cut off run on until main
  returns (`NothingKept` names them);
- a full disk leaves a part of a line in a csv file, and the rows of later reports go
  on behind it; the header is lost the same way without a message, although
  storage_csv.c:156 says "force writing to the disk", since nobody looks at what
  `fflush` returns, and its rows follow all the same (`Tables` says what is left of a
  table then: one set of columns for the whole file, a header first or not at all);
- deleting from the table of actors while iterating over it makes a round pass over
  the dead actors in the rest of the bucket; they are stopped by a later round
  (`DeadIsStopped`, `RoundsAgree`);
- a walk that ends on an error of `fts_read` is taken for a whole one, and the actors
  of the containers it has not reached are stopped;
- when the context of the reporting actor cannot be created, main monitors without
  it: no report is ever stored and the actors block once their sockets are full;
- a `perf_config_create` that fails ends the process, as the new thread does not
  expect NULL;
- a number close to -ULONG_MAX on the command line is accepted as a small positive
  one (`AsGiven` says which).
- the MongoDB library stays initialised after a failed `mongodb_initialize`
  (`NothingKept` excepts it);
- a group without events is accepted; no counter is opened for it, each of its
  reads fails, and every payload is dropped (PerfGroups: `ReadCpu` needs a
  descriptor).

## Not modelled

Names of containers (regular expressions and files of other programs),
symbolisation and the search of a process of the cgroup (libdwfl), the list of
PMUs, which is only logged, the document MongoDB is given and the text of reports
and logs, `time_enabled` and `time_running`, which only a warning reads, the
length of sleeps and the sampling frequency, the spelling of events (libpfm), and
the programs under `testing/`. The ring buffers are never unmapped
(perf.c:253): there is no order of events in which they would be, and nothing to
check.

Failures after which the program has no state to speak of: the allocation for a
sample that wraps (perf.c:589) is not tested, and the copy into it ends the process;
`zactor_new` does not return NULL, since czmq asserts its allocations; a failing
`perf_config_create` or `target_create` for the actor of the whole system ends the
process at its start, before any state of Sensor. A line of a csv file whose names
alone exceed CSV_LINE_BUFFER_SIZE (the result of the snprintf at storage_csv.c:216
is only tested after the next one, at 225) is undefined: names are assumed to fit,
events are not. A descriptor that is stale in SocketStorage and has been given to
another thread is not a socket, and a send on it fails. A signal that comes while
`zactor_new` waits for its thread is taken as one that comes right after it.

## Plan

Done, in this order: Channels, Cgroups, PerfActor, ReportingActor, ReportStream
and Sensor; SocketStorage, CsvStorage and PerfGroups; PerfRing, Config, HwInfo
and Startup, the payload tables in PerfGroups; the proofs above, for every component
that has a run.

Next: the ownership of a `struct target` across a round (`target.c`, sensor.c:79-120):
it is created by the walk, kept by the actor that is started for it and freed
otherwise.
