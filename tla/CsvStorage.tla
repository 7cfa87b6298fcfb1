----------------------------- MODULE CsvStorage -----------------------------
(***************************************************************************)
(* The csv storage module (src/src/storage_csv.c): one file per group of   *)
(* events, created when the group is first seen, with a header made of the *)
(* events of the first cpu that is written.  The process may be stopped,   *)
(* or killed at any moment, and started again on the same directory.       *)
(*                                                                         *)
(* A file is the sequence of what was written to it: lines, and pieces of  *)
(* lines that a write or the process did not finish; what comes after such *)
(* a piece is on the same line of text.  "pending" is what stdio has not   *)
(* written to the file yet.  The names in a line are taken to fit into     *)
(* CSV_LINE_BUFFER_SIZE: only its events are tested (storage_csv.c:216).   *)
(***************************************************************************)
EXTENDS Naturals, Sequences, SequencesExt

CONSTANTS Groups,       \* names of the groups of events
          Cpus,         \* cpus of the machine
          Reports,      \* shapes of a report: group -> cpu -> set of events
          MaxColumns,   \* events that fit in CSV_LINE_BUFFER_SIZE
          MaxReports    \* bound: reports stored

ASSUME ReportsAssumption ==
    \A shape \in Reports :
        /\ DOMAIN shape \subseteq Groups
        /\ \A g \in DOMAIN shape : DOMAIN shape[g] = Cpus

\* A machine has a cpu: a header is written for the first one.
ASSUME CpusAssumption == Cpus # {}

ASSUME CsvBoundsAssumption == MaxColumns \in Nat /\ MaxReports \in Nat

VARIABLES file,             \* file[g]: lines of the output file of g
          exists,           \* groups whose output file exists
          groups_fd,        \* groups this process has the file of open
          groups_events,    \* groups_events[g]: the columns of g, none before the header
          pending,          \* pending[g]: lines in the buffer of the stream
          cut,              \* history: groups a write to whose file has failed
          reports,          \* reports given to the module so far
          shape,            \* shape of the report being stored
          todo,             \* groups of the report still to write
          group,            \* groups being written, one at most
          cpus,             \* its cpus still to write
          write_header,
          pc,               \* where csv_store_report stands
          result            \* what the last call returned

diskVars == <<file, exists, cut>>
ctxVars  == <<groups_fd, groups_events, pending>>
callVars == <<reports, shape, todo, group, cpus, write_header, pc, result>>
vars     == <<diskVars, ctxVars, callVars>>

Header(columns)    == [kind |-> "header", columns |-> columns]
Row(n, c, columns) == [kind |-> "row", report |-> n, cpu |-> c, columns |-> columns]
Torn               == [kind |-> "torn"]

\* What the file will hold once stdio has written everything.
Lines(g) == file[g] \o pending[g]

Init ==
    /\ file = [g \in Groups |-> <<>>]
    /\ exists = {}
    /\ groups_fd = {}
    /\ groups_events = [g \in Groups |-> {}]
    /\ pending = [g \in Groups |-> <<>>]
    /\ cut = {}
    /\ reports = 0
    /\ shape = <<>>
    /\ todo = {}
    /\ group = {}
    /\ cpus = {}
    /\ write_header = FALSE
    /\ pc = "down"
    /\ result = "none"

-----------------------------------------------------------------------------
\* csv_context_create and csv_initialize, on a directory that is there.
Start ==
    /\ pc = "down"
    /\ pc' = "idle"
    /\ UNCHANGED <<diskVars, ctxVars, reports, shape, todo, group, cpus, write_header, result>>

\* The output directory is missing, is no directory or is not writable.
InitializeFails ==
    /\ pc = "down"
    /\ result' = "error"
    /\ UNCHANGED <<diskVars, ctxVars, reports, shape, todo, group, cpus, write_header, pc>>

\* csv_context_destroy, or the end of the process: the context is gone.
DropContext ==
    /\ pc' = "down"
    /\ groups_fd' = {}
    /\ groups_events' = [g \in Groups |-> {}]
    /\ pending' = [g \in Groups |-> <<>>]
    /\ UNCHANGED <<exists, reports, shape, todo, group, cpus, write_header>>

\* What can be in a file of lines that did not all get there: some of them, and
\* perhaps a part of the next one.
Survivors(lines) ==
    Prefixes(lines) \union {Append(p, Torn) : p \in Prefixes(lines) \ {lines}}

\* Each file gets some of the lines in the buffer of its stream.
Leave(written) ==
    /\ \A g \in Groups : written[g] \in Survivors(pending[g])
    /\ file' = [g \in Groups |-> file[g] \o written[g]]
    /\ result' = "none"
    /\ DropContext

Endings == [Groups -> UNION {Survivors(pending[g]) : g \in Groups}]

\* csv_deinitialize and csv_destroy: fclose writes what the stream holds, if the
\* disk has room for it; nobody looks at what it returns.
Stop ==
    /\ pc = "idle"
    /\ \E written \in Endings :
          /\ Leave(written)
          /\ cut' = cut \union {g \in Groups : written[g] # pending[g]}

\* The process is killed: stdio has written some of what it holds.
Crash ==
    /\ pc # "down"
    /\ \E written \in Endings : Leave(written)
    /\ UNCHANGED cut

\* A write of these lines by stdio fails, the disk being full: it may have
\* written some, and a part of one; stdio forgets the rest.
WriteFails(g, lines) ==
    /\ \E written \in Survivors(lines) \ {lines} :
          file' = [file EXCEPT ![g] = @ \o written]
    /\ pending' = [pending EXCEPT ![g] = <<>>]
    /\ cut' = cut \union {g}

-----------------------------------------------------------------------------
\* csv_store_report.
StoreReport(s) ==
    /\ pc = "idle"
    /\ reports < MaxReports
    /\ reports' = reports + 1
    /\ shape' = s
    /\ todo' = DOMAIN s
    /\ group' = {}
    /\ cpus' = {}
    /\ write_header' = FALSE
    /\ pc' = "group"
    /\ result' = "none"
    /\ UNCHANGED <<diskVars, ctxVars>>

Return(outcome) ==
    /\ pc' = "idle"
    /\ result' = outcome

StartGroup(g) ==
    /\ group' = {g}
    /\ todo' = todo \ {g}
    /\ cpus' = Cpus
    /\ pc' = "cpu"

\* The groups come in the order of the hash table.
KnownGroup(g) ==
    /\ pc = "group"
    /\ g \in todo \intersect groups_fd
    /\ StartGroup(g)
    /\ UNCHANGED <<diskVars, ctxVars, reports, shape, write_header, result>>

\* Variant: fopen(path, "w") in place of O_EXCL.
OpenGroupOutfileTruncating(g) ==
    /\ pc = "group"
    /\ g \in todo \ groups_fd
    /\ file' = [file EXCEPT ![g] = <<>>]
    /\ exists' = exists \union {g}
    /\ groups_fd' = groups_fd \union {g}
    /\ write_header' = TRUE
    /\ StartGroup(g)
    /\ UNCHANGED <<groups_events, pending, cut, reports, shape, result>>

\* open_group_outfile: O_CREAT | O_EXCL.
OpenGroupOutfile(g) ==
    /\ pc = "group"
    /\ g \in todo \ (groups_fd \union exists)
    /\ exists' = exists \union {g}
    /\ groups_fd' = groups_fd \union {g}
    /\ write_header' = TRUE
    /\ StartGroup(g)
    /\ UNCHANGED <<file, groups_events, pending, cut, reports, shape, result>>

\* Variant: the stream is registered before it is tested.
OpenFailsRegistered(g) ==
    /\ pc = "group"
    /\ g \in todo \ groups_fd
    /\ groups_fd' = groups_fd \union {g}
    /\ Return("error")
    /\ UNCHANGED <<diskVars, groups_events, pending, reports, shape, todo, group, cpus,
                   write_header>>

\* The file is there already, or cannot be created; if it is fdopen that fails,
\* an empty file stays behind.
OpenFails(g) ==
    /\ pc = "group"
    /\ g \in todo \ groups_fd
    /\ exists' \in {exists, exists \union {g}}
    /\ Return("error")
    /\ UNCHANGED <<file, cut, ctxVars, reports, shape, todo, group, cpus, write_header>>

\* Variant: write_header is not cleared.
WriteGroupHeaderAgain(g, c) ==
    /\ pc = "cpu"
    /\ g \in group /\ c \in cpus /\ write_header
    /\ Cardinality(shape[g][c]) <= MaxColumns
    /\ file' = [file EXCEPT ![g] = Append(Lines(g), Header(shape[g][c]))]
    /\ pending' = [pending EXCEPT ![g] = <<>>]
    /\ groups_events' = [groups_events EXCEPT ![g] = {shape[g][c]}]
    /\ UNCHANGED <<exists, cut, groups_fd, reports, shape, todo, group, cpus, write_header, pc,
                   result>>

\* write_group_header: the columns are the events of this cpu.  The line is
\* flushed, but nobody looks at what fflush returns: it may be lost.
WriteGroupHeader(g, c) ==
    /\ pc = "cpu"
    /\ g \in group /\ c \in cpus /\ write_header
    /\ Cardinality(shape[g][c]) <= MaxColumns
    /\ LET lines == Append(pending[g], Header(shape[g][c]))
       IN  \/ /\ file' = [file EXCEPT ![g] = @ \o lines]
              /\ pending' = [pending EXCEPT ![g] = <<>>]
              /\ UNCHANGED cut
           \/ WriteFails(g, lines)
    /\ groups_events' = [groups_events EXCEPT ![g] = {shape[g][c]}]
    /\ write_header' = FALSE
    /\ UNCHANGED <<exists, groups_fd, reports, shape, todo, group, cpus, pc, result>>

\* The line is too long, or there is no memory for its events, and nothing is
\* written; or fprintf fails.
HeaderFails(g, c) ==
    /\ pc = "cpu"
    /\ g \in group /\ c \in cpus /\ write_header
    /\ \/ UNCHANGED <<file, pending, cut>>
       \/ WriteFails(g, Append(pending[g], Header(shape[g][c])))
    /\ Return("error")
    /\ UNCHANGED <<exists, groups_fd, groups_events, reports, shape, todo, group, cpus,
                   write_header>>

\* Variant: a lookup in the table of the cpus disturbs the iteration over it.
WriteEventsValueInPlace(g, c) ==
    /\ pc = "cpu"
    /\ g \in group /\ c \in cpus /\ ~write_header
    /\ \E columns \in groups_events[g] :
          /\ columns \subseteq shape[g][c]
          /\ pending' = [pending EXCEPT ![g] = Append(@, Row(reports, c, columns))]
    /\ UNCHANGED <<diskVars, groups_fd, groups_events, reports, shape, todo, group, cpus,
                   write_header, pc, result>>

\* write_events_value: one value per column of the header.
WriteEventsValue(g, c) ==
    /\ pc = "cpu"
    /\ g \in group /\ c \in cpus /\ ~write_header
    /\ \E columns \in groups_events[g] :
          /\ columns \subseteq shape[g][c]
          /\ pending' = [pending EXCEPT ![g] = Append(@, Row(reports, c, columns))]
    /\ cpus' = cpus \ {c}
    /\ UNCHANGED <<diskVars, groups_fd, groups_events, reports, shape, todo, group, write_header,
                   pc, result>>

\* Variant: a cpu that cannot be written is skipped.
ValueSkipped(g, c) ==
    /\ pc = "cpu"
    /\ g \in group /\ c \in cpus /\ ~write_header
    /\ cpus' = cpus \ {c}
    /\ UNCHANGED <<diskVars, ctxVars, reports, shape, todo, group, write_header, pc, result>>

\* There is no header, an event of the header is missing or the line is too long,
\* and nothing is written; or fprintf fails: the rest of the report is given up.
ValueFails(g, c) ==
    /\ pc = "cpu"
    /\ g \in group /\ c \in cpus /\ ~write_header
    /\ \/ UNCHANGED <<file, pending, cut>>
       \/ \E columns \in groups_events[g] :
             /\ columns \subseteq shape[g][c]
             /\ WriteFails(g, Append(pending[g], Row(reports, c, columns)))
    /\ Return("error")
    /\ UNCHANGED <<exists, groups_fd, groups_events, reports, shape, todo, group, cpus,
                   write_header>>

GroupDone ==
    /\ pc = "cpu"
    /\ cpus = {}
    /\ pc' = "group"
    /\ UNCHANGED <<diskVars, ctxVars, reports, shape, todo, group, cpus, write_header, result>>

ReportDone ==
    /\ pc = "group"
    /\ todo = {}
    /\ Return("ok")
    /\ UNCHANGED <<diskVars, ctxVars, reports, shape, todo, group, cpus, write_header>>

Next ==
    \/ Start
    \/ InitializeFails
    \/ Stop
    \/ Crash
    \/ \E s \in Reports : StoreReport(s)
    \/ \E g \in Groups : KnownGroup(g) \/ OpenGroupOutfile(g) \/ OpenFails(g)
    \/ \E g \in Groups, c \in Cpus :
          WriteGroupHeader(g, c) \/ HeaderFails(g, c) \/ WriteEventsValue(g, c) \/ ValueFails(g, c)
    \/ GroupDone
    \/ ReportDone

Spec == Init /\ [][Next]_vars

-----------------------------------------------------------------------------
TypeOK ==
    /\ exists \subseteq Groups
    /\ groups_fd \subseteq exists /\ cut \subseteq exists
    /\ \A g \in Groups : Cardinality(groups_events[g]) <= 1
    /\ reports \in 0 .. MaxReports
    /\ todo \subseteq Groups /\ group \subseteq Groups /\ cpus \subseteq Cpus
    /\ write_header \in BOOLEAN
    /\ pc \in {"down", "idle", "group", "cpu"}
    /\ result \in {"none", "ok", "error"}

\* Every file is a table, whatever reports of other shapes came, however many
\* calls failed and wherever the process was killed: a header comes first or not
\* at all, and all rows have the same columns, the header's if it is there.
\* Unless a write to the file has failed, the header is there before any row,
\* and only the last line may be torn, which stays the last one after a restart
\* (storage_csv.c:127-286).
IsTable(lines) ==
    \A i, j \in DOMAIN lines :
        /\ lines[i].kind = "header" => i = 1
        /\ lines[i].kind # "torn" /\ lines[j].kind # "torn" =>
              lines[i].columns = lines[j].columns

IsWhole(lines) ==
    \A i \in DOMAIN lines :
        /\ lines[i].kind = "row" => lines[1].kind = "header"
        /\ lines[i].kind = "torn" => i = Len(lines)

Tables ==
    \A g \in Groups : IsTable(Lines(g)) /\ (g \notin cut => IsWhole(Lines(g)))

\* Rows come in the order of the reports and no cpu of a report has two.
RowsInOrder ==
    \A g \in Groups : \A i, j \in DOMAIN Lines(g) :
        LET r == Lines(g)[i]
            q == Lines(g)[j]
        IN  i < j /\ r.kind = "row" /\ q.kind = "row" =>
                r.report < q.report \/ (r.report = q.report /\ r.cpu # q.cpu)

\* A report is said to be stored when each of its cpus has a row in the file of
\* each of its groups, or in the buffer of its stream (storage_csv.c:229-285).
\* After a write that failed, the first row may continue a torn line.
StoredIsWritten ==
    pc = "idle" /\ result = "ok" =>
        \A g \in DOMAIN shape, c \in Cpus : \E i \in DOMAIN Lines(g) :
            LET r == Lines(g)[i]
            IN  r.kind = "row" /\ r.report = reports /\ r.cpu = c

\* What is in a file stays, in place; and a file that another run of the sensor
\* has left is not touched at all.
FilesOnlyGrow ==
    [][\A g \in Groups :
        /\ IsPrefix(file[g], file'[g])
        /\ g \notin groups_fd => file'[g] = file[g]]_vars
=============================================================================
