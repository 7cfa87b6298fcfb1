-------------------------- MODULE CsvStorageProofs --------------------------
(***************************************************************************)
(* Proofs about CsvStorage, for any groups, cpus, shapes of reports and    *)
(* bounds: every file is a table, but for what a failed write cuts out of  *)
(* it, rows come in order, what is said to be stored is, and files only    *)
(* grow.                                                                   *)
(***************************************************************************)
EXTENDS CsvStorage, FiniteSetTheorems, SequenceTheorems, TLAPS

\* What a line may be.
Columns == UNION {{s[g][c] : g \in DOMAIN s, c \in Cpus} : s \in Reports}
Line ==
    [kind : {"header"}, columns : Columns]
        \union [kind : {"row"}, report : Nat, cpu : Cpus, columns : Columns]
        \union {Torn}

\* At most one set of columns: those of the header.
Types ==
    /\ TypeOK
    /\ file \in [Groups -> Seq(Line)]
    /\ pending \in [Groups -> Seq(Line)]
    /\ groups_events \in [Groups -> {{}} \union {{columns} : columns \in Columns}]

\* Where the call stands: a header is still to be written only for a group
\* that was just opened, and is written before its first row.
Calling ==
    /\ pc = "down" => groups_fd = {}
    /\ pc \in {"group", "cpu"} => shape \in Reports /\ todo \subseteq DOMAIN shape
    /\ pc = "group" => ~write_header
    /\ pc = "cpu" => \E g \in groups_fd : group = {g} /\ g \in DOMAIN shape \ todo
    /\ pc = "cpu" /\ write_header =>
         cpus # {} /\ \A g \in group : groups_events[g] = {} /\ Lines(g) = <<>>

\* A group without an open stream has nothing in memory; a file that is not
\* there has no lines.
Closed(g) ==
    /\ pending[g] = <<>>
    /\ groups_events[g] = {}
    /\ g \notin exists => file[g] = <<>>

\* What is in a file of these columns, and in one with its header.
Fits(lines, columns) ==
    \A i \in DOMAIN lines :
        /\ lines[i].kind = "header" => i = 1
        /\ lines[i].kind # "torn" => lines[i].columns = columns
Headed(lines) ==
    /\ lines # <<>> /\ lines[1].kind = "header"
    /\ \A i \in DOMAIN lines : lines[i].kind # "torn"

OnlyTorn(lines) == \A i \in DOMAIN lines : lines[i].kind = "torn"

\* A group with an open stream has a file that this process has written alone,
\* with the columns it remembers, and with their header unless a write has failed.
Open(g) ==
    /\ groups_events[g] = {} => OnlyTorn(Lines(g)) /\ (g \notin cut => Lines(g) = <<>>)
    /\ \A columns \in groups_events[g] :
          Fits(Lines(g), columns) /\ (g \notin cut => Headed(Lines(g)))

Streams == \A g \in Groups : IF g \in groups_fd THEN Open(g) ELSE Closed(g)

IsRow(line) == line.kind = "row"
InOrder(lines) ==
    \A i, j \in DOMAIN lines :
        i < j /\ IsRow(lines[i]) /\ IsRow(lines[j]) =>
            \/ lines[i].report < lines[j].report
            \/ lines[i].report = lines[j].report /\ lines[i].cpu # lines[j].cpu

\* No row is later than the report being stored, and no row of it stands for
\* what is still to write.
Upto(lines, n) == \A i \in DOMAIN lines : IsRow(lines[i]) => lines[i].report <= n
Before(lines, n) == \A i \in DOMAIN lines : IsRow(lines[i]) => lines[i].report < n
Ordered ==
    /\ \A g \in Groups : InOrder(Lines(g)) /\ Upto(Lines(g), reports)
    /\ pc \in {"group", "cpu"} => \A g \in todo : Before(Lines(g), reports)
    /\ pc = "cpu" => \A g \in group : \A i \in DOMAIN Lines(g) :
          IsRow(Lines(g)[i]) /\ Lines(g)[i].report = reports => Lines(g)[i].cpu \notin cpus

\* Everything of the report that is no longer to write is written.
HasRow(lines, n, c) ==
    \E i \in DOMAIN lines : IsRow(lines[i]) /\ lines[i].report = n /\ lines[i].cpu = c
Written ==
    /\ pc \in {"group", "cpu"} => result = "none"
    /\ pc = "group" => \A g \in DOMAIN shape \ todo, c \in Cpus : HasRow(Lines(g), reports, c)
    /\ pc = "cpu" =>
         /\ \A g \in DOMAIN shape \ (todo \union group), c \in Cpus : HasRow(Lines(g), reports, c)
         /\ \A g \in group, c \in Cpus \ cpus : HasRow(Lines(g), reports, c)
    /\ result = "ok" =>
         shape \in Reports /\ \A g \in DOMAIN shape, c \in Cpus : HasRow(Lines(g), reports, c)

IInv == Types /\ Calling /\ Streams /\ Tables /\ Ordered /\ Written

-----------------------------------------------------------------------------
\* Lines.

LEMMA LineKinds ==
    /\ \A columns \in Columns : Header(columns) \in Line /\ Header(columns).kind = "header"
    /\ \A n \in Nat, c \in Cpus, columns \in Columns :
          /\ Row(n, c, columns) \in Line
          /\ Row(n, c, columns).kind = "row" /\ Row(n, c, columns).report = n
          /\ Row(n, c, columns).cpu = c /\ Row(n, c, columns).columns = columns
    /\ Torn \in Line /\ Torn.kind = "torn"
  BY DEF Header, Row, Torn, Line

LEMMA SeqDomain ==
    ASSUME NEW s \in Seq(Line)
    PROVE  /\ DOMAIN s = 1 .. Len(s) /\ Len(s) \in Nat
           /\ \A i \in 1 .. Len(s) : s[i] \in Line
           /\ s = <<>> <=> Len(s) = 0
  BY LenProperties, ElementOfSeq, EmptySeq

\* One line more.
LEMMA AppendIndices ==
    ASSUME NEW s \in Seq(Line), NEW line \in Line
    PROVE  /\ Append(s, line) \in Seq(Line)
           /\ DOMAIN Append(s, line) = DOMAIN s \union {Len(s) + 1}
           /\ Len(Append(s, line)) = Len(s) + 1
           /\ \A i \in DOMAIN s : Append(s, line)[i] = s[i] /\ i <= Len(s) /\ i \in Nat
           /\ Append(s, line)[Len(s) + 1] = line
           /\ Len(s) + 1 \notin DOMAIN s /\ Len(s) \in Nat
           /\ Append(s, line) # <<>>
<1>1. DOMAIN s = 1 .. Len(s) /\ Len(s) \in Nat
  BY SeqDomain
<1>2. /\ Append(s, line) \in Seq(Line) /\ Append(s, line) # <<>>
      /\ Len(Append(s, line)) = Len(s) + 1
      /\ \A i \in 1 .. Len(s) : Append(s, line)[i] = s[i]
      /\ Append(s, line)[Len(s) + 1] = line
  BY AppendProperties
<1>3. DOMAIN Append(s, line) = 1 .. Len(s) + 1
  BY <1>2, SeqDomain
<1> QED  BY <1>1, <1>2, <1>3

\* A file of some columns is a table, and stays one when a row is added.
LEMMA FitsIsTable ==
    ASSUME NEW s \in Seq(Line), NEW columns, Fits(s, columns)
    PROVE  IsTable(s) /\ (Headed(s) => IsWhole(s))
  BY DEF IsTable, IsWhole, Fits, Headed

LEMMA TornIsTable ==
    ASSUME NEW s \in Seq(Line), OnlyTorn(s)
    PROVE  IsTable(s) /\ (s = <<>> => IsWhole(s))
<1>1. s = <<>> => DOMAIN s = {}
  BY SeqDomain
<1> QED  BY <1>1 DEF IsTable, IsWhole, OnlyTorn

LEMMA AppendRowFits ==
    ASSUME NEW s \in Seq(Line), NEW columns \in Columns, NEW n \in Nat, NEW c \in Cpus,
           Fits(s, columns)
    PROVE  LET t == Append(s, Row(n, c, columns))
           IN  Fits(t, columns) /\ (Headed(s) => Headed(t))
<1> SUFFICES ASSUME NEW row, row = Row(n, c, columns)
             PROVE  LET t == Append(s, row)
                    IN  Fits(t, columns) /\ (Headed(s) => Headed(t))
  OBVIOUS
<1> DEFINE t == Append(s, row)
<1>1. row \in Line /\ row.kind = "row" /\ row.columns = columns
  BY LineKinds
<1>2. /\ t \in Seq(Line) /\ DOMAIN t = DOMAIN s \union {Len(s) + 1} /\ t # <<>>
      /\ \A i \in DOMAIN s : t[i] = s[i]
      /\ t[Len(s) + 1] = row
  BY <1>1, AppendIndices
<1> HIDE DEF t
<1>3. Fits(t, columns)
  BY <1>1, <1>2 DEF Fits
<1>4. ASSUME Headed(s) PROVE Headed(t)
  <2>1. 1 \in DOMAIN s
    BY <1>4, SeqDomain DEF Headed
  <2> QED  BY <1>1, <1>2, <1>4, <2>1 DEF Headed
<1> QED  BY <1>3, <1>4 DEF t

LEMMA HeaderFits ==
    ASSUME NEW columns \in Columns
    PROVE  LET t == Append(<<>>, Header(columns))
           IN  Fits(t, columns) /\ Headed(t)
<1> DEFINE t == Append(<<>>, Header(columns))
<1>1. /\ DOMAIN t = DOMAIN <<>> \union {Len(<<>>) + 1}
      /\ t[Len(<<>>) + 1] = Header(columns) /\ t # <<>>
  BY LineKinds, AppendIndices, EmptySeq
<1>2. DOMAIN t = {1} /\ t[1] = Header(columns)
  BY <1>1
<1>3. t[1].columns = columns
  BY <1>2 DEF Header
<1> QED  BY <1>1, <1>2, <1>3, LineKinds DEF Fits, Headed

\* What a kill or a failing write leaves: the first lines, and perhaps a torn one.
IsCut(s, t) ==
    /\ t \in Seq(Line)
    /\ Len(t) <= Len(s)
    /\ \A i \in DOMAIN t : t[i] = s[i] \/ (i = Len(t) /\ t[i] = Torn)

LEMMA CutKeeps ==
    ASSUME NEW s \in Seq(Line), NEW t, IsCut(s, t)
    PROVE  /\ \A columns : Fits(s, columns) => Fits(t, columns)
           /\ Headed(s) => IsWhole(t)
           /\ OnlyTorn(s) => OnlyTorn(t)
           /\ s = <<>> => t = <<>>
           /\ InOrder(s) => InOrder(t)
           /\ \A n \in Nat : Upto(s, n) => Upto(t, n)
           /\ (\A i \in DOMAIN s : ~IsRow(s[i])) => \A i \in DOMAIN t : ~IsRow(t[i])
<1>1. /\ DOMAIN s = 1 .. Len(s) /\ Len(s) \in Nat
      /\ DOMAIN t = 1 .. Len(t) /\ Len(t) \in Nat /\ Len(t) <= Len(s)
      /\ \A i \in DOMAIN t : t[i] = s[i] \/ (i = Len(t) /\ t[i] = Torn)
  BY SeqDomain DEF IsCut
<1>2. DOMAIN t \subseteq DOMAIN s /\ \A i \in DOMAIN t : 1 \in DOMAIN t /\ i >= 1 /\ i <= Len(t)
  BY <1>1
<1>3. \A i \in DOMAIN t : t[i].kind # "torn" => t[i] = s[i]
  BY <1>1, LineKinds
<1>4. \A columns : Fits(s, columns) => Fits(t, columns)
  BY <1>2, <1>3 DEF Fits
<1>5. ASSUME Headed(s) PROVE IsWhole(t)
  <2> SUFFICES ASSUME NEW i \in DOMAIN t
               PROVE  /\ t[i].kind = "row" => t[1].kind = "header"
                      /\ t[i].kind = "torn" => i = Len(t)
    BY DEF IsWhole
  <2>1. t[1] = s[1] \/ (1 = Len(t) /\ t[1] = Torn)
    BY <1>1, <1>2
  <2>2. CASE t[1] = s[1]
    BY <2>2, <1>1, <1>2, <1>5 DEF Headed
  <2>3. CASE 1 = Len(t) /\ t[1] = Torn
    <3>1. i = 1
      BY <2>3, <1>1
    <3> QED  BY <2>3, <3>1, LineKinds
  <2> QED  BY <2>1, <2>2, <2>3
<1>6. OnlyTorn(s) => OnlyTorn(t)
  BY <1>2, <1>3 DEF OnlyTorn
<1>7. s = <<>> => t = <<>>
  BY <1>1, SeqDomain DEF IsCut
<1>8. \A i \in DOMAIN t : IsRow(t[i]) => i \in DOMAIN s /\ t[i] = s[i]
  BY <1>2, <1>3 DEF IsRow
<1>9. InOrder(s) => InOrder(t)
  BY <1>8 DEF InOrder
<1>10. ASSUME NEW n \in Nat, Upto(s, n) PROVE Upto(t, n)
  BY <1>8, <1>10 DEF Upto
<1>11. (\A i \in DOMAIN s : ~IsRow(s[i])) => \A i \in DOMAIN t : ~IsRow(t[i])
  BY <1>8
<1> QED  BY <1>4, <1>5, <1>6, <1>7, <1>9, <1>10, <1>11

\* The next row of a report goes after all others.
LEMMA AppendRowInOrder ==
    ASSUME NEW s \in Seq(Line), NEW columns \in Columns, NEW n \in Nat, NEW left \in SUBSET Cpus,
           NEW c \in left, InOrder(s), Upto(s, n),
           \A i \in DOMAIN s : IsRow(s[i]) /\ s[i].report = n => s[i].cpu \notin left
    PROVE  LET t == Append(s, Row(n, c, columns))
           IN  /\ InOrder(t) /\ Upto(t, n)
               /\ \A i \in DOMAIN t : IsRow(t[i]) /\ t[i].report = n => t[i].cpu \notin left \ {c}
               /\ HasRow(t, n, c)
<1> SUFFICES ASSUME NEW row, row = Row(n, c, columns)
             PROVE  LET t == Append(s, row)
                    IN  /\ InOrder(t) /\ Upto(t, n)
                        /\ \A i \in DOMAIN t :
                              IsRow(t[i]) /\ t[i].report = n => t[i].cpu \notin left \ {c}
                        /\ HasRow(t, n, c)
  OBVIOUS
<1> DEFINE t == Append(s, row)
<1>1. row \in Line /\ IsRow(row) /\ row.report = n /\ row.cpu = c
  BY LineKinds DEF IsRow
<1>2. /\ DOMAIN t = DOMAIN s \union {Len(s) + 1} /\ Len(s) \in Nat
      /\ \A i \in DOMAIN s : t[i] = s[i] /\ i \in Nat /\ i <= Len(s)
      /\ t[Len(s) + 1] = row
  BY <1>1, AppendIndices
<1> HIDE DEF t
<1>3. \A i \in DOMAIN s : IsRow(s[i]) => s[i].report <= n /\ s[i].report \in Nat
  <2>1. \A line \in Line : line.kind = "row" => line.report \in Nat
    BY DEF Line, Torn
  <2> QED  BY <2>1, SeqDomain DEF Upto, IsRow
<1>4. InOrder(t)
  <2> SUFFICES ASSUME NEW i \in DOMAIN t, NEW j \in DOMAIN t, i < j, IsRow(t[i]), IsRow(t[j])
               PROVE  \/ t[i].report < t[j].report
                      \/ t[i].report = t[j].report /\ t[i].cpu # t[j].cpu
    BY DEF InOrder
  <2>1. i \in DOMAIN s
    BY <1>2
  <2>2. CASE j \in DOMAIN s
    BY <2>1, <2>2, <1>2 DEF InOrder
  <2>3. CASE j = Len(s) + 1
    <3>1. t[i] = s[i] /\ s[i].report <= n /\ s[i].report \in Nat /\ IsRow(s[i])
      BY <2>1, <1>2, <1>3
    <3>2. t[j].report = n /\ t[j].cpu = c
      BY <2>3, <1>1, <1>2
    <3>3. s[i].report = n => s[i].cpu # c
      BY <2>1, <3>1
    <3> QED  BY <3>1, <3>2, <3>3
  <2> QED  BY <2>2, <2>3, <1>2
<1>5. Upto(t, n)
  BY <1>1, <1>2, <1>3 DEF Upto
<1>6. ASSUME NEW i \in DOMAIN t, IsRow(t[i]), t[i].report = n
      PROVE  t[i].cpu \notin left \ {c}
  BY <1>1, <1>2, <1>6
<1>7. HasRow(t, n, c)
  BY <1>1, <1>2 DEF HasRow
<1> QED  BY <1>4, <1>5, <1>6, <1>7 DEF t

LEMMA AppendKeepsRows ==
    ASSUME NEW s \in Seq(Line), NEW line \in Line, NEW n, NEW c, HasRow(s, n, c)
    PROVE  HasRow(Append(s, line), n, c)
  BY AppendIndices DEF HasRow

\* A header alone has no row.
LEMMA HeaderInOrder ==
    ASSUME NEW columns \in Columns
    PROVE  LET t == Append(<<>>, Header(columns))
           IN  InOrder(t) /\ \A i \in DOMAIN t : ~IsRow(t[i])
<1> DEFINE t == Append(<<>>, Header(columns))
<1>1. DOMAIN t = DOMAIN <<>> \union {Len(<<>>) + 1} /\ t[Len(<<>>) + 1] = Header(columns)
  BY LineKinds, AppendIndices, EmptySeq
<1>2. \A i \in DOMAIN t : ~IsRow(t[i])
  BY <1>1, LineKinds DEF IsRow
<1> QED  BY <1>2 DEF InOrder

LEMMA Concatenated ==
    ASSUME NEW f \in Seq(Line), NEW p \in Seq(Line)
    PROVE  /\ f \o p \in Seq(Line)
           /\ f \o <<>> = f
           /\ \A line \in Line : f \o Append(p, line) = Append(f \o p, line)
           /\ IsPrefix(f, f \o p)
<1>1. f \o p \in Seq(Line) /\ f \o <<>> = f
  BY ConcatProperties, ConcatEmptySeq
<1>2. ASSUME NEW line \in Line PROVE f \o Append(p, line) = Append(f \o p, line)
  <2>1. <<line>> \in Seq(Line)
    OBVIOUS
  <2>2. Append(p, line) = p \o <<line>> /\ Append(f \o p, line) = (f \o p) \o <<line>>
    BY <1>1, AppendIsConcat
  <2> QED  BY <2>1, <2>2, ConcatAssociative
<1>3. IsPrefix(f, f \o p)
  <2>1. /\ Len(f) \in Nat /\ Len(p) \in Nat /\ Len(f \o p) = Len(f) + Len(p)
        /\ \A i \in 1 .. Len(f) : (f \o p)[i] = f[i]
        /\ \A i \in 1 .. Len(f) : f[i] \in Line
    BY ConcatProperties, SeqDomain
  <2>2. /\ SubSeq(f, 1, Len(f)) \in Seq(Line) /\ SubSeq(f \o p, 1, Len(f)) \in Seq(Line)
        /\ Len(SubSeq(f, 1, Len(f))) = Len(f) /\ Len(SubSeq(f \o p, 1, Len(f))) = Len(f)
        /\ \A i \in 1 .. Len(f) : SubSeq(f, 1, Len(f))[i] = SubSeq(f \o p, 1, Len(f))[i]
    <3>1. \A i \in 1 .. Len(f) : (f \o p)[i] \in Line
      BY <2>1
    <3> QED  BY <2>1, <3>1, SubSeqProperties
  <2>3. SubSeq(f, 1, Len(f)) = SubSeq(f \o p, 1, Len(f))
    BY <2>2, SeqEqual
  <2> QED  BY <2>1, <2>3 DEF IsPrefix
<1> QED  BY <1>1, <1>2, <1>3

\* stdio has written some of the lines it held.
LEMMA SurvivorIsCut ==
    ASSUME NEW f \in Seq(Line), NEW p \in Seq(Line), NEW w \in Survivors(p)
    PROVE  /\ w \in Seq(Line) /\ IsCut(f \o p, f \o w)
           /\ w # p => Len(f \o w) < Len(f \o p) \/ (f \o w)[Len(f \o w)] = Torn
<1>1. ASSUME NEW q \in Prefixes(p)
      PROVE  /\ q \in Seq(Line) /\ Len(q) \in Nat /\ Len(q) <= Len(p)
             /\ \A i \in 1 .. Len(q) : q[i] = p[i]
             /\ q # p => Len(q) < Len(p)
  <2>1. PICK l \in 0 .. Len(p) : q = SubSeq(p, 1, l)
    BY DEF Prefixes
  <2>2. Len(p) \in Nat /\ \A i \in 1 .. l : p[i] \in Line
    BY SeqDomain
  <2>3. /\ q \in Seq(Line) /\ Len(q) = l
        /\ \A i \in 1 .. l : q[i] = p[i]
    BY <2>1, <2>2, SubSeqProperties
  <2>4. q # p => l # Len(p)
    BY <2>1, SubSeqFull
  <2> QED  BY <2>2, <2>3, <2>4
<1>2. /\ w \in Seq(Line) /\ Len(w) \in Nat /\ Len(w) <= Len(p)
      /\ \A i \in 1 .. Len(w) : w[i] = p[i] \/ (i = Len(w) /\ w[i] = Torn)
      /\ w # p => Len(w) < Len(p) \/ (Len(w) > 0 /\ w[Len(w)] = Torn)
  <2>1. CASE w \in Prefixes(p)
    BY <2>1, <1>1
  <2>2. ASSUME NEW q \in Prefixes(p), q # p, w = Append(q, Torn)
        PROVE  <1>2
    <3>1. /\ w \in Seq(Line) /\ Len(w) = Len(q) + 1 /\ Len(q) < Len(p) /\ Len(q) \in Nat
          /\ \A i \in 1 .. Len(q) : w[i] = q[i] /\ q[i] = p[i]
          /\ w[Len(q) + 1] = Torn
      BY <2>2, <1>1, LineKinds, AppendProperties
    <3>2. Len(p) \in Nat
      BY SeqDomain
    <3> QED  BY <3>1, <3>2
  <2> QED  BY <2>1, <2>2 DEF Survivors
<1>3. /\ f \o w \in Seq(Line) /\ Len(f) \in Nat /\ Len(p) \in Nat
      /\ Len(f \o w) = Len(f) + Len(w) /\ Len(f \o p) = Len(f) + Len(p)
      /\ DOMAIN (f \o w) = 1 .. Len(f) + Len(w)
      /\ \A i \in 1 .. Len(f) + Len(w) : (f \o w)[i] = IF i <= Len(f) THEN f[i] ELSE w[i - Len(f)]
      /\ \A i \in 1 .. Len(f) + Len(p) : (f \o p)[i] = IF i <= Len(f) THEN f[i] ELSE p[i - Len(f)]
  BY <1>2, ConcatProperties, SeqDomain
<1>4. ASSUME NEW i \in DOMAIN (f \o w)
      PROVE  (f \o w)[i] = (f \o p)[i] \/ (i = Len(f \o w) /\ (f \o w)[i] = Torn)
  <2>1. CASE i <= Len(f)
    BY <2>1, <1>2, <1>3
  <2>2. CASE ~(i <= Len(f))
    <3>1. i \in 1 .. Len(f) + Len(w) /\ Len(w) \in Nat /\ Len(w) <= Len(p)
          /\ Len(f) \in Nat /\ Len(p) \in Nat
      BY <1>2, <1>3
    <3>2. /\ i - Len(f) \in 1 .. Len(w) /\ i \in 1 .. Len(f) + Len(p)
          /\ i - Len(f) = Len(w) => i = Len(f) + Len(w)
      BY <2>2, <3>1
    <3> QED  BY <2>2, <3>2, <1>2, <1>3
  <2> QED  BY <2>1, <2>2
<1>5. ASSUME w # p
      PROVE  Len(f \o w) < Len(f \o p) \/ (f \o w)[Len(f \o w)] = Torn
  <2>1. CASE Len(w) < Len(p)
    BY <2>1, <1>2, <1>3
  <2>2. CASE Len(w) > 0 /\ w[Len(w)] = Torn
    <3>1. /\ Len(f) + Len(w) \in 1 .. Len(f) + Len(w) /\ ~(Len(f) + Len(w) <= Len(f))
          /\ Len(f) + Len(w) - Len(f) = Len(w)
      BY <2>2, <1>2, <1>3
    <3> QED  BY <2>2, <3>1, <1>3
  <2> QED  BY <2>1, <2>2, <1>2, <1>5
<1> QED  BY <1>2, <1>3, <1>4, <1>5 DEF IsCut

-----------------------------------------------------------------------------
\* Steps.

LEMMA LinesType == Types => \A g \in Groups : Lines(g) \in Seq(Line)
  BY Concatenated DEF Types, Lines

\* The groups of a report are groups.
LEMMA CalledGroups ==
    ASSUME Types, Calling, Written
    PROVE  /\ todo \subseteq Groups /\ group \subseteq Groups /\ groups_fd \subseteq Groups
           /\ pc \in {"group", "cpu"} \/ result = "ok" => DOMAIN shape \subseteq Groups
  BY ReportsAssumption DEF Types, TypeOK, Calling, Written

LEMMA IInvInit == Init => IInv
<1> SUFFICES ASSUME Init PROVE IInv
  OBVIOUS
<1>1. <<>> \in Seq(Line) /\ \A g \in Groups : Lines(g) = <<>>
  BY EmptySeq, Concatenated DEF Init, Lines
<1>2. Cardinality({}) = 0
  BY FS_EmptySet
<1>3. Types
  <2>1. reports \in 0 .. MaxReports
    BY CsvBoundsAssumption DEF Init
  <2>2. \A g \in Groups : groups_events[g] = {} /\ Cardinality(groups_events[g]) <= 1
    BY <1>2 DEF Init
  <2> QED  BY <1>1, <2>1, <2>2 DEF Init, Types, TypeOK
<1>4. Calling
  BY DEF Init, Calling
<1>5. Streams
  BY DEF Init, Streams, Closed
<1>6. Tables
  BY <1>1, SeqDomain DEF Tables, IsTable, IsWhole
<1>7. Ordered
  BY <1>1, SeqDomain DEF Init, Ordered, InOrder, Upto
<1>8. Written
  BY DEF Init, Written
<1> QED  BY <1>3, <1>4, <1>5, <1>6, <1>7, <1>8 DEF IInv

\* Steps that write no line.
Quiet == \A g \in Groups : Lines(g)' = Lines(g)

LEMMA FilesAlone == UNCHANGED <<file, pending>> => Quiet
  BY DEF Quiet, Lines

LEMMA QuietKeepsTables == Tables /\ Quiet /\ UNCHANGED cut => Tables'
  BY DEF Tables, Quiet

LEMMA EndsKeepIInv ==
    ASSUME IInv,
           \/ Start \/ InitializeFails \/ GroupDone \/ ReportDone \/ UNCHANGED vars
           \/ \E g \in Groups : OpenFails(g)
           \/ /\ \E g \in Groups, c \in Cpus : HeaderFails(g, c) \/ ValueFails(g, c)
              /\ UNCHANGED <<file, pending, cut>>
    PROVE  IInv'
<1> USE DEF IInv
<1>1. Quiet /\ Tables'
  BY FilesAlone, QuietKeepsTables
  DEF Start, InitializeFails, GroupDone, ReportDone, vars, OpenFails, HeaderFails, ValueFails,
      diskVars, ctxVars, Return, callVars
<1>2. CASE Start
  <2> USE <1>2 DEF Start, diskVars, ctxVars
  <2>1. Types'      BY DEF Types, TypeOK
  <2>2. Calling'    BY DEF Calling
  <2>3. Streams'    BY <1>1 DEF Streams, Open, Closed, Quiet, Types, TypeOK
  <2>4. Ordered'    BY <1>1, CalledGroups DEF Ordered, Quiet
  <2>5. Written'    BY <1>1, CalledGroups DEF Written, Quiet
  <2> QED  BY <1>1, <2>1, <2>2, <2>3, <2>4, <2>5
<1>3. CASE InitializeFails
  <2> USE <1>3 DEF InitializeFails, diskVars, ctxVars
  <2>1. Types'      BY DEF Types, TypeOK
  <2>2. Calling'    BY DEF Calling
  <2>3. Streams'    BY <1>1 DEF Streams, Open, Closed, Quiet, Types, TypeOK
  <2>4. Ordered'    BY <1>1, CalledGroups DEF Ordered, Quiet
  <2>5. Written'    BY <1>1, CalledGroups DEF Written, Quiet
  <2> QED  BY <1>1, <2>1, <2>2, <2>3, <2>4, <2>5
<1>4. CASE GroupDone
  <2> USE <1>4 DEF GroupDone, diskVars, ctxVars
  <2>1. Types'      BY DEF Types, TypeOK
  <2>2. Calling'    BY DEF Calling
  <2>3. Streams'    BY <1>1 DEF Streams, Open, Closed, Quiet, Types, TypeOK
  <2>4. Ordered'    BY <1>1, CalledGroups DEF Ordered, Quiet
  <2>5. Written'    BY <1>1, CalledGroups DEF Written, Quiet, Calling
  <2> QED  BY <1>1, <2>1, <2>2, <2>3, <2>4, <2>5
<1>5. CASE ReportDone
  <2> USE <1>5 DEF ReportDone, Return, diskVars, ctxVars
  <2>1. Types'      BY DEF Types, TypeOK
  <2>2. Calling'    BY DEF Calling
  <2>3. Streams'    BY <1>1 DEF Streams, Open, Closed, Quiet, Types, TypeOK
  <2>4. Ordered'    BY <1>1, CalledGroups DEF Ordered, Quiet
  <2>5. Written'    BY <1>1, CalledGroups DEF Written, Quiet, Calling
  <2> QED  BY <1>1, <2>1, <2>2, <2>3, <2>4, <2>5
<1>6. ASSUME NEW g \in Groups, OpenFails(g)
      PROVE  IInv'
  <2> USE <1>6 DEF OpenFails, Return, ctxVars
  <2>1. Types'      BY DEF Types, TypeOK
  <2>2. Calling'    BY DEF Calling
  <2>3. Streams'    BY <1>1 DEF Streams, Open, Closed, Quiet, Types, TypeOK
  <2>4. Ordered'    BY <1>1, CalledGroups DEF Ordered, Quiet
  <2>5. Written'    BY <1>1, CalledGroups DEF Written, Quiet
  <2> QED  BY <1>1, <2>1, <2>2, <2>3, <2>4, <2>5
<1>7. ASSUME NEW g \in Groups, NEW c \in Cpus, HeaderFails(g, c) \/ ValueFails(g, c),
             UNCHANGED <<file, pending, cut>>
      PROVE  IInv'
  <2> USE <1>7 DEF HeaderFails, ValueFails, Return, diskVars, ctxVars
  <2>1. Types'      BY DEF Types, TypeOK
  <2>2. Calling'    BY DEF Calling
  <2>3. Streams'    BY <1>1 DEF Streams, Open, Closed, Quiet, Types, TypeOK
  <2>4. Ordered'    BY <1>1, CalledGroups DEF Ordered, Quiet
  <2>5. Written'    BY <1>1, CalledGroups DEF Written, Quiet
  <2> QED  BY <1>1, <2>1, <2>2, <2>3, <2>4, <2>5
<1>8. CASE UNCHANGED vars
  <2> USE <1>8 DEF vars, diskVars, ctxVars, callVars
  <2>1. Types'      BY DEF Types, TypeOK
  <2>2. Calling'    BY <1>1 DEF Calling, Quiet, Types, TypeOK
  <2>3. Streams'    BY <1>1 DEF Streams, Open, Closed, Quiet, Types, TypeOK
  <2>4. Ordered'    BY <1>1, CalledGroups DEF Ordered, Quiet
  <2>5. Written'    BY <1>1, CalledGroups DEF Written, Quiet
  <2> QED  BY <1>1, <2>1, <2>2, <2>3, <2>4, <2>5
<1> QED  BY <1>2, <1>3, <1>4, <1>5, <1>6, <1>7, <1>8

LEMMA ReportKeepsIInv ==
    ASSUME IInv, NEW s \in Reports, StoreReport(s)
    PROVE  IInv'
<1> USE DEF IInv, StoreReport, diskVars, ctxVars
<1>1. Quiet /\ Tables'
  BY FilesAlone, QuietKeepsTables
<1>2. reports \in Nat /\ reports' = reports + 1 /\ DOMAIN s \subseteq Groups
  BY ReportsAssumption, CsvBoundsAssumption DEF Types, TypeOK
<1>3. reports' \in 0 .. MaxReports
  BY <1>2, CsvBoundsAssumption DEF Types, TypeOK
<1>4. Types'      BY <1>2, <1>3 DEF Types, TypeOK
<1>5. Calling'    BY DEF Calling
<1>6. Streams'    BY <1>1 DEF Streams, Open, Closed, Quiet
<1>7. \A g \in Groups : Upto(Lines(g), reports) => Before(Lines(g), reports + 1)
                                               /\ Upto(Lines(g), reports + 1)
  <2>1. \A line \in Line : IsRow(line) => line.report \in Nat
    BY DEF Line, IsRow, Torn
  <2> QED  BY <1>2, <2>1, LinesType, SeqDomain DEF Upto, Before
<1>8. Ordered'    BY <1>1, <1>2, <1>7 DEF Ordered, Quiet
<1>9. Written'    BY DEF Written
<1> QED  BY <1>1, <1>5, <1>6, <1>8, <1>9, <1>4

LEMMA GroupKeepsIInv ==
    ASSUME IInv, NEW g \in Groups, KnownGroup(g) \/ OpenGroupOutfile(g)
    PROVE  IInv'
<1> USE DEF IInv, StartGroup, diskVars, ctxVars
<1>1. Quiet /\ Tables' /\ pc = "group" /\ g \in todo /\ reports' = reports /\ shape' = shape
      /\ group' = {g} /\ todo' = todo \ {g} /\ cpus' = Cpus /\ pc' = "cpu" /\ result' = result
  BY FilesAlone, QuietKeepsTables DEF KnownGroup, OpenGroupOutfile
<1>2. Types'
  BY DEF KnownGroup, OpenGroupOutfile, Types, TypeOK
<1>3. Calling'
  <2>1. CASE KnownGroup(g)
    BY <1>1, <2>1 DEF KnownGroup, Calling
  <2>2. CASE OpenGroupOutfile(g)
    <3>1. Closed(g) /\ file[g] = <<>> /\ g \in groups_fd' /\ groups_events' = groups_events
      BY <2>2 DEF OpenGroupOutfile, Streams, Closed
    <3>2. Lines(g)' = <<>>
      BY <1>1, <3>1, EmptySeq, Concatenated DEF Closed, Lines, Quiet
    <3> QED  BY <1>1, <2>2, <3>1, <3>2, CpusAssumption DEF OpenGroupOutfile, Calling, Closed
  <2> QED  BY <2>1, <2>2
<1>4. Streams'
  <2>1. CASE KnownGroup(g)
    BY <1>1, <2>1 DEF KnownGroup, Streams, Open, Closed, Quiet
  <2>2. CASE OpenGroupOutfile(g)
    <3>1. Closed(g) /\ file[g] = <<>>
      BY <2>2 DEF OpenGroupOutfile, Streams, Closed
    <3>2. Lines(g) = <<>>
      BY <3>1, EmptySeq, Concatenated DEF Closed, Lines
    <3>3. Open(g)'
      <4>1. OnlyTorn(<<>>)
        BY EmptySeq, SeqDomain DEF OnlyTorn
      <4> QED  BY <1>1, <2>2, <3>1, <3>2, <4>1 DEF OpenGroupOutfile, Open, Closed, Quiet
    <3> QED  BY <1>1, <2>2, <3>3 DEF OpenGroupOutfile, Streams, Open, Closed, Quiet
  <2> QED  BY <2>1, <2>2
<1>5. Ordered'
  <2>1. \A i \in DOMAIN Lines(g) : IsRow(Lines(g)[i]) => Lines(g)[i].report # reports
    <3>1. \A line \in Line : IsRow(line) => line.report \in Nat
      BY DEF Line, IsRow, Torn
    <3>2. reports \in Nat /\ Before(Lines(g), reports)
      BY <1>1, CsvBoundsAssumption DEF Types, TypeOK, Ordered
    <3> QED  BY <3>1, <3>2, LinesType, SeqDomain DEF Before
  <2> QED  BY <1>1, <2>1, CalledGroups DEF Ordered, Quiet
<1>6. Written'
  BY <1>1, CalledGroups DEF Written, Quiet
<1> QED  BY <1>1, <1>2, <1>3, <1>4, <1>5, <1>6

\* The end of the process leaves the first lines of each file, and of the files
\* that are not open everything.
LEMMA LeaveCuts ==
    ASSUME Types, Streams, NEW written \in Endings, Leave(written)
    PROVE  /\ file' \in [Groups -> Seq(Line)]
           /\ \A g \in Groups : IsCut(Lines(g), Lines(g)') /\ IsPrefix(file[g], file'[g])
           /\ \A g \in Groups \ groups_fd :
                 Lines(g)' = Lines(g) /\ file'[g] = file[g] /\ written[g] = pending[g]
<1>1. /\ \A g \in Groups : written[g] \in Survivors(pending[g])
      /\ file' = [g \in Groups |-> file[g] \o written[g]]
  BY DEF Leave
<1>2. pending' = [g \in Groups |-> <<>>] /\ groups_fd' = {}
  BY DEF Leave, DropContext
<1>3. ASSUME NEW g \in Groups
      PROVE  /\ written[g] \in Seq(Line) /\ file'[g] \in Seq(Line)
             /\ Lines(g)' = file'[g]
             /\ IsCut(Lines(g), Lines(g)') /\ IsPrefix(file[g], file'[g])
  <2>1. file[g] \in Seq(Line) /\ pending[g] \in Seq(Line)
    BY DEF Types
  <2>2. written[g] \in Seq(Line) /\ IsCut(file[g] \o pending[g], file[g] \o written[g])
    BY <1>1, <2>1, SurvivorIsCut
  <2>3. file'[g] = file[g] \o written[g] /\ file'[g] \in Seq(Line) /\ IsPrefix(file[g], file'[g])
    BY <1>1, <2>1, <2>2, Concatenated
  <2>4. Lines(g)' = file'[g]
    BY <1>2, <2>3, Concatenated DEF Lines
  <2> QED  BY <2>2, <2>3, <2>4 DEF Lines
<1>4. ASSUME NEW g \in Groups \ groups_fd
      PROVE  Lines(g)' = Lines(g) /\ file'[g] = file[g] /\ written[g] = pending[g]
  <2>1. pending[g] = <<>> /\ file[g] \in Seq(Line)
    BY DEF Types, Streams, Closed
  <2>2. written[g] = <<>>
    <3>1. Prefixes(<<>>) = {<<>>}
      <4>1. \A l \in 0 .. Len(<<>>) : SubSeq(<<>>, 1, l) = <<>>
        BY EmptySeq, SubSeqEmpty
      <4>2. 0 \in 0 .. Len(<<>>)
        BY EmptySeq
      <4> QED  BY <4>1, <4>2 DEF Prefixes
    <3>2. Survivors(<<>>) = {<<>>}
      BY <3>1 DEF Survivors
    <3> QED  BY <1>1, <2>1, <3>2
  <2>3. file[g] \o <<>> = file[g] /\ file'[g] = file[g] \o <<>>
    BY <1>1, <2>1, <2>2, EmptySeq, Concatenated
  <2>4. Lines(g) = file[g] /\ Lines(g)' = file'[g]
    BY <1>3, <2>1, <2>3 DEF Lines
  <2> QED  BY <2>1, <2>2, <2>3, <2>4
<1>5. file' \in [Groups -> Seq(Line)]
  BY <1>1, <1>3
<1> QED  BY <1>3, <1>4, <1>5

LEMMA LeaveKeepsIInv == IInv /\ (Stop \/ Crash) => IInv'
<1> SUFFICES ASSUME IInv, Stop \/ Crash PROVE IInv'
  OBVIOUS
<1> USE DEF IInv
<1>1. PICK written \in Endings :
          /\ Leave(written)
          /\ cut' = cut \/ cut' = cut \union {g \in Groups : written[g] # pending[g]}
  BY DEF Stop, Crash
<1>2. /\ pc' = "down" /\ groups_fd' = {} /\ groups_events' = [g \in Groups |-> {}]
      /\ pending' = [g \in Groups |-> <<>>] /\ result' = "none"
      /\ UNCHANGED <<exists, reports, shape, todo, group, cpus, write_header>>
  BY <1>1 DEF Leave, DropContext
<1>3. /\ file' \in [Groups -> Seq(Line)]
      /\ \A g \in Groups : IsCut(Lines(g), Lines(g)') /\ Lines(g)' \in Seq(Line)
      /\ \A g \in Groups \ groups_fd :
            Lines(g)' = Lines(g) /\ file'[g] = file[g] /\ written[g] = pending[g]
  BY <1>1, LeaveCuts DEF IsCut
<1>4. cut \subseteq cut' /\ cut' \subseteq exists
  BY <1>1, <1>3 DEF Types, TypeOK
<1>5. Types'
  <2>1. \A g \in Groups : groups_events'[g] = {} /\ Cardinality(groups_events'[g]) <= 1
    BY <1>2, FS_EmptySet
  <2> QED  BY <1>2, <1>3, <1>4, <2>1, EmptySeq DEF Types, TypeOK
<1>6. Calling'
  BY <1>2 DEF Calling
<1>7. Streams'
  BY <1>2, <1>3 DEF Streams, Closed, Types, TypeOK
<1>8. Tables'
  <2> SUFFICES ASSUME NEW g \in Groups
               PROVE  IsTable(Lines(g)') /\ (g \notin cut => IsWhole(Lines(g)'))
    BY <1>4 DEF Tables
  <2>1. CASE g \in groups_fd /\ groups_events[g] = {}
    <3>1. OnlyTorn(Lines(g)') /\ (g \notin cut => Lines(g)' = <<>>)
      BY <1>3, <2>1, LinesType, CutKeeps DEF Streams, Open
    <3> QED  BY <1>3, <3>1, TornIsTable
  <2>2. ASSUME NEW columns \in groups_events[g], g \in groups_fd
        PROVE  IsTable(Lines(g)') /\ (g \notin cut => IsWhole(Lines(g)'))
    <3>1. Fits(Lines(g)', columns) /\ (g \notin cut => IsWhole(Lines(g)'))
      BY <1>3, <2>2, LinesType, CutKeeps DEF Streams, Open
    <3> QED  BY <1>3, <3>1, FitsIsTable
  <2>3. CASE g \notin groups_fd
    BY <1>3, <2>3 DEF Tables
  <2> QED  BY <2>1, <2>2, <2>3
<1>9. Ordered'
  <2>1. reports \in Nat
    BY CsvBoundsAssumption DEF Types, TypeOK
  <2>2. \A g \in Groups : InOrder(Lines(g)') /\ Upto(Lines(g)', reports)
    BY <1>3, <2>1, LinesType, CutKeeps DEF Ordered
  <2> QED  BY <1>2, <2>2 DEF Ordered
<1>10. Written'
  BY <1>2 DEF Written
<1> QED  BY <1>5, <1>6, <1>7, <1>8, <1>9, <1>10

\* One line more in one file, in the buffer of its stream or flushed.
LEMMA OneLine ==
    ASSUME Types, NEW g \in Groups, NEW line \in Line,
           \/ /\ file' = [file EXCEPT ![g] = @ \o Append(pending[g], line)]
              /\ pending' = [pending EXCEPT ![g] = <<>>]
           \/ /\ pending' = [pending EXCEPT ![g] = Append(@, line)]
              /\ file' = file
    PROVE  /\ Lines(g)' = Append(Lines(g), line)
           /\ \A h \in Groups \ {g} : Lines(h)' = Lines(h)
           /\ file' \in [Groups -> Seq(Line)] /\ pending' \in [Groups -> Seq(Line)]
           /\ IsPrefix(file[g], file'[g]) /\ \A h \in Groups \ {g} : file'[h] = file[h]
<1>1. file \in [Groups -> Seq(Line)] /\ pending \in [Groups -> Seq(Line)]
  BY DEF Types
<1>2. /\ file[g] \in Seq(Line) /\ pending[g] \in Seq(Line) /\ Lines(g) \in Seq(Line)
      /\ Append(pending[g], line) \in Seq(Line) /\ Append(Lines(g), line) \in Seq(Line)
      /\ <<>> \in Seq(Line)
      /\ file[g] \o Append(pending[g], line) = Append(Lines(g), line)
      /\ Append(Lines(g), line) \o <<>> = Append(Lines(g), line)
      /\ file[g] \o <<>> = file[g]
  BY <1>1, LinesType, AppendProperties, EmptySeq, Concatenated DEF Lines
<1>3. \A h \in Groups \ {g} : Lines(h)' = Lines(h) /\ file'[h] = file[h]
  BY <1>1 DEF Lines
<1>4. IsPrefix(file[g], file[g]) /\ IsPrefix(file[g], Append(Lines(g), line))
  <2>1. IsPrefix(file[g], file[g] \o <<>>) /\ IsPrefix(file[g], file[g] \o Append(pending[g], line))
    BY <1>2, Concatenated
  <2> QED  BY <1>2, <2>1
<1>5. CASE /\ file' = [file EXCEPT ![g] = @ \o Append(pending[g], line)]
           /\ pending' = [pending EXCEPT ![g] = <<>>]
  <2>1. file'[g] = Append(Lines(g), line) /\ pending'[g] = <<>>
    BY <1>1, <1>2, <1>5
  <2>2. Lines(g)' = Append(Lines(g), line)
    BY <1>2, <2>1 DEF Lines
  <2> QED  BY <1>1, <1>2, <1>3, <1>4, <1>5, <2>1, <2>2
<1>6. CASE /\ pending' = [pending EXCEPT ![g] = Append(@, line)]
           /\ file' = file
  <2>1. file'[g] = file[g] /\ pending'[g] = Append(pending[g], line)
    BY <1>1, <1>6
  <2>2. Lines(g)' = Append(Lines(g), line)
    BY <1>2, <2>1 DEF Lines
  <2> QED  BY <1>1, <1>2, <1>3, <1>4, <1>6, <2>1, <2>2
<1> QED  BY <1>5, <1>6

\* A failing write of the buffer and one line more.
LEMMA WriteFailsCuts ==
    ASSUME Types, NEW g \in Groups, NEW line \in Line,
           WriteFails(g, Append(pending[g], line))
    PROVE  /\ IsCut(Append(Lines(g), line), Lines(g)') /\ Lines(g)' \in Seq(Line)
           /\ \/ Len(Lines(g)') < Len(Append(Lines(g), line))
              \/ Lines(g)'[Len(Lines(g)')] = Torn
           /\ \A h \in Groups \ {g} :
                 Lines(h)' = Lines(h) /\ file'[h] = file[h] /\ pending'[h] = pending[h]
           /\ file' \in [Groups -> Seq(Line)] /\ pending' \in [Groups -> Seq(Line)]
           /\ IsPrefix(file[g], file'[g])
           /\ cut' = cut \union {g}
<1>1. file \in [Groups -> Seq(Line)] /\ pending \in [Groups -> Seq(Line)] /\ <<>> \in Seq(Line)
  BY EmptySeq DEF Types
<1> DEFINE p == Append(pending[g], line)
<1>2. PICK w \in Survivors(p) : w # p /\ file' = [file EXCEPT ![g] = @ \o w]
  BY DEF WriteFails
<1>3. /\ pending' = [pending EXCEPT ![g] = <<>>] /\ cut' = cut \union {g}
  BY DEF WriteFails
<1>4. /\ file[g] \in Seq(Line) /\ p \in Seq(Line)
      /\ file[g] \o p = Append(Lines(g), line)
  BY <1>1, AppendProperties, Concatenated DEF Lines
<1>5. /\ w \in Seq(Line) /\ IsCut(file[g] \o p, file[g] \o w)
      /\ Len(file[g] \o w) < Len(file[g] \o p) \/ (file[g] \o w)[Len(file[g] \o w)] = Torn
  BY <1>2, <1>4, SurvivorIsCut
<1> HIDE DEF p
<1>6. /\ file[g] \o w \in Seq(Line) /\ (file[g] \o w) \o <<>> = file[g] \o w
      /\ IsPrefix(file[g], file[g] \o w)
  BY <1>1, <1>4, <1>5, Concatenated
<1>7. file'[g] = file[g] \o w /\ pending'[g] = <<>>
  BY <1>1, <1>2, <1>3
<1>8. Lines(g)' = file[g] \o w
  BY <1>6, <1>7 DEF Lines
<1>9. \A h \in Groups \ {g} :
          Lines(h)' = Lines(h) /\ file'[h] = file[h] /\ pending'[h] = pending[h]
  BY <1>1, <1>2, <1>3 DEF Lines
<1> QED  BY <1>1, <1>2, <1>3, <1>4, <1>5, <1>6, <1>7, <1>8, <1>9

\* fprintf of a header or of a row fails.
LEMMA FailsKeepIInv ==
    ASSUME IInv, NEW g \in Groups, NEW c \in Cpus,
           \/ HeaderFails(g, c) /\ WriteFails(g, Append(pending[g], Header(shape[g][c])))
           \/ /\ ValueFails(g, c)
              /\ \E columns \in groups_events[g] :
                    WriteFails(g, Append(pending[g], Row(reports, c, columns)))
    PROVE  IInv'
<1> USE DEF IInv
<1>1. /\ pc = "cpu" /\ group = {g} /\ g \in groups_fd /\ g \in DOMAIN shape \ todo
      /\ shape \in Reports /\ reports \in Nat /\ c \in cpus /\ cpus \subseteq Cpus
      /\ write_header => groups_events[g] = {} /\ Lines(g) = <<>>
  <2>1. reports \in Nat /\ cpus \subseteq Cpus
    BY CsvBoundsAssumption DEF Types, TypeOK
  <2> QED  BY <2>1, CalledGroups DEF HeaderFails, ValueFails, Calling
<1>2. /\ pc' = "idle" /\ result' = "error"
      /\ UNCHANGED <<exists, groups_fd, groups_events, reports, shape, todo, group, cpus,
                     write_header>>
  BY DEF HeaderFails, ValueFails, Return
<1>3. /\ Lines(g) \in Seq(Line) /\ Open(g)
      /\ InOrder(Lines(g)) /\ Upto(Lines(g), reports)
  BY <1>1, LinesType DEF Streams, Ordered
<1>4. /\ Lines(g)' \in Seq(Line) /\ InOrder(Lines(g)') /\ Upto(Lines(g)', reports)
      /\ IsTable(Lines(g)')
      /\ groups_events[g] = {} => OnlyTorn(Lines(g)')
      /\ \A columns \in groups_events[g] : Fits(Lines(g)', columns)
      /\ \A h \in Groups \ {g} :
            Lines(h)' = Lines(h) /\ file'[h] = file[h] /\ pending'[h] = pending[h]
      /\ file' \in [Groups -> Seq(Line)] /\ pending' \in [Groups -> Seq(Line)]
      /\ cut' = cut \union {g}
  <2>1. ASSUME HeaderFails(g, c), WriteFails(g, Append(pending[g], Header(shape[g][c])))
        PROVE  <1>4
    <3>1. PICK columns \in Columns : columns = shape[g][c]
      BY <1>1 DEF Columns
    <3>2. Header(columns) \in Line
      BY LineKinds
    <3> DEFINE s == Append(<<>>, Header(columns))
               t == Lines(g)'
    <3>3. groups_events[g] = {} /\ Lines(g) = <<>>
      BY <1>1, <2>1 DEF HeaderFails
    <3>4. /\ IsCut(s, t) /\ t \in Seq(Line) /\ (Len(t) < Len(s) \/ t[Len(t)] = Torn)
          /\ \A h \in Groups \ {g} :
                Lines(h)' = Lines(h) /\ file'[h] = file[h] /\ pending'[h] = pending[h]
          /\ file' \in [Groups -> Seq(Line)] /\ pending' \in [Groups -> Seq(Line)]
          /\ cut' = cut \union {g}
      BY <2>1, <3>1, <3>2, <3>3, WriteFailsCuts
    <3>5. s \in Seq(Line) /\ Len(s) = 1 /\ InOrder(s) /\ \A i \in DOMAIN s : ~IsRow(s[i])
      <4>1. s \in Seq(Line) /\ Len(s) = Len(<<>>) + 1
        BY <3>2, EmptySeq, AppendIndices
      <4> QED  BY <4>1, EmptySeq, HeaderInOrder
    <3> HIDE DEF s
    <3>6. InOrder(t) /\ \A i \in DOMAIN t : ~IsRow(t[i])
      BY <3>4, <3>5, CutKeeps
    <3>7. OnlyTorn(t)
      <4>1. DOMAIN t = 1 .. Len(t) /\ Len(t) \in Nat /\ Len(t) <= 1
        BY <3>4, <3>5, SeqDomain DEF IsCut
      <4>2. \A i \in DOMAIN t : i = Len(t) /\ i = 1
        BY <4>1
      <4> QED  BY <3>4, <3>5, <4>2, LineKinds DEF OnlyTorn
    <3>8. IsTable(t) /\ Upto(t, reports)
      BY <3>4, <3>6, <3>7, TornIsTable DEF Upto
    <3> QED  BY <3>3, <3>4, <3>6, <3>7, <3>8
  <2>2. ASSUME NEW columns \in groups_events[g], ValueFails(g, c),
               WriteFails(g, Append(pending[g], Row(reports, c, columns)))
        PROVE  <1>4
    <3>1. groups_events[g] = {columns} /\ columns \in Columns
      BY DEF Types
    <3>2. Row(reports, c, columns) \in Line
      BY <1>1, <3>1, LineKinds
    <3> DEFINE s == Append(Lines(g), Row(reports, c, columns))
               t == Lines(g)'
    <3>3. /\ IsCut(s, t) /\ t \in Seq(Line)
          /\ \A h \in Groups \ {g} :
                Lines(h)' = Lines(h) /\ file'[h] = file[h] /\ pending'[h] = pending[h]
          /\ file' \in [Groups -> Seq(Line)] /\ pending' \in [Groups -> Seq(Line)]
          /\ cut' = cut \union {g}
      BY <2>2, <3>2, WriteFailsCuts
    <3>4. s \in Seq(Line) /\ Fits(s, columns)
      BY <1>1, <1>3, <3>1, <3>2, AppendRowFits, AppendIndices DEF Open
    <3>5. \A i \in DOMAIN Lines(g) :
              IsRow(Lines(g)[i]) /\ Lines(g)[i].report = reports => Lines(g)[i].cpu \notin cpus
      BY <1>1 DEF Ordered
    <3>6. InOrder(s) /\ Upto(s, reports)
      BY <1>1, <1>3, <3>1, <3>5, AppendRowInOrder
    <3> HIDE DEF s
    <3>7. Fits(t, columns) /\ InOrder(t) /\ Upto(t, reports)
      BY <1>1, <3>3, <3>4, <3>6, CutKeeps
    <3> QED  BY <3>1, <3>3, <3>7, FitsIsTable
  <2> QED  BY <2>1, <2>2
<1>5. Types'
  BY <1>1, <1>2, <1>4 DEF Types, TypeOK
<1>6. Calling'
  BY <1>2, <1>1 DEF Calling
<1>7. Streams'
  <2>1. Open(g)'
    BY <1>2, <1>4 DEF Open
  <2>2. ASSUME NEW h \in Groups \ {g}
        PROVE  (IF h \in groups_fd THEN Open(h) ELSE Closed(h))'
    BY <1>2, <1>4 DEF Streams, Open, Closed
  <2> QED  BY <1>1, <1>2, <2>1, <2>2 DEF Streams
<1>8. Tables'
  BY <1>4 DEF Tables
<1>9. Ordered'
  BY <1>2, <1>4 DEF Ordered
<1>10. Written'
  BY <1>2 DEF Written
<1> QED  BY <1>5, <1>6, <1>7, <1>8, <1>9, <1>10

LEMMA HeaderKeepsIInv ==
    ASSUME IInv, NEW g \in Groups, NEW c \in Cpus, WriteGroupHeader(g, c)
    PROVE  IInv'
<1> USE DEF IInv
<1>1. /\ pc = "cpu" /\ group = {g} /\ g \in groups_fd /\ g \in DOMAIN shape \ todo
      /\ shape \in Reports /\ todo \subseteq DOMAIN shape /\ DOMAIN shape \subseteq Groups
      /\ write_header /\ cpus # {} /\ groups_events[g] = {} /\ Lines(g) = <<>>
  BY CalledGroups DEF WriteGroupHeader, Calling
<1>2. PICK columns \in Columns : columns = shape[g][c]
  BY <1>1 DEF Columns
<1> DEFINE line == Header(columns)
<1>3. /\ groups_events' = [groups_events EXCEPT ![g] = {columns}] /\ write_header' = FALSE
      /\ UNCHANGED <<exists, groups_fd, reports, shape, todo, group, cpus, pc, result>>
      /\ \/ /\ file' = [file EXCEPT ![g] = @ \o Append(pending[g], line)]
            /\ pending' = [pending EXCEPT ![g] = <<>>]
            /\ cut' = cut
         \/ WriteFails(g, Append(pending[g], line))
  BY <1>2 DEF WriteGroupHeader
<1>4. line \in Line
  BY LineKinds
<1> DEFINE s == Append(<<>>, line)
           t == Lines(g)'
<1>5. /\ t \in Seq(Line) /\ IsCut(s, t)
      /\ (t = s /\ cut' = cut) \/ cut' = cut \union {g}
      /\ \A h \in Groups \ {g} : Lines(h)' = Lines(h)
      /\ file' \in [Groups -> Seq(Line)] /\ pending' \in [Groups -> Seq(Line)]
      /\ \A h \in Groups \ {g} : file'[h] = file[h] /\ pending'[h] = pending[h]
  <2>1. CASE /\ file' = [file EXCEPT ![g] = @ \o Append(pending[g], line)]
             /\ pending' = [pending EXCEPT ![g] = <<>>]
             /\ cut' = cut
    <3>1. t = s /\ file' \in [Groups -> Seq(Line)] /\ pending' \in [Groups -> Seq(Line)]
          /\ \A h \in Groups \ {g} : Lines(h)' = Lines(h) /\ file'[h] = file[h]
      BY <1>1, <1>4, <2>1, OneLine
    <3>2. s \in Seq(Line) /\ IsCut(s, s)
      <4>1. s \in Seq(Line)
        BY <1>4, EmptySeq, AppendIndices
      <4> QED  BY <4>1, SeqDomain DEF IsCut
    <3>3. \A h \in Groups \ {g} : pending'[h] = pending[h]
      BY <2>1 DEF Types
    <3> QED  BY <2>1, <3>1, <3>2, <3>3
  <2>2. CASE WriteFails(g, Append(pending[g], line))
    BY <1>1, <1>4, <2>2, WriteFailsCuts
  <2> QED  BY <1>3, <2>1, <2>2
<1>6. /\ Fits(t, columns) /\ (g \notin cut' => Headed(t))
      /\ InOrder(t) /\ \A i \in DOMAIN t : ~IsRow(t[i])
  <2>1. s \in Seq(Line) /\ Fits(s, columns) /\ Headed(s) /\ InOrder(s)
        /\ \A i \in DOMAIN s : ~IsRow(s[i])
    BY <1>4, EmptySeq, AppendIndices, HeaderFits, HeaderInOrder
  <2> HIDE DEF s
  <2> QED  BY <1>5, <2>1, CutKeeps
<1> HIDE DEF s
<1>7. Types'
  <2>1. groups_events'[g] = {columns} /\ \A h \in Groups \ {g} : groups_events'[h] = groups_events[h]
    BY <1>3 DEF Types
  <2>2. Cardinality({columns}) = 1
    BY FS_Singleton
  <2>3. \A h \in Groups \ {g} : Cardinality(groups_events[h]) <= 1
    BY DEF Types, TypeOK
  <2>4. \A h \in Groups : Cardinality(groups_events'[h]) <= 1
    BY <2>1, <2>2, <2>3
  <2>5. groups_events' \in [Groups -> {{}} \union {{some} : some \in Columns}]
    BY <1>3 DEF Types
  <2>6. cut' \subseteq exists
    BY <1>1, <1>5 DEF Types, TypeOK
  <2> QED  BY <1>3, <1>5, <2>4, <2>5, <2>6 DEF Types, TypeOK
<1>8. Calling'
  BY <1>1, <1>3 DEF Calling
<1>9. Streams'
  <2>1. groups_events'[g] = {columns} /\ \A h \in Groups \ {g} : groups_events'[h] = groups_events[h]
    BY <1>3 DEF Types
  <2>2. Open(g)'
    BY <1>6, <2>1 DEF Open
  <2>3. ASSUME NEW h \in Groups \ {g}
        PROVE  (IF h \in groups_fd THEN Open(h) ELSE Closed(h))'
    BY <1>3, <1>5, <2>1 DEF Streams, Open, Closed
  <2> QED  BY <1>1, <1>3, <2>2, <2>3 DEF Streams
<1>10. Tables'
  <2>1. IsTable(t) /\ (g \notin cut' => IsWhole(t))
    BY <1>5, <1>6, FitsIsTable
  <2> QED  BY <1>5, <2>1 DEF Tables
<1>11. Ordered'
  <2>1. Upto(t, reports) /\ Before(t, reports)
    BY <1>6 DEF Upto, Before
  <2>2. \A h \in Groups : InOrder(Lines(h)') /\ Upto(Lines(h)', reports)
    BY <1>5, <1>6, <2>1 DEF Ordered
  <2>3. \A h \in todo : Before(Lines(h)', reports)
    BY <1>1, <1>5, <2>1 DEF Ordered
  <2>4. \A i \in DOMAIN Lines(g)' : ~IsRow(Lines(g)'[i])
    BY <1>5, <1>6
  <2> QED  BY <1>1, <1>3, <2>2, <2>3, <2>4 DEF Ordered
<1>12. Written'
  <2>1. \A h \in Groups, d \in Cpus : HasRow(Lines(h), reports, d) => HasRow(Lines(h)', reports, d)
    <3>1. ASSUME NEW d \in Cpus, HasRow(<<>>, reports, d) PROVE FALSE
      BY <3>1 DEF HasRow
    <3> QED  BY <1>1, <1>5, <3>1
  <2> QED  BY <1>1, <1>3, <2>1 DEF Written
<1> QED  BY <1>7, <1>8, <1>9, <1>10, <1>11, <1>12

LEMMA ValueKeepsIInv ==
    ASSUME IInv, NEW g \in Groups, NEW c \in Cpus, WriteEventsValue(g, c)
    PROVE  IInv'
<1> USE DEF IInv
<1>1. /\ pc = "cpu" /\ group = {g} /\ g \in groups_fd /\ g \in DOMAIN shape \ todo /\ c \in cpus
      /\ shape \in Reports /\ todo \subseteq DOMAIN shape /\ DOMAIN shape \subseteq Groups
      /\ ~write_header /\ reports \in Nat /\ cpus \subseteq Cpus
  <2>1. reports \in Nat /\ cpus \subseteq Cpus
    BY CsvBoundsAssumption DEF Types, TypeOK
  <2> QED  BY <2>1, CalledGroups DEF WriteEventsValue, Calling
<1>2. PICK columns \in groups_events[g] :
          pending' = [pending EXCEPT ![g] = Append(@, Row(reports, c, columns))]
  BY DEF WriteEventsValue
<1>3. /\ cpus' = cpus \ {c}
      /\ UNCHANGED <<file, exists, cut, groups_fd, groups_events, reports, shape, todo, group,
                     write_header, pc, result>>
  BY DEF WriteEventsValue, diskVars
<1>4. /\ columns \in Columns /\ Lines(g) \in Seq(Line)
      /\ Fits(Lines(g), columns) /\ (g \notin cut => Headed(Lines(g)))
  <2>1. groups_events[g] \in {{}} \union {{some} : some \in Columns}
    BY <1>1 DEF Types
  <2>2. columns \in Columns
    BY <1>2, <2>1
  <2>3. Open(g)
    BY <1>1 DEF Streams
  <2> QED  BY <1>2, <2>2, <2>3, LinesType DEF Types, Open
<1>5. Row(reports, c, columns) \in Line
  BY <1>1, <1>4, LineKinds
<1> DEFINE t == Append(Lines(g), Row(reports, c, columns))
<1>6. /\ Lines(g)' = t
      /\ \A h \in Groups \ {g} : Lines(h)' = Lines(h)
      /\ pending' \in [Groups -> Seq(Line)]
      /\ \A h \in Groups \ {g} : pending'[h] = pending[h]
  BY <1>2, <1>3, <1>5, OneLine DEF Types
<1>7. /\ Fits(t, columns) /\ (g \notin cut => Headed(t))
      /\ IsTable(t) /\ (g \notin cut => IsWhole(t))
  <2>1. t \in Seq(Line) /\ Fits(t, columns) /\ (g \notin cut => Headed(t))
    BY <1>1, <1>4, <1>5, AppendRowFits, AppendIndices
  <2> HIDE DEF t
  <2> QED  BY <2>1, FitsIsTable
<1>8. /\ InOrder(t) /\ Upto(t, reports) /\ HasRow(t, reports, c)
      /\ \A i \in DOMAIN t : IsRow(t[i]) /\ t[i].report = reports => t[i].cpu \notin cpus \ {c}
  BY <1>1, <1>4, AppendRowInOrder DEF Ordered
<1>9. \A d \in Cpus : HasRow(Lines(g), reports, d) => HasRow(t, reports, d)
  BY <1>4, <1>5, AppendKeepsRows
<1> HIDE DEF t
<1>10. Types'
  BY <1>1, <1>3, <1>6 DEF Types, TypeOK
<1>11. Calling'
  BY <1>1, <1>3 DEF Calling
<1>12. Streams'
  <2>1. groups_events[g] = {columns}
    BY <1>2 DEF Types
  <2>2. Open(g)'
    BY <1>3, <1>6, <1>7, <2>1 DEF Open
  <2>3. ASSUME NEW h \in Groups \ {g}
        PROVE  (IF h \in groups_fd THEN Open(h) ELSE Closed(h))'
    BY <1>3, <1>6 DEF Streams, Open, Closed
  <2> QED  BY <1>1, <1>3, <2>2, <2>3 DEF Streams
<1>13. Tables'
  BY <1>3, <1>6, <1>7 DEF Tables
<1>14. Ordered'
  <2>1. \A h \in Groups : InOrder(Lines(h)') /\ Upto(Lines(h)', reports)
    BY <1>6, <1>8 DEF Ordered
  <2>2. \A h \in todo : Before(Lines(h)', reports)
    BY <1>1, <1>6 DEF Ordered
  <2>3. \A i \in DOMAIN Lines(g)' :
            IsRow(Lines(g)'[i]) /\ Lines(g)'[i].report = reports => Lines(g)'[i].cpu \notin cpus \ {c}
    BY <1>6, <1>8
  <2> QED  BY <1>1, <1>3, <2>1, <2>2, <2>3 DEF Ordered
<1>15. Written'
  <2>1. \A h \in Groups, d \in Cpus : HasRow(Lines(h), reports, d) => HasRow(Lines(h)', reports, d)
    BY <1>6, <1>9
  <2>2. \A d \in Cpus \ (cpus \ {c}) : HasRow(Lines(g)', reports, d)
    BY <1>1, <1>6, <1>8, <2>1 DEF Written
  <2> QED  BY <1>1, <1>3, <2>1, <2>2 DEF Written
<1> QED  BY <1>10, <1>11, <1>12, <1>13, <1>14, <1>15

LEMMA StepKeepsIInv == IInv /\ [Next]_vars => IInv'
<1> SUFFICES ASSUME IInv, [Next]_vars PROVE IInv'
  OBVIOUS
<1>1. ASSUME NEW g \in Groups, NEW c \in Cpus, HeaderFails(g, c) \/ ValueFails(g, c)
      PROVE  IInv'
  <2>1. CASE UNCHANGED <<file, pending, cut>>
    BY <1>1, <2>1, EndsKeepIInv
  <2>2. CASE ~UNCHANGED <<file, pending, cut>>
    BY <1>1, <2>2, FailsKeepIInv DEF HeaderFails, ValueFails
  <2> QED  BY <2>1, <2>2
<1> QED  BY <1>1, EndsKeepIInv, ReportKeepsIInv, GroupKeepsIInv, LeaveKeepsIInv,
            HeaderKeepsIInv, ValueKeepsIInv
         DEF Next

LEMMA Inductive == Spec => []IInv
  BY IInvInit, StepKeepsIInv, PTL DEF Spec

-----------------------------------------------------------------------------
\* Every variable of the module keeps its type.
THEOREM TypeCorrect == Spec => []TypeOK
<1>1. IInv => TypeOK
  BY DEF IInv, Types
<1> QED  BY <1>1, Inductive, PTL

\* For reports of any shapes, any failures, kills and restarts, the whole lines of
\* an output file agree on one set of columns and at most one of them is a header, the
\* first.  The header is there, and only the last line can be torn, in every file that
\* no write has failed on; one that has may have lost its header, and have a torn line
\* anywhere.
THEOREM FilesAreTables == Spec => []Tables
<1>1. IInv => Tables
  BY DEF IInv
<1> QED  BY <1>1, Inductive, PTL

\* The rows of a file are in the order of the reports, one for each cpu.
THEOREM RowsAreOrdered == Spec => []RowsInOrder
<1>1. IInv => RowsInOrder
  BY DEF IInv, Ordered, InOrder, IsRow, RowsInOrder
<1> QED  BY <1>1, Inductive, PTL

\* A report whose call returned without error has a row for each cpu in the
\* file of each of its groups.
THEOREM StoredReportsAreWritten == Spec => []StoredIsWritten
<1>1. IInv => StoredIsWritten
  BY DEF IInv, Written, HasRow, IsRow, StoredIsWritten
<1> QED  BY <1>1, Inductive, PTL

\* What is in a file stays in place, and a file that this process has not
\* created is not touched.
Grow ==
    \A g \in Groups :
        /\ IsPrefix(file[g], file'[g])
        /\ g \notin groups_fd => file'[g] = file[g]

LEMMA StepGrows == IInv /\ [Next]_vars => Grow
<1> SUFFICES ASSUME IInv, [Next]_vars PROVE Grow
  OBVIOUS
<1> USE DEF IInv
<1>1. file \in [Groups -> Seq(Line)] /\ pending \in [Groups -> Seq(Line)]
  BY DEF Types
<1>2. \A g \in Groups : IsPrefix(file[g], file[g])
  <2>1. ASSUME NEW s \in Seq(Line) PROVE IsPrefix(s, s)
    <3>1. <<>> \in Seq(Line)
      BY EmptySeq
    <3>2. s \o <<>> = s /\ IsPrefix(s, s \o <<>>)
      BY <3>1, Concatenated
    <3> QED  BY <3>2
  <2> QED  BY <1>1, <2>1
<1>3. CASE file' = file
  BY <1>2, <1>3 DEF Grow
<1>4. CASE Stop \/ Crash
  <2>1. PICK written \in Endings : Leave(written)
    BY <1>4 DEF Stop, Crash
  <2> QED  BY <2>1, LeaveCuts DEF Grow
<1>5. ASSUME NEW g \in Groups, g \in groups_fd, NEW line \in Line,
             \/ WriteFails(g, Append(pending[g], line))
             \/ /\ file' = [file EXCEPT ![g] = @ \o Append(pending[g], line)]
                /\ pending' = [pending EXCEPT ![g] = <<>>]
      PROVE  Grow
  <2>1. IsPrefix(file[g], file'[g]) /\ \A h \in Groups \ {g} : file'[h] = file[h]
    BY <1>5, OneLine, WriteFailsCuts
  <2> QED  BY <1>2, <1>5, <2>1 DEF Grow
<1>6. ASSUME NEW g \in Groups, NEW c \in Cpus,
             WriteGroupHeader(g, c) \/ HeaderFails(g, c) \/ ValueFails(g, c)
      PROVE  Grow
  <2>1. /\ g \in groups_fd /\ shape \in Reports /\ g \in DOMAIN shape /\ reports \in Nat
        /\ shape[g][c] \in Columns /\ groups_events[g] \subseteq Columns
    <3>1. reports \in Nat
      BY CsvBoundsAssumption DEF Types, TypeOK
    <3>2. g \in groups_fd /\ shape \in Reports /\ g \in DOMAIN shape
      BY <1>6, CalledGroups DEF WriteGroupHeader, HeaderFails, ValueFails, Calling
    <3>3. shape[g][c] \in Columns
      BY <3>2 DEF Columns
    <3> QED  BY <3>1, <3>2, <3>3 DEF Types
  <2>2. CASE WriteGroupHeader(g, c) \/ HeaderFails(g, c)
    <3>1. Header(shape[g][c]) \in Line
      BY <2>1, LineKinds
    <3>2. CASE file' = file
      BY <1>3, <3>2
    <3>3. CASE file' # file
      BY <1>5, <2>1, <2>2, <3>1, <3>3 DEF WriteGroupHeader, HeaderFails
    <3> QED  BY <3>2, <3>3
  <2>3. CASE ValueFails(g, c)
    <3>1. CASE file' = file
      BY <1>3, <3>1
    <3>2. CASE file' # file
      <4>1. PICK columns \in groups_events[g] :
                WriteFails(g, Append(pending[g], Row(reports, c, columns)))
        BY <2>3, <3>2 DEF ValueFails
      <4>2. Row(reports, c, columns) \in Line
        BY <2>1, LineKinds
      <4> QED  BY <1>5, <2>1, <4>1, <4>2
    <3> QED  BY <3>1, <3>2
  <2> QED  BY <1>6, <2>2, <2>3
<1>7. CASE /\ Next /\ ~Stop /\ ~Crash
           /\ ~\E g \in Groups, c \in Cpus :
                 WriteGroupHeader(g, c) \/ HeaderFails(g, c) \/ ValueFails(g, c)
  BY <1>3, <1>7
  DEF Next, Start, InitializeFails, StoreReport, KnownGroup, OpenGroupOutfile, OpenFails,
      WriteEventsValue, GroupDone, ReportDone, diskVars
<1> QED  BY <1>3, <1>4, <1>6, <1>7 DEF vars, diskVars

\* No step shortens a file, changes a line of it, or touches the file of a group
\* this process does not have open.
THEOREM FilesGrow == Spec => FilesOnlyGrow
<1>1. IInv /\ [Next]_vars => [Grow]_vars
  BY StepGrows
<1>2. [][Grow]_vars => FilesOnlyGrow
  BY PTL DEF Grow, FilesOnlyGrow
<1> QED  BY <1>1, <1>2, Inductive, PTL DEF Spec

-----------------------------------------------------------------------------
\* The steps a call of csv_store_report can still take, at most: for a group its
\* file, a header, a row for each cpu and the end of its loop.
InCall   == pc \in {"group", "cpu"}
PerGroup == Cardinality(Cpus) + 3
Later    == Cardinality(todo) * PerGroup + 1
StepsLeft ==
    CASE pc = "group" -> Later
      [] pc = "cpu"   -> Later + 1 + Cardinality(cpus) + (IF write_header THEN 1 ELSE 0)
      [] OTHER        -> 0

\* A group less to write is the steps of a group less.
LEMMA GroupLess ==
    ASSUME NEW n \in Nat \ {0}, NEW w \in Nat
    PROVE  (n - 1) * w \in Nat /\ n * w = (n - 1) * w + w
<1>1. PICK m \in Nat : n = m + 1
  <2>1. n - 1 \in Nat /\ n = (n - 1) + 1
    OBVIOUS
  <2> QED  BY <2>1
<1>2. (m + 1) * w = m * w + w /\ m * w \in Nat /\ n - 1 = m
  BY <1>1
<1> QED  BY <1>1, <1>2

LEMMA CountsAre ==
    ASSUME IInv, IsFiniteSet(Groups), IsFiniteSet(Cpus)
    PROVE  /\ IsFiniteSet(todo) /\ IsFiniteSet(cpus)
           /\ Cardinality(todo) \in Nat /\ Cardinality(todo) <= Cardinality(Groups)
           /\ Cardinality(cpus) \in Nat /\ Cardinality(cpus) <= Cardinality(Cpus)
           /\ Cardinality(Groups) \in Nat /\ Cardinality(Cpus) \in Nat
           /\ PerGroup = Cardinality(Cpus) + 3 /\ PerGroup \in Nat
<1>1. todo \subseteq Groups /\ cpus \subseteq Cpus
  BY DEF IInv, Types, TypeOK
<1> QED  BY <1>1, FS_Subset, FS_CardinalityType DEF PerGroup

LEMMA StepsLeftIs ==
    ASSUME IInv, IsFiniteSet(Groups), IsFiniteSet(Cpus)
    PROVE  /\ StepsLeft \in Nat /\ StepsLeft <= (Cardinality(Groups) + 1) * PerGroup + 1
           /\ Later \in Nat /\ Later >= 1
<1> DEFINE n == Cardinality(todo)
           m == Cardinality(Groups)
           c == Cardinality(cpus)
           w == PerGroup
           flag == IF write_header THEN 1 ELSE 0
<1>1. n \in Nat /\ m \in Nat /\ c \in Nat /\ w \in Nat /\ n <= m /\ c + 3 <= w /\ flag \in {0, 1}
  <2>1. flag \in {0, 1}
    OBVIOUS
  <2> QED  BY <2>1, CountsAre
<1>2. Later = n * w + 1
  BY DEF Later
<1>3. StepsLeft = Later \/ StepsLeft = Later + 1 + c + flag \/ StepsLeft = 0
  BY DEF StepsLeft
<1> HIDE DEF n, m, c, w, flag
<1>4. n * w \in Nat /\ m * w \in Nat /\ (m + 1) * w = m * w + w /\ n * w <= m * w
  <2>1. PICK k \in Nat : m = n + k
    <3>1. m - n \in Nat /\ m = n + (m - n)
      BY <1>1
    <3> QED  BY <3>1
  <2>2. (n + k) * w = n * w + k * w /\ n * w \in Nat /\ k * w \in Nat
    BY <1>1, <2>1
  <2>3. (m + 1) * w = m * w + w
    BY <1>1
  <2> QED  BY <1>1, <2>1, <2>2, <2>3
<1> DEFINE p == n * w
           q == m * w
           r == (m + 1) * w
<1> HIDE DEF p, q, r
<1>5. StepsLeft \in Nat /\ StepsLeft <= r + 1 /\ Later \in Nat /\ Later >= 1
  <2>1. /\ p \in Nat /\ q \in Nat /\ r = q + w /\ p <= q /\ Later = p + 1
    BY <1>2, <1>4 DEF p, q, r
  <2> QED  BY <1>1, <1>3, <2>1
<1> QED  BY <1>5 DEF r, m, w

LEMMA CallStepCounts ==
    ASSUME IInv, IsFiniteSet(Groups), IsFiniteSet(Cpus), InCall, Next
    PROVE  StepsLeft' < StepsLeft
<1> USE DEF InCall
<1>1. /\ IsFiniteSet(todo) /\ IsFiniteSet(cpus) /\ Cardinality(todo) \in Nat
      /\ Cardinality(cpus) \in Nat /\ PerGroup = Cardinality(Cpus) + 3 /\ PerGroup \in Nat
      /\ Later \in Nat /\ Later >= 1 /\ write_header \in BOOLEAN
  BY CountsAre, StepsLeftIs DEF IInv, Types, TypeOK
<1>2. StepsLeft \in Nat /\ StepsLeft >= 1
  BY <1>1 DEF StepsLeft
<1>3. ASSUME pc' \in {"idle", "down"}
      PROVE  StepsLeft' < StepsLeft
  BY <1>2, <1>3 DEF StepsLeft
<1>4. UNCHANGED todo => Later' = Later
  BY DEF Later, PerGroup
<1>5. ASSUME NEW g \in todo, pc = "group", StartGroup(g), write_header' \in BOOLEAN
      PROVE  StepsLeft' < StepsLeft
  <2>1. todo' = todo \ {g} /\ cpus' = Cpus /\ pc' = "cpu"
    BY <1>5 DEF StartGroup
  <2>2. Cardinality(todo') = Cardinality(todo) - 1
    BY <1>1, <2>1, FS_RemoveElement
  <2>3. Cardinality(todo) \in Nat \ {0}
    BY <1>1, <1>5, FS_EmptySet
  <2> DEFINE before == Cardinality(todo) * PerGroup
             after  == (Cardinality(todo) - 1) * PerGroup
             flag   == IF write_header' THEN 1 ELSE 0
  <2>4. after \in Nat /\ before = after + PerGroup
    BY <1>1, <2>3, GroupLess
  <2>5. Later = before + 1 /\ Later' = after + 1
    BY <2>2 DEF Later, PerGroup
  <2>6. /\ StepsLeft = Later
        /\ StepsLeft' = Later' + 1 + Cardinality(Cpus) + flag /\ flag \in {0, 1}
    BY <1>5, <2>1 DEF StepsLeft
  <2>7. Cardinality(Cpus) \in Nat
    BY FS_CardinalityType
  <2> HIDE DEF before, after, flag
  <2> QED  BY <1>1, <2>4, <2>5, <2>6, <2>7
<1>6. ASSUME NEW g \in Groups, KnownGroup(g)
      PROVE  StepsLeft' < StepsLeft
  BY <1>1, <1>5, <1>6 DEF KnownGroup
<1>7. ASSUME NEW g \in Groups, OpenGroupOutfile(g)
      PROVE  StepsLeft' < StepsLeft
  BY <1>5, <1>7 DEF OpenGroupOutfile
<1>8. ASSUME NEW g \in Groups, NEW c \in Cpus, WriteGroupHeader(g, c)
      PROVE  StepsLeft' < StepsLeft
  <2>1. /\ pc = "cpu" /\ pc' = pc /\ UNCHANGED <<todo, cpus>> /\ write_header /\ ~write_header'
    BY <1>8 DEF WriteGroupHeader
  <2> QED  BY <1>1, <1>4, <2>1 DEF StepsLeft
<1>9. ASSUME NEW g \in Groups, NEW c \in Cpus, WriteEventsValue(g, c)
      PROVE  StepsLeft' < StepsLeft
  <2>1. /\ pc = "cpu" /\ pc' = pc /\ UNCHANGED <<todo, write_header>> /\ cpus' = cpus \ {c}
        /\ c \in cpus
    BY <1>9 DEF WriteEventsValue
  <2>2. Cardinality(cpus') = Cardinality(cpus) - 1
    BY <1>1, <2>1, FS_RemoveElement
  <2> QED  BY <1>1, <1>4, <2>1, <2>2 DEF StepsLeft
<1>10. CASE GroupDone
  <2>1. pc = "cpu" /\ pc' = "group" /\ UNCHANGED todo
    BY <1>10 DEF GroupDone
  <2> QED  BY <1>1, <1>4, <2>1 DEF StepsLeft
<1>11. CASE \/ ReportDone \/ Crash \/ \E g \in Groups : OpenFails(g)
            \/ \E g \in Groups, c \in Cpus : HeaderFails(g, c) \/ ValueFails(g, c)
  <2>1. pc' \in {"idle", "down"}
    BY <1>11 DEF ReportDone, Crash, Leave, DropContext, OpenFails, HeaderFails, ValueFails, Return
  <2> QED  BY <1>3, <2>1
<1>12. ~Start /\ ~InitializeFails /\ ~Stop /\ ~\E s \in Reports : StoreReport(s)
  BY DEF Start, InitializeFails, Stop, StoreReport
<1> QED  BY <1>6, <1>7, <1>8, <1>9, <1>10, <1>11, <1>12 DEF Next

\* A call of csv_store_report ends, whatever fails and wherever the process is
\* killed: each of its steps is one of a bounded number, for a group its file, its
\* header, a row of each cpu and no more.
THEOREM CallEnds ==
    ASSUME IsFiniteSet(Groups), IsFiniteSet(Cpus)
    PROVE  Spec => [][/\ StepsLeft \in 0 .. (Cardinality(Groups) + 1) * PerGroup + 1
                      /\ InCall => StepsLeft' < StepsLeft]_vars
<1> DEFINE Counts == /\ StepsLeft \in 0 .. (Cardinality(Groups) + 1) * PerGroup + 1
                     /\ InCall => StepsLeft' < StepsLeft
<1>1. IInv /\ [Next]_vars => [Counts]_vars
  <2> SUFFICES ASSUME IInv, Next
               PROVE  Counts
    OBVIOUS
  <2>1. (Cardinality(Groups) + 1) * PerGroup + 1 \in Int
    <3>1. Cardinality(Groups) \in Nat /\ PerGroup \in Nat
      BY CountsAre
    <3> QED  BY <3>1
  <2>2. StepsLeft \in 0 .. (Cardinality(Groups) + 1) * PerGroup + 1
    BY <2>1, StepsLeftIs
  <2>3. InCall => StepsLeft' < StepsLeft
    BY CallStepCounts
  <2> QED  BY <2>2, <2>3
<1> QED  BY <1>1, Inductive, PTL DEF Spec
=============================================================================
