------------------------------ MODULE PerfRing ------------------------------
(***************************************************************************)
(* One ring buffer of callchains, which the kernel fills and               *)
(* get_callchains (src/src/perf.c) empties at each tick into a string      *)
(* (src/src/util.c).                                                       *)
(*                                                                         *)
(* A word is 8 bytes; records begin on words, so a header is never split.  *)
(* Word k of record r is <<r, k>>: 0 is the header, 1 is nr, the addresses *)
(* come next.  data_head and data_tail count words and never wrap.         *)
(***************************************************************************)
EXTENDS Naturals, Sequences, Functions

CONSTANTS Size,         \* data_size
          Depths,       \* depths of the callchains sampled
          OtherSizes,   \* sizes of the records that are not samples
          Ids,          \* what those have in their second word, an id
          Limit,        \* the greatest nr taken for that of a sample
          StringSize,   \* first size of the string
          Lengths,      \* lengths of symbols
          MaxRecords    \* bound: records written

ASSUME PerfRingAssumption ==
    /\ Size \in Nat \ {0} /\ Limit \in Nat /\ MaxRecords \in Nat
    /\ Depths \subseteq Nat /\ OtherSizes \subseteq Nat \ {0} /\ Ids \subseteq Nat
    /\ StringSize \in Nat \ {0} /\ Lengths \subseteq Nat \ {0}

VARIABLES
    ring,       \* the words of the buffer
    records,    \* records written: kind, nr, and place and size in words
    published,  \* how many of them data_head covers
    data_head,
    data_tail

VARIABLES
    pc,         \* where get_callchains stands
    head,       \* data_head as it was read
    size,       \* header.size
    copy,       \* the copy of a sample that wraps, or <<>>
    frame,      \* i, addresses taken of the sample
    string      \* callchains: size and used, the terminating zero not counted

\* History, read by the properties only.
VARIABLES
    taken,      \* records consumed
    out,        \* what is put into strings: the record, and the word taken
                \* for one of its addresses
    nomem       \* a growth of the string has failed

kernelVars  == <<ring, records, published, data_head>>
stringVars  == <<string, out, nomem>>
vars == <<kernelVars, data_tail, pc, head, size, copy, frame, stringVars, taken>>

Init ==
    /\ ring = [i \in 0 .. Size - 1 |-> <<0, 0>>]
    /\ records = <<>> /\ published = 0
    /\ data_head = 0 /\ data_tail = 0
    /\ pc = "idle" /\ head = 0 /\ size = 0 /\ copy = <<>> /\ frame = 0
    /\ string = [size |-> StringSize, used |-> 0]
    /\ taken = 0 /\ out = <<>> /\ nomem = FALSE

-----------------------------------------------------------------------------
\* The kernel copies a record into the free space, then moves data_head.  What
\* does not fit is lost, and a record tells how much was.
Sample(nr)     == [kind |-> "sample", nr |-> nr, at |-> data_head, size |-> nr + 2]
Other(id, words) == [kind |-> "other", nr |-> id, at |-> data_head, size |-> words]
NewRecords ==
    {Sample(nr) : nr \in Depths} \union {Other(id, words) : id \in Ids, words \in OtherSizes}

KernelWrite ==
    /\ published = Len(records)
    /\ Len(records) < MaxRecords
    /\ \E r \in NewRecords :
        /\ data_head + r.size - data_tail < Size
        /\ records' = Append(records, r)
        /\ ring' = [i \in DOMAIN ring |->
               LET k == (i + Size - (data_head % Size)) % Size
               IN  IF k < r.size THEN <<Len(records) + 1, k>> ELSE ring[i]]
    /\ UNCHANGED <<published, data_head, data_tail, pc, head, size, copy, frame, stringVars, taken>>

KernelPublish ==
    /\ published < Len(records)
    /\ published' = published + 1
    /\ data_head' = data_head + records[published + 1].size
    /\ UNCHANGED <<ring, records, data_tail, pc, head, size, copy, frame, stringVars, taken>>

-----------------------------------------------------------------------------
\* Variant: the head is read once and for all.
BeginWithOldHead ==
    /\ pc = "idle"
    /\ data_head # data_tail
    /\ string' = [size |-> StringSize, used |-> 0]
    /\ pc' = "record"
    /\ UNCHANGED <<kernelVars, data_tail, head, size, copy, frame, out, nomem, taken>>

\* A tick: when there is something new, and memory for a string.
Begin ==
    /\ pc = "idle"
    /\ data_head # data_tail
    /\ head' = data_head
    /\ string' = [size |-> StringSize, used |-> 0]
    /\ pc' = "record"
    /\ UNCHANGED <<kernelVars, data_tail, size, copy, frame, out, nomem, taken>>

Return ==
    /\ pc = "record"
    /\ data_tail >= head
    /\ pc' = "idle"
    /\ UNCHANGED <<kernelVars, data_tail, head, size, copy, frame, stringVars, taken>>

\* What a word says when it is read as a size, or as nr.
SizeIn(word) == IF word[1] \in DOMAIN records THEN records[word[1]].size ELSE 1
NrIn(word) ==
    IF word[1] \in DOMAIN records /\ word[2] = 1 THEN records[word[1]].nr ELSE Limit + 1

Location == data_tail % Size

\* Variant: a sample that wraps is not put together.
FetchInPlace ==
    /\ pc = "record"
    /\ data_tail < head
    /\ size' = SizeIn(ring[Location])
    /\ copy' = <<>>
    /\ frame' = 0
    /\ pc' = "symbols"
    /\ UNCHANGED <<kernelVars, data_tail, head, stringVars, taken>>

\* The header is read; a sample that wraps is copied in two parts.  Without memory
\* for the copy memcpy is given NULL and the process dies, which leaves no state.
Fetch ==
    /\ pc = "record"
    /\ data_tail < head
    /\ size' = SizeIn(ring[Location])
    /\ copy' = IF Size - Location < size'
               THEN [k \in 0 .. size' - 1 |-> ring[(Location + k) % Size]] ELSE <<>>
    /\ frame' = 0
    /\ pc' = "symbols"
    /\ UNCHANGED <<kernelVars, data_tail, head, stringVars, taken>>

\* Word k of the sample, through its pointer; past the end of the buffer is
\* memory of someone else.
Word(k) ==
    IF k \in DOMAIN copy THEN copy[k]
    ELSE IF Location + k < Size THEN ring[Location + k] ELSE <<0, 0>>

\* Variant: the limit is passed over too.
SymbolisedBelow == NrIn(Word(1)) < Limit

\* A record without more addresses than the limit is symbolised; the others are
\* passed over.
Symbolised == NrIn(Word(1)) <= Limit

Skip ==
    /\ pc = "symbols"
    /\ ~Symbolised
    /\ pc' = "release"
    /\ UNCHANGED <<kernelVars, data_tail, head, size, copy, frame, stringVars, taken>>

\* Variant: the size is doubled once.
GrownOnce(now, need) == IF now <= need THEN now * 2 ELSE now

\* The size of the string, doubled until it exceeds what is needed.
Grown(now, need) ==
    LET enough == {n \in {now * 2^i : i \in 0 .. need} : n > need}
    IN  CHOOSE n \in enough : \A m \in enough : n <= m

\* strapp of some characters; without memory to grow, nothing is appended.
Strapp(s, length, memory) ==
    LET grown == Grown(s.size, s.used + length + 1)
    IN  IF grown = s.size \/ memory THEN [size |-> grown, used |-> s.used + length] ELSE s

\* A symbol, or an address in digits, and its separator.
AppendSymbol ==
    /\ pc = "symbols"
    /\ Symbolised
    /\ frame < NrIn(Word(1))
    /\ frame' = frame + 1
    /\ \E length \in Lengths, memory1, memory2 \in BOOLEAN :
        LET named == Strapp(string, length, memory1)
        IN  /\ string' = Strapp(named, 1, memory2)
            /\ out' = IF named = string THEN out ELSE Append(out, <<taken + 1, Word(frame + 2)>>)
            /\ nomem' = (nomem \/ named = string \/ string' = named)
    /\ UNCHANGED <<kernelVars, data_tail, pc, head, size, copy, taken>>

AppendBar ==
    /\ pc = "symbols"
    /\ Symbolised
    /\ frame = NrIn(Word(1))
    /\ \E memory \in BOOLEAN : string' = Strapp(string, 1, memory)
    /\ nomem' = (nomem \/ string' = string)
    /\ pc' = "release"
    /\ UNCHANGED <<kernelVars, data_tail, head, size, copy, frame, out, taken>>

\* Variant: the header is counted twice.
ReleaseWithHeader ==
    /\ pc = "release"
    /\ data_tail' = data_tail + size + 1
    /\ taken' = taken + 1
    /\ copy' = <<>> /\ frame' = 0
    /\ pc' = "record"
    /\ UNCHANGED <<kernelVars, head, size, stringVars>>

Release ==
    /\ pc = "release"
    /\ data_tail' = data_tail + size
    /\ taken' = taken + 1
    /\ copy' = <<>> /\ frame' = 0
    /\ pc' = "record"
    /\ UNCHANGED <<kernelVars, head, size, stringVars>>

GetCallchains == Begin \/ Return \/ Fetch \/ Skip \/ AppendSymbol \/ AppendBar \/ Release
Next == KernelWrite \/ KernelPublish \/ GetCallchains

\* Ticks keep coming, and there is memory for a string at some of them.
Spec == Init /\ [][Next]_vars /\ WF_vars(KernelPublish) /\ WF_vars(GetCallchains)

-----------------------------------------------------------------------------
TypeOK ==
    /\ \A i \in DOMAIN ring : ring[i][1] \in 0 .. Len(records)
    /\ published \in {Len(records), Len(records) - 1}
    /\ data_tail <= data_head /\ data_head - data_tail < Size
    /\ pc \in {"idle", "record", "symbols", "release"}
    /\ head <= data_head
    /\ taken <= published
    /\ string.size \in Nat /\ string.used \in Nat

\* The addresses that go into strings: those of samples within the limit.
Samples == {r \in DOMAIN records : records[r].kind = "sample"}
AddressesOf(r) ==
    IF r \in Samples /\ records[r].nr <= Limit
    THEN {<<r, <<r, k + 1>>>> : k \in 1 .. records[r].nr} ELSE {}
Before(x, y) == x[1] < y[1] \/ (x[1] = y[1] /\ (x[1] \in Samples => x[2][2] < y[2][2]))

\* However the kernel writes on meanwhile, what the strings have for a sample are
\* its addresses, each one once, in the order they were sampled, across the end
\* of the buffer too.  What they have for the record of a loss, whose id is taken
\* for a number of addresses when it is small, is not told (perf.c:575-602).
OnlySamples ==
    /\ \A i \in DOMAIN out : out[i][1] \in Samples => out[i] \in AddressesOf(out[i][1])
    /\ \A i \in 1 .. Len(out) - 1 : Before(out[i], out[i + 1])

\* A record is given back only once all of its addresses are in the string,
\* unless a string could not grow; data_tail stays between two records
\* (perf.c:591-598).
NothingSkipped ==
    /\ pc # "idle" \/ taken = published \/ data_tail = records[taken + 1].at
    /\ nomem \/ \A r \in 1 .. taken : AddressesOf(r) \subseteq Range(out)

\* The string, with its terminating zero, stays within its allocation
\* (util.c:58-78).
StringFits == string.used + 1 <= string.size

\* What the kernel has published is read, all of it once it writes no more, and
\* its place given back (perf.c:558-563).
RecordsTaken == taken < published ~> taken = published
=============================================================================
