--------------------------- MODULE PerfRingProofs ---------------------------
(***************************************************************************)
(* Proofs about PerfRing, for any size of the buffer, any callchains and   *)
(* records, any symbols, and however the kernel's writes interleave with   *)
(* get_callchains.                                                         *)
(***************************************************************************)
EXTENDS PerfRing, Arithmetic, SequenceTheorems

Records == [kind : {"sample", "other"}, nr : Nat, at : Nat, size : Nat \ {0}]
Words   == Nat \X Nat

Reading == pc \in {"symbols", "release"}
End(r)  == records[r].at + records[r].size

Types ==
    /\ ring \in [0 .. Size - 1 -> Words]
    /\ \A i \in 0 .. Size - 1 : ring[i][1] <= Len(records)
    /\ records \in Seq(Records)
    /\ published \in Nat /\ published <= Len(records) /\ Len(records) <= published + 1
    /\ data_head \in Nat /\ data_tail \in Nat /\ head \in Nat /\ size \in Nat
    /\ frame \in Nat /\ taken \in Nat /\ nomem \in BOOLEAN
    /\ pc \in {"idle", "record", "symbols", "release"}
    /\ \A k \in DOMAIN copy : copy[k] \in Words
    /\ out \in Seq(Nat \X Words)
    /\ string \in [size : Nat \ {0}, used : Nat]
    /\ StringFits

\* The records lie one after the other, in the order they were written, and
\* data_head and data_tail stand between two of them.
Layout ==
    /\ \A r \in DOMAIN records : records[r].kind = "sample" => records[r].size = records[r].nr + 2
    /\ \A r \in DOMAIN records : r + 1 \in DOMAIN records => records[r + 1].at = End(r)
    /\ \A r, s \in DOMAIN records : r < s => End(r) <= records[s].at
    /\ data_head = (IF published < Len(records) THEN records[published + 1].at
                    ELSE IF published > 0 THEN End(published) ELSE 0)
    /\ taken <= published
    /\ taken < Len(records) => data_tail = records[taken + 1].at
    /\ taken = published => data_tail = data_head
    /\ head <= data_head

\* What has not been given back fits into the buffer and is there word for word.
Contents ==
    /\ data_head - data_tail < Size
    /\ \A r \in DOMAIN records : End(r) - data_tail < Size
    /\ \A r \in DOMAIN records : r > taken =>
           \A k \in 0 .. records[r].size - 1 : ring[(records[r].at + k) % Size] = <<r, k>>

\* The record being read: its size, its copy when it wraps, and how many of its
\* addresses are taken.
Current ==
    Reading =>
        /\ taken < published
        /\ size = records[taken + 1].size
        /\ \/ copy = <<>> /\ Location + size <= Size
           \/ copy = [k \in 0 .. size - 1 |-> <<taken + 1, k>>]
        /\ taken + 1 \in Samples =>
               /\ frame <= records[taken + 1].nr
               /\ pc = "release" /\ records[taken + 1].nr <= Limit => frame = records[taken + 1].nr

\* What the strings have is of the records given back and of the one being read,
\* and of that one no address beyond the last taken.
Told ==
    /\ \A i \in DOMAIN out :
        /\ out[i][1] \in 1 .. taken + 1
        /\ out[i][1] = taken + 1 => Reading
        /\ out[i][1] = taken + 1 /\ taken + 1 \in Samples => out[i][2][2] <= frame + 1
    /\ OnlySamples

\* Unless a string could not grow, nothing of the samples is missing from them.
Complete ==
    nomem \/ /\ \A r \in 1 .. taken : AddressesOf(r) \subseteq Range(out)
             /\ Reading /\ taken + 1 \in Samples /\ records[taken + 1].nr <= Limit =>
                    \A k \in 1 .. frame : <<taken + 1, <<taken + 1, k + 1>>>> \in Range(out)

IInv == Types /\ Layout /\ Contents /\ Current /\ Told /\ Complete

-----------------------------------------------------------------------------
\* Going on from a place of the buffer is going on from the count of words.
LEMMA Place ==
    ASSUME NEW n \in Nat, NEW k \in Nat
    PROVE  ((n % Size) + k) % Size = (n + k) % Size
<1> DEFINE m == (n % Size) + k
<1>1. n % Size \in 0 .. Size - 1 /\ m \in Nat
  BY Division, PerfRingAssumption
<1>2. PICK x \in Nat : n = Size * x + (n % Size)
  BY Division, PerfRingAssumption
<1>3. PICK y \in Nat : m = Size * y + (m % Size)
  BY <1>1, Division, PerfRingAssumption
<1>4. m % Size \in 0 .. Size - 1
  BY <1>1, Division, PerfRingAssumption
<1> DEFINE r == m % Size
<1>5. n + k = Size * (x + y) + r /\ x + y \in Int /\ n + k \in Nat
  <2> DEFINE a == n % Size
  <2>1. n = Size * x + a /\ a + k = Size * y + r /\ a \in Nat /\ r \in Nat
    BY <1>1, <1>2, <1>3, <1>4
  <2> HIDE DEF a, r
  <2>2. n + k = Size * x + (Size * y + r)
    BY <2>1, PerfRingAssumption
  <2>3. Size * x + Size * y = Size * (x + y)
    BY PerfRingAssumption
  <2> QED  BY <2>1, <2>2, <2>3, PerfRingAssumption
<1>6. (n + k) % Size = r
  <2> PICK s, q, rest : s = n + k /\ q = x + y /\ rest = r
    OBVIOUS
  <2>1. s \in Int /\ q \in Int /\ rest \in 0 .. Size - 1 /\ s = Size * q + rest
    BY <1>4, <1>5
  <2>2. s % Size = rest
    BY <2>1, DivisionUnique, PerfRingAssumption
  <2> QED  BY <2>2
<1> HIDE DEF r
<1> QED  BY <1>6 DEF r

\* From the place of n to that of p there are p - n words, the buffer's size more
\* when p is before n.
LEMMA Distance ==
    ASSUME NEW n \in Nat, NEW p \in Nat, p < n + Size, n < p + Size
    PROVE  ((p % Size) + Size - (n % Size)) % Size = (IF n <= p THEN p - n ELSE p + Size - n)
<1> DEFINE a == p % Size
           b == n % Size
<1>1. a \in 0 .. Size - 1 /\ b \in 0 .. Size - 1
  BY Division, PerfRingAssumption
<1>2. PICK x \in Nat : p = Size * x + a
  BY Division, PerfRingAssumption
<1>3. PICK y \in Nat : n = Size * y + b
  BY Division, PerfRingAssumption
<1> HIDE DEF a, b
<1> DEFINE m == a + Size - b
<1>4. m \in Nat
  BY <1>1, PerfRingAssumption
<1>5. /\ m = Size * (y - x + 1) + (p - n)
      /\ m = Size * (y - x) + (p + Size - n)
  BY <1>1, <1>2, <1>3, PerfRingAssumption, Z3
<1> HIDE DEF m
<1>6. CASE n <= p
  <2>1. p - n \in 0 .. Size - 1 /\ y - x + 1 \in Int
    BY <1>6, PerfRingAssumption
  <2>2. m % Size = p - n
    <3> PICK q, rest : q = y - x + 1 /\ rest = p - n
      OBVIOUS
    <3>1. m \in Int /\ q \in Int /\ rest \in 0 .. Size - 1 /\ m = Size * q + rest
      BY <1>4, <1>5, <2>1
    <3>2. m % Size = rest
      BY <3>1, DivisionUnique, PerfRingAssumption
    <3> QED  BY <3>2
  <2> QED  BY <1>6, <2>2 DEF m, a, b
<1>7. CASE ~(n <= p)
  <2>1. p + Size - n \in 0 .. Size - 1 /\ y - x \in Int
    BY <1>7, PerfRingAssumption
  <2>2. m % Size = p + Size - n
    <3> PICK q, rest : q = y - x /\ rest = p + Size - n
      OBVIOUS
    <3>1. m \in Int /\ q \in Int /\ rest \in 0 .. Size - 1 /\ m = Size * q + rest
      BY <1>4, <1>5, <2>1
    <3>2. m % Size = rest
      BY <3>1, DivisionUnique, PerfRingAssumption
    <3> QED  BY <3>2
  <2> QED  BY <1>7, <2>2 DEF m, a, b
<1> QED  BY <1>6, <1>7

\* strapp's loop ends, and with room for what is appended and its zero.
LEMMA GrownFits ==
    ASSUME NEW now \in Nat \ {0}, NEW need \in Nat
    PROVE  Grown(now, need) \in Nat /\ Grown(now, need) > need
<1> DEFINE enough == {n \in {now * 2 ^ i : i \in 0 .. need} : n > need}
<1>1. \A i \in 0 .. need : now * 2 ^ i \in Nat
  BY PowerOfTwo
<1>2. now * 2 ^ need > need
  <2>1. 2 ^ need \in Nat /\ need < 2 ^ need
    BY PowerOfTwo, PowerExceeds
  <2>2. \A p \in Nat : now * p >= p
    OBVIOUS
  <2> QED  BY <2>1, <2>2, <1>1
<1>3. enough \in SUBSET Nat /\ enough # {}
  <2>1. need \in 0 .. need
    OBVIOUS
  <2>2. now * 2 ^ need \in enough
    BY <1>2, <2>1
  <2>3. enough \subseteq Nat
    BY <1>1
  <2> QED  BY <2>2, <2>3
<1>4. \E n \in enough : \A m \in enough : n <= m
  <2> HIDE DEF enough
  <2> QED  BY <1>3, LeastElement
<1>5. Grown(now, need) = CHOOSE n \in enough : \A m \in enough : n <= m
  BY DEF Grown
<1>6. Grown(now, need) \in enough
  <2> HIDE DEF enough
  <2> QED  BY <1>4, <1>5
<1> QED  BY <1>1, <1>6

\* strapp keeps a string within its allocation, without memory too.
LEMMA StrappFits ==
    ASSUME NEW s \in [size : Nat \ {0}, used : Nat], s.used + 1 <= s.size,
           NEW length \in Nat \ {0}, NEW memory \in BOOLEAN
    PROVE  /\ Strapp(s, length, memory) \in [size : Nat \ {0}, used : Nat]
           /\ Strapp(s, length, memory).used + 1 <= Strapp(s, length, memory).size
<1> DEFINE grown == Grown(s.size, s.used + length + 1)
<1>1. s.size \in Nat \ {0} /\ s.used \in Nat /\ s.used + length + 1 \in Nat
  OBVIOUS
<1>2. grown \in Nat /\ grown > s.used + length + 1
  BY <1>1, GrownFits
<1>3. Strapp(s, length, memory) =
        IF grown = s.size \/ memory THEN [size |-> grown, used |-> s.used + length] ELSE s
  BY DEF Strapp
<1> HIDE DEF grown
<1> QED  BY <1>1, <1>2, <1>3

-----------------------------------------------------------------------------
LEMMA IInvInit == Init => IInv
<1> SUFFICES ASSUME Init
             PROVE  IInv
  OBVIOUS
<1> USE DEF Init
<1>1. records = <<>> /\ Len(records) = 0 /\ DOMAIN records = {} /\ DOMAIN out = {} /\ Len(out) = 0
  OBVIOUS
<1>2. \A i \in 0 .. Size - 1 : ring[i] = <<0, 0>>
  OBVIOUS
<1>3. Types
  <2>1. string \in [size : Nat \ {0}, used : Nat] /\ StringFits
    BY PerfRingAssumption DEF StringFits
  <2>2. \A k \in DOMAIN copy : copy[k] \in Words
    OBVIOUS
  <2>3. ring \in [0 .. Size - 1 -> Words]
    BY DEF Words
  <2>4. \A i \in 0 .. Size - 1 : ring[i][1] <= Len(records)
    BY <1>1, <1>2
  <2>5. records \in Seq(Records) /\ out \in Seq(Nat \X Words)
    OBVIOUS
  <2>6. /\ published \in Nat /\ published <= Len(records) /\ Len(records) <= published + 1
        /\ data_head \in Nat /\ data_tail \in Nat /\ head \in Nat /\ size \in Nat
        /\ frame \in Nat /\ taken \in Nat
    BY <1>1
  <2>7. nomem \in BOOLEAN /\ pc \in {"idle", "record", "symbols", "release"}
    OBVIOUS
  <2> QED  BY <2>1, <2>2, <2>3, <2>4, <2>5, <2>6, <2>7 DEF Types
<1>4. Layout            BY <1>1 DEF Layout
<1>5. Contents          BY <1>1, PerfRingAssumption DEF Contents
<1>6. Current           BY DEF Current, Reading
<1>7. Told              BY <1>1 DEF Told, OnlySamples
<1>8. Complete          BY DEF Complete, Reading
<1> QED  BY <1>3, <1>4, <1>5, <1>6, <1>7, <1>8 DEF IInv

\* Any record is typed, and lies in what data_head has covered or after it.
LEMMA RecordType ==
    ASSUME Types
    PROVE  /\ Len(records) \in Nat /\ DOMAIN records = 1 .. Len(records)
           /\ \A r \in DOMAIN records :
                  /\ records[r].kind \in {"sample", "other"}
                  /\ records[r].nr \in Nat /\ records[r].at \in Nat
                  /\ records[r].size \in Nat \ {0} /\ End(r) \in Nat
<1>1. records \in Seq(Records)
  BY DEF Types
<1>2. Len(records) \in Nat /\ DOMAIN records = 1 .. Len(records)
  BY <1>1, LenProperties
<1>3. \A r \in DOMAIN records : records[r] \in Records
  BY <1>1, <1>2, ElementOfSeq
<1> QED  BY <1>2, <1>3 DEF Records, End

\* data_tail is behind data_head, by the record to be read at least.
LEMMA TailBehind ==
    ASSUME Types, Layout
    PROVE  /\ data_tail <= data_head
           /\ taken < published =>
                  data_tail = records[taken + 1].at /\ End(taken + 1) <= data_head
<1>1. CASE taken = published
  BY <1>1 DEF Layout, Types
<1>2. CASE taken # published
  <2>1. /\ taken < published /\ taken + 1 \in DOMAIN records /\ published \in DOMAIN records
        /\ taken + 1 <= published
    BY <1>2, RecordType DEF Layout, Types
  <2>2. data_tail = records[taken + 1].at /\ data_tail < End(taken + 1)
    <3>1. taken < Len(records)
      BY <2>1, RecordType DEF Types
    <3>2. data_tail = records[taken + 1].at
      BY <3>1 DEF Layout
    <3>3. records[taken + 1].at \in Nat /\ records[taken + 1].size \in Nat \ {0}
      BY <2>1, RecordType
    <3> QED  BY <3>2, <3>3 DEF End
  <2>3. CASE published < Len(records)
    <3>1. published + 1 \in DOMAIN records /\ taken + 1 < published + 1
      BY <2>1, <2>3, RecordType DEF Types
    <3>2. End(taken + 1) <= records[published + 1].at
      BY <2>1, <3>1 DEF Layout
    <3>3. data_head = records[published + 1].at
      BY <2>3 DEF Layout
    <3>4. data_tail \in Nat /\ data_head \in Nat /\ End(taken + 1) \in Nat
      BY <2>1, RecordType DEF Types
    <3> QED  BY <2>2, <3>2, <3>3, <3>4
  <2>4. CASE published = Len(records)
    <3>1. data_head = End(published)
      BY <2>1, <2>4, RecordType DEF Layout, Types
    <3>2. taken + 1 < published => End(taken + 1) <= records[published].at
      BY <2>1 DEF Layout
    <3>3. records[published].at <= End(published)
      BY <2>1, RecordType DEF End
    <3> QED  BY <2>1, <2>2, <3>1, <3>2, <3>3, RecordType DEF Types
  <2> QED  BY <2>3, <2>4, RecordType DEF Types
<1> QED  BY <1>1, <1>2

\* A word of the record being read is where get_callchains looks for it, in the
\* buffer or in the copy.
LEMMA WordIs ==
    ASSUME IInv, Reading, NEW k \in 0 .. size - 1
    PROVE  Word(k) = <<taken + 1, k>>
<1> USE DEF IInv
<1>1. /\ taken + 1 \in DOMAIN records /\ size = records[taken + 1].size
      /\ size \in Nat \ {0} /\ taken \in Nat
  BY RecordType DEF Current, Types
<1>2. CASE copy = [j \in 0 .. size - 1 |-> <<taken + 1, j>>]
  BY <1>2 DEF Word
<1>3. CASE copy = <<>> /\ Location + size <= Size
  <2>1. Location \in Nat /\ data_tail \in Nat
    BY Division, PerfRingAssumption DEF Location, Types
  <2>2. k \notin DOMAIN copy /\ Location + k < Size /\ Location + k \in Nat
    BY <1>1, <1>3, <2>1, PerfRingAssumption
  <2>3. Word(k) = ring[Location + k]
    BY <2>2 DEF Word
  <2>4. Location + k = (Location + k) % Size
    <3> DEFINE l == Location + k
    <3>1. l = Size * 0 + l /\ l \in 0 .. Size - 1
      BY <2>2, PerfRingAssumption
    <3> HIDE DEF l
    <3>2. l % Size = l
      BY <3>1, DivisionUnique, PerfRingAssumption
    <3> QED  BY <3>2 DEF l
  <2>5. (Location + k) % Size = (data_tail + k) % Size
    BY <2>1, Place DEF Location
  <2>6. data_tail = records[taken + 1].at
    BY <1>1, RecordType DEF Layout
  <2>7. ring[(records[taken + 1].at + k) % Size] = <<taken + 1, k>>
    <3>1. taken + 1 > taken /\ k \in 0 .. records[taken + 1].size - 1
      BY <1>1
    <3>2. \A r \in DOMAIN records : r > taken =>
              \A j \in 0 .. records[r].size - 1 : ring[(records[r].at + j) % Size] = <<r, j>>
      BY DEF Contents
    <3> QED  BY <1>1, <3>1, <3>2, Zenon
  <2> QED  BY <2>3, <2>4, <2>5, <2>6, <2>7
<1> QED  BY <1>2, <1>3 DEF Current

\* What is read as the number of addresses of a sample is that number.
LEMMA NrIs ==
    ASSUME IInv, Reading, taken + 1 \in Samples
    PROVE  /\ NrIn(Word(1)) = records[taken + 1].nr
           /\ records[taken + 1].nr \in Nat /\ size = records[taken + 1].nr + 2
<1>1. /\ taken + 1 \in DOMAIN records /\ size = records[taken + 1].size
      /\ size = records[taken + 1].nr + 2 /\ records[taken + 1].nr \in Nat
  BY RecordType DEF IInv, Samples, Current, Layout
<1>2. Word(1) = <<taken + 1, 1>>
  BY <1>1, WordIs
<1> QED  BY <1>1, <1>2 DEF NrIn

\* A word is always one that some record had, or one of no record.
LEMMA WordType ==
    ASSUME IInv, NEW k \in Nat
    PROVE  Word(k) \in Words /\ NrIn(Word(k)) \in Nat
<1>1. Location \in Nat
  BY Division, PerfRingAssumption DEF Location, IInv, Types
<1>2. Word(k) \in Words
  BY <1>1, PerfRingAssumption DEF Word, IInv, Types, Words
<1>3. NrIn(Word(k)) \in Nat
  BY <1>2, RecordType, PerfRingAssumption DEF NrIn, IInv
<1> QED  BY <1>2, <1>3

-----------------------------------------------------------------------------
\* The kernel overwrites nothing of what has not been given back, and leaves what
\* get_callchains has of the records as it was.
LEMMA KernelWriteKeeps ==
    ASSUME IInv, KernelWrite
    PROVE  IInv'
<1> USE DEF IInv
<1>1. /\ published = Len(records)
      /\ UNCHANGED <<published, data_head, data_tail, pc, head, size, copy, frame, taken>>
      /\ UNCHANGED <<string, out, nomem>>
  BY DEF KernelWrite, stringVars
<1>2. PICK r \in NewRecords :
        /\ data_head + r.size - data_tail < Size
        /\ records' = Append(records, r)
        /\ ring' = [i \in DOMAIN ring |->
               LET k == (i + Size - (data_head % Size)) % Size
               IN  IF k < r.size THEN <<Len(records) + 1, k>> ELSE ring[i]]
  BY DEF KernelWrite
<1>3. /\ r \in Records /\ r.at = data_head /\ r.size \in Nat \ {0} /\ r.size < Size
      /\ r.kind = "sample" => r.size = r.nr + 2
  <2>1. r \in Records /\ r.at = data_head /\ (r.kind = "sample" => r.size = r.nr + 2)
    BY PerfRingAssumption DEF NewRecords, Sample, Other, Records, Types
  <2>2. data_tail <= data_head
    BY TailBehind
  <2> QED  BY <1>2, <2>1, <2>2, PerfRingAssumption DEF Records, Types
<1> PICK last \in Nat : last = Len(records) + 1
  BY RecordType
<1>4. /\ Len(records) \in Nat /\ DOMAIN records = 1 .. Len(records)
      /\ records' \in Seq(Records) /\ Len(records') = last /\ DOMAIN records' = 1 .. last
      /\ records'[last] = r /\ \A q \in DOMAIN records : records'[q] = records[q]
  <2>1. records \in Seq(Records)
    BY DEF Types
  <2>2. records' \in Seq(Records) /\ Len(records') = last
    BY <1>2, <1>3, <2>1, AppendProperties
  <2>3. records'[last] = r /\ \A q \in 1 .. Len(records) : records'[q] = records[q]
    BY <1>2, <1>3, <2>1, AppendProperties
  <2> QED  BY <2>1, <2>2, <2>3, LenProperties
<1>5. /\ data_head \in Nat /\ data_tail \in Nat /\ data_tail <= data_head /\ taken \in Nat
      /\ taken <= published
  BY TailBehind DEF Types, Layout
<1>6. /\ \A q \in 1 .. Len(records) : records[q].at \in Nat /\ records[q].size \in Nat \ {0}
      /\ \A q \in 1 .. Len(records) : End(q)' = End(q) /\ End(q) <= data_head
      /\ End(last)' = data_head + r.size
  <2>1. \A q \in 1 .. Len(records) :
            /\ records[q].at \in Nat /\ records[q].size \in Nat \ {0} /\ End(q) \in Nat
    BY <1>4, RecordType
  <2>2. ASSUME NEW q \in 1 .. Len(records)
        PROVE  End(q) <= data_head
    <3>1. Len(records) \in 1 .. Len(records) /\ data_head = End(Len(records))
      BY <1>1, <1>4 DEF Layout
    <3>2. q < Len(records) => End(q) <= records[Len(records)].at
      BY <1>4, <3>1 DEF Layout
    <3>3. records[Len(records)].at <= End(Len(records))
      BY <2>1, <3>1 DEF End
    <3> QED  BY <1>4, <2>1, <3>1, <3>2, <3>3
  <2>3. \A q \in 1 .. Len(records) : End(q)' = End(q)
    BY <1>4 DEF End
  <2>4. End(last)' = data_head + r.size
    BY <1>3, <1>4 DEF End
  <2> QED  BY <2>1, <2>2, <2>3, <2>4
\* Of a place within the buffer's size of data_tail, what the write leaves there.
<1>7. ASSUME NEW p \in Nat, data_tail <= p, p < data_head + r.size
      PROVE  ring'[p % Size] = IF p < data_head THEN ring[p % Size] ELSE <<last, p - data_head>>
  <2>1. p % Size \in 0 .. Size - 1 /\ DOMAIN ring = 0 .. Size - 1
    BY Division, PerfRingAssumption DEF Types
  <2>2. p < data_head + Size /\ data_head < p + Size
    BY <1>2, <1>3, <1>5, <1>7, PerfRingAssumption
  <2> DEFINE k == ((p % Size) + Size - (data_head % Size)) % Size
  <2>3. k = (IF data_head <= p THEN p - data_head ELSE p + Size - data_head)
    BY <1>5, <2>2, Distance
  <2>4. ring'[p % Size] = IF k < r.size THEN <<last, k>> ELSE ring[p % Size]
    BY <1>2, <2>1
  <2>5. k < r.size <=> data_head <= p
    <3> HIDE DEF k
    <3> QED  BY <1>2, <1>3, <1>5, <1>7, <2>3, PerfRingAssumption
  <2> HIDE DEF k
  <2> QED  BY <1>5, <2>3, <2>4, <2>5
<1>8. Types'
  <2>1. ring' \in [0 .. Size - 1 -> Words]
    <3>1. ASSUME NEW i \in 0 .. Size - 1
          PROVE  (i + Size - (data_head % Size)) % Size \in Nat
      <4> DEFINE m == i + Size - (data_head % Size)
      <4>1. m \in Nat
        BY <1>5, Division, PerfRingAssumption
      <4> HIDE DEF m
      <4>2. m % Size \in 0 .. Size - 1
        BY <4>1, Division, PerfRingAssumption
      <4> QED  BY <4>2, PerfRingAssumption DEF m
    <3>2. \A i \in 0 .. Size - 1 : ring[i] \in Words /\ DOMAIN ring = 0 .. Size - 1
      BY DEF Types
    <3> QED  BY <1>2, <1>4, <3>1, <3>2 DEF Words, Types
  <2>2. \A i \in 0 .. Size - 1 : ring'[i][1] <= last
    <3>1. \A i \in 0 .. Size - 1 : ring[i] \in Words /\ ring[i][1] <= Len(records) /\ i \in DOMAIN ring
      BY DEF Types
    <3>2. \A i \in 0 .. Size - 1 : ring'[i][1] = last \/ ring'[i] = ring[i]
      BY <1>2, <1>4, <3>1
    <3> QED  BY <1>4, <3>1, <3>2 DEF Words
  <2>3. published' <= Len(records') /\ Len(records') <= published' + 1
    BY <1>1, <1>4
  <2> QED  BY <1>1, <1>4, <2>1, <2>2, <2>3 DEF Types, StringFits
<1>9. Layout'
  <2>1. \A q \in DOMAIN records' : records'[q].kind = "sample" => records'[q].size = records'[q].nr + 2
    BY <1>3, <1>4 DEF Layout
  <2>2. ASSUME NEW q \in DOMAIN records', q + 1 \in DOMAIN records'
        PROVE  records'[q + 1].at = End(q)'
    <3>1. q \in 1 .. Len(records)
      BY <1>4, <2>2
    <3>2. CASE q = Len(records)
      <4>1. data_head = End(q)
        BY <1>1, <1>4, <3>1, <3>2 DEF Layout
      <4> QED  BY <1>3, <1>4, <1>6, <3>1, <3>2, <4>1
    <3>3. CASE q # Len(records)
      <4>1. q + 1 \in 1 .. Len(records)
        BY <1>4, <3>1, <3>3
      <4>2. records[q + 1].at = End(q)
        BY <1>4, <3>1, <4>1 DEF Layout
      <4> QED  BY <1>4, <1>6, <3>1, <4>1, <4>2
    <3> QED  BY <3>2, <3>3
  <2>3. ASSUME NEW q \in DOMAIN records', NEW s \in DOMAIN records', q < s
        PROVE  End(q)' <= records'[s].at
    <3>1. q \in 1 .. Len(records) /\ (s \in 1 .. Len(records) \/ s = last)
      BY <1>4, <2>3
    <3>2. s \in 1 .. Len(records) => End(q) <= records[s].at
      BY <1>4, <2>3, <3>1 DEF Layout
    <3> QED  BY <1>3, <1>4, <1>6, <3>1, <3>2
  <2>4. data_head' = (IF published' < Len(records') THEN records'[published' + 1].at
                      ELSE IF published' > 0 THEN End(published)' ELSE 0)
    BY <1>1, <1>3, <1>4
  <2>5. taken' < Len(records') => data_tail' = records'[taken' + 1].at
    <3>1. CASE taken < Len(records)
      <4>1. data_tail = records[taken + 1].at /\ taken + 1 \in 1 .. Len(records)
        BY <1>4, <1>5, <3>1 DEF Layout
      <4> QED  BY <1>1, <1>4, <4>1
    <3>2. CASE taken = Len(records)
      BY <1>1, <1>3, <1>4, <3>2 DEF Layout
    <3> QED  BY <1>1, <1>4, <1>5, <3>1, <3>2
  <2>6. taken' <= published' /\ (taken' = published' => data_tail' = data_head') /\ head' <= data_head'
    BY <1>1 DEF Layout
  <2> QED  BY <2>1, <2>2, <2>3, <2>4, <2>5, <2>6 DEF Layout
<1>10. Contents'
  <2>1. data_head' - data_tail' < Size
    BY <1>1 DEF Contents
  <2>2. \A q \in DOMAIN records' : End(q)' - data_tail' < Size
    <3>1. \A q \in 1 .. Len(records) : End(q) - data_tail < Size
      BY <1>4 DEF Contents
    <3>2. \A q \in DOMAIN records' : q \in 1 .. Len(records) \/ q = last
      BY <1>4
    <3>3. End(last)' - data_tail' < Size
      BY <1>1, <1>2, <1>3, <1>5, <1>6
    <3>4. \A q \in 1 .. Len(records) : End(q)' - data_tail' < Size
      BY <1>1, <1>6, <3>1
    <3> QED  BY <3>2, <3>3, <3>4
  <2>3. ASSUME NEW q \in DOMAIN records', q > taken, NEW k \in 0 .. records'[q].size - 1
        PROVE  ring'[(records'[q].at + k) % Size] = <<q, k>>
    <3>1. CASE q = last
      <4>1. /\ records'[q].at = data_head /\ k \in Nat /\ k < r.size
            /\ data_head + k \in Nat /\ data_tail <= data_head + k /\ data_head + k < data_head + r.size
            /\ ~(data_head + k < data_head) /\ (data_head + k) - data_head = k
        BY <1>3, <1>4, <1>5, <2>3, <3>1
      <4> QED  BY <1>7, <3>1, <4>1
    <3>2. CASE q \in 1 .. Len(records)
      <4>1. /\ records'[q] = records[q] /\ q \in DOMAIN records /\ k \in 0 .. records[q].size - 1
            /\ records[q].at \in Nat /\ records[q].size \in Nat \ {0} /\ End(q) <= data_head
        BY <1>4, <1>6, <2>3, <3>2
      <4>2. data_tail <= records[q].at
        <5>1. taken + 1 \in DOMAIN records /\ data_tail = records[taken + 1].at
          BY <1>4, <1>5, <2>3, <3>2 DEF Layout
        <5>2. taken + 1 < q => End(taken + 1) <= records[q].at
          BY <4>1, <5>1 DEF Layout
        <5>3. data_tail <= End(taken + 1) /\ End(taken + 1) \in Nat
          BY <5>1, RecordType DEF End
        <5> QED  BY <1>5, <2>3, <3>2, <4>1, <5>1, <5>2, <5>3
      <4> DEFINE p == records[q].at + k
      <4>3. p \in Nat /\ data_tail <= p /\ p < data_head /\ p < data_head + r.size
        <5>1. k \in Nat /\ k < records[q].size
          BY <4>1
        <5>2. p \in Nat /\ records[q].at <= p /\ p < End(q) /\ End(q) \in Nat
          BY <4>1, <5>1 DEF End
        <5> HIDE DEF p
        <5> QED  BY <1>3, <1>5, <4>1, <4>2, <5>2
      <4>4. ring[p % Size] = <<q, k>>
        BY <2>3, <4>1 DEF Contents
      <4> HIDE DEF p
      <4>5. ring'[p % Size] = <<q, k>>
        BY <1>7, <4>3, <4>4
      <4> QED  BY <4>1, <4>5 DEF p
    <3> QED  BY <1>4, <2>3, <3>1, <3>2
  <2> QED  BY <1>1, <2>1, <2>2, <2>3 DEF Contents
<1>11. Samples' \intersect (1 .. Len(records)) = Samples
  BY <1>4 DEF Samples
<1>12. taken + 1 \in Samples' /\ taken < published =>
           taken + 1 \in Samples /\ records'[taken + 1] = records[taken + 1]
  BY <1>1, <1>4, <1>5, <1>11
<1>13. Current'
  <2> SUFFICES ASSUME Reading
               PROVE  Current'
    BY <1>1 DEF Current, Reading
  <2>1. taken < published /\ taken + 1 \in 1 .. Len(records)
    BY <1>1, <1>4, <1>5 DEF Current
  <2>2. records'[taken + 1] = records[taken + 1]
    BY <1>4, <2>1
  <2>3. Location' = Location
    BY <1>1 DEF Location
  <2> QED  BY <1>1, <1>12, <2>1, <2>2, <2>3 DEF Current, Reading
<1>14. \A q \in 1 .. Len(records) : AddressesOf(q)' = AddressesOf(q)
  <2> SUFFICES ASSUME NEW q \in 1 .. Len(records)
               PROVE  AddressesOf(q)' = AddressesOf(q)
    OBVIOUS
  <2>1. (q \in Samples' <=> q \in Samples) /\ records'[q] = records[q]
    BY <1>4, <1>11
  <2> QED  BY <2>1 DEF AddressesOf
<1>15. \A i \in DOMAIN out : out[i][1] \in 1 .. Len(records)
  <2>1. \A i \in DOMAIN out : out[i][1] \in 1 .. taken + 1 /\ (out[i][1] = taken + 1 => Reading)
    BY DEF Told
  <2>2. Reading => taken < published
    BY DEF Current
  <2> QED  BY <1>1, <1>4, <1>5, <2>1, <2>2
<1>16. OnlySamples'
  <2>1. ASSUME NEW i \in DOMAIN out, out[i][1] \in Samples'
        PROVE  out'[i] \in AddressesOf(out[i][1])'
    <3>1. PICK q \in 1 .. Len(records) : q = out[i][1]
      BY <1>15
    <3>2. q \in Samples
      BY <1>11, <2>1, <3>1
    <3>3. out[i] \in AddressesOf(q)
      BY <3>1, <3>2 DEF Told, OnlySamples
    <3>4. out'[i] \in AddressesOf(q)'
      BY <1>1, <1>14, <3>3
    <3>5. q = out'[i][1]
      BY <1>1, <3>1
    <3> QED  BY <3>4, <3>5
  <2>2. ASSUME NEW i \in 1 .. Len(out) - 1
        PROVE  Before(out[i], out[i + 1])'
    <3>1. i \in DOMAIN out /\ i + 1 \in DOMAIN out
      BY LenProperties DEF Types
    <3>2. Before(out[i], out[i + 1])
      BY DEF Told, OnlySamples
    <3> QED  BY <1>1, <1>11, <1>15, <3>1, <3>2 DEF Before
  <2> QED  BY <1>1, <2>1, <2>2 DEF OnlySamples
<1>17. Told'
  <2>1. ASSUME NEW i \in DOMAIN out, out[i][1] = taken + 1, taken + 1 \in Samples'
        PROVE  out[i][2][2] <= frame + 1
    BY <1>11, <1>15, <2>1 DEF Told
  <2> QED  BY <1>1, <1>16, <2>1 DEF Told, Reading
<1>18. Complete'
  <2> SUFFICES ASSUME ~nomem
               PROVE  Complete'
    BY <1>1 DEF Complete
  <2>1. \A q \in 1 .. taken : AddressesOf(q)' \subseteq Range(out)
    BY <1>1, <1>4, <1>5, <1>14 DEF Complete
  <2>2. Reading => taken < published
    BY DEF Current
  <2> QED  BY <1>1, <1>12, <2>1, <2>2 DEF Complete, Reading
<1> QED  BY <1>8, <1>9, <1>10, <1>13, <1>17, <1>18

\* data_head moves past the record that was written.
LEMMA KernelPublishKeeps ==
    ASSUME IInv, KernelPublish
    PROVE  IInv'
<1> USE DEF IInv
<1>1. /\ published < Len(records) /\ published' = published + 1
      /\ data_head' = data_head + records[published + 1].size
      /\ UNCHANGED <<ring, records, data_tail, pc, head, size, copy, frame, taken>>
      /\ UNCHANGED <<string, out, nomem>>
  BY DEF KernelPublish, stringVars
<1>2. /\ published \in Nat /\ taken \in Nat /\ published + 1 = Len(records) /\ taken <= published
      /\ published + 1 \in DOMAIN records
  BY <1>1, RecordType DEF Types, Layout
<1>3. /\ records[published + 1].size \in Nat \ {0} /\ data_head = records[published + 1].at
      /\ data_head \in Nat /\ data_tail \in Nat /\ head \in Nat
  BY <1>1, <1>2, RecordType DEF Types, Layout
<1>4. data_head' = End(published + 1) /\ data_head' \in Nat /\ data_head <= data_head'
  BY <1>1, <1>3 DEF End
<1>5. Types'
  BY <1>1, <1>2, <1>4 DEF Types, StringFits
<1>6. Layout'
  <2>1. data_head' = (IF published' < Len(records) THEN records[published' + 1].at
                      ELSE IF published' > 0 THEN End(published') ELSE 0)
    BY <1>1, <1>2, <1>4
  <2>2. taken' <= published' /\ taken' # published' /\ head' <= data_head'
    BY <1>1, <1>2, <1>3, <1>4 DEF Layout
  <2> QED  BY <1>1, <2>1, <2>2 DEF Layout, End
<1>7. Contents'
  <2>1. End(published + 1) - data_tail < Size
    BY <1>2 DEF Contents
  <2> QED  BY <1>1, <1>4, <2>1 DEF Contents, End
<1>8. Current'
  BY <1>1, <1>2 DEF Current, Reading, Location, Samples
<1>9. Told' /\ Complete'
  BY <1>1 DEF Told, Complete, Reading, OnlySamples, Samples, AddressesOf, Before
<1> QED  BY <1>5, <1>6, <1>7, <1>8, <1>9

-----------------------------------------------------------------------------
\* What get_callchains cannot disturb but by moving data_tail.
LEMMA BufferKept ==
    ASSUME IInv, UNCHANGED kernelVars, UNCHANGED <<data_tail, taken>>, head' \in Nat, head' <= data_head
    PROVE  Layout' /\ Contents'
<1>1. UNCHANGED <<ring, records, published, data_head>>
  BY DEF kernelVars
<1>2. Layout'
  BY <1>1 DEF IInv, Layout, End
<1>3. Contents'
  BY <1>1 DEF IInv, Contents, End
<1> QED  BY <1>2, <1>3

\* A call begins or ends: no record is being read.
LEMMA CallKeeps ==
    ASSUME IInv, Begin \/ Return
    PROVE  IInv'
<1> USE DEF IInv
<1>1. /\ UNCHANGED kernelVars /\ UNCHANGED <<data_tail, size, copy, frame, out, nomem, taken>>
      /\ ~Reading /\ ~Reading'
      /\ head' \in Nat /\ head' <= data_head
  BY DEF Begin, Return, stringVars, Reading, Types, Layout
<1>2. UNCHANGED <<ring, records, published, data_head>>
  BY <1>1 DEF kernelVars
<1>3. string' \in [size : Nat \ {0}, used : Nat] /\ StringFits'
  BY PerfRingAssumption DEF Begin, Return, stringVars, StringFits, Types
<1>4. pc' \in {"idle", "record", "symbols", "release"}
  BY DEF Begin, Return
<1>5. Types'
  BY <1>1, <1>2, <1>3, <1>4 DEF Types
<1>6. Layout' /\ Contents'
  BY <1>1, BufferKept
<1>7. Current'
  BY <1>1 DEF Current
<1>8. Told' /\ Complete'
  BY <1>1, <1>2 DEF Told, Complete, OnlySamples, Samples, AddressesOf, Before
<1> QED  BY <1>5, <1>6, <1>7, <1>8

\* What is copied of a sample that wraps is the sample.
LEMMA FetchKeeps ==
    ASSUME IInv, Fetch
    PROVE  IInv'
<1> USE DEF IInv
<1>1. /\ pc = "record" /\ data_tail < head
      /\ size' = SizeIn(ring[Location])
      /\ copy' = IF Size - Location < size'
                 THEN [k \in 0 .. size' - 1 |-> ring[(Location + k) % Size]] ELSE <<>>
      /\ frame' = 0 /\ pc' = "symbols"
      /\ UNCHANGED kernelVars /\ UNCHANGED <<data_tail, head, taken, string, out, nomem>>
  BY DEF Fetch, stringVars
<1>2. UNCHANGED <<ring, records, published, data_head>>
  BY <1>1 DEF kernelVars
<1>3. taken < published /\ taken \in Nat /\ taken + 1 \in DOMAIN records /\ data_tail \in Nat
  BY <1>1, RecordType DEF Types, Layout
<1> PICK t \in DOMAIN records : t = taken + 1
  BY <1>3
<1>4. data_tail = records[t].at /\ records[t].size \in Nat \ {0} /\ t > taken
  BY <1>3, RecordType DEF Layout
<1>5. \A k \in 0 .. records[t].size - 1 : ring[(Location + k) % Size] = <<t, k>>
  <2>1. \A k \in 0 .. records[t].size - 1 : (Location + k) % Size = (records[t].at + k) % Size
    <3>1. \A k \in Nat : ((data_tail % Size) + k) % Size = (data_tail + k) % Size
      BY <1>3, Place
    <3> QED  BY <1>4, <3>1 DEF Location
  <2> QED  BY <1>4, <2>1 DEF Contents
<1>6. Location \in 0 .. Size - 1
  BY <1>3, Division, PerfRingAssumption DEF Location
<1>7. size' = records[t].size
  <2>1. Location = (Location + 0) % Size
    <3>1. Location % Size = Location
      BY <1>6, DivisionUnique, PerfRingAssumption
    <3> QED  BY <1>6, <3>1
  <2>2. ring[Location] = <<t, 0>>
    BY <1>4, <1>5, <2>1
  <2> QED  BY <1>1, <2>2 DEF SizeIn
<1>8. \/ copy' = <<>> /\ Location + size' <= Size
      \/ copy' = [k \in 0 .. size' - 1 |-> <<t, k>>]
  <2>1. CASE Size - Location < size'
    BY <1>1, <1>5, <1>7, <2>1
  <2>2. CASE ~(Size - Location < size')
    BY <1>1, <1>4, <1>6, <1>7, <2>2, PerfRingAssumption
  <2> QED  BY <2>1, <2>2
<1>9. Types'
  <2>1. \A k \in DOMAIN copy' : copy'[k] \in Words
    BY <1>3, <1>4, <1>7, <1>8 DEF Words
  <2>2. size' \in Nat /\ frame' \in Nat
    BY <1>1, <1>4, <1>7
  <2> QED  BY <1>1, <1>2, <2>1, <2>2 DEF Types, StringFits
<1>10. Layout' /\ Contents'
  BY <1>1, BufferKept DEF Types, Layout
<1>11. Current'
  <2>1. Location' = Location
    BY <1>1 DEF Location
  <2>2. t \in Samples => records[t].nr \in Nat
    BY RecordType DEF Samples
  <2> QED  BY <1>1, <1>2, <1>3, <1>7, <1>8, <2>1, <2>2 DEF Current, Samples
<1>12. Told' /\ Complete'
  <2>1. ~Reading
    BY <1>1 DEF Reading
  <2>2. 1 .. frame' = {}
    BY <1>1
  <2> QED  BY <1>1, <1>2, <2>1, <2>2 DEF Told, Complete, OnlySamples, Samples, AddressesOf, Before
<1> QED  BY <1>9, <1>10, <1>11, <1>12

\* A record without addresses, or with too many, is passed over.
LEMMA SkipKeeps ==
    ASSUME IInv, Skip
    PROVE  IInv'
<1> USE DEF IInv
<1>1. /\ pc = "symbols" /\ ~Symbolised /\ pc' = "release"
      /\ UNCHANGED <<ring, records, published, data_head>>
      /\ UNCHANGED <<data_tail, head, size, copy, frame, taken, string, out, nomem>>
  BY DEF Skip, kernelVars, stringVars
<1>2. Reading /\ Reading' /\ Location' = Location
  BY <1>1 DEF Reading, Location
<1>3. taken + 1 \in Samples => records[taken + 1].nr > Limit
  BY <1>1, <1>2, NrIs, PerfRingAssumption DEF Symbolised
<1>4. Types' /\ Layout' /\ Contents'
  BY <1>1 DEF Types, StringFits, Layout, Contents, End
<1>5. taken + 1 \in Samples => records[taken + 1].nr \in Nat
  BY <1>2, NrIs
<1>6. Current'
  BY <1>1, <1>2, <1>3, <1>5, PerfRingAssumption DEF Current, Samples
<1>7. Told' /\ Complete'
  BY <1>1, <1>2 DEF Told, Complete, OnlySamples, Samples, AddressesOf, Before
<1> QED  BY <1>4, <1>6, <1>7

\* The bar ends a record of which every address is taken.
LEMMA AppendBarKeeps ==
    ASSUME IInv, AppendBar
    PROVE  IInv'
<1> USE DEF IInv
<1>1. /\ pc = "symbols" /\ frame = NrIn(Word(1)) /\ pc' = "release"
      /\ UNCHANGED <<ring, records, published, data_head>>
      /\ UNCHANGED <<data_tail, head, size, copy, frame, taken, out>>
      /\ nomem' = (nomem \/ string' = string)
  BY DEF AppendBar, kernelVars
<1>2. Reading /\ Reading' /\ Location' = Location
  BY <1>1 DEF Reading, Location
<1>3. string' \in [size : Nat \ {0}, used : Nat] /\ StringFits'
  <2>1. PICK memory \in BOOLEAN : string' = Strapp(string, 1, memory)
    BY DEF AppendBar
  <2> QED  BY <2>1, StrappFits DEF Types, StringFits
<1>4. Types' /\ Layout' /\ Contents'
  BY <1>1, <1>3 DEF Types, Layout, Contents, End
<1>5. taken + 1 \in Samples => frame = records[taken + 1].nr
  BY <1>1, <1>2, NrIs
<1>6. Current'
  BY <1>1, <1>2, <1>5 DEF Current, Samples
<1>7. Told'
  BY <1>1, <1>2 DEF Told, OnlySamples, Samples, AddressesOf, Before
<1>8. nomem => nomem'
  BY <1>1
<1>9. Complete'
  BY <1>1, <1>2, <1>8 DEF Complete, Samples, AddressesOf
<1> QED  BY <1>4, <1>6, <1>7, <1>9

\* A symbol stands for the next address of the record.
LEMMA AppendSymbolKeeps ==
    ASSUME IInv, AppendSymbol
    PROVE  IInv'
<1> USE DEF IInv
<1>1. /\ pc = "symbols" /\ Symbolised /\ frame < NrIn(Word(1)) /\ frame' = frame + 1
      /\ UNCHANGED <<ring, records, published, data_head>>
      /\ UNCHANGED <<data_tail, pc, head, size, copy, taken>>
  BY DEF AppendSymbol, kernelVars
<1> DEFINE entry == <<taken + 1, Word(frame + 2)>>
<1>2. PICK length \in Lengths, memory1 \in BOOLEAN, memory2 \in BOOLEAN :
        LET named == Strapp(string, length, memory1)
        IN  /\ string' = Strapp(named, 1, memory2)
            /\ out' = IF named = string THEN out ELSE Append(out, entry)
            /\ nomem' = (nomem \/ named = string \/ string' = named)
  BY DEF AppendSymbol
<1>3. string' \in [size : Nat \ {0}, used : Nat] /\ StringFits'
  <2> DEFINE named == Strapp(string, length, memory1)
  <2>1. length \in Nat \ {0}
    BY PerfRingAssumption
  <2>2. named \in [size : Nat \ {0}, used : Nat] /\ named.used + 1 <= named.size
    BY <2>1, StrappFits DEF Types, StringFits
  <2> HIDE DEF named
  <2>3. /\ Strapp(named, 1, memory2) \in [size : Nat \ {0}, used : Nat]
        /\ Strapp(named, 1, memory2).used + 1 <= Strapp(named, 1, memory2).size
    BY <2>2, StrappFits
  <2> QED  BY <1>2, <2>3 DEF named, StringFits
<1>4. out' = Append(out, entry) \/ (out' = out /\ nomem')
  BY <1>2
<1>5. nomem => nomem'
  BY <1>2
<1>6. Reading /\ Reading' /\ Location' = Location
  BY <1>1 DEF Reading, Location
<1>7. frame \in Nat /\ taken \in Nat /\ entry \in Nat \X Words
  <2>1. frame + 2 \in Nat /\ frame \in Nat /\ taken \in Nat
    BY DEF Types
  <2>2. Word(frame + 2) \in Words
    BY <2>1, WordType
  <2> QED  BY <2>1, <2>2
<1>8. taken + 1 \in Samples =>
        /\ entry = <<taken + 1, <<taken + 1, frame + 2>>>>
        /\ frame + 1 \in 1 .. records[taken + 1].nr
        /\ records[taken + 1].nr <= Limit
  <2> SUFFICES ASSUME taken + 1 \in Samples
               PROVE  /\ entry = <<taken + 1, <<taken + 1, frame + 2>>>>
                      /\ frame + 1 \in 1 .. records[taken + 1].nr
                      /\ records[taken + 1].nr <= Limit
    OBVIOUS
  <2>1. /\ NrIn(Word(1)) = records[taken + 1].nr /\ records[taken + 1].nr \in Nat
        /\ size = records[taken + 1].nr + 2
    BY <1>6, NrIs
  <2>2. frame + 2 \in 0 .. size - 1
    BY <1>1, <1>7, <2>1
  <2>3. Word(frame + 2) = <<taken + 1, frame + 2>>
    BY <1>6, <2>2, WordIs
  <2> QED  BY <1>1, <1>7, <2>1, <2>3 DEF Symbolised
<1> HIDE DEF entry
<1>9. Layout' /\ Contents' /\ Current'
  <2>1. Layout' /\ Contents'
    BY <1>1 DEF Layout, Contents, End
  <2> QED  BY <1>1, <1>6, <1>7, <1>8, <2>1 DEF Current, Samples
<1>10. CASE out' = out /\ nomem'
  <2>1. Types'
    BY <1>1, <1>3, <1>7, <1>10 DEF Types
  <2>2. \A i \in DOMAIN out : out[i] \in Nat \X Words
    BY ElementOfSeq, LenProperties DEF Types
  <2>3. Told' /\ Complete'
    BY <1>1, <1>6, <1>7, <1>10, <2>2 DEF Told, Complete, OnlySamples, Samples, AddressesOf, Before, Words
  <2> QED  BY <1>9, <2>1, <2>3
<1>11. CASE out' = Append(out, entry)
  <2> DEFINE n == Len(out)
  <2>1. /\ n \in Nat /\ DOMAIN out = 1 .. n
        /\ \A i \in 1 .. n : out[i] \in Nat \X Words
    BY ElementOfSeq, LenProperties DEF Types
  <2>2. /\ out' \in Seq(Nat \X Words) /\ Len(out') = n + 1 /\ DOMAIN out' = 1 .. n + 1
        /\ out'[n + 1] = entry /\ \A i \in 1 .. n : out'[i] = out[i]
    <3>1. out \in Seq(Nat \X Words)
      BY DEF Types
    <3>2. /\ out' \in Seq(Nat \X Words) /\ Len(out') = n + 1
          /\ out'[n + 1] = entry /\ \A i \in 1 .. n : out'[i] = out[i]
      BY <1>7, <1>11, <3>1, AppendProperties
    <3> QED  BY <3>2, LenProperties
  <2> HIDE DEF n
  <2>3. entry[1] = taken + 1
    BY DEF entry
  <2>4. Types'
    <3>1. nomem' \in BOOLEAN
      BY <1>2 DEF Types
    <3> QED  BY <1>1, <1>3, <1>7, <2>2, <3>1 DEF Types
  <2>5. UNCHANGED Samples /\ \A q : AddressesOf(q)' = AddressesOf(q)
    BY <1>1 DEF Samples, AddressesOf
  <2>6. OnlySamples'
    <3>1. ASSUME NEW i \in 1 .. n + 1, out'[i][1] \in Samples
          PROVE  out'[i] \in AddressesOf(out'[i][1])
      <4>1. CASE i \in 1 .. n
        BY <2>1, <2>2, <3>1, <4>1 DEF Told, OnlySamples
      <4>2. CASE i = n + 1
        <5>1. taken + 1 \in Samples
          BY <2>2, <2>3, <3>1, <4>2
        <5>2. entry = <<taken + 1, <<taken + 1, (frame + 1) + 1>>>>
          BY <1>7, <1>8, <5>1
        <5>3. entry \in AddressesOf(taken + 1)
          BY <1>8, <5>1, <5>2 DEF AddressesOf
        <5> QED  BY <2>2, <2>3, <4>2, <5>3
      <4> QED  BY <2>1, <3>1, <4>1, <4>2
    <3>2. ASSUME NEW i \in 1 .. n
          PROVE  Before(out'[i], out'[i + 1])
      <4>1. CASE i < n
        <5>1. i \in 1 .. n - 1 /\ i + 1 \in 1 .. n
          BY <2>1, <4>1
        <5>2. Before(out[i], out[i + 1])
          BY <5>1 DEF Told, OnlySamples, n
        <5> QED  BY <2>2, <5>1, <5>2
      <4>2. CASE i = n
        <5>1. /\ out'[i] = out[n] /\ out'[i + 1] = entry /\ n \in DOMAIN out
              /\ out[n] \in Nat \X Words
          BY <2>1, <2>2, <3>2, <4>2
        <5>2. /\ out[n][1] \in 1 .. taken + 1
              /\ out[n][1] = taken + 1 /\ taken + 1 \in Samples => out[n][2][2] <= frame + 1
          BY <5>1 DEF Told
        <5>3. taken + 1 \in Samples => entry[2][2] = frame + 2
          BY <1>8
        <5>4. out[n][1] = taken + 1 /\ taken + 1 \in Samples => out[n][2][2] < entry[2][2]
          BY <1>7, <5>1, <5>2, <5>3 DEF Words
        <5>5. Before(out[n], entry)
          BY <1>7, <2>3, <5>2, <5>4 DEF Before
        <5> QED  BY <5>1, <5>5
      <4> QED  BY <2>1, <3>2, <4>1, <4>2
    <3>3. \A x, y : Before(x, y)' <=> Before(x, y)
      BY <2>5 DEF Before
    <3>4. Len(out') - 1 = n
      BY <2>1, <2>2
    <3> QED  BY <2>2, <2>5, <3>1, <3>2, <3>3, <3>4 DEF OnlySamples, Before
  <2>7. Told'
    <3>1. ASSUME NEW i \in 1 .. n + 1
          PROVE  /\ out'[i][1] \in 1 .. taken + 1
                 /\ out'[i][1] = taken + 1 /\ taken + 1 \in Samples => out'[i][2][2] <= frame + 2
      <4>1. CASE i \in 1 .. n
        <5>1. /\ out[i][1] \in 1 .. taken + 1 /\ out[i] \in Nat \X Words
              /\ out[i][1] = taken + 1 /\ taken + 1 \in Samples => out[i][2][2] <= frame + 1
          BY <2>1, <4>1 DEF Told
        <5>2. out'[i] = out[i]
          BY <2>2, <4>1
        <5>3. out[i][2][2] \in Nat /\ frame \in Nat
          BY <1>7, <5>1 DEF Words
        <5> QED  BY <5>1, <5>2, <5>3
      <4>2. CASE i = n + 1
        BY <1>7, <1>8, <2>2, <2>3, <4>2
      <4> QED  BY <2>1, <3>1, <4>1, <4>2
    <3>2. frame' + 1 = frame + 2
      BY <1>1, <1>7
    <3> QED  BY <1>1, <1>6, <2>2, <2>5, <2>6, <3>1, <3>2 DEF Told
  <2>8. Complete'
    <3> SUFFICES ASSUME ~nomem
                 PROVE  Complete'
      BY <1>5 DEF Complete
    <3>1. Range(out) \subseteq Range(out') /\ entry \in Range(out')
      <4>1. n + 1 \in 1 .. n + 1 /\ 1 .. n \subseteq 1 .. n + 1
        BY <2>1
      <4> QED  BY <2>1, <2>2, <4>1 DEF Range
    <3>2. \A q \in 1 .. taken : AddressesOf(q)' \subseteq Range(out')
      BY <2>5, <3>1 DEF Complete
    <3>3. ASSUME taken + 1 \in Samples, records[taken + 1].nr <= Limit, NEW k \in 1 .. frame + 1
          PROVE  <<taken + 1, <<taken + 1, k + 1>>>> \in Range(out')
      <4>1. CASE k \in 1 .. frame
        BY <1>6, <3>1, <3>3, <4>1 DEF Complete
      <4>2. CASE k = frame + 1
        <5>1. entry = <<taken + 1, <<taken + 1, k + 1>>>>
          BY <1>7, <1>8, <3>3, <4>2
        <5> QED  BY <3>1, <5>1
      <4> QED  BY <1>7, <3>3, <4>1, <4>2
    <3> QED  BY <1>1, <2>5, <3>2, <3>3 DEF Complete
  <2> QED  BY <1>9, <2>4, <2>7, <2>8
<1> QED  BY <1>4, <1>10, <1>11

\* A record is given back when all of its addresses are told.
LEMMA ReleaseKeeps ==
    ASSUME IInv, Release
    PROVE  IInv'
<1> USE DEF IInv
<1>1. /\ pc = "release" /\ data_tail' = data_tail + size /\ taken' = taken + 1
      /\ copy' = <<>> /\ frame' = 0 /\ pc' = "record"
      /\ UNCHANGED <<ring, records, published, data_head>>
      /\ UNCHANGED <<head, size, string, out, nomem>>
  BY DEF Release, kernelVars, stringVars
<1>2. Reading /\ ~Reading'
  BY <1>1 DEF Reading
<1>3. /\ taken < published /\ taken \in Nat /\ published \in Nat /\ published <= Len(records)
      /\ taken + 1 \in DOMAIN records /\ size = records[taken + 1].size
      /\ Len(records) \in Nat /\ DOMAIN records = 1 .. Len(records)
  BY <1>2, RecordType DEF Current, Types
<1>4. /\ data_tail = records[taken + 1].at /\ data_tail' = End(taken + 1) /\ data_tail' <= data_head
      /\ data_tail \in Nat /\ data_tail' \in Nat /\ data_head \in Nat /\ data_tail <= data_tail'
  BY <1>1, <1>3, TailBehind, RecordType DEF Types, End
<1>5. Types'
  <2>1. frame' \in Nat /\ taken' \in Nat /\ \A k \in DOMAIN copy' : copy'[k] \in Words
    BY <1>1, <1>3
  <2> QED  BY <1>1, <1>4, <2>1 DEF Types, StringFits
<1>6. Layout'
  <2>0. published < Len(records) \/ published = Len(records)
    <3>1. published \in Nat /\ Len(records) \in Nat /\ published <= Len(records)
      BY <1>3
    <3> QED  BY <3>1
  <2>1. taken' <= published
    BY <1>1, <1>3
  <2>2. taken' < Len(records) => data_tail' = records[taken' + 1].at
    <3> SUFFICES ASSUME taken + 1 < Len(records)
                 PROVE  data_tail' = records[(taken + 1) + 1].at
      BY <1>1
    <3>1. (taken + 1) + 1 \in DOMAIN records
      BY <1>3
    <3>2. records[(taken + 1) + 1].at = End(taken + 1)
      BY <1>3, <3>1 DEF Layout
    <3> QED  BY <1>4, <3>2
  <2>3. taken' = published => data_tail' = data_head
    <3> SUFFICES ASSUME taken + 1 = published
                 PROVE  data_tail' = data_head
      BY <1>1
    <3>1. CASE published < Len(records)
      BY <1>1, <1>3, <2>2, <3>1 DEF Layout
    <3>2. CASE published = Len(records)
      <4>1. data_head = End(published)
        BY <1>3, <3>2 DEF Layout
      <4> QED  BY <1>4, <4>1
    <3> QED  BY <2>0, <3>1, <3>2
  <2> QED  BY <1>1, <2>1, <2>2, <2>3 DEF Layout, End
<1>7. Contents'
  <2>1. \A r \in DOMAIN records : End(r) - data_tail' < Size
    <3>1. \A r \in DOMAIN records : End(r) \in Nat /\ End(r) - data_tail < Size
      BY RecordType DEF Contents
    <3> QED  BY <1>4, <3>1, PerfRingAssumption
  <2>2. data_head - data_tail' < Size
    BY <1>4, PerfRingAssumption DEF Contents
  <2>3. \A r \in DOMAIN records : r > taken' => r > taken
    BY <1>1, <1>3
  <2> QED  BY <1>1, <2>1, <2>2, <2>3 DEF Contents, End
<1>8. Current'
  BY <1>2 DEF Current
<1>9. Told'
  <2>1. \A i \in DOMAIN out : out[i][1] \in 1 .. taken + 1
    BY DEF Told
  <2>2. OnlySamples'
    BY <1>1 DEF Told, OnlySamples, Samples, AddressesOf, Before
  <2> QED  BY <1>1, <1>3, <2>1, <2>2 DEF Told
<1>10. Complete'
  <2> SUFFICES ASSUME ~nomem
               PROVE  Complete'
    BY <1>1 DEF Complete
  <2>1. \A r \in 1 .. taken : AddressesOf(r) \subseteq Range(out)
    BY DEF Complete
  <2>2. AddressesOf(taken + 1) \subseteq Range(out)
    <3>1. taken + 1 \in Samples /\ records[taken + 1].nr <= Limit =>
            /\ frame = records[taken + 1].nr
            /\ \A k \in 1 .. frame : <<taken + 1, <<taken + 1, k + 1>>>> \in Range(out)
      BY <1>1, <1>2 DEF Current, Complete
    <3> QED  BY <3>1 DEF AddressesOf
  <2>3. \A r \in 1 .. taken' : r \in 1 .. taken \/ r = taken + 1
    BY <1>1, <1>3
  <2>4. \A r : AddressesOf(r)' = AddressesOf(r)
    BY <1>1 DEF AddressesOf, Samples
  <2> QED  BY <1>1, <1>2, <2>1, <2>2, <2>3, <2>4 DEF Complete
<1> QED  BY <1>5, <1>6, <1>7, <1>8, <1>9, <1>10

-----------------------------------------------------------------------------
LEMMA IInvInductive == IInv /\ [Next]_vars => IInv'
<1> SUFFICES ASSUME IInv, [Next]_vars
             PROVE  IInv'
  OBVIOUS
<1>1. CASE UNCHANGED vars
  <2>1. /\ UNCHANGED <<ring, records, published, data_head, data_tail, pc, head, size, copy, frame>>
        /\ UNCHANGED <<string, out, nomem, taken>>
    BY <1>1 DEF vars, kernelVars, stringVars
  <2>2. Types' /\ Layout' /\ Contents'
    BY <2>1 DEF IInv, Types, Layout, Contents, StringFits, End
  <2>3. Current'
    BY <2>1 DEF IInv, Current, Reading, Location, Samples
  <2>4. Told' /\ Complete'
    BY <2>1 DEF IInv, Told, Complete, Reading, Samples, OnlySamples, AddressesOf, Before
  <2> QED  BY <2>2, <2>3, <2>4 DEF IInv
<1>2. CASE Next
  BY <1>2, KernelWriteKeeps, KernelPublishKeeps, CallKeeps, FetchKeeps, SkipKeeps, AppendSymbolKeeps,
     AppendBarKeeps, ReleaseKeeps DEF Next, GetCallchains
<1> QED  BY <1>1, <1>2

LEMMA IInvAlways == Spec => []IInv
  BY IInvInit, IInvInductive, PTL DEF Spec

\* The buffer and get_callchains' place in it are of their types: data_tail never
\* passes data_head, nor is the buffer ever full (perf.c:555-604).
THEOREM TypeCorrect == Spec => []TypeOK
<1>1. IInv => TypeOK
  <2> SUFFICES ASSUME IInv
               PROVE  TypeOK
    OBVIOUS
  <2>1. \A i \in DOMAIN ring : ring[i][1] \in 0 .. Len(records)
    BY RecordType DEF IInv, Types, Words
  <2>2. published \in {Len(records), Len(records) - 1}
    BY RecordType DEF IInv, Types
  <2>3. data_tail <= data_head /\ data_head - data_tail < Size
    BY TailBehind DEF IInv, Contents
  <2>4. string.size \in Nat /\ string.used \in Nat
    BY DEF IInv, Types
  <2> QED  BY <2>1, <2>2, <2>3, <2>4 DEF IInv, Types, Layout, TypeOK
<1> QED  BY IInvAlways, <1>1, PTL

\* However the kernel writes on while get_callchains reads, what it tells of a
\* sample are that sample's addresses, in order and without repetition, wherever
\* the end of the buffer cuts it (perf.c:575-602).
THEOREM SamplesAreTold == Spec => []OnlySamples
<1>1. IInv => OnlySamples
  BY DEF IInv, Told
<1> QED  BY IInvAlways, <1>1, PTL

\* A sample is given back to the kernel only when all of its addresses are told,
\* and data_tail is then at the beginning of a record (perf.c:591-598).
THEOREM NothingIsSkipped == Spec => []NothingSkipped
<1>1. IInv => NothingSkipped
  <2> SUFFICES ASSUME IInv
               PROVE  NothingSkipped
    OBVIOUS
  <2>1. pc # "idle" \/ taken = published \/ data_tail = records[taken + 1].at
    BY RecordType DEF IInv, Types, Layout
  <2> QED  BY <2>1 DEF IInv, Complete, NothingSkipped
<1> QED  BY IInvAlways, <1>1, PTL

\* A string and its terminating zero stay within the allocation, for any length
\* of symbol, and when it cannot grow (util.c:58-78).
THEOREM StringAlwaysFits == Spec => []StringFits
<1>1. IInv => StringFits
  BY DEF IInv, Types
<1> QED  BY IInvAlways, <1>1, PTL

-----------------------------------------------------------------------------
\* A record is read from what data_head has covered when the call began, and no
\* more of its addresses are taken than the limit.
Bounded == Reading => data_tail < head /\ frame <= Limit

\* The steps a record can take: its header, its addresses, its end, its release.
PerRecord == Limit + 3
Unread    == head - data_tail

\* The steps a call of get_callchains can still take, at most.
StepsLeft ==
    CASE pc = "idle"                              -> 0
      [] pc = "record" /\ data_tail >= head       -> 1
      [] pc = "record" /\ data_tail < head        -> Unread * PerRecord + 1
      [] pc = "symbols"                           -> Unread * PerRecord - frame
      [] pc = "release"                           -> Unread * PerRecord - Limit - 1

LEMMA BoundedInit == Init => Bounded
  BY DEF Init, Bounded, Reading

LEMMA BoundedInductive == IInv /\ Bounded /\ [Next]_vars => Bounded'
<1> SUFFICES ASSUME IInv, Bounded, [Next]_vars
             PROVE  Bounded'
  OBVIOUS
<1> USE DEF Bounded, Reading
<1>1. /\ Limit \in Nat /\ frame \in Nat
      /\ NrIn(Word(1)) \in Nat
  BY WordType, PerfRingAssumption DEF IInv, Types
<1>2. CASE KernelWrite   BY <1>2 DEF KernelWrite
<1>3. CASE KernelPublish BY <1>3 DEF KernelPublish
<1>4. CASE Begin         BY <1>4 DEF Begin
<1>5. CASE Return        BY <1>5 DEF Return
<1>6. CASE Fetch         BY <1>1, <1>6 DEF Fetch
<1>7. CASE Skip          BY <1>7 DEF Skip
<1>8. CASE AppendSymbol
  <2>1. /\ pc = "symbols" /\ frame < NrIn(Word(1)) /\ NrIn(Word(1)) <= Limit
        /\ frame' = frame + 1 /\ pc' = pc /\ data_tail' = data_tail /\ head' = head
    BY <1>8 DEF AppendSymbol, Symbolised
  <2> QED  BY <1>1, <2>1
<1>9. CASE AppendBar     BY <1>9 DEF AppendBar
<1>10. CASE Release      BY <1>10 DEF Release
<1>11. CASE UNCHANGED vars
  BY <1>11 DEF vars
<1> QED  BY <1>2, <1>3, <1>4, <1>5, <1>6, <1>7, <1>8, <1>9, <1>10, <1>11 DEF Next, GetCallchains

LEMMA BoundedAlways == Spec => []Bounded
  BY IInvAlways, BoundedInit, BoundedInductive, PTL DEF Spec

\* A word less to read is the steps of a record less.
LEMMA Fewer ==
    ASSUME NEW w \in Nat, NEW a \in Int, NEW b \in Int, a < b
    PROVE  a * w \in Int /\ b * w \in Int /\ a * w + w <= b * w
<1>1. PICK c \in Nat : b = a + 1 + c
  <2>1. b - a - 1 \in Nat /\ b = a + 1 + (b - a - 1)
    OBVIOUS
  <2> QED  BY <2>1
<1>2. b * w = a * w + w + c * w
  BY <1>1
<1>3. c * w \in Nat /\ a * w \in Int
  OBVIOUS
<1> QED  BY <1>2, <1>3

\* What the steps of a call do to their count.
LEMMA StepsLeftIs ==
    ASSUME IInv, Bounded
    PROVE  /\ StepsLeft \in Nat
           /\ StepsLeft <= Size * PerRecord
<1>1. /\ Limit \in Nat /\ PerRecord \in Nat /\ PerRecord = Limit + 3 /\ frame \in Nat
      /\ head \in Nat /\ data_tail \in Nat /\ data_head \in Nat /\ Size \in Nat \ {0}
      /\ Unread \in Int /\ Unread < Size
      /\ pc \in {"idle", "record", "symbols", "release"}
  BY PerfRingAssumption DEF IInv, Types, Layout, Contents, PerRecord, Unread
<1> DEFINE pending == Unread * PerRecord
           whole   == Size * PerRecord
<1>2. pending \in Int /\ whole \in Int /\ pending + PerRecord <= whole
  BY <1>1, Fewer
<1>3. data_tail < head => 0 < Unread
  BY <1>1 DEF Unread
<1>4. data_tail < head => pending >= PerRecord
  <2>1. 0 < Unread => 0 * PerRecord + PerRecord <= pending
    BY <1>1, Fewer
  <2>2. 0 * PerRecord = 0
    BY <1>1
  <2> QED  BY <1>1, <1>2, <1>3, <2>1, <2>2
<1>5. whole >= PerRecord
  <2>1. 0 * PerRecord + PerRecord <= whole
    BY <1>1, Fewer
  <2>2. 0 * PerRecord = 0
    BY <1>1
  <2> QED  BY <1>1, <1>2, <2>1, <2>2
<1>6. StepsLeft =
    CASE pc = "idle"                              -> 0
      [] pc = "record" /\ data_tail >= head       -> 1
      [] pc = "record" /\ data_tail < head        -> pending + 1
      [] pc = "symbols"                           -> pending - frame
      [] pc = "release"                           -> pending - Limit - 1
  BY DEF StepsLeft
<1> HIDE DEF pending, whole
<1>7. StepsLeft \in Nat /\ StepsLeft <= whole
  <2>1. CASE pc = "idle"                         BY <1>1, <1>2, <1>5, <1>6, <2>1
  <2>2. CASE pc = "record" /\ data_tail >= head  BY <1>1, <1>2, <1>5, <1>6, <2>2
  <2>3. CASE pc = "record" /\ data_tail < head   BY <1>1, <1>2, <1>4, <1>6, <2>3
  <2>4. CASE pc = "symbols"
    <3>1. data_tail < head /\ frame <= Limit
      BY <2>4 DEF Bounded, Reading
    <3> QED  BY <1>1, <1>2, <1>4, <1>6, <2>4, <3>1
  <2>5. CASE pc = "release"
    <3>1. data_tail < head
      BY <2>5 DEF Bounded, Reading
    <3> QED  BY <1>1, <1>2, <1>4, <1>6, <2>5, <3>1
  <2> QED  BY <1>1, <2>1, <2>2, <2>3, <2>4, <2>5
<1> QED  BY <1>7 DEF whole

LEMMA CallStepCounts ==
    ASSUME IInv, Bounded, pc # "idle", GetCallchains
    PROVE  StepsLeft' < StepsLeft
<1>1. /\ Limit \in Nat /\ PerRecord \in Nat /\ PerRecord = Limit + 3 /\ frame \in Nat
      /\ head \in Nat /\ data_tail \in Nat /\ size \in Nat /\ Unread \in Int
      /\ NrIn(Word(1)) \in Nat
  BY WordType, PerfRingAssumption DEF IInv, Types, PerRecord, Unread
<1>2. Unread * PerRecord \in Int
  BY <1>1
<1>3. CASE Return
  <2>1. pc = "record" /\ data_tail >= head /\ pc' = "idle"
    BY <1>3 DEF Return
  <2> QED  BY <2>1, <1>1 DEF StepsLeft
<1>4. ASSUME UNCHANGED <<data_tail, head>>
      PROVE  Unread' * PerRecord = Unread * PerRecord
  BY <1>4 DEF Unread
<1> DEFINE pending == Unread * PerRecord
           pending2 == Unread' * PerRecord
<1>5. StepsLeft =
    CASE pc = "idle"                              -> 0
      [] pc = "record" /\ data_tail >= head       -> 1
      [] pc = "record" /\ data_tail < head        -> pending + 1
      [] pc = "symbols"                           -> pending - frame
      [] pc = "release"                           -> pending - Limit - 1
  BY DEF StepsLeft
<1>6. StepsLeft' =
    CASE pc' = "idle"                             -> 0
      [] pc' = "record" /\ data_tail' >= head'    -> 1
      [] pc' = "record" /\ data_tail' < head'     -> pending2 + 1
      [] pc' = "symbols"                          -> pending2 - frame'
      [] pc' = "release"                          -> pending2 - Limit - 1
  BY DEF StepsLeft, PerRecord
<1>7. pending \in Int /\ (UNCHANGED <<data_tail, head>> => pending2 = pending)
  BY <1>2, <1>4
<1>8. CASE Release
  <2>1. /\ pc = "release" /\ pc' = "record" /\ data_tail' = data_tail + size /\ head' = head
        /\ data_tail < head
    BY <1>8 DEF Release, Bounded, Reading
  <2>2. size \in Nat \ {0}
    BY <2>1, RecordType DEF IInv, Current, Reading, Types
  <2>3. Unread' \in Int /\ Unread' < Unread /\ 0 < Unread
    BY <1>1, <2>1, <2>2 DEF Unread
  <2>4. pending2 \in Int /\ pending2 + PerRecord <= pending
    BY <1>1, <2>3, Fewer
  <2>5. PerRecord <= pending
    <3>1. 0 * PerRecord + PerRecord <= pending
      BY <1>1, <2>3, Fewer
    <3>2. 0 * PerRecord = 0
      BY <1>1
    <3> QED  BY <1>1, <1>7, <3>1, <3>2
  <2> HIDE DEF pending, pending2
  <2>6. StepsLeft = pending - Limit - 1
    BY <1>5, <2>1
  <2>7. StepsLeft' = 1 \/ StepsLeft' = pending2 + 1
    BY <1>1, <1>6, <2>1, <2>2
  <2> QED  BY <1>1, <1>7, <2>4, <2>5, <2>6, <2>7
<1> HIDE DEF pending, pending2
<1>9. CASE Fetch
  <2>1. /\ pc = "record" /\ data_tail < head /\ pc' = "symbols" /\ frame' = 0
        /\ data_tail' = data_tail /\ head' = head
    BY <1>9 DEF Fetch, kernelVars
  <2> QED  BY <1>1, <1>5, <1>6, <1>7, <2>1
<1>10. CASE Skip
  <2>1. /\ pc = "symbols" /\ pc' = "release" /\ frame' = frame
        /\ data_tail' = data_tail /\ head' = head /\ frame <= Limit
    BY <1>10 DEF Skip, Bounded, Reading
  <2> QED  BY <1>1, <1>5, <1>6, <1>7, <2>1
<1>11. CASE AppendSymbol
  <2>1. /\ pc = "symbols" /\ pc' = pc /\ frame' = frame + 1
        /\ data_tail' = data_tail /\ head' = head
    BY <1>11 DEF AppendSymbol
  <2> QED  BY <1>1, <1>5, <1>6, <1>7, <2>1
<1>12. CASE AppendBar
  <2>1. /\ pc = "symbols" /\ pc' = "release" /\ frame' = frame
        /\ data_tail' = data_tail /\ head' = head /\ frame <= Limit
    BY <1>12 DEF AppendBar, Bounded, Reading
  <2> QED  BY <1>1, <1>5, <1>6, <1>7, <2>1
<1>13. ~Begin
  BY DEF Begin
<1> QED  BY <1>3, <1>8, <1>9, <1>10, <1>11, <1>12, <1>13 DEF GetCallchains

\* The kernel's writes do not prolong a call: the head was read once.
LEMMA KernelDoesNotProlong ==
    ASSUME KernelWrite \/ KernelPublish \/ UNCHANGED vars
    PROVE  StepsLeft' = StepsLeft
<1>1. pc' = pc /\ head' = head /\ data_tail' = data_tail /\ frame' = frame
  BY DEF KernelWrite, KernelPublish, vars
<1> QED  BY <1>1 DEF StepsLeft, Unread, PerRecord

\* A call of get_callchains ends however fast the kernel writes on: it reads what
\* data_head covered when it began, each of its records in no more steps than the
\* limit has addresses, and nothing the kernel does meanwhile makes it longer.  A
\* record whose size were read as zero would hold it for ever (perf.c:558-600).
THEOREM CallEnds ==
    Spec => [][/\ StepsLeft \in 0 .. Size * PerRecord
               /\ pc # "idle" /\ GetCallchains => StepsLeft' < StepsLeft
               /\ pc # "idle" /\ ~GetCallchains => StepsLeft' = StepsLeft]_vars
<1> DEFINE Counts == /\ StepsLeft \in 0 .. Size * PerRecord
                     /\ pc # "idle" /\ GetCallchains => StepsLeft' < StepsLeft
                     /\ pc # "idle" /\ ~GetCallchains => StepsLeft' = StepsLeft
<1>1. IInv /\ Bounded /\ [Next]_vars => [Counts]_vars
  <2> SUFFICES ASSUME IInv, Bounded, [Next]_vars
               PROVE  Counts
    OBVIOUS
  <2>1. Size * PerRecord \in Int
    BY PerfRingAssumption DEF PerRecord
  <2>2. StepsLeft \in 0 .. Size * PerRecord
    BY <2>1, StepsLeftIs
  <2>3. pc # "idle" /\ GetCallchains => StepsLeft' < StepsLeft
    BY CallStepCounts
  <2>4. pc # "idle" /\ ~GetCallchains => StepsLeft' = StepsLeft
    BY KernelDoesNotProlong DEF Next
  <2> QED  BY <2>2, <2>3, <2>4
<1> QED  BY <1>1, IInvAlways, BoundedAlways, PTL DEF Spec
=============================================================================
