------------------------- MODULE PerfContextsProofs -------------------------
(***************************************************************************)
(* Proofs about what the actor of PerfGroups holds, for any slots, events  *)
(* and bounds: whatever call of the set-up or of a payload fails, each     *)
(* context is freed once, and no context and no listed descriptor is left. *)
(***************************************************************************)
EXTENDS PerfGroupsProofs, FiniteSetTheorems, SequenceTheorems

\* TypeOK, a variable at a time.
Types ==
    /\ pc \in {"start", "group", "pkg", "cpu", "open", "enable", "idle", "read", "reset", "send",
               "error", "cleanup", "exited", "undefined"}
    /\ at \in DOMAIN Slots
    /\ fd \in [Fds -> {"free", "cgroup", "perf", "unlisted", "other"}]
    /\ cgroup_fd \in Fds \union {0}
    /\ locals \in [Levels -> Contexts \union {<<>>}]
    /\ ctx \in [Contexts -> {"none", "fresh", "stored", "freed"}]
    /\ perf_fds \in [SlotSet -> Seq(Fds)]
    /\ mapped \subseteq SlotSet
    /\ ticks \in Nat
    /\ foreign \in BOOLEAN /\ twice \in BOOLEAN /\ nomem \in BOOLEAN

Live(c) == ctx[c] \in {"fresh", "stored"}
Fresh   == {c \in Contexts : ctx[c] = "fresh"}

SettingUp == {"start", "group", "pkg", "cpu", "open", "error"}
Ending    == {"cleanup", "exited", "undefined"}

\* The contexts that are in no table yet are those of the loops that run, and
\* the pointers of the loops point to them.
Pointed(levels) ==
    /\ Fresh = {ContextAt(level) : level \in levels}
    /\ \A level \in levels : locals[level] = ContextAt(level)

\* In a failed set-up, a pointer that does not point to a fresh context is null,
\* or it is an allocation that has failed.
Places ==
    /\ pc = "start" => locals = [level \in Levels |-> <<>>] /\ cgroup_fd = 0
    /\ pc \notin SettingUp \ {"start", "group"} => Fresh = {}
    /\ pc = "pkg"   => Pointed({"group"})
    /\ pc = "cpu"   => Pointed({"group", "pkg"})
    /\ pc = "open"  => Pointed(Levels)
    /\ pc = "error" =>
          /\ \A c \in Fresh : \E level \in Levels : locals[level] = c
          /\ nomem \/ locals = [level \in Levels |-> <<>>] \/ Pointed(Levels)

\* A context that is not freed is in the table of one that is not freed.
Ancestor(c, n) == SubSeq(c, 1, n)
Rooted == \A c \in Contexts : Live(c) => \A n \in 1 .. Len(c) : Live(Ancestor(c, n))

Freed ==
    /\ pc \notin Ending => \A c \in Contexts : ctx[c] # "freed"
    /\ pc = "exited" => \A c \in Contexts : ~Live(c)
    /\ twice => pc = "undefined" /\ nomem

\* The descriptors of the events are those of the contexts that are not freed.
Descriptors ==
    /\ \A s \in SlotSet : ctx[s] = "none" => perf_fds[s] = <<>>
    /\ \A s \in SlotSet : Live(s) => \A n \in Range(perf_fds[s]) : fd[n] = "perf"
    /\ \A s, t \in SlotSet : Live(s) /\ Live(t) /\ s # t =>
          Range(perf_fds[s]) \intersect Range(perf_fds[t]) = {}
    /\ \A n \in Fds : fd[n] = "perf" => \E s \in SlotSet : Live(s) /\ n \in Range(perf_fds[s])
    /\ \A s \in SlotSet : s \in mapped <=> HasCgroup /\ perf_fds[s] # <<>>

\* The number of the cgroup's descriptor may be closed twice, and be that of
\* another thread by then, at the end of a failed set-up only.
Cgroup ==
    /\ \A n \in Fds : fd[n] = "cgroup" => n = cgroup_fd
    /\ cgroup_fd # 0 =>
          /\ HasCgroup
          /\ \/ fd[cgroup_fd] = "cgroup" /\ pc # "exited"
             \/ pc \in Ending /\ fd[cgroup_fd] \in {"free", "other"} /\ (pc = "cleanup" => ticks = 0)
    /\ pc \in SettingUp => ticks = 0
    /\ foreign => HasCgroup /\ pc \in {"exited", "undefined"} /\ ticks = 0

Holding == Types /\ Places /\ Rooted /\ Freed /\ Descriptors /\ Cgroup

-----------------------------------------------------------------------------
\* Contexts are sequences of one to three names, and every prefix of one is one.
Names == UNION {Range(s) : s \in SlotSet}

LEMMA Slices ==
    ASSUME NEW c \in Seq(Names), NEW n \in 1 .. Len(c)
    PROVE  /\ Ancestor(c, n) \in Seq(Names) /\ Len(Ancestor(c, n)) = n
           /\ \A i \in 1 .. n : Ancestor(c, n)[i] = c[i]
           /\ Ancestor(c, n) # <<>>
<1>1. n \in Int /\ 1 \in Int /\ 1 <= n /\ n - 1 + 1 = n /\ Len(c) \in Nat
  BY LenProperties
<1>2. \A i \in 1 .. n : c[i] \in Names
  BY <1>1, ElementOfSeq
<1>3. /\ Ancestor(c, n) \in Seq(Names) /\ Len(Ancestor(c, n)) = n
      /\ \A i \in 1 .. n : Ancestor(c, n)[i] = c[1 + i - 1]
  BY <1>1, <1>2, SubSeqProperties DEF Ancestor
<1> QED  BY <1>1, <1>3, EmptySeq

LEMMA SlicesOfSlices ==
    ASSUME NEW c \in Seq(Names), NEW n \in 1 .. Len(c), NEW m \in 1 .. n
    PROVE  Ancestor(Ancestor(c, n), m) = Ancestor(c, m)
<1>1. m \in 1 .. Len(c) /\ Len(c) \in Nat
  BY LenProperties
<1>2. Ancestor(c, n) \in Seq(Names) /\ Len(Ancestor(c, n)) = n
  BY Slices
<1> DEFINE a == Ancestor(Ancestor(c, n), m)
           b == Ancestor(c, m)
<1>3. a \in Seq(Names) /\ b \in Seq(Names) /\ Len(a) = m /\ Len(b) = m
  BY <1>1, <1>2, Slices
<1>4. \A i \in 1 .. m : a[i] = b[i]
  <2>1. \A i \in 1 .. m : a[i] = Ancestor(c, n)[i] /\ i \in 1 .. n
    BY <1>2, Slices
  <2>2. \A i \in 1 .. m : b[i] = c[i]
    BY <1>1, Slices
  <2>3. \A i \in 1 .. n : Ancestor(c, n)[i] = c[i]
    BY Slices
  <2> QED  BY <2>1, <2>2, <2>3
<1> HIDE DEF a, b
<1>5. a = b
  BY <1>3, <1>4, SeqEqual
<1> QED  BY <1>5 DEF a, b

LEMMA WholeSlice ==
    ASSUME NEW c \in Seq(Names), c # <<>>
    PROVE  Ancestor(c, Len(c)) = c
<1>1. Len(c) \in 1 .. Len(c)
  BY LenProperties, EmptySeq
<1>2. /\ Ancestor(c, Len(c)) \in Seq(Names) /\ Len(Ancestor(c, Len(c))) = Len(c)
      /\ \A i \in 1 .. Len(c) : Ancestor(c, Len(c))[i] = c[i]
  BY <1>1, Slices
<1> QED  BY <1>2, SeqEqual

LEMMA SlotPaths ==
    ASSUME NEW s \in SlotSet
    PROVE  /\ s \in Seq(Names) /\ Len(s) = 3 /\ s # <<>>
           /\ GroupOf(s) \in Contexts /\ PkgOf(s) \in Contexts /\ s \in Contexts
           /\ Len(GroupOf(s)) = 1 /\ Len(PkgOf(s)) = 2
           /\ Ancestor(s, 1) = GroupOf(s) /\ Ancestor(s, 2) = PkgOf(s) /\ Ancestor(s, 3) = s
           /\ Ancestor(PkgOf(s), 1) = GroupOf(s)
           /\ Ancestor(PkgOf(s), 2) = PkgOf(s) /\ Ancestor(GroupOf(s), 1) = GroupOf(s)
<1>0. Ancestor(s, 1) = GroupOf(s) /\ Ancestor(s, 2) = PkgOf(s)
  BY DEF Ancestor, GroupOf, PkgOf
<1>1. s \in Seq(Range(s)) /\ Len(s) = 3
  BY SlotsAssumption
<1>2. s \in Seq(Names) /\ s # <<>>
  <2>1. \A i \in 1 .. 3 : s[i] \in Names
    BY <1>1, ElementOfSeq DEF Names
  <2>2. s = [i \in 1 .. 3 |-> s[i]]
    BY <1>1, LenProperties
  <2> QED  BY <1>1, <2>1, <2>2, EmptySeq
<1>3. GroupOf(s) \in Contexts /\ PkgOf(s) \in Contexts /\ s \in Contexts
  BY DEF Contexts
<1>4. 1 \in 1 .. Len(s) /\ 2 \in 1 .. Len(s) /\ 3 \in 1 .. Len(s) /\ 1 \in 1 .. 2 /\ 1 \in 1 .. 1 /\ 2 \in 1 .. 2
  BY <1>1
<1>5. Len(GroupOf(s)) = 1 /\ Len(PkgOf(s)) = 2
  <2>1. Len(Ancestor(s, 1)) = 1 /\ Len(Ancestor(s, 2)) = 2
    BY <1>2, <1>4, Slices
  <2> QED  BY <1>0, <2>1
<1>6. Ancestor(PkgOf(s), 1) = GroupOf(s) /\ Ancestor(PkgOf(s), 2) = PkgOf(s) /\ Ancestor(GroupOf(s), 1) = GroupOf(s)
  BY <1>2, <1>4, SlicesOfSlices DEF GroupOf, PkgOf, Ancestor, Ancestor
<1>7. Ancestor(s, 3) = s
  BY <1>1, <1>2, WholeSlice
<1> QED  BY <1>0, <1>1, <1>2, <1>3, <1>5, <1>6, <1>7

\* The contexts, without their definition.
LEMMA Paths ==
    ASSUME NEW c \in Contexts
    PROVE  /\ c \in Seq(Names) /\ Len(c) \in 1 .. 3 /\ c # <<>>
           /\ Ancestor(c, Len(c)) = c
           /\ \A n \in 1 .. Len(c) : Ancestor(c, n) \in Contexts /\ Len(Ancestor(c, n)) = n
           /\ \A n \in 1 .. Len(c) : \A m \in 1 .. n : Ancestor(Ancestor(c, n), m) = Ancestor(c, m)
<1>1. PICK s \in SlotSet : c \in {GroupOf(s), PkgOf(s), s}
  BY DEF Contexts
<1>2. /\ s \in Seq(Names) /\ Len(s) = 3 /\ 1 \in 1 .. Len(s) /\ 2 \in 1 .. Len(s) /\ 3 \in 1 .. Len(s)
  <2>1. s \in Seq(Names) /\ Len(s) = 3
    BY SlotPaths
  <2> QED  BY <2>1
<1>3. PICK k \in 1 .. 3 : c = Ancestor(s, k)
  BY <1>1, SlotPaths
<1>4. c \in Seq(Names) /\ Len(c) = k /\ c # <<>>
  BY <1>2, <1>3, Slices
<1>5. Ancestor(c, Len(c)) = c
  BY <1>4, WholeSlice
<1>6. ASSUME NEW n \in 1 .. Len(c)
      PROVE  Ancestor(c, n) \in Contexts /\ Len(Ancestor(c, n)) = n
  <2>1. Ancestor(c, n) = Ancestor(s, n)
    BY <1>2, <1>3, <1>4, SlicesOfSlices
  <2>2. n \in {1, 2, 3}
    BY <1>4
  <2> QED  BY <2>1, <2>2, <1>4, Slices, SlotPaths
<1>7. \A n \in 1 .. Len(c) : \A m \in 1 .. n : Ancestor(Ancestor(c, n), m) = Ancestor(c, m)
  BY <1>4, SlicesOfSlices
<1> QED  BY <1>4, <1>5, <1>6, <1>7

LEMMA OwnedPaths ==
    ASSUME NEW state, NEW c \in Contexts, NEW d
    PROVE  d \in Owned(state, c) <=>
               /\ d \in Contexts /\ Len(c) <= Len(d) /\ Ancestor(d, Len(c)) = c
               /\ \A n \in 1 .. Len(d) : n > Len(c) => state[Ancestor(d, n)] = "stored"
<1>1. Ancestor(c, Len(c)) = c /\ Len(c) \in 1 .. 3
  BY Paths
<1>2. \A e \in Contexts : Len(e) \in 1 .. 3
  BY Paths
<1> QED  BY <1>1, <1>2 DEF Owned, IsPrefix, Ancestor

\* Destroying contexts frees none twice when they are distinct, not freed, and
\* none is in the table of another.
LEMMA NoneTwice ==
    ASSUME NEW state, NEW cs, NEW len \in Nat, DOMAIN cs = 1 .. len,
           \A k \in 1 .. len : cs[k] = <<>> \/ (cs[k] \in Contexts /\ state[cs[k]] # "freed"),
           \A i, k \in 1 .. len : i # k /\ cs[i] # <<>> /\ cs[k] # <<>> =>
               /\ cs[i] # cs[k]
               /\ Len(cs[i]) < Len(cs[k]) =>
                      state[cs[k]] # "stored" \/ Ancestor(cs[k], Len(cs[i])) # cs[i]
    PROVE  ~DestroysTwice(state, cs)
<1>1. ASSUME NEW a \in Contexts, NEW b \in Contexts, NEW d, Len(b) < Len(a),
             d \in Owned(state, a), d \in Owned(state, b)
      PROVE  state[a] = "stored" /\ Ancestor(a, Len(b)) = b
  <2>1. /\ d \in Contexts /\ Ancestor(d, Len(a)) = a /\ Ancestor(d, Len(b)) = b
        /\ Len(a) <= Len(d)
        /\ \A n \in 1 .. Len(d) : n > Len(b) => state[Ancestor(d, n)] = "stored"
    BY <1>1, OwnedPaths
  <2>2. Len(a) \in 1 .. Len(d) /\ Len(b) \in 1 .. Len(a)
    BY <1>1, <2>1, Paths
  <2>3. Ancestor(Ancestor(d, Len(a)), Len(b)) = Ancestor(d, Len(b))
    BY <2>1, <2>2, Paths
  <2> QED  BY <1>1, <2>1, <2>2, <2>3
<1>2. ASSUME NEW a \in Contexts, NEW b \in Contexts, NEW d, Len(b) = Len(a),
             d \in Owned(state, a), d \in Owned(state, b)
      PROVE  a = b
  BY <1>2, OwnedPaths
<1> SUFFICES ASSUME NEW k \in 1 .. len, cs[k] # <<>>,
                    NEW i \in 1 .. k - 1, cs[i] # <<>>,
                    NEW d, d \in Owned(state, cs[k]), d \in Owned(state, cs[i])
             PROVE  FALSE
  BY DEF DestroysTwice
<1>3. i \in 1 .. len /\ i # k /\ cs[i] \in Contexts /\ cs[k] \in Contexts
  OBVIOUS
<1>4. Len(cs[i]) \in 1 .. 3 /\ Len(cs[k]) \in 1 .. 3
  BY <1>3, Paths
<1> DEFINE a == cs[i]
           b == cs[k]
<1>5. a \in Contexts /\ b \in Contexts /\ d \in Owned(state, a) /\ d \in Owned(state, b) /\ a # b
  BY <1>3
<1> HIDE DEF a, b
<1>6. CASE Len(a) = Len(b)
  BY <1>2, <1>5, <1>6
<1>7. CASE Len(a) < Len(b)
  <2>1. state[b] = "stored" /\ Ancestor(b, Len(a)) = a
    BY <1>1, <1>5, <1>7
  <2> QED  BY <1>3, <1>7, <2>1 DEF a, b
<1>8. CASE Len(b) < Len(a)
  <2>1. state[a] = "stored" /\ Ancestor(a, Len(b)) = b
    BY <1>1, <1>5, <1>8
  <2> QED  BY <1>3, <1>8, <2>1 DEF a, b
<1> QED  BY <1>4, <1>6, <1>7, <1>8 DEF a, b

\* A finite set as a sequence: each element once.
LEMMA SetAsSeq ==
    ASSUME NEW S, IsFiniteSet(S)
    PROVE  /\ Cardinality(S) \in Nat /\ DOMAIN SetToSeq(S) = 1 .. Cardinality(S)
           /\ \A i \in 1 .. Cardinality(S) : SetToSeq(S)[i] \in S
           /\ \A x \in S : \E i \in 1 .. Cardinality(S) : SetToSeq(S)[i] = x
           /\ \A i, j \in 1 .. Cardinality(S) : SetToSeq(S)[i] = SetToSeq(S)[j] => i = j
           /\ SetToSeq(S) \in Seq(S) /\ Len(SetToSeq(S)) = Cardinality(S)
<1> DEFINE n == Cardinality(S)
<1>1. n \in Nat /\ ExistsBijection(1 .. n, S)
  BY FS_CardinalityType
<1>2. PICK g \in Bijection(1 .. n, S) : TRUE
  BY <1>1 DEF ExistsBijection
<1>3. g \in [1 .. n -> S] /\ IsInjective(g)
  BY <1>2 DEF Bijection, Injection, IsInjective
<1> DEFINE f == SetToSeq(S)
<1>4. f \in [1 .. n -> S] /\ IsInjective(f)
  BY <1>3 DEF SetToSeq
<1> HIDE DEF f
<1>5. f \in Injection(1 .. n, S)
  BY <1>4 DEF Injection, IsInjective
<1>6. IsFiniteSet(1 .. n) /\ Cardinality(1 .. n) = n
  BY <1>1, FS_Interval
<1>7. f \in Surjection(1 .. n, S)
  BY <1>5, <1>6, FS_Injection
<1>8. f \in Seq(S) /\ Len(f) = n
  BY <1>1, <1>4, SeqDef
<1> QED  BY <1>1, <1>4, <1>7, <1>8 DEF IsInjective, Surjection, f

-----------------------------------------------------------------------------
LEMMA InitHolds == Init => Holding
<1> SUFFICES ASSUME Init PROVE Holding
  OBVIOUS
<1> USE DEF Init
<1>1. Types
  <2>1. at \in DOMAIN Slots /\ <<>> \in Seq(Fds)
    BY SlotsAreDistinct, EmptySeq
  <2>2. locals = [level \in Levels |-> <<>>]
    BY DEF Levels
  <2>3. perf_fds \in [SlotSet -> Seq(Fds)]
    BY <2>1
  <2> QED  BY <2>1, <2>2, <2>3 DEF Types
<1>2. Places
  <2>1. locals = [level \in Levels |-> <<>>] /\ Fresh = {}
    BY DEF Levels, Fresh
  <2> QED  BY <2>1 DEF Places, SettingUp
<1>3. Freed /\ Cgroup
  BY DEF Freed, Cgroup, Ending, Live, SettingUp
<1>4. Rooted
  <2>1. \A c \in Contexts : ~Live(c)
    BY DEF Live
  <2> QED  BY <2>1 DEF Rooted
<1>5. Descriptors
  <2>1. \A s \in SlotSet : perf_fds[s] = <<>> /\ s \in Contexts /\ ~Live(s)
    BY SlotPaths DEF Live
  <2>2. \A n \in Fds : fd[n] # "perf"
    OBVIOUS
  <2> QED  BY <2>1, <2>2 DEF Descriptors
<1> QED  BY <1>1, <1>2, <1>3, <1>4, <1>5 DEF Holding

\* Lengths of contexts.
LEMMA Lengths ==
    /\ \A l \in 1 .. 3 : \A n \in 1 .. l : \A k \in 1 .. 3 : k <= n => k \in 1 .. n /\ k <= l
    /\ \A l \in 1 .. 3 : \A n \in 1 .. l : n >= 3 => \A m \in 1 .. l : ~(m > n)
    /\ \A l \in 1 .. 3 : \A n \in 1 .. l : n >= 2 => \A m \in 1 .. l : m > n => m >= 3
    /\ \A l \in 1 .. 3 : \A n, m \in 1 .. l : m > n => m >= 2
    /\ \A l \in 1 .. 3 : 1 <= l /\ 1 \in 1 .. l /\ l \in 1 .. l
  OBVIOUS

LEMMA DoomedPaths ==
    ASSUME NEW cs, NEW len \in Nat, DOMAIN cs = 1 .. len, NEW d
    PROVE  d \in Doomed(cs) <=> \E k \in 1 .. len : cs[k] # <<>> /\ d \in Owned(ctx, cs[k])
  BY DEF Doomed

\* Destroying the contexts of a sequence that has every one that is in no table:
\* those that are left are in the tables of each other.
LEMMA Survivors ==
    ASSUME Holding, NEW cs, NEW len \in Nat, DOMAIN cs = 1 .. len,
           \A k \in 1 .. len : cs[k] = <<>> \/ cs[k] \in Contexts,
           \A c \in Fresh : \E k \in 1 .. len : cs[k] = c,
           NEW d \in Contexts, Live(d), d \notin Doomed(cs)
    PROVE  \A n \in 1 .. Len(d) :
               ctx[Ancestor(d, n)] = "stored" /\ Ancestor(d, n) \notin Doomed(cs)
<1>1. /\ Len(d) \in 1 .. 3
      /\ \A n \in 1 .. Len(d) :
            /\ Ancestor(d, n) \in Contexts /\ Len(Ancestor(d, n)) = n
            /\ Ancestor(d, n) # <<>> /\ Live(Ancestor(d, n))
            /\ \A m \in 1 .. n : Ancestor(Ancestor(d, n), m) = Ancestor(d, m)
  BY Paths DEF Holding, Rooted
<1>2. \A k \in 1 .. len : cs[k] # <<>> => d \notin Owned(ctx, cs[k])
  BY DoomedPaths
<1>3. ASSUME NEW n \in 1 .. Len(d), ctx[Ancestor(d, n)] = "fresh",
             \A m \in 1 .. Len(d) : m > n => ctx[Ancestor(d, m)] # "fresh"
      PROVE  FALSE
  <2>1. Ancestor(d, n) \in Fresh
    BY <1>1, <1>3 DEF Fresh
  <2>2. \A m \in 1 .. Len(d) : m > n => ctx[Ancestor(d, m)] = "stored"
    BY <1>1, <1>3 DEF Live
  <2>3. d \in Owned(ctx, Ancestor(d, n))
    BY <1>1, <2>2, OwnedPaths
  <2> QED  BY <1>1, <1>2, <2>1, <2>3
<1>4. \A n \in 1 .. Len(d) : ctx[Ancestor(d, n)] # "fresh"
  <2> DEFINE F(n) == ctx[Ancestor(d, n)] = "fresh"
  <2>1. \A n \in 1 .. Len(d) : (\A m \in 1 .. Len(d) : m > n => ~F(m)) => ~F(n)
    BY <1>3
  <2>2. Len(d) \in 1 .. 3
    BY <1>1
  <2> HIDE DEF F
  <2>3. ASSUME NEW n \in 1 .. Len(d), n >= 3 PROVE ~F(n)
    <3>1. \A m \in 1 .. Len(d) : ~(m > n)
      BY <2>2, <2>3, Lengths
    <3> QED  BY <2>1, <3>1
  <2>4. ASSUME NEW n \in 1 .. Len(d), n >= 2 PROVE ~F(n)
    <3>1. \A m \in 1 .. Len(d) : m > n => m >= 3
      BY <2>2, <2>4, Lengths
    <3> QED  BY <2>1, <2>3, <3>1
  <2>5. ASSUME NEW n \in 1 .. Len(d) PROVE ~F(n)
    <3>1. \A m \in 1 .. Len(d) : m > n => m >= 2
      BY <2>2, Lengths
    <3> QED  BY <2>1, <2>4, <3>1
  <2> QED  BY <2>5 DEF F
<1>5. \A n \in 1 .. Len(d) : ctx[Ancestor(d, n)] = "stored"
  BY <1>1, <1>4 DEF Live
<1>6. ASSUME NEW n \in 1 .. Len(d), NEW k \in 1 .. len, cs[k] # <<>>,
             Ancestor(d, n) \in Owned(ctx, cs[k])
      PROVE  FALSE
  <2>1. cs[k] \in Contexts /\ Len(cs[k]) \in 1 .. 3
    BY <1>6, Paths
  <2>2. Len(cs[k]) <= n /\ Ancestor(Ancestor(d, n), Len(cs[k])) = cs[k]
    BY <1>1, <1>6, <2>1, OwnedPaths
  <2>6. Len(d) \in 1 .. 3
    BY <1>1
  <2>3. Len(cs[k]) \in 1 .. n /\ Len(cs[k]) <= Len(d)
    BY <2>1, <2>2, <2>6, Lengths
  <2>5. Ancestor(d, Len(cs[k])) = cs[k]
    BY <1>1, <2>2, <2>3
  <2>4. d \in Owned(ctx, cs[k])
    BY <1>5, <2>1, <2>3, <2>5, OwnedPaths
  <2> QED  BY <1>2, <1>6, <2>4
<1> QED  BY <1>5, <1>6, DoomedPaths

\* What a release needs to be given, by the error path or by the cleanup.
Releasing(cs, len) ==
    /\ len \in Nat /\ DOMAIN cs = 1 .. len
    /\ \A k \in 1 .. len : cs[k] = <<>> \/ cs[k] \in Contexts
    /\ \A c \in Fresh : \E k \in 1 .. len : cs[k] = c
    /\ \A d \in Doomed(cs) : ctx[d] # "freed"
    /\ nomem \/ ~DestroysTwice(ctx, cs)
    /\ \/ pc = "error" /\ Release(cs, "cleanup")
       \/ /\ pc = "cleanup" /\ Release(cs, "exited")
          /\ \A c \in Contexts : Len(c) = 1 /\ ctx[c] = "stored" => \E k \in 1 .. len : cs[k] = c

LEMMA ReleaseKeepsContexts ==
    ASSUME Holding, NEW cs, NEW len, Releasing(cs, len)
    PROVE  Places' /\ Rooted' /\ Freed'
<1> USE DEF Releasing
<1>1. /\ \A c \in Contexts : ctx'[c] = IF c \in Doomed(cs) THEN "freed" ELSE ctx[c]
      /\ twice' = (twice \/ DestroysTwice(ctx, cs))
      /\ nomem' = nomem
      /\ pc' = IF twice' THEN "undefined" ELSE IF pc = "error" THEN "cleanup" ELSE "exited"
  BY DEF Release
<1>2. ASSUME NEW d \in Contexts, Live(d)'
      PROVE  \A n \in 1 .. Len(d) : ctx[Ancestor(d, n)] = "stored" /\ ctx'[Ancestor(d, n)] = "stored"
  <2>1. d \notin Doomed(cs) /\ Live(d)
    BY <1>1, <1>2 DEF Live
  <2>2. \A n \in 1 .. Len(d) : ctx[Ancestor(d, n)] = "stored" /\ Ancestor(d, n) \notin Doomed(cs)
    BY <2>1, Survivors
  <2> QED  BY <1>1, <2>2, Paths
<1>3. \A d \in Contexts : ctx'[d] # "fresh"
  <2> SUFFICES ASSUME NEW d \in Contexts, ctx'[d] = "fresh" PROVE FALSE
    OBVIOUS
  <2>1. Len(d) \in 1 .. Len(d) /\ Ancestor(d, Len(d)) = d
    BY Paths
  <2> QED  BY <1>2, <2>1 DEF Live
<1>4. Fresh' = {}
  BY <1>3 DEF Fresh
<1>5. Places'
  BY <1>1, <1>4 DEF Places, SettingUp
<1>6. Rooted'
  BY <1>2 DEF Rooted, Live
<1>7. ASSUME pc' = "exited", NEW d \in Contexts, Live(d)'
      PROVE  FALSE
  <2>1. pc = "cleanup"
    BY <1>1, <1>7
  <2>2. 1 \in 1 .. Len(d) /\ Ancestor(d, 1) \in Contexts /\ Len(Ancestor(d, 1)) = 1 /\ Ancestor(d, 1) # <<>>
        /\ Len(d) \in 1 .. 3
    <3>1. Len(d) \in 1 .. 3
      BY Paths
    <3>2. 1 \in 1 .. Len(d)
      BY <3>1
    <3>3. Ancestor(d, 1) \in Contexts /\ Len(Ancestor(d, 1)) = 1
      BY <3>2, Paths
    <3>4. Ancestor(d, 1) # <<>>
      BY <3>3, Paths
    <3> QED  BY <3>1, <3>2, <3>3, <3>4
  <2>3. PICK k \in 1 .. len : cs[k] = Ancestor(d, 1)
    BY <1>2, <1>7, <2>1, <2>2
  <2>6. cs[k] \in Contexts /\ Len(cs[k]) = 1 /\ Ancestor(d, Len(cs[k])) = cs[k]
    BY <2>2, <2>3
  <2>4. d \in Owned(ctx, cs[k])
    <3>1. \A n \in 1 .. Len(d) : ctx[Ancestor(d, n)] = "stored"
      BY <1>2, <1>7
    <3>2. Len(cs[k]) <= Len(d)
      BY <2>2, <2>6, Lengths
    <3> QED  BY <2>6, <3>1, <3>2, OwnedPaths
  <2>5. d \in Doomed(cs)
    BY <2>2, <2>3, <2>4, DoomedPaths
  <2> QED  BY <1>1, <1>7, <2>5 DEF Live
<1>8. ~twice
  BY DEF Holding, Freed
<1>9. Freed'
  BY <1>1, <1>7, <1>8 DEF Freed, Ending
<1> QED  BY <1>5, <1>6, <1>9

\* The descriptors a release closes: those of events, and the cgroup's number.
LEMMA Closing ==
    ASSUME Holding, NEW cs, NEW len, Releasing(cs, len)
    PROVE  /\ \A n \in DescriptorsOf(Doomed(cs)) : n \in Fds /\ fd[n] = "perf"
           /\ \A s \in SlotSet : \A n \in Range(perf_fds[s]) :
                 n \in DescriptorsOf(Doomed(cs)) /\ Live(s) => s \in Doomed(cs)
           /\ \A s \in SlotSet : s \in Doomed(cs) =>
                 Range(perf_fds[s]) \subseteq DescriptorsOf(Doomed(cs))
           /\ cgroup_fd # 0 => cgroup_fd \in Fds /\ fd[cgroup_fd] # "perf"
<1>1. /\ \A s \in SlotSet : ctx[s] = "none" => perf_fds[s] = <<>>
      /\ \A s \in SlotSet : Live(s) => \A n \in Range(perf_fds[s]) : fd[n] = "perf"
      /\ \A s, t \in SlotSet : Live(s) /\ Live(t) /\ s # t =>
            Range(perf_fds[s]) \intersect Range(perf_fds[t]) = {}
  BY DEF Holding, Descriptors
<1>2. \A s \in SlotSet : Range(perf_fds[s]) \subseteq Fds
  <2> SUFFICES ASSUME NEW s \in SlotSet PROVE Range(perf_fds[s]) \subseteq Fds
    OBVIOUS
  <2>1. perf_fds[s] \in Seq(Fds)
    BY DEF Holding, Types
  <2> QED  BY <2>1, LenProperties, ElementOfSeq DEF Range
<1>3. \A n \in DescriptorsOf(Doomed(cs)) :
          \E s \in SlotSet : s \in Doomed(cs) /\ n \in Range(perf_fds[s])
  BY DEF DescriptorsOf
<1>4. ASSUME NEW s \in SlotSet, s \in Doomed(cs), NEW n \in Range(perf_fds[s])
      PROVE  Live(s)
  <2>1. ctx[s] \in {"none", "fresh", "stored", "freed"}
    BY SlotPaths DEF Holding, Types
  <2>2. ctx[s] # "freed"
    BY <1>4 DEF Releasing
  <2>3. ctx[s] # "none"
    <3>1. Range(<<>>) = {}
      BY DEF Range
    <3> QED  BY <1>1, <1>4, <3>1
  <2> QED  BY <2>1, <2>2, <2>3 DEF Live
<1>5. \A n \in DescriptorsOf(Doomed(cs)) : n \in Fds /\ fd[n] = "perf"
  BY <1>1, <1>2, <1>3, <1>4
<1>6. ASSUME NEW s \in SlotSet, NEW n \in Range(perf_fds[s]), n \in DescriptorsOf(Doomed(cs)), Live(s)
      PROVE  s \in Doomed(cs)
  <2>1. PICK t \in SlotSet : t \in Doomed(cs) /\ n \in Range(perf_fds[t])
    BY <1>3, <1>6
  <2>2. Live(t)
    BY <1>4, <2>1
  <2> QED  BY <1>1, <1>6, <2>1, <2>2
<1>7. \A s \in SlotSet : s \in Doomed(cs) => Range(perf_fds[s]) \subseteq DescriptorsOf(Doomed(cs))
  BY DEF DescriptorsOf
<1>8. cgroup_fd # 0 => cgroup_fd \in Fds /\ fd[cgroup_fd] # "perf"
  BY DEF Holding, Types, Cgroup
<1> QED  BY <1>5, <1>6, <1>7, <1>8

LEMMA ReleaseKeepsDescriptors ==
    ASSUME Holding, NEW cs, NEW len, Releasing(cs, len)
    PROVE  Types' /\ Descriptors' /\ Cgroup'
<1> DEFINE closed == DescriptorsOf(Doomed(cs)) \union ({cgroup_fd} \ {0})
<1>1. /\ ctx' = [c \in Contexts |-> IF c \in Doomed(cs) THEN "freed" ELSE ctx[c]]
      /\ fd' = [n \in Fds |-> IF n \in closed THEN "free" ELSE fd[n]]
      /\ foreign' = (foreign \/ \E n \in closed : fd[n] = "other")
      /\ twice' = (twice \/ DestroysTwice(ctx, cs))
      /\ UNCHANGED <<at, cgroup_fd, locals, perf_fds, mapped, ticks, nomem>>
      /\ \/ pc = "error" /\ pc' \in {"cleanup", "undefined"}
         \/ pc = "cleanup" /\ pc' \in {"exited", "undefined"}
  BY DEF Releasing, Release, Closes, countVars
<1>2. /\ \A n \in DescriptorsOf(Doomed(cs)) : n \in Fds /\ fd[n] = "perf"
      /\ \A s \in SlotSet : \A n \in Range(perf_fds[s]) :
            n \in DescriptorsOf(Doomed(cs)) /\ Live(s) => s \in Doomed(cs)
      /\ \A s \in SlotSet : s \in Doomed(cs) =>
            Range(perf_fds[s]) \subseteq DescriptorsOf(Doomed(cs))
      /\ cgroup_fd # 0 => cgroup_fd \in Fds /\ fd[cgroup_fd] # "perf"
  BY Closing
<1>3. Types'
  <2>1. fd' \in [Fds -> {"free", "cgroup", "perf", "unlisted", "other"}]
    BY <1>1 DEF Holding, Types
  <2>2. ctx' \in [Contexts -> {"none", "fresh", "stored", "freed"}]
    BY <1>1 DEF Holding, Types
  <2>3. foreign' \in BOOLEAN /\ twice' \in BOOLEAN
    <3>1. DestroysTwice(ctx, cs) \in BOOLEAN
      BY DEF DestroysTwice
    <3>2. (\E n \in closed : fd[n] = "other") \in BOOLEAN
      OBVIOUS
    <3> QED  BY <1>1, <3>1, <3>2 DEF Holding, Types
  <2> QED  BY <1>1, <2>1, <2>2, <2>3 DEF Holding, Types
<1>4. \A s \in SlotSet : Live(s)' => Live(s) /\ s \notin Doomed(cs)
  BY <1>1, SlotPaths DEF Live
<1>5. \A s \in SlotSet : Live(s) /\ s \notin Doomed(cs) => Live(s)'
  BY <1>1, SlotPaths DEF Live
<1>6. Descriptors'
  <2>1. \A s \in SlotSet : ctx'[s] = "none" => perf_fds'[s] = <<>>
    BY <1>1, SlotPaths DEF Holding, Descriptors
  <2>2. ASSUME NEW s \in SlotSet, Live(s)', NEW n \in Range(perf_fds'[s])
        PROVE  fd'[n] = "perf"
    <3>1. n \in Range(perf_fds[s]) /\ Live(s) /\ fd[n] = "perf"
      BY <1>1, <1>4, <2>2 DEF Holding, Descriptors
    <3>2. n \notin closed
      BY <1>2, <1>4, <2>2, <3>1
    <3>3. n \in Fds
      <4>1. perf_fds[s] \in Seq(Fds)
        BY DEF Holding, Types
      <4> QED  BY <3>1, <4>1, LenProperties, ElementOfSeq DEF Range
    <3> QED  BY <1>1, <3>1, <3>2, <3>3
  <2>3. \A s, t \in SlotSet : Live(s)' /\ Live(t)' /\ s # t =>
            Range(perf_fds'[s]) \intersect Range(perf_fds'[t]) = {}
    BY <1>1, <1>4 DEF Holding, Descriptors
  <2>4. ASSUME NEW n \in Fds, fd'[n] = "perf"
        PROVE  \E s \in SlotSet : Live(s)' /\ n \in Range(perf_fds'[s])
    <3>1. n \notin closed /\ fd[n] = "perf"
      BY <1>1, <2>4
    <3>2. PICK s \in SlotSet : Live(s) /\ n \in Range(perf_fds[s])
      BY <3>1 DEF Holding, Descriptors
    <3> QED  BY <1>1, <1>2, <1>5, <3>1, <3>2
  <2>5. \A s \in SlotSet : s \in mapped' <=> HasCgroup /\ perf_fds'[s] # <<>>
    BY <1>1 DEF Holding, Descriptors
  <2> QED  BY <2>1, <2>2, <2>3, <2>4, <2>5 DEF Descriptors
<1>7. Cgroup'
  <2>1. ASSUME NEW n \in Fds, fd'[n] = "cgroup" PROVE n = cgroup_fd'
    BY <1>1, <2>1 DEF Holding, Cgroup
  <2>2. cgroup_fd' # 0 => HasCgroup /\ fd'[cgroup_fd'] = "free"
    BY <1>1, <1>2 DEF Holding, Cgroup
  <2>3. pc = "error" => ticks' = 0
    BY <1>1 DEF Holding, Cgroup, SettingUp
  <2>4. ASSUME foreign' PROVE HasCgroup /\ pc' \in {"exited", "undefined"} /\ ticks' = 0
    <3>1. ~foreign
      BY <1>1 DEF Holding, Cgroup
    <3>2. PICK n \in closed : fd[n] = "other"
      BY <1>1, <2>4, <3>1
    <3>3. n = cgroup_fd /\ cgroup_fd # 0
      BY <1>2, <3>2
    <3>4. HasCgroup /\ pc \in Ending /\ (pc = "cleanup" => ticks = 0)
      BY <3>2, <3>3 DEF Holding, Cgroup
    <3> QED  BY <1>1, <3>4 DEF Ending
  <2> QED  BY <1>1, <2>1, <2>2, <2>3, <2>4 DEF Cgroup, SettingUp, Ending
<1> QED  BY <1>3, <1>6, <1>7

LEMMA ReleaseKeeps ==
    ASSUME Holding, NEW cs, NEW len, Releasing(cs, len)
    PROVE  Holding'
  BY ReleaseKeepsContexts, ReleaseKeepsDescriptors DEF Holding

-----------------------------------------------------------------------------
\* The error path of the set-up, and the cleanup.

LEMMA ErrorReleases ==
    ASSUME Holding, InitializeError
    PROVE  Releasing(<<locals["group"], locals["pkg"], locals["cpu"]>>, 3)
<1> DEFINE cs == <<locals["group"], locals["pkg"], locals["cpu"]>>
<1>1. pc = "error" /\ Release(cs, "cleanup")
  BY DEF InitializeError
<1>2. /\ 3 \in Nat /\ DOMAIN cs = 1 .. 3
      /\ cs[1] = locals["group"] /\ cs[2] = locals["pkg"] /\ cs[3] = locals["cpu"]
  OBVIOUS
<1>3. \A level \in Levels : \E k \in 1 .. 3 : cs[k] = locals[level]
  BY <1>2 DEF Levels
<1>4. \A k \in 1 .. 3 : \E level \in Levels : cs[k] = locals[level]
  BY <1>2 DEF Levels
<1> HIDE DEF cs
<1>5. \A k \in 1 .. 3 : cs[k] = <<>> \/ cs[k] \in Contexts
  BY <1>4 DEF Holding, Types
<1>6. \A c \in Fresh : \E k \in 1 .. 3 : cs[k] = c
  BY <1>1, <1>3 DEF Holding, Places
<1>7. \A d \in Doomed(cs) : ctx[d] # "freed"
  <2>1. \A d \in Doomed(cs) : d \in Contexts
    BY DEF Doomed, Owned
  <2> QED  BY <1>1, <2>1 DEF Holding, Freed, Ending
<1>8. CASE nomem
  BY <1>1, <1>2, <1>5, <1>6, <1>7, <1>8 DEF Releasing, cs
<1>9. CASE locals = [level \in Levels |-> <<>>]
  <2>1. \A k \in 1 .. 3 : cs[k] = <<>>
    BY <1>4, <1>9
  <2>2. ~DestroysTwice(ctx, cs)
    BY <1>2, <2>1 DEF DestroysTwice
  <2> QED  BY <1>1, <1>2, <1>5, <1>6, <1>7, <2>2 DEF Releasing, cs
<1>10. CASE Pointed(Levels)
  <2>1. Slot \in SlotSet
    BY SlotsAreDistinct DEF Slot, Holding, Types
  <2>2. /\ cs[1] = GroupOf(Slot) /\ cs[2] = PkgOf(Slot) /\ cs[3] = Slot
        /\ ContextAt("group") = GroupOf(Slot) /\ ContextAt("pkg") = PkgOf(Slot)
        /\ ContextAt("cpu") = Slot
    BY <1>2, <1>10 DEF Pointed, Levels, ContextAt
  <2>3. /\ ctx[cs[1]] = "fresh" /\ ctx[cs[2]] = "fresh" /\ ctx[cs[3]] = "fresh"
        /\ cs[1] \in Contexts /\ cs[2] \in Contexts /\ cs[3] \in Contexts
    BY <1>10, <2>2 DEF Pointed, Levels, Fresh
  <2>4. Len(cs[1]) = 1 /\ Len(cs[2]) = 2 /\ Len(cs[3]) = 3
    BY <2>1, <2>2, SlotPaths
  <2>5. \A i \in 1 .. 3 : i = 1 \/ i = 2 \/ i = 3
    OBVIOUS
  <2>6. \A k \in 1 .. 3 : cs[k] \in Contexts /\ ctx[cs[k]] = "fresh"
    BY <2>3, <2>5
  <2>7. \A i, k \in 1 .. 3 : i # k => cs[i] # cs[k]
    BY <2>4, <2>5
  <2>8. ~DestroysTwice(ctx, cs)
    BY <1>2, <2>6, <2>7, NoneTwice DEF cs
  <2> QED  BY <1>1, <1>2, <1>5, <1>6, <1>7, <2>8 DEF Releasing, cs
<1> QED  BY <1>1, <1>8, <1>9, <1>10 DEF Holding, Places

\* The groups are finitely many.
LEMMA GroupsAreFinite == IsFiniteSet({c \in Contexts : Len(c) = 1})
<1> DEFINE gs == {GroupOf(s) : s \in SlotSet}
           f == [i \in 1 .. Len(Slots) |-> GroupOf(Slots[i])]
<1>1. f \in Surjection(1 .. Len(Slots), gs)
  <2>1. \A i \in 1 .. Len(Slots) : Slots[i] \in SlotSet
    BY SlotsAreDistinct
  <2>2. \A s \in SlotSet : \E i \in 1 .. Len(Slots) : s = Slots[i]
    BY SlotsAreDistinct DEF SlotSet, Range
  <2> QED  BY <2>1, <2>2 DEF Surjection
<1>2. IsFiniteSet(1 .. Len(Slots))
  BY SlotsAreDistinct, FS_Interval
<1>3. IsFiniteSet(gs)
  BY <1>1, <1>2, FS_Surjection
<1>4. ASSUME NEW c \in Contexts, Len(c) = 1 PROVE c \in gs
  <2>1. PICK s \in SlotSet : c \in {GroupOf(s), PkgOf(s), s}
    BY DEF Contexts
  <2>2. Len(s) = 3 /\ Len(PkgOf(s)) = 2
    BY SlotPaths
  <2> QED  BY <1>4, <2>1, <2>2
<1> QED  BY <1>3, <1>4, FS_Subset

LEMMA CleanupReleases ==
    ASSUME Holding, DestroyContext
    PROVE  \E cs, len : Releasing(cs, len)
<1> DEFINE stored == {c \in Contexts : Len(c) = 1 /\ ctx[c] = "stored"}
           cs == SetToSeq(stored)
           len == Cardinality(stored)
<1>1. pc = "cleanup" /\ Release(cs, "exited")
  BY DEF DestroyContext
<1>2. IsFiniteSet(stored)
  <2>1. stored \subseteq {c \in Contexts : Len(c) = 1}
    OBVIOUS
  <2> QED  BY <2>1, GroupsAreFinite, FS_Subset
<1>3. /\ len \in Nat /\ DOMAIN cs = 1 .. len
      /\ \A i \in 1 .. len : cs[i] \in stored
      /\ \A x \in stored : \E i \in 1 .. len : cs[i] = x
      /\ \A i, j \in 1 .. len : cs[i] = cs[j] => i = j
  BY <1>2, SetAsSeq
<1> HIDE DEF cs, len
<1>4. \A k \in 1 .. len : cs[k] \in Contexts /\ Len(cs[k]) = 1 /\ ctx[cs[k]] = "stored"
  BY <1>3
<1>5. \A c \in Contexts : Len(c) = 1 /\ ctx[c] = "stored" => \E k \in 1 .. len : cs[k] = c
  BY <1>3
<1> HIDE DEF stored
<1>6. Fresh = {}
  BY <1>1 DEF Holding, Places, SettingUp
<1>7. ~DestroysTwice(ctx, cs)
  <2>1. \A i, k \in 1 .. len : ~(Len(cs[i]) < Len(cs[k]))
    BY <1>4
  <2> QED  BY <1>3, <1>4, <2>1, NoneTwice
<1>8. ASSUME NEW d \in Doomed(cs) PROVE ctx[d] # "freed"
  <2>1. PICK k \in 1 .. len : cs[k] # <<>> /\ d \in Owned(ctx, cs[k])
    BY <1>3, DoomedPaths
  <2>2. /\ d \in Contexts /\ Len(cs[k]) <= Len(d) /\ Ancestor(d, Len(cs[k])) = cs[k]
        /\ \A n \in 1 .. Len(d) : n > Len(cs[k]) => ctx[Ancestor(d, n)] = "stored"
    BY <1>4, <2>1, OwnedPaths
  <2>3. Ancestor(d, Len(d)) = d /\ Len(d) \in 1 .. 3
    BY <2>2, Paths
  <2>4. Len(d) > Len(cs[k]) \/ Len(d) = Len(cs[k])
    BY <1>4, <2>2, <2>3
  <2>5. Len(d) \in 1 .. Len(d)
    BY <2>3, Lengths
  <2> QED  BY <1>4, <2>2, <2>3, <2>4, <2>5
<1>9. Releasing(cs, len)
  BY <1>1, <1>3, <1>4, <1>5, <1>6, <1>7, <1>8 DEF Releasing
<1> QED  BY <1>9

LEMMA ReleasesKeep ==
    ASSUME Holding, InitializeError \/ DestroyContext
    PROVE  Holding'
  BY ErrorReleases, CleanupReleases, ReleaseKeeps

\* A system call that fails in a tick has each table freed once.
LEMMA CallFreesOnce ==
    ASSUME NEW i \in DOMAIN Slots
    PROVE  FreesTwice[i]["call"] = FALSE
<1> DEFINE passed == {c \in Contexts : Len(c) = 1 /\ Passed(i, c)}
           own == <<Slots[i], PkgOf(Slots[i]), GroupOf(Slots[i])>>
           state == PayloadTables(i)
           cs == own \o SetToSeq(passed)
           n == Cardinality(passed)
<1>1. FreesTwice[i]["call"] = DestroysTwice(state, cs)
  <2>1. Data(i, "call") = own
    BY DEF Data
  <2>2. FreesTwice[i]["call"] = DestroysTwice(state, Data(i, "call") \o SetToSeq(passed))
    BY DEF FreesTwice, Failures
  <2> QED  BY <2>1, <2>2
<1>2. /\ n \in Nat /\ DOMAIN SetToSeq(passed) = 1 .. n
      /\ \A k \in 1 .. n : SetToSeq(passed)[k] \in passed
      /\ \A j, k \in 1 .. n : SetToSeq(passed)[j] = SetToSeq(passed)[k] => j = k
      /\ SetToSeq(passed) \in Seq(passed) /\ Len(SetToSeq(passed)) = n
  <2>1. IsFiniteSet(passed)
    <3>1. passed \subseteq {c \in Contexts : Len(c) = 1}
      OBVIOUS
    <3> QED  BY <3>1, GroupsAreFinite, FS_Subset
  <2> QED  BY <2>1, SetAsSeq
<1>3. /\ Slots[i] \in SlotSet
      /\ \A c \in {Slots[i], PkgOf(Slots[i]), GroupOf(Slots[i])} : c \in Contexts /\ IsPrefix(c, Slots[i])
      /\ Len(Slots[i]) = 3 /\ Len(PkgOf(Slots[i])) = 2 /\ Len(GroupOf(Slots[i])) = 1
  <2>1. Slots[i] \in SlotSet
    BY SlotsAreDistinct
  <2>2. \A s \in SlotSet : IsPrefix(s, s) /\ IsPrefix(PkgOf(s), s) /\ IsPrefix(GroupOf(s), s)
    BY SlotPaths DEF IsPrefix, Ancestor
  <2> QED  BY <2>1, <2>2, SlotPaths
<1>4. /\ cs \in Seq(Contexts) /\ Len(cs) = 3 + n
      /\ \A k \in 1 .. 3 + n : cs[k] = IF k <= 3 THEN own[k] ELSE SetToSeq(passed)[k - 3]
  <2>1. own \in Seq(Contexts) /\ Len(own) = 3
    BY <1>3
  <2>2. SetToSeq(passed) \in Seq(Contexts)
    BY <1>2, SeqMonotonic
  <2> DEFINE b == SetToSeq(passed)
  <2>3. b \in Seq(Contexts) /\ Len(b) = n
    BY <1>2, <2>2
  <2> HIDE DEF own, b
  <2>4. /\ own \o b \in Seq(Contexts) /\ Len(own \o b) = Len(own) + Len(b)
        /\ \A k \in 1 .. Len(own) + Len(b) :
              (own \o b)[k] = IF k <= Len(own) THEN own[k] ELSE b[k - Len(own)]
    BY <2>1, <2>3, ConcatProperties
  <2> QED  BY <2>1, <2>3, <2>4 DEF b
<1>5. \A k \in 1 .. 3 : k = 1 \/ k = 2 \/ k = 3
  OBVIOUS
<1>6. ASSUME NEW k \in 1 .. 3 + n, k <= 3
      PROVE  /\ cs[k] \in Contexts /\ state[cs[k]] = "fresh" /\ IsPrefix(cs[k], Slots[i])
             /\ Len(cs[k]) = 4 - k
  <2>1. k \in 1 .. 3 /\ cs[k] = own[k]
    BY <1>2, <1>4, <1>6
  <2>2. own[k] \in {Slots[i], PkgOf(Slots[i]), GroupOf(Slots[i])} /\ Len(own[k]) = 4 - k
    <3>1. own[1] = Slots[i] /\ own[2] = PkgOf(Slots[i]) /\ own[3] = GroupOf(Slots[i])
      OBVIOUS
    <3>2. 4 - 1 = 3 /\ 4 - 2 = 2 /\ 4 - 3 = 1
      OBVIOUS
    <3> HIDE DEF own
    <3> QED  BY <1>3, <1>5, <2>1, <3>1, <3>2
  <2>3. cs[k] \in Contexts /\ IsPrefix(cs[k], Slots[i]) /\ Len(cs[k]) = 4 - k
    BY <1>3, <2>1, <2>2
  <2>4. \A c \in Contexts : IsPrefix(c, Slots[i]) => state[c] = "fresh"
    BY DEF PayloadTables, Passed
  <2> QED  BY <2>3, <2>4
<1>7. ASSUME NEW k \in 1 .. 3 + n, ~(k <= 3)
      PROVE  /\ k - 3 \in 1 .. n /\ cs[k] = SetToSeq(passed)[k - 3]
             /\ cs[k] \in Contexts /\ state[cs[k]] = "stored" /\ Len(cs[k]) = 1
             /\ ~IsPrefix(cs[k], Slots[i])
  <2>1. k - 3 \in 1 .. n
    BY <1>2, <1>7
  <2>2. cs[k] = SetToSeq(passed)[k - 3] /\ cs[k] \in passed
    BY <1>2, <1>4, <1>7, <2>1
  <2> QED  BY <2>1, <2>2 DEF PayloadTables, Passed
<1> HIDE DEF own, passed, state, n, cs
<1>8. ASSUME NEW j \in 1 .. 3 + n, NEW k \in 1 .. 3 + n, j # k
      PROVE  cs[j] # cs[k] /\ (Len(cs[j]) < Len(cs[k]) => state[cs[k]] # "stored")
  <2>1. CASE j <= 3 /\ k <= 3
    BY <1>2, <1>6, <1>8, <2>1
  <2>2. CASE j <= 3 /\ ~(k <= 3)
    <3>1. Len(cs[j]) = 4 - j /\ Len(cs[k]) = 1 /\ cs[j] # cs[k] /\ j \in Int
      BY <1>6, <1>7, <2>2
    <3> QED  BY <2>2, <3>1
  <2>3. CASE ~(j <= 3) /\ k <= 3
    BY <1>6, <1>7, <2>3
  <2>4. CASE ~(j <= 3) /\ ~(k <= 3)
    <3>1. /\ j - 3 \in 1 .. n /\ cs[j] = SetToSeq(passed)[j - 3] /\ Len(cs[j]) = 1
          /\ k - 3 \in 1 .. n /\ cs[k] = SetToSeq(passed)[k - 3] /\ Len(cs[k]) = 1
      BY <1>7, <2>4
    <3>2. j - 3 # k - 3
      BY <1>2, <1>8
    <3> QED  BY <1>2, <3>1, <3>2
  <2> QED  BY <2>1, <2>2, <2>3, <2>4
<1>9. 3 + n \in Nat /\ DOMAIN cs = 1 .. 3 + n
  BY <1>2, <1>4, LenProperties
<1>10. \A k \in 1 .. 3 + n : cs[k] \in Contexts /\ state[cs[k]] # "freed"
  BY <1>6, <1>7
<1>11. ~DestroysTwice(state, cs)
  BY <1>8, <1>9, <1>10, NoneTwice
<1> QED  BY <1>1, <1>11 DEF cs, state

-----------------------------------------------------------------------------
\* The other steps.

\* A step that leaves contexts and descriptors alone.
Still == UNCHANGED <<fd, cgroup_fd, locals, ctx, perf_fds, mapped, foreign, twice, nomem>>

LEMMA StillKeeps ==
    ASSUME Holding, Still
    PROVE  /\ Rooted' /\ Descriptors' /\ Fresh' = Fresh
           /\ \A n \in Fds : fd'[n] = "cgroup" => n = cgroup_fd'
<1> USE DEF Still, Holding
<1>1. Rooted'
  BY DEF Rooted, Live
<1>2. Descriptors'
  BY DEF Descriptors, Live
<1> QED  BY <1>1, <1>2 DEF Fresh, Cgroup

\* Set up and waiting, or in a tick: nothing changes but the counters.
Working == {"enable", "idle", "read", "reset", "send"}

LEMMA WorkKeeps ==
    ASSUME Holding, pc \in Working, Still, pc' \in Working \union {"cleanup"},
           at' \in DOMAIN Slots, ticks' \in Nat
    PROVE  Holding'
<1> USE DEF Holding, Working
<1>1. Rooted' /\ Descriptors' /\ Fresh' = Fresh /\ \A n \in Fds : fd'[n] = "cgroup" => n = cgroup_fd'
  BY StillKeeps
<1>2. Types'
  BY DEF Types, Still
<1>3. Places'
  <2>1. Fresh' = {}
    BY <1>1 DEF Places, SettingUp
  <2> QED  BY <2>1 DEF Places, SettingUp
<1>4. Freed'
  BY DEF Freed, Ending, Still, Live
<1>5. Cgroup'
  BY <1>1 DEF Cgroup, SettingUp, Ending, Still
<1> QED  BY <1>1, <1>2, <1>3, <1>4, <1>5

LEMMA TicksKeep ==
    ASSUME Holding,
           \/ EnableGroups \/ HandleTicker \/ ReadCpu \/ ResetCpu \/ SendPayload \/ Terminate
           \/ \E s \in SlotSet : CountEvent(s)
    PROVE  Holding'
<1>1. Still /\ pc \in Working /\ pc' \in Working \union {"cleanup"} /\ ticks' \in {ticks, ticks + 1}
      /\ (at' = at \/ at' = 1 \/ (at' = at + 1 /\ ~LastSlot))
  BY DEF EnableGroups, HandleTicker, ReadCpu, ResetCpu, SendPayload, Terminate, CountEvent, Counting,
         Still, Working, contextVars, countVars, faultVars
<1>2. at' \in DOMAIN Slots /\ ticks' \in Nat
  BY <1>1, SlotsAreDistinct DEF Holding, Types, LastSlot
<1> QED  BY <1>1, <1>2, WorkKeeps

LEMMA PopulateFailsKeeps ==
    ASSUME Holding, NEW failed \in Failures, PopulateFails(failed)
    PROVE  Holding'
<1> USE DEF Holding
<1>1. /\ pc \in {"read", "reset"} /\ pc' = (IF twice' THEN "undefined" ELSE "idle")
      /\ twice' = FreesTwice[at][failed]
      /\ nomem' = (twice' /\ failed # "call") /\ at' = 1
      /\ UNCHANGED <<fd, cgroup_fd, locals, ctx, perf_fds, mapped, foreign, ticks>>
  BY DEF PopulateFails, MayFail, contextVars
<1>2. at \in DOMAIN Slots /\ at' \in DOMAIN Slots
  BY <1>1, SlotsAreDistinct DEF Types
<1>3. twice' \in BOOLEAN /\ nomem' \in BOOLEAN
  <2>1. FreesTwice[at][failed] \in BOOLEAN
    BY <1>2 DEF FreesTwice, DestroysTwice
  <2> QED  BY <1>1, <2>1
<1>4. Types'
  BY <1>1, <1>2, <1>3 DEF Types
<1>5. Places'
  <2>1. Fresh' = {}
    BY <1>1 DEF Places, SettingUp, Fresh
  <2> QED  BY <1>1, <2>1 DEF Places, SettingUp
<1>6. Rooted' /\ Descriptors'
  <2>1. Rooted'
    BY <1>1 DEF Rooted, Live
  <2>2. Descriptors'
    BY <1>1 DEF Descriptors, Live
  <2> QED  BY <2>1, <2>2
<1>7. Freed'
  <2>1. failed = "call" => ~twice'
    BY <1>1, <1>2, CallFreesOnce
  <2>2. \A c \in Contexts : ctx'[c] # "freed"
    BY <1>1 DEF Freed, Ending
  <2> QED  BY <1>1, <2>1, <2>2 DEF Freed
<1>8. Cgroup'
  BY <1>1 DEF Cgroup, SettingUp, Ending
<1> QED  BY <1>4, <1>5, <1>6, <1>7, <1>8

\* A descriptor is opened, or closed, that is none of an event.
LEMMA OthersKeepDescriptors ==
    ASSUME Holding, NEW m \in Fds, NEW what \in {"free", "cgroup", "unlisted", "other"},
           fd[m] \in {"free", "other"}, fd' = [fd EXCEPT ![m] = what],
           UNCHANGED <<ctx, perf_fds, mapped>>
    PROVE  Descriptors' /\ fd' \in [Fds -> {"free", "cgroup", "perf", "unlisted", "other"}]
<1>1. \A n \in Fds : (fd'[n] = "perf" <=> fd[n] = "perf") /\ (n # m => fd'[n] = fd[n])
  BY DEF Holding, Types
<1>2. ASSUME NEW s \in SlotSet, Live(s), NEW n \in Range(perf_fds[s]) PROVE fd'[n] = "perf"
  <2>1. perf_fds[s] \in Seq(Fds)
    BY DEF Holding, Types
  <2>2. n \in Fds
    BY <2>1, LenProperties, ElementOfSeq DEF Range
  <2> QED  BY <1>1, <1>2, <2>2 DEF Holding, Descriptors
<1>3. Descriptors'
  BY <1>1, <1>2 DEF Holding, Descriptors, Live
<1> QED  BY <1>3 DEF Holding, Types

LEMMA OthersKeep ==
    ASSUME Holding, OtherOpens \/ OtherCloses
    PROVE  Holding'
<1> USE DEF Holding
<1>1. PICK m \in Fds : \/ fd[m] = "free" /\ fd' = [fd EXCEPT ![m] = "other"]
                       \/ fd[m] = "other" /\ fd' = [fd EXCEPT ![m] = "free"]
  BY DEF OtherOpens, OtherCloses, Opens
<1>2. UNCHANGED <<pc, at, cgroup_fd, locals, ctx, perf_fds, mapped, ticks, foreign, twice, nomem>>
  BY DEF OtherOpens, OtherCloses, contextVars, countVars, faultVars
<1>3. Descriptors' /\ fd' \in [Fds -> {"free", "cgroup", "perf", "unlisted", "other"}]
  BY <1>1, <1>2, OthersKeepDescriptors
<1>4. Types'
  BY <1>2, <1>3 DEF Types
<1>5. Places'
  BY <1>2 DEF Places, Pointed, Fresh, ContextAt, Slot
<1>6. Rooted' /\ Freed'
  BY <1>2 DEF Rooted, Freed, Live
<1>7. Cgroup'
  <2>1. \A n \in Fds : /\ fd'[n] = "cgroup" <=> fd[n] = "cgroup"
                       /\ fd[n] \in {"free", "other"} => fd'[n] \in {"free", "other"}
    BY <1>1 DEF Types
  <2>2. cgroup_fd \in Fds \union {0}
    BY DEF Types
  <2> QED  BY <1>2, <2>1, <2>2 DEF Cgroup
<1> QED  BY <1>3, <1>4, <1>5, <1>6, <1>7

-----------------------------------------------------------------------------
\* The steps of the set-up.

LEMMA OpenCgroupKeeps ==
    ASSUME Holding, OpenCgroup
    PROVE  Holding'
<1> USE DEF Holding
<1>1. /\ pc = "start" /\ pc' = "group"
      /\ UNCHANGED <<at, locals, ctx, perf_fds, mapped, ticks, foreign, twice, nomem>>
  BY DEF OpenCgroup, contextVars, countVars, faultVars
<1>2. cgroup_fd = 0 /\ Fresh = {} /\ \A n \in Fds : fd[n] # "cgroup"
  BY <1>1 DEF Places, SettingUp, Cgroup, Fds
<1>3. Rooted' /\ Freed' /\ Places'
  BY <1>1, <1>2 DEF Rooted, Freed, Live, Ending, Places, Fresh, SettingUp
<1>4. CASE HasCgroup
  <2>1. PICK m \in Fds : fd[m] = "free" /\ fd' = [fd EXCEPT ![m] = "cgroup"] /\ cgroup_fd' = m
    BY <1>4 DEF OpenCgroup, Opens
  <2>2. Descriptors' /\ fd' \in [Fds -> {"free", "cgroup", "perf", "unlisted", "other"}]
    BY <1>1, <2>1, OthersKeepDescriptors
  <2>3. Types'
    BY <1>1, <2>1, <2>2 DEF Types
  <2>4. Cgroup'
    <3>1. fd'[m] = "cgroup" /\ \A n \in Fds : n # m => fd'[n] # "cgroup"
      BY <1>2, <2>1 DEF Types
    <3> QED  BY <1>1, <1>4, <2>1, <3>1 DEF Cgroup, SettingUp
  <2> QED  BY <1>3, <2>2, <2>3, <2>4
<1>5. CASE ~HasCgroup
  <2>1. UNCHANGED <<fd, cgroup_fd>>
    BY <1>5 DEF OpenCgroup
  <2>2. Types' /\ Descriptors'
    BY <1>1, <2>1 DEF Types, Descriptors, Live
  <2>3. Cgroup'
    BY <1>1, <1>2, <2>1 DEF Cgroup, SettingUp
  <2> QED  BY <1>3, <2>2, <2>3
<1> QED  BY <1>4, <1>5

\* The set-up gives up: nothing but the place changes.
LEMMA FailsKeep ==
    ASSUME Holding, OpenCgroupFails \/ OpenEventFails
    PROVE  Holding'
<1> USE DEF Holding
<1>1. /\ pc \in {"start", "open"} /\ pc' = "error"
      /\ UNCHANGED <<at, fd, cgroup_fd, locals, ctx, perf_fds, mapped, ticks, foreign, twice, nomem>>
  BY DEF OpenCgroupFails, OpenEventFails, contextVars, countVars, faultVars
<1>2. Rooted' /\ Descriptors' /\ Fresh' = Fresh
  BY <1>1, StillKeeps DEF Still
<1>3. Types' /\ Freed'
  BY <1>1 DEF Types, Freed, Ending
<1>4. Places'
  <2>1. (locals = [level \in Levels |-> <<>>] /\ Fresh = {}) \/ Pointed(Levels)
    BY <1>1 DEF Places, SettingUp
  <2>2. Pointed(Levels) => Pointed(Levels)' /\ \A c \in Fresh : \E level \in Levels : locals[level] = c
    BY <1>1, <1>2 DEF Pointed, ContextAt, Slot
  <2> QED  BY <1>1, <1>2, <2>1, <2>2 DEF Places, SettingUp
<1>5. Cgroup'
  BY <1>1 DEF Cgroup, SettingUp, Ending
<1> QED  BY <1>2, <1>3, <1>4, <1>5

LEMMA MapFailsKeeps ==
    ASSUME Holding, MapFails
    PROVE  Holding'
<1> USE DEF Holding
<1>1. /\ pc = "open" /\ pc' = "error"
      /\ UNCHANGED <<at, cgroup_fd, locals, ctx, perf_fds, mapped, ticks, foreign, twice, nomem>>
  BY DEF MapFails, contextVars, countVars, faultVars
<1>2. PICK m \in Fds : fd[m] = "free" /\ fd' = [fd EXCEPT ![m] = "unlisted"]
  BY DEF MapFails, Opens
<1>3. Descriptors' /\ fd' \in [Fds -> {"free", "cgroup", "perf", "unlisted", "other"}]
  BY <1>1, <1>2, OthersKeepDescriptors
<1>4. Types' /\ Freed' /\ Rooted'
  BY <1>1, <1>3 DEF Types, Freed, Ending, Rooted, Live
<1>5. Places'
  <2>1. Pointed(Levels)
    BY <1>1 DEF Places
  <2>2. Fresh' = Fresh
    BY <1>1 DEF Fresh
  <2>3. Pointed(Levels)' /\ \A c \in Fresh : \E level \in Levels : locals[level] = c
    BY <1>1, <2>1, <2>2 DEF Pointed, ContextAt, Slot
  <2> QED  BY <1>1, <2>2, <2>3 DEF Places, SettingUp
<1>6. Cgroup'
  <2>1. \A n \in Fds : /\ fd'[n] = "cgroup" => fd[n] = "cgroup"
                       /\ fd[n] = "cgroup" => fd'[n] = "cgroup"
    BY <1>2 DEF Types
  <2>2. cgroup_fd \in Fds \union {0}
    BY DEF Types
  <2> QED  BY <1>1, <2>1, <2>2 DEF Cgroup, SettingUp, Ending
<1> QED  BY <1>3, <1>4, <1>5, <1>6

\* The place of a set-up and its slot.
LEMMA Levelled ==
    ASSUME Holding
    PROVE  /\ Slot \in SlotSet
           /\ ContextAt("group") = GroupOf(Slot) /\ ContextAt("pkg") = PkgOf(Slot)
           /\ ContextAt("cpu") = Slot
           /\ \A level \in Levels : ContextAt(level) \in Contexts
<1>1. Slot \in SlotSet
  BY SlotsAreDistinct DEF Slot, Holding, Types
<1>2. /\ ContextAt("group") = GroupOf(Slot) /\ ContextAt("pkg") = PkgOf(Slot)
      /\ ContextAt("cpu") = Slot
  BY DEF ContextAt
<1> QED  BY <1>1, <1>2, SlotPaths DEF Levels

LEMMA SlotAncestors ==
    ASSUME NEW s \in SlotSet
    PROVE  /\ \A n \in 1 .. Len(GroupOf(s)) : Ancestor(GroupOf(s), n) = GroupOf(s)
           /\ \A n \in 1 .. Len(PkgOf(s)) : Ancestor(PkgOf(s), n) \in {GroupOf(s), PkgOf(s)}
           /\ \A n \in 1 .. Len(s) : Ancestor(s, n) \in {GroupOf(s), PkgOf(s), s}
<1>1. /\ Len(GroupOf(s)) = 1 /\ Len(PkgOf(s)) = 2 /\ Len(s) = 3
      /\ Ancestor(GroupOf(s), 1) = GroupOf(s)
      /\ Ancestor(PkgOf(s), 1) = GroupOf(s) /\ Ancestor(PkgOf(s), 2) = PkgOf(s)
      /\ Ancestor(s, 1) = GroupOf(s) /\ Ancestor(s, 2) = PkgOf(s) /\ Ancestor(s, 3) = s
  BY SlotPaths
<1>2. /\ \A n \in 1 .. 1 : n = 1
      /\ \A n \in 1 .. 2 : n = 1 \/ n = 2
      /\ \A n \in 1 .. 3 : n = 1 \/ n = 2 \/ n = 3
  OBVIOUS
<1> QED  BY <1>1, <1>2

LEMMA CreateContextKeeps ==
    ASSUME Holding, NEW level \in Levels, CreateContext(level)
    PROVE  Holding'
<1> USE DEF Holding
<1>0. PICK c : c = ContextAt(level)
  OBVIOUS
<1>1. /\ pc = level /\ ctx' = [ctx EXCEPT ![c] = "fresh"] /\ locals' = [locals EXCEPT ![level] = c]
      /\ \/ level = "group" /\ pc' = "pkg"
         \/ level = "pkg" /\ pc' = "cpu"
         \/ level = "cpu" /\ pc' = "open"
      /\ UNCHANGED <<at, fd, cgroup_fd, perf_fds, mapped, ticks, foreign, twice, nomem>>
  BY <1>0 DEF CreateContext, Levels, countVars, faultVars
<1>2. /\ Slot \in SlotSet /\ c \in Contexts
      /\ ContextAt("group") = GroupOf(Slot) /\ ContextAt("pkg") = PkgOf(Slot)
      /\ ContextAt("cpu") = Slot
  BY <1>0, Levelled
<1>3. \A l \in Levels : ContextAt(l)' = ContextAt(l)
  BY <1>1 DEF ContextAt, Slot
<1>4. ctx \in [Contexts -> {"none", "fresh", "stored", "freed"}] /\ locals \in [Levels -> Contexts \union {<<>>}]
  BY DEF Types
<1>5. /\ ctx'[c] = "fresh" /\ \A d \in Contexts : d # c => ctx'[d] = ctx[d]
      /\ locals'[level] = c /\ \A l \in Levels : l # level => locals'[l] = locals[l]
      /\ ctx[c] # "freed"
  BY <1>1, <1>2, <1>4 DEF Freed, Ending, Levels
<1>6. Types'
  BY <1>1, <1>2, <1>4 DEF Types
<1>7. Fresh' = Fresh \union {c}
  BY <1>2, <1>5 DEF Fresh
<1>8. Places'
  <2>1. CASE level = "group"
    <3>1. Fresh = {} /\ pc' = "pkg"
      BY <1>1, <2>1 DEF Places, SettingUp
    <3>2. Pointed({"group"})'
      BY <1>0, <1>3, <1>5, <1>7, <2>1, <3>1 DEF Pointed, Levels
    <3> QED  BY <3>1, <3>2 DEF Places, SettingUp
  <2>2. CASE level = "pkg"
    <3>1. Pointed({"group"}) /\ pc' = "cpu"
      BY <1>1, <2>2 DEF Places
    <3>2. Pointed({"group", "pkg"})'
      BY <1>0, <1>3, <1>5, <1>7, <2>2, <3>1 DEF Pointed, Levels
    <3> QED  BY <3>1, <3>2 DEF Places, SettingUp
  <2>3. CASE level = "cpu"
    <3>1. Pointed({"group", "pkg"}) /\ pc' = "open"
      BY <1>1, <2>3 DEF Places
    <3>2. Pointed(Levels)'
      BY <1>0, <1>3, <1>5, <1>7, <2>3, <3>1 DEF Pointed, Levels
    <3> QED  BY <3>1, <3>2 DEF Places, SettingUp
  <2> QED  BY <2>1, <2>2, <2>3 DEF Levels
<1>9. Rooted'
  <2>1. \A d \in Contexts : Live(d) => Live(d)'
    BY <1>5 DEF Live
  <2>2. \A d \in Contexts : Live(d)' => Live(d) \/ d = c
    BY <1>5 DEF Live
  <2>3. \A n \in 1 .. Len(c) : Live(Ancestor(c, n))'
    <3> DEFINE Lives(x) == ctx'[x] \in {"fresh", "stored"}
    <3>1. Lives(c) /\ \A x \in Fresh : Lives(x)
      BY <1>2, <1>5 DEF Fresh
    <3>2. /\ level \in {"pkg", "cpu"} => GroupOf(Slot) \in Fresh
          /\ level = "cpu" => PkgOf(Slot) \in Fresh
      BY <1>1, <1>2 DEF Places, Pointed
    <3> HIDE DEF Lives
    <3>3. \A n \in 1 .. Len(c) : Lives(Ancestor(c, n))
      <4>1. CASE level = "group"
        BY <1>0, <1>2, <3>1, <4>1, SlotAncestors
      <4>2. CASE level = "pkg"
        BY <1>0, <1>2, <3>1, <3>2, <4>2, SlotAncestors
      <4>3. CASE level = "cpu"
        BY <1>0, <1>2, <3>1, <3>2, <4>3, SlotAncestors
      <4> QED  BY <4>1, <4>2, <4>3 DEF Levels
    <3> QED  BY <3>3 DEF Lives, Live
  <2>4. ASSUME NEW d \in Contexts, Live(d)', NEW n \in 1 .. Len(d) PROVE Live(Ancestor(d, n))'
    <3>1. CASE Live(d)
      <4>1. Live(Ancestor(d, n)) /\ Ancestor(d, n) \in Contexts
        BY <3>1, Paths DEF Rooted
      <4> QED  BY <2>1, <4>1
    <3> QED  BY <2>2, <2>3, <2>4, <3>1
  <2> QED  BY <2>4 DEF Rooted
<1>10. Freed'
  BY <1>1, <1>5 DEF Freed, Ending, Levels
<1>11. Descriptors'
  <2>1. \A s \in SlotSet : s \in Contexts
    BY SlotPaths
  <2>2. \A s \in SlotSet : Live(s)' => Live(s) \/ perf_fds[s] = <<>>
    <3>1. c \in SlotSet => Live(c) \/ perf_fds[c] = <<>>
      BY <1>2, <1>4, <1>5 DEF Descriptors, Live
    <3> QED  BY <1>5, <2>1, <3>1 DEF Live
  <2>3. \A s \in SlotSet : (Live(s) => Live(s)') /\ (ctx'[s] = "none" => ctx[s] = "none")
    BY <1>5, <2>1 DEF Live
  <2>4. Range(<<>>) = {}
    BY DEF Range
  <2>5. \A s \in SlotSet : Live(s)' => Live(s) \/ Range(perf_fds[s]) = {}
    BY <2>2, <2>4
  <2> QED  BY <1>1, <2>3, <2>5 DEF Descriptors
<1>12. Cgroup'
  BY <1>1 DEF Cgroup, SettingUp, Ending, Levels
<1> QED  BY <1>6, <1>8, <1>9, <1>10, <1>11, <1>12

LEMMA CreateFailsKeeps ==
    ASSUME Holding, NEW level \in Levels, CreateFails(level)
    PROVE  Holding'
<1> USE DEF Holding
<1>1. /\ pc = level /\ pc' = "error" /\ locals' = [locals EXCEPT ![level] = <<>>] /\ nomem' = TRUE
      /\ UNCHANGED <<at, fd, cgroup_fd, ctx, perf_fds, mapped, ticks, foreign, twice>>
  BY DEF CreateFails, countVars
<1>2. locals \in [Levels -> Contexts \union {<<>>}]
  BY DEF Types
<1>3. Types' /\ Rooted' /\ Descriptors'
  <2>1. Types'
    BY <1>1, <1>2 DEF Types
  <2>2. Rooted'
    BY <1>1 DEF Rooted, Live
  <2>3. Descriptors'
    BY <1>1 DEF Descriptors, Live
  <2> QED  BY <2>1, <2>2, <2>3
<1>4. Freed'
  BY <1>1 DEF Freed, Ending, Levels
<1>5. Places'
  <2>1. Fresh' = Fresh
    BY <1>1 DEF Fresh
  <2>2. \A l \in Levels : l # level => locals'[l] = locals[l]
    BY <1>1, <1>2
  <2>3. \A c \in Fresh : \E l \in Levels : l # level /\ locals[l] = c
    BY <1>1 DEF Places, Pointed, Levels, SettingUp
  <2>4. \A c \in Fresh' : \E l \in Levels : locals'[l] = c
    BY <2>1, <2>2, <2>3
  <2> QED  BY <1>1, <2>4 DEF Places, SettingUp
<1>6. Cgroup'
  BY <1>1 DEF Cgroup, SettingUp, Ending, Levels
<1> QED  BY <1>3, <1>4, <1>5, <1>6

LEMMA OpenEventKeeps ==
    ASSUME Holding, OpenEvent
    PROVE  Holding'
<1> USE DEF Holding
<1>1. /\ pc = "open" /\ pc' = "open"
      /\ mapped' = (IF Samples THEN mapped \union {Slot} ELSE mapped)
      /\ UNCHANGED <<at, cgroup_fd, locals, ctx, ticks, foreign, twice, nomem>>
  BY DEF OpenEvent, countVars, faultVars
<1>2. PICK m \in Fds : /\ fd[m] = "free" /\ fd' = [fd EXCEPT ![m] = "perf"]
                       /\ perf_fds' = [perf_fds EXCEPT ![Slot] = Append(@, m)]
  BY DEF OpenEvent, Opens
<1>3. Slot \in SlotSet /\ Slot \in Contexts
  BY Levelled, SlotPaths
<1>4. Live(Slot)
  <2>1. Pointed(Levels)
    BY <1>1 DEF Places
  <2>2. Slot \in Fresh
    BY <2>1, Levelled DEF Pointed, Levels
  <2> QED  BY <2>2 DEF Fresh, Live
<1>5. \A s \in SlotSet : perf_fds[s] \in Seq(Fds) /\ Range(perf_fds[s]) \subseteq Fds
  <2> SUFFICES ASSUME NEW s \in SlotSet PROVE perf_fds[s] \in Seq(Fds) /\ Range(perf_fds[s]) \subseteq Fds
    OBVIOUS
  <2>1. perf_fds[s] \in Seq(Fds)
    BY DEF Types
  <2> QED  BY <2>1, LenProperties, ElementOfSeq DEF Range
<1>6. PICK slot \in SlotSet : slot = Slot
  BY <1>3
<1>7. /\ perf_fds'[slot] = Append(perf_fds[slot], m)
      /\ \A s \in SlotSet \ {slot} : perf_fds'[s] = perf_fds[s]
      /\ Append(perf_fds[slot], m) \in Seq(Fds) /\ Append(perf_fds[slot], m) # <<>>
      /\ Range(Append(perf_fds[slot], m)) = Range(perf_fds[slot]) \union {m}
  <2>1. perf_fds \in [SlotSet -> Seq(Fds)]
    BY DEF Types
  <2>2. perf_fds[slot] \in Seq(Fds)
    BY <1>5
  <2>3. /\ Append(perf_fds[slot], m) \in Seq(Fds) /\ Append(perf_fds[slot], m) # <<>>
        /\ Len(Append(perf_fds[slot], m)) = Len(perf_fds[slot]) + 1
        /\ \A i \in 1 .. Len(perf_fds[slot]) : Append(perf_fds[slot], m)[i] = perf_fds[slot][i]
        /\ Append(perf_fds[slot], m)[Len(perf_fds[slot]) + 1] = m
    BY <2>2, AppendProperties
  <2>4. /\ DOMAIN perf_fds[slot] = 1 .. Len(perf_fds[slot]) /\ Len(perf_fds[slot]) \in Nat
        /\ DOMAIN Append(perf_fds[slot], m) = 1 .. Len(perf_fds[slot]) + 1
    BY <2>2, <2>3, LenProperties
  <2>5. Range(Append(perf_fds[slot], m)) = Range(perf_fds[slot]) \union {m}
    <3> DEFINE t == Append(perf_fds[slot], m)
               l == Len(perf_fds[slot])
    <3>1. /\ DOMAIN t = 1 .. l + 1 /\ l \in Nat /\ t[l + 1] = m
          /\ \A i \in 1 .. l : t[i] = perf_fds[slot][i]
      BY <2>3, <2>4
    <3>2. DOMAIN perf_fds[slot] = 1 .. l
      BY <2>4
    <3> HIDE DEF t, l
    <3>3. 1 .. l + 1 = (1 .. l) \union {l + 1}
      BY <3>1
    <3>4. Range(t) = Range(perf_fds[slot]) \union {m}
      BY <3>1, <3>2, <3>3 DEF Range
    <3> QED  BY <3>4 DEF t
  <2> QED  BY <1>2, <1>6, <2>1, <2>3, <2>5
<1>8. /\ fd'[m] = "perf" /\ \A n \in Fds : n # m => fd'[n] = fd[n]
  BY <1>2 DEF Types
<1>9. Types'
  <2>1. mapped' \subseteq SlotSet
    BY <1>1, <1>3 DEF Types
  <2>2. perf_fds' \in [SlotSet -> Seq(Fds)]
    BY <1>2, <1>6, <1>7 DEF Types
  <2>3. fd' \in [Fds -> {"free", "cgroup", "perf", "unlisted", "other"}]
    BY <1>2 DEF Types
  <2> QED  BY <1>1, <2>1, <2>2, <2>3 DEF Types
<1>10. Places' /\ Rooted' /\ Freed'
  <2>1. Places'
    BY <1>1 DEF Places, Pointed, Fresh, ContextAt, Slot, SettingUp
  <2> QED  BY <1>1, <2>1 DEF Rooted, Freed, Live, Ending
<1>11. \A s \in SlotSet : Live(s) => m \notin Range(perf_fds[s])
  BY <1>2 DEF Descriptors
<1>12. Descriptors'
  <2>0. /\ Range(perf_fds'[slot]) = Range(perf_fds[slot]) \union {m}
        /\ \A s \in SlotSet : s # slot => Range(perf_fds'[s]) = Range(perf_fds[s])
    BY <1>7
  <2>1. \A s \in SlotSet : Live(s)' <=> Live(s)
    BY <1>1 DEF Live
  <2>2. \A s \in SlotSet : ctx'[s] = "none" => perf_fds'[s] = <<>>
    BY <1>1, <1>4, <1>6, <1>7 DEF Descriptors, Live
  <2>3. ASSUME NEW s \in SlotSet, Live(s), NEW n \in Range(perf_fds'[s]) PROVE fd'[n] = "perf"
    <3>1. n = m \/ (n \in Range(perf_fds[s]) /\ n \in Fds)
      <4>1. CASE s = slot
        BY <1>5, <2>0, <2>3, <4>1
      <4>2. CASE s # slot
        BY <1>5, <2>0, <2>3, <4>2
      <4> QED  BY <4>1, <4>2
    <3>2. n \in Range(perf_fds[s]) => fd[n] = "perf"
      BY <2>3 DEF Descriptors
    <3> QED  BY <1>8, <3>1, <3>2
  <2>4. ASSUME NEW s \in SlotSet, NEW t \in SlotSet, Live(s), Live(t), s # t
        PROVE  Range(perf_fds'[s]) \intersect Range(perf_fds'[t]) = {}
    <3>1. /\ Range(perf_fds[s]) \intersect Range(perf_fds[t]) = {}
          /\ m \notin Range(perf_fds[s]) /\ m \notin Range(perf_fds[t])
      BY <1>11, <2>4 DEF Descriptors
    <3>2. CASE s = slot
      BY <2>0, <2>4, <3>1, <3>2
    <3>3. CASE t = slot
      BY <2>0, <2>4, <3>1, <3>3
    <3>4. CASE s # slot /\ t # slot
      BY <2>0, <3>1, <3>4
    <3> QED  BY <3>2, <3>3, <3>4
  <2>5. ASSUME NEW n \in Fds, fd'[n] = "perf"
        PROVE  \E s \in SlotSet : Live(s) /\ n \in Range(perf_fds'[s])
    <3>1. CASE n = m
      BY <1>4, <1>6, <1>7, <3>1
    <3>2. CASE n # m
      <4>1. PICK s \in SlotSet : Live(s) /\ n \in Range(perf_fds[s])
        BY <1>8, <2>5, <3>2 DEF Descriptors
      <4> QED  BY <1>7, <4>1
    <3> QED  BY <3>1, <3>2
  <2>6. \A s \in SlotSet : s \in mapped' <=> HasCgroup /\ perf_fds'[s] # <<>>
    BY <1>1, <1>6, <1>7 DEF Descriptors, Samples
  <2> QED  BY <2>1, <2>2, <2>3, <2>4, <2>5, <2>6 DEF Descriptors
<1>13. Cgroup'
  <2>1. cgroup_fd \in Fds \union {0}
    BY DEF Types
  <2> QED  BY <1>1, <1>2, <1>8, <2>1 DEF Cgroup, SettingUp, Ending
<1> QED  BY <1>9, <1>10, <1>12, <1>13

LEMMA StoreKeeps ==
    ASSUME Holding, Store
    PROVE  Holding'
<1> USE DEF Holding
<1>1. /\ pc = "open"
      /\ ctx' = [c \in Contexts |->
                   IF c = Slot \/ (c = PkgOf(Slot) /\ LastOfPkg) \/ (c = GroupOf(Slot) /\ LastOfGroup)
                   THEN "stored" ELSE ctx[c]]
      /\ at' = (IF LastSlot THEN 1 ELSE at + 1)
      /\ pc' = (IF LastSlot THEN "enable"
                ELSE IF LastOfGroup THEN "group" ELSE IF LastOfPkg THEN "pkg" ELSE "cpu")
      /\ UNCHANGED <<fd, cgroup_fd, locals, perf_fds, mapped, ticks, foreign, twice, nomem>>
  BY DEF Store, countVars, faultVars
<1>2. /\ Slot \in SlotSet /\ GroupOf(Slot) \in Contexts /\ PkgOf(Slot) \in Contexts /\ Slot \in Contexts
      /\ Len(GroupOf(Slot)) = 1 /\ Len(PkgOf(Slot)) = 2 /\ Len(Slot) = 3
  BY Levelled, SlotPaths
<1>3. /\ Fresh = {GroupOf(Slot), PkgOf(Slot), Slot}
      /\ locals["group"] = GroupOf(Slot) /\ locals["pkg"] = PkgOf(Slot)
  <2>1. Pointed(Levels)
    BY <1>1 DEF Places
  <2> QED  BY <2>1, Levelled DEF Pointed, Levels
<1>4. \A c \in Contexts : (Live(c)' <=> Live(c)) /\ (ctx'[c] = "none" <=> ctx[c] = "none")
          /\ (ctx[c] # "freed" => ctx'[c] # "freed")
  BY <1>1, <1>3 DEF Live, Fresh
<1>5. at' \in DOMAIN Slots /\ (~LastSlot => at' = at + 1)
  BY <1>1, SlotsAreDistinct DEF Types, LastSlot
<1>6. Types'
  <2>1. ctx' \in [Contexts -> {"none", "fresh", "stored", "freed"}]
    BY <1>1 DEF Types
  <2> QED  BY <1>1, <1>5, <2>1 DEF Types
<1>7. Fresh' = {c \in Fresh : ~(\/ c = Slot \/ (c = PkgOf(Slot) /\ LastOfPkg)
                                \/ (c = GroupOf(Slot) /\ LastOfGroup))}
  BY <1>1 DEF Fresh
<1>8. LastSlot => LastOfGroup
  BY DEF LastOfGroup
<1>9. LastOfGroup => LastOfPkg
  <2>1. CASE LastSlot
    BY <2>1 DEF LastOfPkg
  <2>2. CASE ~LastSlot /\ LastOfGroup
    <3>1. Slots[at + 1] \in SlotSet /\ GroupOf(Slots[at + 1]) # GroupOf(Slot)
      BY <1>5, <2>2, SlotsAreDistinct DEF LastOfGroup
    <3>2. PkgOf(Slots[at + 1]) # PkgOf(Slot)
      BY <1>2, <3>1, SlotPaths
    <3> QED  BY <3>2 DEF LastOfPkg
  <2> QED  BY <2>1, <2>2
<1>10. Places'
  <2>1. CASE LastOfGroup
    <3>1. Fresh' = {}
      BY <1>3, <1>7, <1>9, <2>1
    <3> QED  BY <1>1, <2>1, <3>1 DEF Places, SettingUp
  <2>2. CASE LastOfPkg /\ ~LastOfGroup
    <3>1. Fresh' = {GroupOf(Slot)} /\ pc' = "pkg"
      BY <1>1, <1>2, <1>3, <1>7, <1>8, <2>2
    <3>2. GroupOf(Slot)' = GroupOf(Slot)
      BY <1>5, <1>8, <2>2 DEF LastOfGroup, Slot
    <3>3. Pointed({"group"})'
      BY <1>1, <1>3, <3>1, <3>2 DEF Pointed, ContextAt
    <3> QED  BY <3>1, <3>3 DEF Places, SettingUp
  <2>3. CASE ~LastOfPkg
    <3>1. Fresh' = {GroupOf(Slot), PkgOf(Slot)} /\ pc' = "cpu"
      BY <1>1, <1>2, <1>3, <1>7, <1>8, <1>9, <2>3
    <3>2. PkgOf(Slot)' = PkgOf(Slot)
      BY <1>5, <1>8, <1>9, <2>3 DEF LastOfPkg, Slot
    <3>3. GroupOf(Slot)' = GroupOf(Slot)
      BY <1>5, <1>8, <1>9, <2>3 DEF LastOfGroup, Slot
    <3>4. Pointed({"group", "pkg"})'
      BY <1>1, <1>3, <3>1, <3>2, <3>3 DEF Pointed, ContextAt
    <3> QED  BY <3>1, <3>4 DEF Places, SettingUp
  <2> QED  BY <2>1, <2>2, <2>3
<1>11. Rooted'
  BY <1>4, Paths DEF Rooted
<1>12. Freed'
  BY <1>1, <1>4 DEF Freed, Ending
<1>13. Descriptors'
  BY <1>1, <1>4, SlotPaths DEF Descriptors
<1>14. Cgroup'
  BY <1>1 DEF Cgroup, SettingUp, Ending
<1> QED  BY <1>6, <1>10, <1>11, <1>12, <1>13, <1>14

LEMMA HoldingIsInductive == Spec => []Holding
<1>1. Holding /\ [Next]_vars => Holding'
  <2> SUFFICES ASSUME Holding, [Next]_vars PROVE Holding'
    OBVIOUS
  <2>1. CASE UNCHANGED vars
    <3>1. Still /\ UNCHANGED <<pc, at, ticks>>
      BY <2>1 DEF vars, contextVars, countVars, faultVars, Still
    <3>2. Rooted' /\ Descriptors' /\ Fresh' = Fresh
      BY <3>1, StillKeeps
    <3>3. Types' /\ Freed' /\ Cgroup'
      BY <3>1 DEF Holding, Types, Freed, Cgroup, Live, Still
    <3>4. Places'
      BY <3>1, <3>2 DEF Holding, Places, Pointed, ContextAt, Slot, Still
    <3> QED  BY <3>2, <3>3, <3>4 DEF Holding
  <2> QED  BY <2>1, OpenCgroupKeeps, FailsKeep, MapFailsKeeps, CreateContextKeeps, CreateFailsKeeps,
              OpenEventKeeps, StoreKeeps, ReleasesKeep, TicksKeep, PopulateFailsKeeps, OthersKeep
           DEF Next, ActorStep
<1> QED  BY <1>1, InitHolds, PTL DEF Spec

-----------------------------------------------------------------------------
\* Every variable of the module keeps its type.
THEOREM TypeCorrect == Spec => []TypeOK
<1>1. IInv /\ Holding => TypeOK
  <2> SUFFICES ASSUME IInv, Holding PROVE TypeOK
    OBVIOUS
  <2>1. \A v \in {count, values, occurred, reported} : v \in [SlotSet -> Nat]
    BY DEF IInv, CountTypes
  <2>2. \A v \in {foreign, twice, nomem} : v \in BOOLEAN
    BY DEF Holding, Types
  <2>3. {foreign, twice, nomem} \subseteq BOOLEAN
    BY <2>2
  <2>4. lost \subseteq SlotSet /\ buffer \in Nat
    BY DEF IInv, CountTypes
  <2> QED  BY <2>1, <2>3, <2>4 DEF Holding, Types, TypeOK
<1> QED  BY <1>1, Inductive, HoldingIsInductive, PTL

\* An actor that has ended has freed every context and closed every descriptor
\* it has listed, whichever call had failed.
THEOREM NothingIsLeft == Spec => []NothingLeft
<1>1. Holding => NothingLeft
  <2> SUFFICES ASSUME Holding, pc = "exited"
               PROVE  /\ \A c \in Contexts : ctx[c] \in {"none", "freed"}
                      /\ \A n \in Fds : fd[n] \in {"free", "other", "unlisted"}
    BY DEF NothingLeft
  <2>1. \A c \in Contexts : ~Live(c)
    BY DEF Holding, Freed
  <2>2. \A c \in Contexts : ctx[c] \in {"none", "freed"}
    BY <2>1 DEF Live, Holding, Types
  <2>3. \A n \in Fds : fd[n] # "perf"
    BY <2>1, SlotPaths DEF Holding, Descriptors
  <2>4. \A n \in Fds : fd[n] # "cgroup"
    <3>1. cgroup_fd # 0 => fd[cgroup_fd] # "cgroup"
      BY DEF Holding, Cgroup
    <3>2. \A n \in Fds : n # 0
      BY DEF Fds
    <3> QED  BY <3>1, <3>2 DEF Holding, Cgroup
  <2>5. \A n \in Fds : fd[n] \in {"free", "other", "unlisted"}
    BY <2>3, <2>4 DEF Holding, Types
  <2> QED  BY <2>2, <2>5
<1> QED  BY <1>1, HoldingIsInductive, PTL

\* No error path frees a context or a table twice, unless it was an allocation
\* that failed.
THEOREM FreesOnce == Spec => []FreedOnce
<1>1. Holding => FreedOnce
  BY DEF Holding, Freed, FreedOnce
<1> QED  BY <1>1, HoldingIsInductive, PTL

\* The actor works on descriptors of its own, and closes another thread's only
\* where the cgroup's descriptor is closed for the second time.
THEOREM DescriptorsAreOwn == Spec => []OwnDescriptors
<1>1. Holding => OwnDescriptors
  <2> SUFFICES ASSUME Holding PROVE OwnDescriptors
    OBVIOUS
  <2>1. ASSUME NEW s \in SlotSet, ctx[s] \in {"fresh", "stored"}, NEW i \in DOMAIN perf_fds[s]
        PROVE  fd[perf_fds[s][i]] = "perf"
    <3>1. perf_fds[s][i] \in Range(perf_fds[s])
      BY DEF Range
    <3> QED  BY <2>1, <3>1 DEF Holding, Descriptors, Live
  <2>2. \A s \in SlotSet : s \in mapped <=> HasCgroup /\ perf_fds[s] # <<>>
    BY DEF Holding, Descriptors
  <2>3. foreign => HasCgroup /\ pc \in {"exited", "undefined"} /\ ticks = 0
    BY DEF Holding, Cgroup
  <2> QED  BY <2>1, <2>2, <2>3 DEF OwnDescriptors
<1> QED  BY <1>1, HoldingIsInductive, PTL

-----------------------------------------------------------------------------
\* The actor waits for its pipe and its ticker, or has ended.
Waiting == pc \in {"idle", "exited", "undefined"}

\* The steps until it does again, at most, when no group has more than "most"
\* events: for a slot its three contexts, its events and its place in the tables;
\* in a tick, its read and its reset; at the end, what is to be released.
Room(most) == IF Len(perf_fds[Slot]) <= most THEN most - Len(perf_fds[Slot]) ELSE 0
PerSlot(most) == most + 4
Later(per)    == (Len(Slots) - at) * per
StepsLeft(most) ==
    CASE pc = "start"   -> Later(PerSlot(most)) + most + 7
      [] pc = "group"   -> Later(PerSlot(most)) + most + 6
      [] pc = "pkg"     -> Later(PerSlot(most)) + most + 5
      [] pc = "cpu"     -> Later(PerSlot(most)) + most + 4
      [] pc = "open"    -> Later(PerSlot(most)) + 3 + Room(most)
      [] pc = "error"   -> 2
      [] pc = "cleanup" -> 1
      [] pc = "enable"  -> 1
      [] pc = "read"    -> Later(2) + 3
      [] pc = "reset"   -> Later(2) + 2
      [] pc = "send"    -> 1
      [] OTHER          -> 0

\* A slot less to come is the steps of a slot less.
LEMMA LaterIs ==
    ASSUME Types, NEW per \in Nat
    PROVE  /\ Later(per) \in Nat
           /\ Later(per) <= (Len(Slots) - 1) * per /\ (Len(Slots) - 1) * per \in Nat
           /\ at' = at => Later(per)' = Later(per)
           /\ at' = at + 1 /\ at # Len(Slots) => Later(per) = Later(per)' + per /\ Later(per)' \in Nat
<1>1. at \in 1 .. Len(Slots) /\ Len(Slots) \in Nat
  BY SlotsAreDistinct DEF Types
<1>2. PICK later, before \in Nat : later = Len(Slots) - at /\ before = at - 1
  <2>1. Len(Slots) - at \in Nat /\ at - 1 \in Nat
    BY <1>1
  <2> QED  BY <2>1
<1>3. Later(per) = later * per /\ later * per \in Nat /\ before * per \in Nat
  BY <1>2 DEF Later
<1>4. (Len(Slots) - 1) * per = later * per + before * per
  <2>1. Len(Slots) - 1 = later + before
    BY <1>1, <1>2
  <2>2. (later + before) * per = later * per + before * per
    BY <1>2
  <2> QED  BY <2>1, <2>2
<1>5. ASSUME at' = at + 1, at # Len(Slots)
      PROVE  Later(per) = Later(per)' + per /\ Later(per)' \in Nat
  <2>1. PICK less \in Nat : later = less + 1 /\ Len(Slots) - at' = less
    <3>1. later - 1 \in Nat /\ later = (later - 1) + 1 /\ Len(Slots) - at' = later - 1
      BY <1>1, <1>2, <1>5
    <3> QED  BY <3>1
  <2>2. (less + 1) * per = less * per + per /\ less * per \in Nat
    OBVIOUS
  <2>3. Later(per)' = less * per
    BY <2>1 DEF Later
  <2> QED  BY <1>3, <2>1, <2>2, <2>3
<1>6. at' = at => Later(per)' = Later(per)
  BY DEF Later
<1> DEFINE p == Later(per)
           q == later * per
           r == before * per
           s == (Len(Slots) - 1) * per
<1>7. p = q /\ q \in Nat /\ r \in Nat /\ s = q + r
  BY <1>3, <1>4
<1> HIDE DEF p, q, r, s
<1>8. p \in Nat /\ p <= s /\ s \in Nat
  BY <1>7
<1> QED  BY <1>5, <1>6, <1>8 DEF p, s

LEMMA RoomIs ==
    ASSUME Types, NEW most \in Nat
    PROVE  Room(most) \in 0 .. most
<1>1. Slot \in SlotSet
  BY SlotsAreDistinct DEF Types, Slot
<1>2. Len(perf_fds[Slot]) \in Nat
  BY <1>1, LenProperties DEF Types
<1> QED  BY <1>2 DEF Room

LEMMA StepsLeftIs ==
    ASSUME Types, NEW most \in Nat
    PROVE  /\ StepsLeft(most) \in Nat
           /\ StepsLeft(most) <= Len(Slots) * PerSlot(most) + 3
           /\ ~Waiting => StepsLeft(most) >= 1
<1> DEFINE p == Later(PerSlot(most))
           q == Later(2)
           m == Len(Slots) - 1
           s == m * PerSlot(most)
           t == m * 2
           w == Len(Slots) * PerSlot(most)
<1>1. PerSlot(most) \in Nat /\ PerSlot(most) = most + 4 /\ 2 \in Nat
  BY DEF PerSlot
<1>2. p \in Nat /\ p <= s /\ s \in Nat /\ q \in Nat /\ q <= t /\ t \in Nat
  BY <1>1, LaterIs
<1>3. m \in Nat /\ Len(Slots) = m + 1
  BY SlotsAreDistinct
<1>4. w = s + most + 4
  BY <1>1, <1>3
<1>5. t <= s
  <2>1. m * (most + 4) = m * most + m * 4 /\ m * most \in Nat
    BY <1>3
  <2> QED  BY <1>1, <1>3, <2>1
<1>6. Room(most) \in 0 .. most
  BY RoomIs
<1>7. StepsLeft(most) =
    CASE pc = "start"   -> p + most + 7
      [] pc = "group"   -> p + most + 6
      [] pc = "pkg"     -> p + most + 5
      [] pc = "cpu"     -> p + most + 4
      [] pc = "open"    -> p + 3 + Room(most)
      [] pc = "error"   -> 2
      [] pc = "cleanup" -> 1
      [] pc = "enable"  -> 1
      [] pc = "read"    -> q + 3
      [] pc = "reset"   -> q + 2
      [] pc = "send"    -> 1
      [] OTHER          -> 0
  BY DEF StepsLeft
<1>8. pc \in {"start", "group", "pkg", "cpu", "open", "enable", "idle", "read", "reset", "send",
              "error", "cleanup", "exited", "undefined"}
  BY DEF Types
<1> HIDE DEF p, q, s, t, w, m
<1>9. StepsLeft(most) \in Nat /\ StepsLeft(most) <= w + 3 /\ (~Waiting => StepsLeft(most) >= 1)
  BY <1>2, <1>4, <1>5, <1>6, <1>7, <1>8 DEF Waiting
<1> QED  BY <1>9 DEF w

LEMMA BusyStepCounts ==
    ASSUME Types, NEW most \in Nat, \A g \in Groups : EventsOf[g] <= most,
           ~Waiting, ActorStep
    PROVE  StepsLeft(most)' < StepsLeft(most)
<1> USE DEF Waiting
<1>1. /\ Later(PerSlot(most)) \in Nat /\ Later(2) \in Nat /\ Room(most) \in 0 .. most
      /\ PerSlot(most) = most + 4 /\ StepsLeft(most) \in Nat /\ StepsLeft(most) >= 1
  BY LaterIs, RoomIs, StepsLeftIs DEF PerSlot
<1> DEFINE p == Later(PerSlot(most))
           q == Later(2)
           left == StepsLeft(most)
<1>2. PICK p1, q1, room1, left1 :
          /\ p1 = Later(PerSlot(most))' /\ q1 = Later(2)'
          /\ room1 = Room(most)' /\ left1 = StepsLeft(most)'
  OBVIOUS
<1> SUFFICES left1 < left
  BY <1>2
<1>3. at' = at => p1 = p /\ q1 = q
  BY <1>2 DEF Later, PerSlot
<1>4. at' = at + 1 /\ at # Len(Slots) => /\ p = p1 + most + 4 /\ p1 \in Nat
                                         /\ q = q1 + 2 /\ q1 \in Nat
  <2> SUFFICES ASSUME at' = at + 1, at # Len(Slots)
               PROVE  p = p1 + most + 4 /\ p1 \in Nat /\ q = q1 + 2 /\ q1 \in Nat
    OBVIOUS
  <2>1. \A per \in Nat : Later(per) = Later(per)' + per /\ Later(per)' \in Nat
    BY LaterIs
  <2>2. q = q1 + 2 /\ q1 \in Nat
    BY <1>2, <2>1
  <2>3. p = p1 + PerSlot(most) /\ p1 \in Nat
    BY <1>2, <2>1 DEF PerSlot
  <2> HIDE DEF p, q
  <2> QED  BY <1>1, <2>2, <2>3
<1>5. left =
    CASE pc = "start"   -> p + most + 7
      [] pc = "group"   -> p + most + 6
      [] pc = "pkg"     -> p + most + 5
      [] pc = "cpu"     -> p + most + 4
      [] pc = "open"    -> p + 3 + Room(most)
      [] pc = "error"   -> 2
      [] pc = "cleanup" -> 1
      [] pc = "enable"  -> 1
      [] pc = "read"    -> q + 3
      [] pc = "reset"   -> q + 2
      [] pc = "send"    -> 1
      [] OTHER          -> 0
  BY DEF StepsLeft
<1>6. left1 =
    CASE pc' = "start"   -> p1 + most + 7
      [] pc' = "group"   -> p1 + most + 6
      [] pc' = "pkg"     -> p1 + most + 5
      [] pc' = "cpu"     -> p1 + most + 4
      [] pc' = "open"    -> p1 + 3 + room1
      [] pc' = "error"   -> 2
      [] pc' = "cleanup" -> 1
      [] pc' = "enable"  -> 1
      [] pc' = "read"    -> q1 + 3
      [] pc' = "reset"   -> q1 + 2
      [] pc' = "send"    -> 1
      [] OTHER           -> 0
  BY <1>2 DEF StepsLeft
<1>7. pc' \in {"idle", "exited", "undefined"} => left1 < left
  BY <1>1, <1>6
<1>0. p \in Nat /\ q \in Nat
  BY <1>1
<1> HIDE DEF left, p, q
<1>8. CASE OpenCgroup \/ OpenCgroupFails
  <2>1. pc = "start" /\ pc' \in {"group", "error"} /\ at' = at
    BY <1>8 DEF OpenCgroup, OpenCgroupFails
  <2> QED  BY <1>0, <1>3, <1>5, <1>6, <2>1
<1>9. ASSUME NEW level \in Levels, CreateContext(level) \/ CreateFails(level)
      PROVE  left1 < left
  <2>1. /\ at' = at /\ perf_fds' = perf_fds
        /\ \/ pc = "group" /\ pc' \in {"pkg", "error"}
           \/ pc = "pkg" /\ pc' \in {"cpu", "error"}
           \/ pc = "cpu" /\ pc' \in {"open", "error"}
    BY <1>9 DEF Levels, CreateContext, CreateFails
  <2>2. room1 = Room(most)
    BY <1>2, <2>1 DEF Room, Slot
  <2> QED  BY <1>0, <1>1, <1>3, <1>5, <1>6, <2>1, <2>2
<1>10. CASE OpenEvent
  <2>1. /\ pc = "open" /\ pc' = pc /\ at' = at /\ Len(perf_fds[Slot]) < EventsOf[Slot[1]]
        /\ \E n \in Fds : perf_fds' = [perf_fds EXCEPT ![Slot] = Append(@, n)]
    BY <1>10 DEF OpenEvent
  <2>2. Slot \in SlotSet /\ Slot[1] \in Groups /\ Slot' = Slot
    BY <2>1, SlotsAreDistinct DEF Types, Slot, Groups
  <2>3. perf_fds[Slot] \in Seq(Fds) /\ Len(perf_fds[Slot]) \in Nat
    BY <2>2, LenProperties DEF Types
  <2>4. Len(perf_fds'[Slot]) = Len(perf_fds[Slot]) + 1
    BY <2>1, <2>2, <2>3, AppendProperties DEF Types
  <2>5. Len(perf_fds[Slot]) < most
    BY <2>1, <2>2, <2>3, EventsAssumption
  <2> DEFINE n == Len(perf_fds[Slot])
             m == Len(perf_fds'[Slot])
  <2>6. /\ Room(most) = IF n <= most THEN most - n ELSE 0
        /\ room1 = IF m <= most THEN most - m ELSE 0
    BY <1>2, <2>2 DEF Room
  <2>7. n \in Nat /\ n < most /\ m = n + 1
    BY <2>3, <2>4, <2>5
  <2> HIDE DEF n, m
  <2>8. room1 = Room(most) - 1
    BY <2>6, <2>7
  <2> QED  BY <1>0, <1>1, <1>3, <1>5, <1>6, <2>1, <2>8
<1>11. CASE OpenEventFails \/ MapFails
  <2>1. pc = "open" /\ pc' = "error"
    BY <1>11 DEF OpenEventFails, MapFails
  <2> QED  BY <1>0, <1>1, <1>5, <1>6, <2>1
<1>12. CASE Store
  <2>1. /\ pc = "open"
        /\ \/ pc' = "enable"
           \/ pc' \in {"group", "pkg", "cpu"} /\ at' = at + 1 /\ at # Len(Slots)
    BY <1>12 DEF Store, LastSlot
  <2>2. left = p + 3 + Room(most) /\ Room(most) >= 0 /\ Room(most) \in Int
    BY <1>1, <1>5, <2>1
  <2>3. CASE pc' = "enable"
    <3>1. left1 = 1
      BY <1>6, <2>3
    <3> QED  BY <1>0, <2>2, <3>1
  <2>4. CASE pc' \in {"group", "pkg", "cpu"} /\ at' = at + 1 /\ at # Len(Slots)
    <3>1. p = p1 + most + 4 /\ p1 \in Nat
      BY <1>4, <2>4
    <3>2. left1 \in {p1 + most + 6, p1 + most + 5, p1 + most + 4}
      BY <1>6, <2>4
    <3>3. left1 \in Int /\ left1 <= p1 + most + 6
      BY <3>1, <3>2
    <3>4. left = p1 + most + 7 + Room(most)
      BY <2>2, <3>1
    <3> QED  BY <2>2, <3>1, <3>3, <3>4
  <2> QED  BY <2>1, <2>3, <2>4
<1>13. CASE InitializeError
  <2>1. pc = "error" /\ pc' \in {"undefined", "cleanup"}
    BY <1>13 DEF InitializeError, Release
  <2> QED  BY <1>5, <1>6, <2>1
<1>14. CASE DestroyContext \/ EnableGroups \/ SendPayload
           \/ \E failed \in Failures : PopulateFails(failed)
  <2>1. pc' \in {"idle", "exited", "undefined"}
    BY <1>14 DEF DestroyContext, Release, EnableGroups, SendPayload, PopulateFails
  <2> QED  BY <1>7, <2>1
<1>15. CASE ReadCpu
  <2>1. pc = "read" /\ pc' = "reset" /\ at' = at
    BY <1>15 DEF ReadCpu
  <2> QED  BY <1>0, <1>3, <1>5, <1>6, <2>1
<1>16. CASE ResetCpu
  <2>1. /\ pc = "reset"
        /\ \/ pc' = "send"
           \/ pc' = "read" /\ at' = at + 1 /\ at # Len(Slots)
    BY <1>16 DEF ResetCpu, LastSlot
  <2> QED  BY <1>0, <1>4, <1>5, <1>6, <2>1
<1>17. ~HandleTicker /\ ~Terminate
  BY DEF HandleTicker, Terminate
<1> QED  BY <1>8, <1>9, <1>10, <1>11, <1>12, <1>13, <1>14, <1>15, <1>16, <1>17 DEF ActorStep

\* The kernel and the other threads do not prolong what the actor does.
LEMMA OthersDoNotProlong ==
    ASSUME \/ \E s \in SlotSet : CountEvent(s)
           \/ OtherOpens \/ OtherCloses \/ UNCHANGED vars,
           NEW most
    PROVE  StepsLeft(most)' = StepsLeft(most)
<1>1. pc' = pc /\ at' = at /\ perf_fds' = perf_fds
  BY DEF CountEvent, OtherOpens, OtherCloses, contextVars, vars
<1> QED  BY <1>1 DEF StepsLeft, Later, PerSlot, Room, Slot

\* The set-up of the actor, the handling of a tick and its end come to an end
\* whatever call fails, however many descriptors other threads take and however
\* fast the kernel counts: the actor is back at its poller, where it reads "$TERM",
\* after a number of steps that the slots and their events bound.
THEOREM HandlersEnd ==
    ASSUME NEW most \in Nat, \A g \in Groups : EventsOf[g] <= most
    PROVE  Spec => [][/\ StepsLeft(most) \in 0 .. Len(Slots) * PerSlot(most) + 3
                      /\ ~Waiting /\ ActorStep => StepsLeft(most)' < StepsLeft(most)
                      /\ ~Waiting /\ ~ActorStep => StepsLeft(most)' = StepsLeft(most)]_vars
<1> DEFINE Counts == /\ StepsLeft(most) \in 0 .. Len(Slots) * PerSlot(most) + 3
                     /\ ~Waiting /\ ActorStep => StepsLeft(most)' < StepsLeft(most)
                     /\ ~Waiting /\ ~ActorStep => StepsLeft(most)' = StepsLeft(most)
<1>1. Holding /\ [Next]_vars => [Counts]_vars
  <2> SUFFICES ASSUME Holding, [Next]_vars
               PROVE  Counts
    OBVIOUS
  <2>1. Types
    BY DEF Holding
  <2>2. Len(Slots) * PerSlot(most) + 3 \in Int
    BY SlotsAreDistinct DEF PerSlot
  <2>3. StepsLeft(most) \in 0 .. Len(Slots) * PerSlot(most) + 3
    BY <2>1, <2>2, StepsLeftIs
  <2>4. ~Waiting /\ ActorStep => StepsLeft(most)' < StepsLeft(most)
    BY <2>1, BusyStepCounts
  <2>5. ~Waiting /\ ~ActorStep => StepsLeft(most)' = StepsLeft(most)
    BY OthersDoNotProlong DEF Next
  <2> QED  BY <2>3, <2>4, <2>5
<1> QED  BY <1>1, HoldingIsInductive, PTL DEF Spec
=============================================================================
