------------------------ MODULE SocketStorageProofs -------------------------
(***************************************************************************)
(* Proofs about SocketStorage, for any maximal retry duration, jitter and  *)
(* durations of the connection attempts, and any number of failures.       *)
(***************************************************************************)
EXTENDS SocketStorage, Arithmetic

\* What a call of socket_store_report has done, by the place it stands at: the
\* calls of send(2) are the uses of retry_once, and nothing of the report is on
\* the network before a send that ends the call.
Calling ==
    /\ SendHasSocket
    /\ pc # "idle" => copies = 0 /\ ~truncated /\ result = "none"
    /\ pc = "reconnect" => sends = 0 /\ retry_once = 1
    /\ pc = "send" => sends = 1 - retry_once
    /\ pc = "retry" => sends = 1 /\ retry_once = 1
    /\ pc = "idle" => NoDuplicate /\ ErrorMeansLost

\* socket_fd is stale only once the module has been deinitialised.
Owning ==
    /\ socket_fd = "stale" => phase = "deinitialized"
    /\ ClosesOwnSocket

IInv == TypeOK /\ Calling /\ Owning /\ BackoffCeiling /\ BackoffDoubles

\* Saturating a time keeps it a natural number.
LEMMA CeilingType == Ceiling \in Nat
  BY DurationAssumption DEF Ceiling

LEMMA SaturatedType ==
    ASSUME NEW t \in Nat
    PROVE  Saturated(t) \in Nat
  BY CeilingType DEF Saturated

LEMMA IInvInit == Init => IInv
<1> SUFFICES ASSUME Init
             PROVE  IInv
  OBVIOUS
<1> USE DEF Init
<1>1. TypeOK
  <2>1. elapsed \in Nat /\ quiet \in Nat
    BY CeilingType
  <2>2. failures \in 0 .. MaxFailures /\ retry_backoff_time \in Nat \ {0}
    BY FailuresAssumption
  <2>3. sends \in Nat /\ copies \in Nat /\ retry_once \in {0, 1}
    OBVIOUS
  <2> QED  BY <2>1, <2>2, <2>3, Zenon DEF TypeOK
<1>2. Calling           BY DEF Calling, SendHasSocket, NoDuplicate, ErrorMeansLost
<1>3. Owning            BY DEF Owning, ClosesOwnSocket
<1>4. BackoffCeiling    BY DEF BackoffCeiling
<1>5. BackoffDoubles    BY PowerOfTwo DEF BackoffDoubles
<1> QED  BY <1>1, <1>2, <1>3, <1>4, <1>5 DEF IInv

\* One doubling of a backoff below the maximum stays below the ceiling.
LEMMA ConnectFailsKeepsIInv ==
    ASSUME IInv, NEW d \in Durations, NEW jitter \in 0 .. MaxJitter, ConnectFails(d, jitter)
    PROVE  IInv'
<1> USE DEF IInv, ConnectFails, AttemptFails, Reconnecting, CloseSocket, Return, networkVars, reportVars
<1>1. BackoffCeiling' /\ retry_backoff_time' \in Nat \ {0}
  BY DurationAssumption DEF BackoffCeiling, TypeOK
<1>2. d \in Nat /\ Saturated(d) \in Nat
  BY DurationsAssumption, SaturatedType
<1>3. failures' \in 0 .. MaxFailures
  BY FailuresAssumption DEF TypeOK, MoreFailures
<1>4. TypeOK'
  BY <1>1, <1>2, <1>3 DEF TypeOK
<1>5. Calling'
  BY DEF TypeOK, Calling, SendHasSocket, NoDuplicate, ErrorMeansLost
<1>6. Owning'
  BY DEF TypeOK, Owning, ClosesOwnSocket
<1>7. BackoffDoubles'
  <2>1. failures \in Nat /\ retry_backoff_time \in Nat \ {0}
    BY FailuresAssumption DEF TypeOK
  <2>2. 2 ^ failures \in Nat /\ 2 ^ (failures + 1) = 2 * 2 ^ failures
    BY <2>1, PowerOfTwo
  <2>3. failures' = failures + 1 \/ failures' = failures
    BY DEF MoreFailures
  <2>4. CASE retry_backoff_time < MaxDuration
    <3>1. retry_backoff_time >= 2 ^ failures /\ retry_backoff_time' = retry_backoff_time * 2 + jitter
      BY <2>1, <2>2, <2>4, DurationAssumption DEF BackoffDoubles
    <3> DEFINE power == 2 ^ failures
               more  == 2 ^ (failures + 1)
    <3>2. power \in Nat /\ more = 2 * power /\ retry_backoff_time >= power
      BY <2>2, <3>1
    <3> HIDE DEF power, more
    <3>3. retry_backoff_time' >= power /\ retry_backoff_time' >= more
      BY <2>1, <3>1, <3>2, DurationAssumption
    <3> QED  BY <2>3, <3>3 DEF power, more, BackoffDoubles
  <2>5. CASE retry_backoff_time >= MaxDuration
    BY <2>1, <2>5, DurationAssumption DEF BackoffDoubles
  <2> QED  BY <2>1, <2>4, <2>5, DurationAssumption
<1> QED  BY <1>1, <1>4, <1>5, <1>6, <1>7

LEMMA StoreStepKeepsIInv ==
    ASSUME IInv, StoreStep
    PROVE  IInv'
<1> USE DEF IInv, TypeOK, Calling, Owning, SendHasSocket, NoDuplicate, ErrorMeansLost,
            ClosesOwnSocket, BackoffCeiling, BackoffDoubles, Return, moduleVars, networkVars,
            historyVars, reportVars
<1>1. CASE SendWhole  BY <1>1 DEF SendWhole
<1>2. CASE SendCut    BY <1>2 DEF SendCut
<1>3. CASE SendFails  BY <1>3 DEF SendFails
<1>4. CASE TooEarly   BY <1>4 DEF TooEarly, Reconnecting, CloseSocket
<1>5. CASE Reconnect
  BY <1>5, CeilingType, FailuresAssumption, PowerOfTwo
  DEF Reconnect, AttemptSucceeds, Reconnecting, CloseSocket
<1>6. CASE \E d \in Durations, jitter \in 0 .. MaxJitter : ConnectFails(d, jitter)
  BY <1>6, ConnectFailsKeepsIInv
<1> QED  BY <1>1, <1>2, <1>3, <1>4, <1>5, <1>6 DEF StoreStep

LEMMA OtherStepsKeepIInv ==
    ASSUME IInv,
           \/ Initialize \/ InitializeFails \/ Deinitialize \/ StoreReport \/ Environment
           \/ \E d \in Durations : TimePasses(d)
           \/ UNCHANGED vars
    PROVE  IInv'
<1> USE DEF IInv, TypeOK, Calling, Owning, SendHasSocket, NoDuplicate, ErrorMeansLost,
            ClosesOwnSocket, BackoffCeiling, BackoffDoubles, moduleVars, callVars, networkVars,
            historyVars, reportVars
<1>1. CASE Initialize       BY <1>1 DEF Initialize
<1>2. CASE InitializeFails  BY <1>2 DEF InitializeFails
<1>3. CASE Deinitialize     BY <1>3 DEF Deinitialize
<1>4. CASE StoreReport
  <2>1. TypeOK'             BY <1>4 DEF StoreReport
  <2>2. Calling'            BY <1>4 DEF StoreReport
  <2>3. Owning'             BY <1>4 DEF StoreReport
  <2>4. BackoffCeiling' /\ BackoffDoubles'
    BY <1>4 DEF StoreReport
  <2> QED  BY <2>1, <2>2, <2>3, <2>4
<1>5. CASE Environment
  <2>1. CASE EndpointStops
    <3>1. TypeOK'             BY <2>1 DEF EndpointStops
    <3>2. Calling'            BY <2>1 DEF EndpointStops
    <3>3. Owning'             BY <2>1 DEF EndpointStops
    <3>4. BackoffCeiling' /\ BackoffDoubles'
      BY <2>1 DEF EndpointStops
    <3> QED  BY <3>1, <3>2, <3>3, <3>4
  <2>2. CASE EndpointStarts   BY <2>2 DEF EndpointStarts
  <2>3. CASE ConnectionEnds   BY <2>3 DEF ConnectionEnds
  <2>4. CASE ConnectionResets BY <2>4 DEF ConnectionResets
  <2> QED  BY <1>5, <2>1, <2>2, <2>3, <2>4 DEF Environment
<1>6. ASSUME NEW d \in Durations, TimePasses(d)
      PROVE  IInv'
  <2>1. Saturated(elapsed + d) \in Nat /\ Saturated(quiet + d) \in Nat
    BY DurationsAssumption, SaturatedType
  <2> QED  BY <1>6, <2>1 DEF TimePasses
<1>7. CASE UNCHANGED vars   BY <1>7 DEF vars
<1> QED  BY <1>1, <1>2, <1>3, <1>4, <1>5, <1>6, <1>7

LEMMA Inductive == Spec => []IInv
<1>1. IInv /\ [Next]_vars => IInv'
  BY StoreStepKeepsIInv, OtherStepsKeepIInv DEF Next
<1> QED  BY <1>1, IInvInit, PTL DEF Spec

\* Every variable keeps its type.
THEOREM TypeCorrect == Spec => []TypeOK
<1>1. IInv => TypeOK
  BY DEF IInv
<1> QED  BY <1>1, Inductive, PTL

\* The retry loop never sends a report three times, never delivers it twice, and
\* never sends on the descriptor -1.
THEOREM SendsSafely == Spec => [](NoDuplicate /\ SendHasSocket)
<1>1. IInv => NoDuplicate /\ SendHasSocket
  BY DEF IInv, TypeOK, Calling, NoDuplicate
<1> QED  BY <1>1, Inductive, PTL

\* A report the caller is told has failed was not delivered, not even in part.
THEOREM FailureIsHonest == Spec => []ErrorMeansLost
<1>1. IInv => ErrorMeansLost
  BY DEF IInv, Calling, ErrorMeansLost, TypeOK
<1> QED  BY <1>1, Inductive, PTL

\* The backoff is bounded whatever the number of failures and the jitter drawn.
THEOREM BackoffBounded == Spec => []BackoffCeiling
<1>1. IInv => BackoffCeiling
  BY DEF IInv
<1> QED  BY <1>1, Inductive, PTL

\* However many attempts have failed in a row, the backoff has doubled as often or
\* reached its maximum.
THEOREM FailuresDouble == Spec => []BackoffDoubles
<1>1. IInv => BackoffDoubles
  BY DEF IInv
<1> QED  BY <1>1, Inductive, PTL

\* Until it is deinitialised, the module closes no descriptor but its own.
THEOREM OwnSocketOnly == Spec => []ClosesOwnSocket
<1>1. IInv => ClosesOwnSocket
  BY DEF IInv, Owning
<1> QED  BY <1>1, Inductive, PTL

-----------------------------------------------------------------------------
\* The steps a call of socket_store_report can still take, at most: try to
\* reconnect, send, try to reconnect once more, send again.
StepsLeft ==
    CASE pc = "reconnect"                 -> 4
      [] pc = "send" /\ retry_once = 1    -> 3
      [] pc = "retry"                     -> 2
      [] pc = "send" /\ retry_once = 0    -> 1
      [] pc = "idle"                      -> 0

LEMMA StoreStepCounts ==
    ASSUME IInv, StoreStep
    PROVE  StepsLeft' < StepsLeft
<1> USE DEF IInv, TypeOK, Calling, Return, StepsLeft
<1>1. CASE SendWhole  BY <1>1 DEF SendWhole
<1>2. CASE SendCut    BY <1>2 DEF SendCut
<1>3. CASE SendFails  BY <1>3 DEF SendFails
<1>4. CASE TooEarly   BY <1>4 DEF TooEarly, Reconnecting
<1>5. CASE Reconnect  BY <1>5 DEF Reconnect, AttemptSucceeds, Reconnecting
<1>6. CASE \E d \in Durations, jitter \in 0 .. MaxJitter : ConnectFails(d, jitter)
  BY <1>6 DEF ConnectFails, AttemptFails, Reconnecting
<1> QED  BY <1>1, <1>2, <1>3, <1>4, <1>5, <1>6 DEF StoreStep

\* No other thread prolongs a call: the deinitialisation, the endpoint, the network
\* and the clock leave it where it stands.
LEMMA OthersDoNotProlong ==
    ASSUME pc # "idle",
           \/ Initialize \/ InitializeFails \/ Deinitialize \/ StoreReport \/ Environment
           \/ \E d \in Durations : TimePasses(d)
           \/ UNCHANGED vars
    PROVE  StepsLeft' = StepsLeft
<1>1. ~StoreReport
  BY DEF StoreReport
<1>2. pc' = pc /\ retry_once' = retry_once
  BY <1>1 DEF Initialize, InitializeFails, Deinitialize, Environment, EndpointStops,
              EndpointStarts, ConnectionEnds, ConnectionResets, TimePasses, callVars, vars
<1> QED  BY <1>2 DEF StepsLeft

\* A call that has begun ends: it takes at most four steps, whatever the endpoint
\* does meanwhile and however the deinitialisation comes into it.  Without
\* retry_once a failed send could be followed by a reconnection for ever, and the
\* reporting actor, which calls from its loop, would never read "$TERM".
THEOREM CallEnds ==
    Spec => [][/\ StepsLeft \in 0 .. 4
               /\ StoreStep => StepsLeft' < StepsLeft
               /\ pc # "idle" /\ ~StoreStep => StepsLeft' = StepsLeft]_vars
<1> DEFINE Counts == /\ StepsLeft \in 0 .. 4
                     /\ StoreStep => StepsLeft' < StepsLeft
                     /\ pc # "idle" /\ ~StoreStep => StepsLeft' = StepsLeft
<1>1. IInv /\ [Next]_vars => [Counts]_vars
  <2> SUFFICES ASSUME IInv, [Next]_vars
               PROVE  Counts
    OBVIOUS
  <2>1. StepsLeft \in 0 .. 4
    BY DEF IInv, TypeOK, StepsLeft
  <2>2. StoreStep => StepsLeft' < StepsLeft
    BY StoreStepCounts
  <2>3. pc # "idle" /\ ~StoreStep => StepsLeft' = StepsLeft
    BY OthersDoNotProlong DEF Next
  <2> QED  BY <2>1, <2>2, <2>3
<1> QED  BY <1>1, Inductive, PTL DEF Spec
=============================================================================
