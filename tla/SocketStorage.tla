--------------------------- MODULE SocketStorage ----------------------------
(***************************************************************************)
(* The socket storage module (src/src/storage_socket.c): reports are sent  *)
(* over one TCP connection, re-established with an exponential backoff.    *)
(* The reporting actor calls socket_store_report, the main thread          *)
(* initialises the module and deinitialises it, possibly during a store.   *)
(*                                                                         *)
(* Time is what the module compares: "elapsed" stands for                  *)
(* difftime(time(NULL), last_retry_time), saturated where the comparison   *)
(* can no longer change, and last_retry_time = 0 is the saturated value.   *)
(* One report is followed at a time, by what the endpoint has got of it.   *)
(***************************************************************************)
EXTENDS Naturals

CONSTANTS MaxDuration,  \* MAX_DURATION_CONNECTION_RETRY
          MaxJitter,    \* largest value of rand_jitter % 10
          Durations,    \* bound: times a connection attempt or a pause may take
          MaxFailures   \* bound: failures counted

ASSUME DurationAssumption == MaxDuration \in Nat \ {0} /\ MaxJitter \in Nat
ASSUME DurationsAssumption == Durations \subseteq Nat
ASSUME FailuresAssumption == MaxFailures \in Nat

VARIABLES phase,        \* life of the module: created, initialized, ...
          socket_fd,    \* none (-1), open, or stale: closed but not reset
          link,         \* the TCP connection behind socket_fd, up, half or broken
          endpoint,     \* TRUE when the endpoint accepts connections
          elapsed,      \* seconds since last_retry_time
          retry_backoff_time,
          pc,           \* where socket_store_report stands
          retry_once,
          result,       \* what the last call returned
          late          \* a call overlaps or follows the deinitialisation

\* History, read by the properties only.
VARIABLES sends,        \* calls of send(2) for this report
          copies,       \* whole copies of this report the endpoint has got
          truncated,    \* send(2) has accepted only a part of this report
          quiet,        \* seconds since the last failed attempt ended
          failures,     \* failed attempts since the last connection
          foreign       \* a descriptor the module does not own was closed

moduleVars  == <<phase, socket_fd, retry_backoff_time, elapsed>>
callVars    == <<pc, retry_once, result, late>>
networkVars == <<link, endpoint>>
reportVars  == <<sends, copies, truncated>>
historyVars == <<quiet, failures, foreign>>
vars == <<moduleVars, callVars, networkVars, reportVars, historyVars>>

\* The largest backoff the doubling can reach, and where time saturates.
Ceiling == 2 * (MaxDuration - 1) + MaxJitter + 2
Saturated(t) == IF t < Ceiling THEN t ELSE Ceiling

\* failures is counted no further than the doubling can be told apart.
MoreFailures == IF failures < MaxFailures THEN failures + 1 ELSE failures

TypeOK ==
    /\ phase \in {"created", "initialized", "failed", "deinitialized"}
    /\ socket_fd \in {"none", "open", "stale"}
    /\ link \in {"up", "half", "broken"}
    /\ endpoint \in BOOLEAN
    /\ elapsed \in Nat
    /\ retry_backoff_time \in Nat \ {0}
    /\ pc \in {"idle", "reconnect", "send", "retry"}
    /\ retry_once \in {0, 1}
    /\ result \in {"none", "ok", "error"}
    /\ late \in BOOLEAN
    /\ sends \in Nat
    /\ copies \in Nat
    /\ truncated \in BOOLEAN
    /\ quiet \in Nat
    /\ failures \in 0 .. MaxFailures
    /\ foreign \in BOOLEAN

\* socket_context_create
Init ==
    /\ phase = "created"
    /\ socket_fd = "none"
    /\ link = "broken"
    /\ endpoint \in BOOLEAN
    /\ elapsed = Ceiling
    /\ retry_backoff_time = 1
    /\ pc = "idle"
    /\ retry_once = 1
    /\ result = "none"
    /\ late = FALSE
    /\ sends = 0
    /\ copies = 0
    /\ truncated = FALSE
    /\ quiet = Ceiling
    /\ failures = 0
    /\ foreign = FALSE

-----------------------------------------------------------------------------
\* The main thread.

\* socket_initialize: the sensor does not start without a connection.
Initialize ==
    /\ phase = "created"
    /\ endpoint
    /\ phase' = "initialized"
    /\ socket_fd' = "open"
    /\ link' = "up"
    /\ UNCHANGED <<retry_backoff_time, elapsed, callVars, endpoint, reportVars, historyVars>>

InitializeFails ==
    /\ phase = "created"
    /\ ~endpoint
    /\ phase' = "failed"
    /\ UNCHANGED <<socket_fd, retry_backoff_time, elapsed, callVars, networkVars, reportVars,
                   historyVars>>

\* socket_deinitialize closes the socket and leaves socket_fd as it is.
Deinitialize ==
    /\ phase = "initialized"
    /\ phase' = "deinitialized"
    /\ socket_fd' = IF socket_fd = "open" THEN "stale" ELSE socket_fd
    /\ late' = (pc # "idle")
    /\ UNCHANGED <<retry_backoff_time, elapsed, pc, retry_once, result, networkVars, reportVars,
                   historyVars>>

-----------------------------------------------------------------------------
\* The reporting actor, in socket_store_report.

\* A call begins; the reporting actor makes at most one that ends after the
\* deinitialisation (LateStores of module Sensor).
StoreReport ==
    /\ pc = "idle"
    /\ \/ phase = "initialized" /\ UNCHANGED late
       \/ phase = "deinitialized" /\ ~late /\ late' = TRUE
    /\ pc' = IF socket_fd = "none" THEN "reconnect" ELSE "send"
    /\ retry_once' = 1
    /\ result' = "none"
    /\ sends' = 0
    /\ copies' = 0
    /\ truncated' = FALSE
    /\ UNCHANGED <<moduleVars, networkVars, historyVars>>

Return(outcome) ==
    /\ pc' = "idle"
    /\ result' = outcome
    /\ UNCHANGED <<retry_once, late>>

\* send(2) takes the whole report; on a connection whose other end is gone
\* the bytes go nowhere.
SendWhole ==
    /\ pc = "send"
    /\ socket_fd = "open"
    /\ link \in {"up", "half"}
    /\ copies' = IF link = "up" THEN copies + 1 ELSE copies
    /\ sends' = sends + 1
    /\ Return("ok")
    /\ UNCHANGED <<moduleVars, networkVars, truncated, historyVars>>

\* Variant: a short count is an error.
SendCutFails ==
    /\ pc = "send"
    /\ socket_fd = "open"
    /\ link \in {"up", "half"}
    /\ UNCHANGED link \/ (link = "half" /\ link' = "broken")
    /\ truncated' = TRUE
    /\ sends' = sends + 1
    /\ Return("error")
    /\ UNCHANGED <<moduleVars, endpoint, copies, historyVars>>

\* The other end goes, and its reset comes, while send(2) is copying, or a signal
\* interrupts it: it returns the count of the bytes it took, which is not -1.
SendCut ==
    /\ pc = "send"
    /\ socket_fd = "open"
    /\ link \in {"up", "half"}
    /\ UNCHANGED link \/ (link = "half" /\ link' = "broken")
    /\ truncated' = TRUE
    /\ sends' = sends + 1
    /\ Return("ok")
    /\ UNCHANGED <<moduleVars, endpoint, copies, historyVars>>

\* send(2) returns -1: on a broken connection, or on any other for want of memory
\* or by a signal.  A descriptor closed meanwhile fails too, also when another
\* thread has got its number since: it opens no sockets of the kernel.
SendFails ==
    /\ pc = "send"
    /\ sends' = sends + 1
    /\ IF retry_once = 1
       THEN pc' = "retry" /\ UNCHANGED <<retry_once, result, late>>
       ELSE Return("error")
    /\ UNCHANGED <<moduleVars, networkVars, copies, truncated, historyVars>>

\* socket_try_reconnect, before the report is built or after a failed send.
\* It begins by closing the socket, whatever the descriptor stands for now.
CloseSocket == foreign' = (foreign \/ socket_fd = "stale")

Reconnecting == pc \in {"reconnect", "retry"}

\* Variant: a refused attempt counts as the last one.
TooEarlyRestartsDelay ==
    /\ Reconnecting
    /\ elapsed < retry_backoff_time
    /\ CloseSocket
    /\ socket_fd' = "none"
    /\ elapsed' = 0
    /\ Return("error")
    /\ UNCHANGED <<phase, retry_backoff_time, networkVars, reportVars, quiet, failures>>

TooEarly ==
    /\ Reconnecting
    /\ elapsed < retry_backoff_time
    /\ CloseSocket
    /\ socket_fd' = "none"
    /\ Return("error")
    /\ UNCHANGED <<phase, retry_backoff_time, elapsed, networkVars, reportVars, quiet, failures>>

\* Variant: the socket is closed and socket_fd is not reset.
AttemptFailsKeepsDescriptor(d, backoff) ==
    /\ Reconnecting
    /\ elapsed >= retry_backoff_time
    /\ ~endpoint
    /\ CloseSocket
    /\ socket_fd' = IF socket_fd = "open" THEN "stale" ELSE socket_fd
    /\ elapsed' = Saturated(d)
    /\ retry_backoff_time' = backoff
    /\ quiet' = 0
    /\ failures' = MoreFailures
    /\ Return("error")
    /\ UNCHANGED <<phase, networkVars, reportVars>>

\* The attempt took d seconds, and current_time was read before it.
AttemptFails(d, backoff) ==
    /\ Reconnecting
    /\ elapsed >= retry_backoff_time
    /\ ~endpoint
    /\ CloseSocket
    /\ socket_fd' = "none"
    /\ elapsed' = Saturated(d)
    /\ retry_backoff_time' = backoff
    /\ quiet' = 0
    /\ failures' = MoreFailures
    /\ Return("error")
    /\ UNCHANGED <<phase, networkVars, reportVars>>

\* Variant: the maximum itself is doubled.
ConnectFailsPastMax(d, jitter) ==
    AttemptFails(d, IF retry_backoff_time <= MaxDuration
                    THEN retry_backoff_time * 2 + jitter
                    ELSE retry_backoff_time)

\* Variant: the delay is only jittered.
ConnectFailsUndoubled(d, jitter) ==
    AttemptFails(d, IF retry_backoff_time < MaxDuration
                    THEN retry_backoff_time + jitter
                    ELSE retry_backoff_time)

ConnectFails(d, jitter) ==
    AttemptFails(d, IF retry_backoff_time < MaxDuration
                    THEN retry_backoff_time * 2 + jitter
                    ELSE retry_backoff_time)

AttemptSucceeds(backoff, retries) ==
    /\ Reconnecting
    /\ elapsed >= retry_backoff_time
    /\ endpoint
    /\ CloseSocket
    /\ socket_fd' = "open"
    /\ link' = "up"
    /\ elapsed' = Ceiling
    /\ retry_backoff_time' = backoff
    /\ quiet' = Ceiling
    /\ failures' = 0
    /\ pc' = "send"
    /\ retry_once' = retries
    /\ UNCHANGED <<phase, endpoint, result, late, reportVars>>

\* Variant: retry_once is not cleared.
ReconnectAgain == AttemptSucceeds(1, retry_once)

\* Variant: the delay is reset to zero, which doubling does not change.
ReconnectWithoutDelay == AttemptSucceeds(0, IF pc = "retry" THEN 0 ELSE retry_once)

Reconnect == AttemptSucceeds(1, IF pc = "retry" THEN 0 ELSE retry_once)

-----------------------------------------------------------------------------
\* The environment: time, the endpoint and the network.

TimePasses(d) ==
    /\ elapsed < Ceiling \/ quiet < Ceiling
    /\ elapsed' = Saturated(elapsed + d)
    /\ quiet' = Saturated(quiet + d)
    /\ UNCHANGED <<phase, socket_fd, retry_backoff_time, callVars, networkVars, reportVars,
                   failures, foreign>>

EndpointStops ==
    /\ endpoint
    /\ endpoint' = FALSE
    /\ link' = IF link = "up" THEN "half" ELSE link
    /\ UNCHANGED <<moduleVars, callVars, reportVars, historyVars>>

EndpointStarts ==
    /\ ~endpoint
    /\ endpoint' = TRUE
    /\ UNCHANGED <<moduleVars, callVars, link, reportVars, historyVars>>

\* The endpoint closes one connection.
ConnectionEnds ==
    /\ link = "up"
    /\ link' = "half"
    /\ UNCHANGED <<moduleVars, callVars, endpoint, reportVars, historyVars>>

\* Its reset reaches the sensor, or the retransmissions give up.
ConnectionResets ==
    /\ link = "half"
    /\ link' = "broken"
    /\ UNCHANGED <<moduleVars, callVars, endpoint, reportVars, historyVars>>

StoreStep ==
    \/ SendWhole
    \/ SendCut
    \/ SendFails
    \/ TooEarly
    \/ \E d \in Durations, jitter \in 0 .. MaxJitter : ConnectFails(d, jitter)
    \/ Reconnect

Environment ==
    \/ EndpointStops
    \/ EndpointStarts
    \/ ConnectionEnds
    \/ ConnectionResets

Next ==
    \/ Initialize
    \/ InitializeFails
    \/ Deinitialize
    \/ StoreReport
    \/ StoreStep
    \/ \E d \in Durations : TimePasses(d)
    \/ Environment

Spec == Init /\ [][Next]_vars

\* The reporting actor is scheduled and reports keep coming; time passes; TCP
\* notices a connection whose other end is gone.
Fairness ==
    /\ WF_vars(StoreReport)
    /\ WF_vars(StoreStep)
    /\ WF_vars(\E d \in Durations \ {0} : TimePasses(d))
    /\ WF_vars(ConnectionResets)

FairSpec == Spec /\ Fairness

-----------------------------------------------------------------------------
\* Safety.

\* Every send(2) is made on a descriptor the module has opened, never on -1,
\* whatever the reconnections and the deinitialisation did before it.
SendHasSocket == pc = "send" => socket_fd # "none"

\* The retry does not duplicate: a report is sent at most twice, the endpoint
\* gets at most one whole copy, and none after a truncated one.
NoDuplicate ==
    /\ sends <= 2
    /\ copies <= 1
    /\ truncated => copies = 0

\* A call that fails has delivered nothing: what the log reports as lost is.
ErrorMeansLost == result = "error" => copies = 0 /\ ~truncated

\* The backoff grows past MAX_DURATION_CONNECTION_RETRY only by its last
\* doubling and jitter.
BackoffCeiling ==
    retry_backoff_time <= 2 * (MaxDuration - 1) + MaxJitter \/ retry_backoff_time = 1

\* Failed attempts really slow the attempts down: after k failures in a row
\* the backoff has doubled k times or reached MAX_DURATION_CONNECTION_RETRY.
BackoffDoubles ==
    retry_backoff_time >= 2 ^ failures \/ retry_backoff_time >= MaxDuration

\* Before the deinitialisation the module closes only its own socket.
ClosesOwnSocket == foreign => phase = "deinitialized"

-----------------------------------------------------------------------------
\* Liveness.

\* When the endpoint accepts and keeps connections from some time on, and send(2)
\* works on them, it gets reports again, however long it was unreachable.
Reachable ==
    /\ <>[](endpoint /\ phase = "initialized")
    /\ <>[][~ConnectionEnds]_vars
    /\ <>[][link = "up" => ~SendCut /\ ~SendFails]_vars

Recovers == Reachable => []<>(copies = 1)

-----------------------------------------------------------------------------
\* What the comments and messages of the module say.

\* storage_socket.c:166 announces "failed to reconnect, next try will be in %d
\* seconds": an attempt does not come sooner after the message.
Attempt ==
    Reconnect \/ \E d \in Durations, jitter \in 0 .. MaxJitter : ConnectFails(d, jitter)
NextTryAsAnnounced == [][Attempt => quiet >= retry_backoff_time]_vars

\* storage_socket.c:275: "If the connection have been lost, try to reconnect and
\* send the report again": a report cut short is not taken for stored.
CutIsSentAgain == result = "ok" => ~truncated
=============================================================================
