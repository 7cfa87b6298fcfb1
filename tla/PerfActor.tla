----------------------------- MODULE PerfActor ------------------------------
(***************************************************************************)
(* The perf monitoring actors (src/src/perf.c), one thread per monitored   *)
(* target.  perf[m] is where the thread of target m stands:                *)
(*                                                                         *)
(*   resolve  -> open -> poll -> wait -> collect -> send -> poll ...       *)
(*                                                                         *)
(* and "exited" when there is no such thread.  The counters themselves are *)
(* abstracted to the payload they end in.                                  *)
(***************************************************************************)
EXTENDS Cgroups

VARIABLES perf,     \* perf[m]: where the actor of m stands
          gen,      \* gen[m]: actors started for m so far
          job,      \* job[m]: tick being answered, 0 when there is none
          opened    \* opened[m]: incarnation of the cgroup ctx->cgroup_fd is on

perfVars == <<perf, gen, job, opened>>

PerfLocations == {"resolve", "open", "poll", "wait", "collect", "send", "exited"}

PerfTypeOK ==
    /\ perf \in [Monitors -> PerfLocations]
    /\ gen \in [Monitors -> Nat]
    /\ job \in [Monitors -> Nat]
    /\ opened \in [Monitors -> Nat]

\* The SUB socket exists.
Subscribers == {m \in Monitors : perf[m] \notin {"resolve", "exited"}}

\* The payload the actor of m makes of the tick it has received.
PayloadOf(m) == [from |-> m, gen |-> gen[m], tick |-> job[m]]

\* The directory of the cgroup can be opened; TARGET_TYPE_ALL has none.
Present(m)   == m \in Containers => m \in alive
Incarnation(m) == IF m \in Containers THEN born[m] ELSE 0

Goto(m, location) == perf' = [perf EXCEPT ![m] = location]

\* zactor_new(perf_monitoring_actor, ...): a new thread, with its own sockets.
\* The caller continues after zsock_signal, the first thing the thread does.
Spawn(m) ==
    /\ Goto(m, "resolve")
    /\ gen' = [gen EXCEPT ![m] = @ + 1]
    /\ pipe' = pipe \ {m}
    /\ UNCHANGED <<job, opened>>

\* Variant: closing the PUSH socket drops what is still in its queue.
ExitWithoutLinger(m) ==
    /\ Goto(m, "exited")
    /\ inbox' = [inbox EXCEPT ![m] = {}]
    /\ job' = [job EXCEPT ![m] = 0]
    /\ reporting' = {p \in reporting : p.from # m}
    /\ UNCHANGED <<gen, opened, signals, pipe, pull, clock, sent>>

\* The cleanup label: perf_context_destroy closes the sockets and the thread
\* ends.  The queue of the SUB socket goes with it, what was pushed does not.
Exit(m) ==
    /\ Goto(m, "exited")
    /\ inbox' = [inbox EXCEPT ![m] = {}]
    /\ job' = [job EXCEPT ![m] = 0]
    /\ UNCHANGED <<gen, opened, signals, pipe, reporting, pull, clock, sent>>

\* target_resolve_real_name, then perf_context_create: the SUB socket exists
\* from here on.
CreateContext(m) ==
    /\ perf[m] = "resolve"
    /\ Goto(m, "open")
    /\ UNCHANGED <<gen, job, opened, channelVars>>

\* Neither the name nor its copy can be allocated, or the context cannot; the
\* name of a container that cannot be looked up is the path of its cgroup.
ResolveFails(m) ==
    /\ perf[m] = "resolve"
    /\ MayFail
    /\ Exit(m)

\* perf_events_groups_initialize, then perf_events_groups_enable, whose errors
\* are only logged.
InitializeGroups(m) ==
    /\ perf[m] = "open"
    /\ Present(m)
    /\ Goto(m, "poll")
    /\ opened' = [opened EXCEPT ![m] = Incarnation(m)]
    /\ UNCHANGED <<gen, job, channelVars>>

InitializeFails(m) ==
    /\ perf[m] = "open"
    /\ MayFail \/ ~Present(m)
    /\ Exit(m)

\* zpoller_wait is entered: it returns at once, terminated, when the process
\* has been interrupted, and is not looked at again until a message comes.
PerfPoll(m) ==
    /\ perf[m] = "poll"
    /\ ~interrupted
    /\ Goto(m, "wait")
    /\ UNCHANGED <<gen, job, opened, channelVars>>

PerfTerminated(m) ==
    /\ perf[m] = "poll"
    /\ interrupted
    /\ Exit(m)

\* Variant: "$TERM" is received and terminated is not set.
PerfForgetsTerm(m) ==
    /\ perf[m] = "wait"
    /\ m \in pipe
    /\ pipe' = pipe \ {m}
    /\ Goto(m, "poll")
    /\ UNCHANGED <<gen, job, opened, signals, inbox, reporting, pull, clock, sent>>

\* The pipe comes first in the poll set.
PerfHandlePipe(m) ==
    /\ perf[m] = "wait"
    /\ m \in pipe
    /\ Exit(m)

\* Variant: a tick may only start the counters, with no report.
HandleTickerQuietly(m) ==
    /\ perf[m] = "wait"
    /\ m \notin pipe
    /\ inbox[m] # {}
    /\ inbox' = [inbox EXCEPT ![m] = {}]
    /\ Goto(m, "poll")
    /\ UNCHANGED <<gen, job, opened, signals, pipe, reporting, pull, clock, sent>>

\* handle_ticker receives the oldest tick of its queue.
HandleTicker(m) ==
    /\ perf[m] = "wait"
    /\ m \notin pipe
    /\ \E t \in inbox[m] :
          /\ \A u \in inbox[m] : t <= u
          /\ inbox' = [inbox EXCEPT ![m] = @ \ {t}]
          /\ job' = [job EXCEPT ![m] = t]
    /\ Goto(m, "collect")
    /\ UNCHANGED <<gen, opened, signals, pipe, reporting, pull, clock, sent>>

\* populate_payload succeeds.
PopulatePayload(m) ==
    /\ perf[m] = "collect"
    /\ Goto(m, "send")
    /\ UNCHANGED <<gen, job, opened, channelVars>>

\* populate_payload fails: the payload is destroyed and the tick forgotten.
PopulateFails(m) ==
    /\ perf[m] = "collect"
    /\ MayFail
    /\ Goto(m, "poll")
    /\ job' = [job EXCEPT ![m] = 0]
    /\ UNCHANGED <<gen, opened, channelVars>>

\* zsock_send(ctx->reporting, "p", payload) blocks until Push is possible.
SendPayload(m) ==
    /\ perf[m] = "send"
    /\ Push(PayloadOf(m))
    /\ Goto(m, "poll")
    /\ job' = [job EXCEPT ![m] = 0]
    /\ UNCHANGED <<gen, opened, signals, pipe, inbox, pull, clock>>

PerfStep(m) ==
    \/ CreateContext(m)
    \/ ResolveFails(m)
    \/ InitializeGroups(m)
    \/ InitializeFails(m)
    \/ PerfPoll(m)
    \/ PerfTerminated(m)
    \/ PerfHandlePipe(m)
    \/ HandleTicker(m)
    \/ PopulatePayload(m)
    \/ PopulateFails(m)
    \/ SendPayload(m)

\* The thread is stuck in zsock_send: no PULL socket will ever take its payload.
StuckSending(m) ==
    /\ perf[m] = "send"
    /\ pull # "bound"
    /\ ~CanPush(PayloadOf(m))

\* The thread has ended, or is in one of its two calls that wait: zpoller_wait,
\* and zsock_send of a payload.
PerfBlocked(m) ==
    \/ perf[m] = "exited"
    \/ perf[m] = "wait" /\ m \notin pipe /\ inbox[m] = {}
    \/ perf[m] = "send" /\ ~CanPush(PayloadOf(m))
=============================================================================
