---------------------------- MODULE ReportStream ----------------------------
(***************************************************************************)
(* What the pipeline from the ticker to the storage module promises: the   *)
(* reports of one monitoring actor reach the storage module in the order   *)
(* of their ticks, and none that was not sent.  The last ones may be left  *)
(* undelivered (the sensor is being stopped); none is overtaken.           *)
(***************************************************************************)
EXTENDS Naturals

VARIABLES sent,     \* the reports sent, records with fields from, gen and tick
          stored    \* those the storage module has been given

vars == <<sent, stored>>

Same(p, q) == p.from = q.from /\ p.gen = q.gen

Init == sent = {} /\ stored = {}

\* A sender adds a report to its stream.
Send ==
    /\ \E p \in sent' :
          /\ \A q \in sent : Same(p, q) => q.tick < p.tick
          /\ sent' = sent \union {p}
    /\ UNCHANGED stored

\* The storage module is given the first report of some stream that it has not
\* had yet.
Store ==
    /\ \E p \in sent \ stored :
          /\ \A q \in sent : Same(p, q) /\ q.tick < p.tick => q \in stored
          /\ stored' = stored \union {p}
    /\ UNCHANGED sent

Next == Send \/ Store

Spec == Init /\ [][Next]_vars
=============================================================================
