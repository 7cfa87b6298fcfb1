-------------------------- MODULE PerfGroupsProofs --------------------------
(***************************************************************************)
(* Proofs about the counting of PerfGroups, for any slots, events and      *)
(* bounds: no event is reported twice, and none is missed but those named. *)
(***************************************************************************)
EXTENDS PerfGroups, TLAPS

CountTypes ==
    /\ at \in DOMAIN Slots
    /\ buffer \in Nat
    /\ lost \subseteq SlotSet
    /\ count \in [SlotSet -> Nat]
    /\ values \in [SlotSet -> Nat]
    /\ occurred \in [SlotSet -> Nat]
    /\ reported \in [SlotSet -> Nat]

\* The payload has values for the slots before the current one only, and no
\* value outside a tick; what was read is still in the counter until its reset.
Collecting ==
    /\ pc \in {"read", "reset"} => \A i \in at .. Len(Slots) : values[Slots[i]] = 0
    /\ pc \notin {"read", "reset", "send"} => \A s \in SlotSet : values[s] = 0
    /\ pc = "reset" => buffer <= count[Slot]

NotTwice == \A s \in SlotSet : reported[s] + values[s] + count[s] <= occurred[s]

IInv == CountTypes /\ Collecting /\ NotTwice /\ NothingUncounted

\* A slot has one place in the loops.
LEMMA SlotsAreDistinct ==
    /\ DOMAIN Slots = 1 .. Len(Slots) /\ Len(Slots) \in Nat /\ 1 \in DOMAIN Slots
    /\ \A i \in DOMAIN Slots : Slots[i] \in SlotSet
    /\ \A i, j \in DOMAIN Slots : Slots[i] = Slots[j] => i = j
  BY SlotsAssumption DEF IsInjective, SlotSet, Range

LEMMA IInvInit == Init => IInv
  BY SlotsAreDistinct
  DEF Init, IInv, CountTypes, Collecting, NotTwice, NothingUncounted, Slot

\* The steps of the set-up and of the end leave the counting alone.
SetupStep ==
    \/ OpenCgroup
    \/ OpenCgroupFails
    \/ \E level \in Levels : CreateContext(level) \/ CreateFails(level)
    \/ OpenEvent
    \/ OpenEventFails
    \/ MapFails
    \/ Store
    \/ InitializeError
    \/ DestroyContext
    \/ EnableGroups
    \/ Terminate

LEMMA SetupIsApart ==
    SetupStep => /\ UNCHANGED countVars
                 /\ pc \notin {"read", "reset", "send"} /\ pc' \notin {"read", "reset", "send"}
                 /\ at' = at \/ at' = 1 \/ (at' = at + 1 /\ at # Len(Slots))
<1> SUFFICES ASSUME SetupStep
             PROVE  /\ UNCHANGED countVars
                    /\ pc \notin {"read", "reset", "send"} /\ pc' \notin {"read", "reset", "send"}
                    /\ at' = at \/ at' = 1 \/ (at' = at + 1 /\ at # Len(Slots))
  OBVIOUS
<1>1. CASE OpenCgroup \/ OpenCgroupFails \/ OpenEvent \/ OpenEventFails \/ MapFails
  BY <1>1 DEF OpenCgroup, OpenCgroupFails, OpenEvent, OpenEventFails, MapFails
<1>2. CASE \E level \in Levels : CreateContext(level) \/ CreateFails(level)
  BY <1>2 DEF Levels, CreateContext, CreateFails
<1>3. CASE Store
  BY <1>3 DEF Store, LastSlot
<1>4. CASE InitializeError \/ DestroyContext
  BY <1>4 DEF InitializeError, DestroyContext, Release
<1>5. CASE EnableGroups \/ Terminate
  BY <1>5 DEF EnableGroups, Terminate
<1> QED  BY <1>1, <1>2, <1>3, <1>4, <1>5 DEF SetupStep

LEMMA SetupKeepsIInv == IInv /\ SetupStep => IInv'
<1> SUFFICES ASSUME IInv, SetupStep PROVE IInv'
  OBVIOUS
<1>1. /\ count' = count /\ buffer' = buffer /\ values' = values
      /\ occurred' = occurred /\ reported' = reported /\ lost' = lost
      /\ pc \notin {"read", "reset", "send"} /\ pc' \notin {"read", "reset", "send"}
  BY SetupIsApart DEF countVars
<1>2. at' \in DOMAIN Slots
  BY SetupIsApart, SlotsAreDistinct DEF IInv, CountTypes
<1>3. CountTypes' /\ NotTwice' /\ NothingUncounted'
  BY <1>1, <1>2 DEF IInv, CountTypes, NotTwice, NothingUncounted
<1>4. Collecting'
  BY <1>1 DEF IInv, Collecting
<1> QED  BY <1>3, <1>4 DEF IInv

\* One step of a tick.
LEMMA TickKeepsIInv ==
    ASSUME IInv,
           \/ HandleTicker \/ ReadCpu \/ ResetCpu \/ SendPayload
           \/ \E failed \in Failures : PopulateFails(failed)
    PROVE  IInv'
<1> USE SlotsAreDistinct DEF IInv, CountTypes
<1>1. CASE HandleTicker
  BY <1>1 DEF HandleTicker, Collecting, NotTwice, NothingUncounted, Slot
<1>2. CASE ReadCpu
  BY <1>2 DEF ReadCpu, Collecting, NotTwice, NothingUncounted, Slot
<1>3. CASE ResetCpu
  <2>1. Slot \in SlotSet /\ values[Slot] = 0 /\ buffer <= count[Slot]
    <3>1. pc = "reset" /\ at \in at .. Len(Slots)
      BY <1>3 DEF ResetCpu
    <3> QED  BY <3>1 DEF Collecting, Slot
  <2>2. /\ count' = [count EXCEPT ![Slot] = 0] /\ values' = [values EXCEPT ![Slot] = buffer]
        /\ buffer' = 0 /\ reported' = reported /\ occurred' = occurred
        /\ lost' = IF count[Slot] = buffer THEN lost ELSE lost \union {Slot}
    BY <1>3 DEF ResetCpu, faultVars
  <2>3. CountTypes'
    BY <1>3, <2>1, <2>2 DEF ResetCpu, LastSlot
  <2>4. Collecting'
    BY <1>3, <2>1, <2>2 DEF ResetCpu, LastSlot, Collecting, Slot
  <2>5. NotTwice' /\ NothingUncounted'
    <3> SUFFICES ASSUME NEW s \in SlotSet
                 PROVE  /\ reported'[s] + values'[s] + count'[s] <= occurred'[s]
                        /\ s \notin lost' => reported'[s] + values'[s] + count'[s] = occurred'[s]
      BY DEF NotTwice, NothingUncounted
    <3>1. CASE s = Slot
      <4>1. count'[s] = 0 /\ values'[s] = buffer /\ reported'[s] = reported[s]
            /\ occurred'[s] = occurred[s] /\ buffer <= count[s] /\ values[s] = 0
        BY <3>1, <2>1, <2>2
      <4>2. count[s] \in Nat /\ buffer \in Nat /\ reported[s] \in Nat /\ occurred[s] \in Nat
        OBVIOUS
      <4>3. reported[s] + values[s] + count[s] <= occurred[s]
        BY DEF NotTwice
      <4>4. s \notin lost' => s \notin lost /\ count[s] = buffer
        BY <3>1, <2>2
      <4>5. s \notin lost => reported[s] + values[s] + count[s] = occurred[s]
        BY DEF NothingUncounted
      <4> QED  BY <4>1, <4>2, <4>3, <4>4, <4>5
    <3>2. CASE s # Slot
      BY <3>2, <2>1, <2>2 DEF NotTwice, NothingUncounted
    <3> QED  BY <3>1, <3>2
  <2> QED  BY <2>3, <2>4, <2>5
<1>4. ASSUME NEW failed \in Failures, PopulateFails(failed) PROVE IInv'
  <2>1. /\ pc' \notin {"read", "reset", "send"} /\ at' = 1 /\ buffer' = 0
        /\ values' = [s \in SlotSet |-> 0]
        /\ lost' = lost \union {s \in SlotSet : values[s] # 0}
        /\ count' = count /\ occurred' = occurred /\ reported' = reported
    BY <1>4 DEF PopulateFails
  <2> QED  BY <2>1 DEF Collecting, NotTwice, NothingUncounted
<1>5. CASE SendPayload
  BY <1>5 DEF SendPayload, Collecting, NotTwice, NothingUncounted, Slot
<1> QED  BY <1>1, <1>2, <1>3, <1>4, <1>5

\* One event, which is counted and has occurred.
LEMMA OneMore ==
    ASSUME NEW r \in Nat, NEW v \in Nat, NEW c \in Nat, NEW o \in Nat
    PROVE  /\ r + v + c <= o => r + v + (c + 1) <= o + 1
           /\ r + v + c = o => r + v + (c + 1) = o + 1
  OBVIOUS

LEMMA EventKeepsIInv ==
    ASSUME IInv, NEW s \in SlotSet, CountEvent(s)
    PROVE  IInv'
<1>1. /\ count' = [count EXCEPT ![s] = @ + 1] /\ occurred' = [occurred EXCEPT ![s] = @ + 1]
      /\ pc' = pc /\ at' = at /\ buffer' = buffer /\ values' = values
      /\ reported' = reported /\ lost' = lost /\ Counting
  BY DEF CountEvent
<1>2. CountTypes'
  BY <1>1 DEF IInv, CountTypes
<1>3. /\ count'[s] = count[s] + 1 /\ occurred'[s] = occurred[s] + 1
      /\ \A t \in SlotSet \ {s} : count'[t] = count[t] /\ occurred'[t] = occurred[t]
  BY <1>1 DEF IInv, CountTypes
<1>4. NotTwice' /\ NothingUncounted'
  <2> SUFFICES ASSUME NEW t \in SlotSet
               PROVE  /\ reported[t] + values[t] + count'[t] <= occurred'[t]
                      /\ t \notin lost => reported[t] + values[t] + count'[t] = occurred'[t]
    BY <1>1 DEF NotTwice, NothingUncounted
  <2>1. /\ reported[t] + values[t] + count[t] <= occurred[t]
        /\ t \notin lost => reported[t] + values[t] + count[t] = occurred[t]
    BY DEF IInv, NotTwice, NothingUncounted
  <2>2. reported[t] \in Nat /\ values[t] \in Nat /\ count[t] \in Nat /\ occurred[t] \in Nat
    BY DEF IInv, CountTypes
  <2>3. CASE t = s
    <3>1. /\ reported[t] + values[t] + count[t] <= occurred[t]
               => reported[t] + values[t] + (count[t] + 1) <= occurred[t] + 1
          /\ reported[t] + values[t] + count[t] = occurred[t]
               => reported[t] + values[t] + (count[t] + 1) = occurred[t] + 1
      BY <2>2, OneMore
    <3> QED  BY <2>1, <2>3, <1>3, <3>1
  <2>4. CASE t # s
    BY <2>1, <2>4, <1>3
  <2> QED  BY <2>3, <2>4
<1>5. Collecting'
  <2>1. pc = "reset" => buffer <= count'[Slot]
    BY <1>1 DEF IInv, CountTypes, Collecting, Slot, Counting
  <2> QED  BY <1>1, <2>1 DEF IInv, Collecting, Slot
<1> QED  BY <1>1, <1>2, <1>4, <1>5 DEF IInv

LEMMA Inductive == Spec => []IInv
<1>1. IInv /\ [Next]_vars => IInv'
  <2> SUFFICES ASSUME IInv, [Next]_vars PROVE IInv'
    OBVIOUS
  <2>1. CASE OtherOpens \/ OtherCloses \/ UNCHANGED vars
    BY <2>1 DEF OtherOpens, OtherCloses, vars, countVars, IInv, CountTypes, Collecting, NotTwice,
                NothingUncounted, Slot
  <2> QED  BY <2>1, SetupKeepsIInv, TickKeepsIInv, EventKeepsIInv DEF Next, ActorStep, SetupStep
<1> QED  BY <1>1, IInvInit, PTL DEF Spec

\* Over all its payloads, whatever fails and whenever events come, the actor
\* reports no event twice.
THEOREM NeverTwice == Spec => []CountedOnce
<1>1. IInv => CountedOnce
  BY DEF IInv, CountTypes, NotTwice, CountedOnce
<1> QED  BY <1>1, Inductive, PTL

\* An event that is in no payload is still in its counter, unless it came
\* between a read and its reset or its payload was dropped after the reset.
THEOREM NeverMissed == Spec => []NothingUncounted
<1>1. IInv => NothingUncounted
  BY DEF IInv
<1> QED  BY <1>1, Inductive, PTL
=============================================================================
