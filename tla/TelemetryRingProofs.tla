------------------------- MODULE TelemetryRingProofs -------------------------
(***************************************************************************)
(* Theorems about TelemetryRing, for every value of its constants.         *)
(***************************************************************************)
EXTENDS TelemetryRing, SequenceTheorems, FiniteSetTheorems, TLAPS

(* The lock is held by whoever is between taking and releasing it.         *)
Locked ==
  /\ \A p \in Producers : lock = p <=> prodPc[p] = "push"
  /\ lock = Main <=> mainPc = "closing"
  /\ lock = Drainer <=> drainPc = "pop"

(* What each thread has in its hands.  Sequence number 0 stands for an     *)
(* event that got none because its copy could not be allocated.            *)
InHand ==
  /\ \A p \in Producers :
       IF prodPc[p] = "idle"
       THEN ev[p] = None
       ELSE /\ ev[p] \in Event /\ ev[p].tid = p /\ ev[p].seq < nextSeq
            /\ ev[p].seq = 0 => prodPc[p] \in {"count", "bytes"}
  /\ batch # <<>> => drainPc = "batch"

(* Every call begun has returned or is under way.                          *)
Busy == {p \in Producers : prodPc[p] # "idle"}
CallsCounted ==
  /\ IsFiniteSet(Busy) /\ done + Cardinality(Busy) = calls
  /\ nextSeq <= calls + 1

(* The slot k places after slot h; the slots between head and tail hold    *)
(* the queued events, and the others hold no code copy.                    *)
After(h, k) == (h + k) % Capacity
InWindow(i) == \E k \in 0..(count - 1) : i = After(head, k)
Window ==
  /\ tail = After(head, count)
  /\ mainPc = "start" => ~ringOn
  /\ ~ringOn => count = 0
  /\ \A i \in Slots : InWindow(i) => ring[i] \in Event
  /\ \A i \in Slots : ~InWindow(i) => ring[i] = None \/ ring[i].size = 0

RingTyped == TypeOK /\ Locked /\ InHand /\ CallsCounted /\ Window

(* What was pushed was popped, or is queued, or was lost at the shutdown;  *)
(* a batch is the end of what was popped.                                  *)
Fifo ==
  /\ mainPc = "start" => pushed = <<>> /\ popped = <<>>
  /\ Len(popped) + count <= Len(pushed)
  /\ ringOn => Len(popped) + count = Len(pushed)
  /\ \A k \in DOMAIN popped : popped[k] = pushed[k]
  /\ \A k \in 1..count : Queued[k] = pushed[Len(popped) + k]
  /\ Len(batch) <= Len(popped)
  /\ \A k \in DOMAIN batch : batch[k] = pushed[Len(popped) - Len(batch) + k]

(* Numbers are given once, and a thread pushes in the order of its calls.  *)
NumberedOnce ==
  /\ \A p, q \in Busy : p # q /\ ev[p].seq > 0 => ev[p].seq # ev[q].seq
  /\ \A k \in DOMAIN pushed : pushed[k].seq \in 1..(nextSeq - 1)
  /\ \A k \in DOMAIN pushed, p \in Busy :
       ev[p].seq > 0 => /\ pushed[k].seq # ev[p].seq
                        /\ pushed[k].tid = p => pushed[k].seq < ev[p].seq
  /\ \A k, l \in DOMAIN pushed : k # l => pushed[k].seq # pushed[l].seq
  /\ \A k, l \in DOMAIN pushed :
       k < l /\ pushed[k].tid = pushed[l].tid => pushed[k].seq < pushed[l].seq

(* The copies that are allocated are those that somebody holds.            *)
Held == {ev[p].seq : p \in {p \in Busy : ev[p].size > 0 /\ ev[p].seq > 0}}
CopiesHeld == live = Held \cup Copies(Queued) \cup Copies(batch)

-----------------------------------------------------------------------------
(* Arithmetic of the slots.                                                *)
LEMMA SlotAfter ==
  ASSUME NEW h \in Slots, NEW k \in 0..Capacity
  PROVE  /\ After(h, k) \in Slots
         /\ After(h, k) = IF h + k < Capacity THEN h + k ELSE h + k - Capacity
BY RingAssumption DEF After, Slots

LEMMA SlotsDiffer ==
  ASSUME NEW h \in Slots, NEW j \in 0..Capacity, NEW k \in 0..Capacity,
         j < k, k - j < Capacity
  PROVE  After(h, j) # After(h, k)
<1>1. /\ After(h, j) = IF h + j < Capacity THEN h + j ELSE h + j - Capacity
      /\ After(h, k) = IF h + k < Capacity THEN h + k ELSE h + k - Capacity
  BY SlotAfter
<1> QED BY <1>1, RingAssumption DEF Slots

LEMMA SlotSum ==
  ASSUME NEW h \in Slots, NEW j \in 0..Capacity, NEW k \in 0..Capacity,
         j + k <= Capacity
  PROVE  After(After(h, j), k) = After(h, j + k)
<1>1. /\ After(h, j) \in Slots
      /\ After(h, j) = IF h + j < Capacity THEN h + j ELSE h + j - Capacity
  BY SlotAfter
<1>2. After(h, j + k) = IF h + (j + k) < Capacity THEN h + (j + k)
                        ELSE h + (j + k) - Capacity
  <2>1. j + k \in 0..Capacity
    BY RingAssumption
  <2> QED BY <2>1, SlotAfter
<1>3. After(After(h, j), k) = IF After(h, j) + k < Capacity THEN After(h, j) + k
                              ELSE After(h, j) + k - Capacity
  BY <1>1, SlotAfter
<1> QED BY <1>1, <1>2, <1>3, RingAssumption DEF Slots

(* The queued events as a sequence.                                        *)
QueuedSeq ==
  /\ Queued \in Seq(Event) /\ Len(Queued) = count
  /\ DOMAIN Queued = 1..count
  /\ \A k \in 1..count : Queued[k] = ring[After(head, k - 1)]

LEMMA QueuedIs == RingTyped => QueuedSeq
<1> SUFFICES ASSUME RingTyped
             PROVE  QueuedSeq
  OBVIOUS
<1>1. count \in 0..Capacity /\ head \in Slots /\ Capacity \in Nat
  BY RingAssumption DEF RingTyped, TypeOK
<1>2. ASSUME NEW k \in 1..count
      PROVE  ring[After(head, k - 1)] \in Event
  <2>1. k - 1 \in 0..(count - 1) /\ k - 1 \in 0..Capacity
    BY <1>1
  <2>2. After(head, k - 1) \in Slots /\ InWindow(After(head, k - 1))
    BY <1>1, <2>1, SlotAfter DEF InWindow
  <2> QED BY <2>2 DEF RingTyped, Window
<1>3. Queued = [k \in 1..count |-> ring[After(head, k - 1)]]
  <2>1. \A k \in 1..count : head + k - 1 = head + (k - 1)
    BY <1>1 DEF Slots
  <2> QED BY <2>1 DEF Queued, After
<1>4. Queued \in [1..count -> Event]
  BY <1>2, <1>3
<1> QED BY <1>1, <1>3, <1>4 DEF QueuedSeq

LEMMA QueuedIsNext == RingTyped' => QueuedSeq'
BY QueuedIs, PTL

-----------------------------------------------------------------------------
(* A call that begins, goes on or returns keeps the calls accounted for.   *)
LEMMA CallBegins ==
  ASSUME RingTyped, NEW p \in Producers, prodPc[p] = "idle", NEW pc,
         pc # "idle", prodPc' = [prodPc EXCEPT ![p] = pc],
         calls' = calls + 1, done' = done, nextSeq' \in {nextSeq, nextSeq + 1}
  PROVE  CallsCounted'
<1>1. /\ prodPc \in [Producers -> {"idle", "try", "push", "count", "bytes"}]
      /\ calls \in Nat /\ done \in Nat /\ nextSeq \in Nat
  BY RingAssumption DEF RingTyped, TypeOK
<1>2. Busy' = Busy \cup {p} /\ p \notin Busy
  BY <1>1 DEF Busy
<1>3. /\ IsFiniteSet(Busy \cup {p})
      /\ Cardinality(Busy \cup {p}) = Cardinality(Busy) + 1
      /\ Cardinality(Busy) \in Nat
  BY <1>2, FS_AddElement, FS_CardinalityType DEF RingTyped, CallsCounted
<1> QED BY <1>1, <1>2, <1>3 DEF RingTyped, CallsCounted

LEMMA CallReturns ==
  ASSUME RingTyped, NEW p \in Producers, prodPc[p] # "idle",
         prodPc' = [prodPc EXCEPT ![p] = "idle"],
         done' = done + 1, UNCHANGED <<calls, nextSeq>>
  PROVE  CallsCounted' /\ done' \in 0..MaxCalls
<1>1. /\ prodPc \in [Producers -> {"idle", "try", "push", "count", "bytes"}]
      /\ calls \in 0..MaxCalls /\ done \in Nat /\ MaxCalls \in Nat
  BY RingAssumption DEF RingTyped, TypeOK
<1>2. Busy' = Busy \ {p} /\ p \in Busy
  BY <1>1 DEF Busy
<1>3. /\ IsFiniteSet(Busy \ {p})
      /\ Cardinality(Busy \ {p}) = Cardinality(Busy) - 1
      /\ Cardinality(Busy) \in Nat /\ Cardinality(Busy \ {p}) \in Nat
  BY <1>2, FS_RemoveElement, FS_CardinalityType DEF RingTyped, CallsCounted
<1> QED BY <1>1, <1>2, <1>3 DEF RingTyped, CallsCounted

LEMMA CallGoesOn ==
  ASSUME RingTyped, NEW p \in Producers, prodPc[p] # "idle", NEW pc,
         pc # "idle", prodPc' = [prodPc EXCEPT ![p] = pc],
         UNCHANGED <<calls, done, nextSeq>>
  PROVE  CallsCounted' /\ Busy' = Busy
<1>1. Busy' = Busy
  BY DEF RingTyped, TypeOK, Busy
<1> QED BY <1>1 DEF RingTyped, CallsCounted

LEMMA InitRingTyped == Init => RingTyped
<1> SUFFICES ASSUME Init
             PROVE  RingTyped
  OBVIOUS
<1>1. TypeOK
  <2>1. 0 \in Slots /\ 0 \in 0..Capacity /\ 1 \in 1..(MaxCalls + 1)
    BY RingAssumption DEF Slots
  <2>2. 0 \in 0..MaxCalls /\ <<>> \in Seq(Event)
    BY RingAssumption, EmptySeq
  <2> QED BY <2>1, <2>2 DEF Init, TypeOK, NoStats
<1>2. Locked
  BY ActorsAssumption DEF Init, Locked, Actors
<1>3. InHand
  BY DEF Init, InHand
<1>4. CallsCounted
  <2>1. Busy = {}
    BY DEF Init, Busy
  <2> QED BY <2>1, FS_EmptySet DEF Init, CallsCounted
<1>5. Window
  <2>1. After(0, 0) = 0
    BY RingAssumption, SlotAfter DEF Slots
  <2> QED BY <2>1 DEF Init, Window, InWindow
<1> QED BY <1>1, <1>2, <1>3, <1>4, <1>5 DEF RingTyped

(* Steps that leave the slots alone.                                       *)
LEMMA SteadyTyped ==
  ASSUME RingTyped,
         \/ \E p \in Producers :
              \/ TryLock(p) \/ CountEvent(p) \/ CountBytes(p)
              \/ \E size \in {0} \cup Sizes :
                   Enqueue(p, size) \/ EnqueueNoMemory(p, size)
         \/ \E ok \in BOOLEAN : InitRing(ok)
         \/ ShutdownLock \/ PopLock \/ ReleaseBatch \/ StatsEvents
         \/ StatsBytes \/ StatsQueued \/ ReleaseStats
  PROVE  RingTyped'
<1> USE DEF slotVars, dropVars, prodVars, drainVars
<1>0. /\ UNCHANGED <<ringOn, ring, head, tail, count>>
      /\ mainPc' \in {mainPc, "closing"}
      => Window'
  BY DEF RingTyped, Window, InWindow
<1>1. ASSUME NEW p \in Producers, TryLock(p)
      PROVE  RingTyped'
  <2>1. TypeOK'
    BY <1>1 DEF RingTyped, TypeOK, TryLock, Actors
  <2>2. Locked' /\ InHand'
    BY <1>1, ActorsAssumption
       DEF RingTyped, TypeOK, Locked, InHand, TryLock, Actors
  <2>3. CallsCounted'
    BY <1>1, CallGoesOn DEF TryLock
  <2> QED BY <1>0, <1>1, <2>1, <2>2, <2>3 DEF RingTyped, TryLock
<1>2. ASSUME NEW p \in Producers, CountEvent(p)
      PROVE  RingTyped'
  <2>1. TypeOK'
    BY <1>2 DEF RingTyped, TypeOK, CountEvent
  <2>2. Locked' /\ InHand'
    BY <1>2 DEF RingTyped, TypeOK, Locked, InHand, CountEvent
  <2>3. CallsCounted'
    BY <1>2, CallGoesOn DEF CountEvent
  <2> QED BY <1>0, <1>2, <2>1, <2>2, <2>3 DEF RingTyped, CountEvent
<1>3. ASSUME NEW p \in Producers, CountBytes(p)
      PROVE  RingTyped'
  <2>1. CallsCounted' /\ done' \in 0..MaxCalls
    BY <1>3, CallReturns DEF CountBytes, Return
  <2>2. ev[p] \in Event /\ ev[p].size \in Nat
    <3>1. ev[p] \in Event
      BY <1>3 DEF RingTyped, InHand, CountBytes
    <3>2. ev[p].size \in {0} \cup Sizes
      BY <3>1 DEF Event
    <3>3. {0} \cup Sizes \subseteq Nat
      BY RingAssumption
    <3> QED BY <3>1, <3>2, <3>3
  <2>3. TypeOK'
    <3>1. /\ droppedBytes' \in Nat /\ live' \subseteq 1..MaxCalls
          /\ ev' \in [Producers -> Event \cup {None}]
          /\ prodPc' \in [Producers -> {"idle", "try", "push", "count", "bytes"}]
      <4>1. droppedBytes \in Nat /\ droppedBytes' = droppedBytes + ev[p].size
        BY <1>3 DEF RingTyped, TypeOK, CountBytes
      <4>2. droppedBytes' \in Nat
        BY <2>2, <4>1
      <4>3. live' \subseteq 1..MaxCalls
        BY <1>3 DEF RingTyped, TypeOK, CountBytes, FreeCopy
      <4> QED
        BY <1>3, <4>2, <4>3 DEF RingTyped, TypeOK, CountBytes, Return
    <3> QED BY <1>3, <2>1, <3>1 DEF RingTyped, TypeOK, CountBytes, Return
  <2>4. Locked' /\ InHand'
    BY <1>3 DEF RingTyped, TypeOK, Locked, InHand, CountBytes, Return
  <2> QED BY <1>0, <1>3, <2>1, <2>3, <2>4 DEF RingTyped, CountBytes
<1>4. ASSUME NEW p \in Producers, NEW size \in {0} \cup Sizes,
             Enqueue(p, size)
      PROVE  RingTyped'
  <2> DEFINE v == [seq |-> nextSeq, tid |-> p, size |-> size]
  <2>0. /\ nextSeq \in 1..MaxCalls /\ nextSeq \in 0..MaxCalls /\ calls \in Nat
        /\ nextSeq <= calls + 1
    BY <1>4, RingAssumption DEF RingTyped, TypeOK, CallsCounted, Enqueue
  <2>1. CallsCounted'
    BY <1>4, CallBegins DEF Enqueue
  <2>2. v \in Event /\ v.tid = p /\ v.seq = nextSeq
    BY <2>0 DEF Event
  <2>3. ev' = [ev EXCEPT ![p] = v]
    BY <1>4 DEF Enqueue
  <2> HIDE DEF v
  <2>4. TypeOK'
    BY <1>4, <2>0, <2>2, <2>3, RingAssumption DEF RingTyped, TypeOK, Enqueue
  <2>5. Locked'
    BY <1>4 DEF RingTyped, TypeOK, Locked, Enqueue
  <2>6. InHand'
    BY <1>4, <2>0, <2>2, <2>3, SMTT(30) DEF RingTyped, TypeOK, InHand, Enqueue, Event
  <2> QED BY <1>0, <1>4, <2>1, <2>4, <2>5, <2>6 DEF RingTyped, Enqueue
<1>5. ASSUME NEW p \in Producers, NEW size \in {0} \cup Sizes,
             EnqueueNoMemory(p, size)
      PROVE  RingTyped'
  <2> DEFINE v == [seq |-> 0, tid |-> p, size |-> size]
  <2>1. CallsCounted'
    BY <1>5, CallBegins DEF EnqueueNoMemory
  <2>2. v \in Event /\ v.tid = p /\ v.seq = 0
    BY RingAssumption DEF Event
  <2>3. ev' = [ev EXCEPT ![p] = v]
    BY <1>5 DEF EnqueueNoMemory
  <2> HIDE DEF v
  <2>4. TypeOK'
    BY <1>5, <2>2, <2>3, RingAssumption
       DEF RingTyped, TypeOK, EnqueueNoMemory
  <2>5. Locked'
    BY <1>5 DEF RingTyped, TypeOK, Locked, EnqueueNoMemory
  <2>6. InHand'
    BY <1>5, <2>2, <2>3 DEF RingTyped, TypeOK, InHand, EnqueueNoMemory
  <2> QED BY <1>0, <1>5, <2>1, <2>4, <2>5, <2>6 DEF RingTyped, EnqueueNoMemory
<1>6. ASSUME NEW ok \in BOOLEAN, InitRing(ok)
      PROVE  RingTyped'
  <2>1. Window'
    BY <1>6 DEF RingTyped, TypeOK, Window, InWindow, InitRing
  <2>2. TypeOK'
    BY <1>6 DEF RingTyped, TypeOK, InitRing
  <2>3. Locked' /\ InHand' /\ CallsCounted'
    BY <1>6 DEF RingTyped, Locked, InHand, CallsCounted, Busy, InitRing
  <2> QED BY <2>1, <2>2, <2>3 DEF RingTyped
<1>7. CASE ShutdownLock
  BY <1>0, <1>7, ActorsAssumption
     DEF RingTyped, TypeOK, Locked, InHand, CallsCounted, Busy, ShutdownLock,
         Actors
<1>8. CASE PopLock
  BY <1>0, <1>8, ActorsAssumption
     DEF RingTyped, TypeOK, Locked, InHand, CallsCounted, Busy, PopLock, Actors
<1>9. CASE ReleaseBatch
  BY <1>0, <1>9, EmptySeq
     DEF RingTyped, TypeOK, Locked, InHand, CallsCounted, Busy, ReleaseBatch
<1>10. CASE StatsEvents \/ StatsBytes \/ StatsQueued \/ ReleaseStats
  <2>1. Locked' /\ InHand' /\ CallsCounted' /\ Window'
    BY <1>0, <1>10, ZenonT(60)
       DEF RingTyped, Locked, InHand, CallsCounted, Busy, StatsEvents,
           StatsBytes, StatsQueued, ReleaseStats
  <2>2. TypeOK'
    <3>1. stats' \in [events : Nat, bytes : Nat, queued : 0..Capacity]
      <4>1. 0 \in 0..Capacity
        BY RingAssumption
      <4>2. CASE StatsEvents
        BY <4>2 DEF RingTyped, TypeOK, StatsEvents
      <4>3. CASE StatsBytes
        BY <4>3 DEF RingTyped, TypeOK, StatsBytes
      <4>4. CASE StatsQueued
        BY <4>4 DEF RingTyped, TypeOK, StatsQueued
      <4>5. CASE ReleaseStats
        BY <4>1, <4>5 DEF ReleaseStats, NoStats
      <4> QED BY <1>10, <4>2, <4>3, <4>4, <4>5
    <3> QED
      BY <1>10, <3>1
         DEF RingTyped, TypeOK, StatsEvents, StatsBytes, StatsQueued,
             ReleaseStats
  <2> QED BY <2>1, <2>2 DEF RingTyped
<1> QED
  BY <1>1, <1>2, <1>3, <1>4, <1>5, <1>6, <1>7, <1>8, <1>9, <1>10

(* A push that finds room puts its event behind the queued ones.           *)
LEMMA PushTyped ==
  ASSUME RingTyped, NEW p \in Producers, Push(p)
  PROVE  RingTyped'
<1> USE DEF slotVars, dropVars, prodVars, drainVars
<1>1. CASE ~ringOn \/ Full
  <2>1. /\ UNCHANGED <<slotVars, ev, done, pushed, calls, nextSeq, mainPc>>
        /\ prodPc[p] = "push" /\ prodPc' = [prodPc EXCEPT ![p] = "count"]
        /\ lock' = None
        /\ UNCHANGED <<dropVars, drainVars, live>>
    BY <1>1 DEF Push
  <2>2. TypeOK' /\ Window'
    BY <2>1 DEF RingTyped, TypeOK, Window, InWindow
  <2>3. Locked' /\ InHand'
    BY <2>1, ActorsAssumption DEF RingTyped, TypeOK, Locked, InHand, Actors
  <2>4. CallsCounted'
    BY <2>1, CallGoesOn
  <2> QED BY <2>2, <2>3, <2>4 DEF RingTyped
<1>2. CASE ringOn /\ ~Full
  <2>1. /\ ring' = [ring EXCEPT ![tail] = ev[p]]
        /\ tail' = After(tail, 1) /\ count' = count + 1
        /\ pushed' = Append(pushed, ev[p])
        /\ prodPc' = [prodPc EXCEPT ![p] = "idle"] /\ prodPc[p] = "push"
        /\ ev' = [ev EXCEPT ![p] = None] /\ done' = done + 1
        /\ lock' = None
        /\ UNCHANGED <<ringOn, head, dropVars, drainVars, mainPc, nextSeq,
                       calls, live>>
    BY <1>2 DEF Push, Return, After
  <2>2. /\ count \in 0..(Capacity - 1) /\ head \in Slots /\ tail \in Slots
        /\ Capacity \in Nat \ {0} /\ ev[p] \in Event
        /\ tail = After(head, count)
    BY <1>2, <2>1, RingAssumption
       DEF RingTyped, TypeOK, InHand, Window, Full
  <2>3. tail' = After(head, count') /\ tail' \in Slots
    <3>1. 1 \in 0..Capacity /\ count \in 0..Capacity
      BY <2>2
    <3> QED BY <2>1, <2>2, <3>1, SlotSum, SlotAfter
  <2>4. CallsCounted' /\ done' \in 0..MaxCalls
    BY <2>1, CallReturns
  <2>5. TypeOK'
    BY <2>1, <2>2, <2>3, <2>4 DEF RingTyped, TypeOK
  <2>6. Locked' /\ InHand'
    BY <2>1, ActorsAssumption DEF RingTyped, TypeOK, Locked, InHand, Actors
  <2>7. Window'
    <3>1. \A i \in Slots : InWindow(i)' <=> InWindow(i) \/ i = tail
      BY <2>1, <2>2 DEF InWindow
    <3>2. /\ ring \in [Slots -> Event \cup {None}]
          /\ ring'[tail] = ev[p]
          /\ \A i \in Slots : i # tail => ring'[i] = ring[i]
      BY <2>1, <2>2 DEF RingTyped, TypeOK
    <3> QED
      BY <1>2, <2>1, <2>2, <2>3, <3>1, <3>2 DEF RingTyped, Window
  <2> QED BY <2>4, <2>5, <2>6, <2>7 DEF RingTyped
<1> QED BY <1>1, <1>2

LEMMA PushEffect ==
  ASSUME RingTyped, NEW p \in Producers, Push(p)
  PROVE  \/ /\ UNCHANGED <<slotVars, pushed, ev, done>>
            /\ Queued' = Queued
            /\ prodPc' = [prodPc EXCEPT ![p] = "count"]
         \/ /\ ringOn /\ ringOn' = ringOn /\ count' = count + 1
            /\ ev[p] \in Event /\ ev[p].seq > 0
            /\ pushed' = Append(pushed, ev[p])
            /\ Len(Queued) < Capacity
            /\ Queued' = Append(Queued, ev[p])
            /\ Return(p)
<1>1. CASE ~ringOn \/ Full
  BY <1>1 DEF Push, slotVars, Queued
<1>2. CASE ringOn /\ ~Full
  <2>1. /\ ring' = [ring EXCEPT ![tail] = ev[p]]
        /\ count' = count + 1 /\ head' = head
        /\ pushed' = Append(pushed, ev[p]) /\ ringOn' = ringOn
        /\ prodPc[p] = "push" /\ Return(p)
    BY <1>2 DEF Push
  <2>2. /\ count \in 0..(Capacity - 1) /\ head \in Slots /\ tail \in Slots
        /\ Capacity \in Nat \ {0} /\ ev[p] \in Event
        /\ tail = After(head, count)
        /\ ring \in [Slots -> Event \cup {None}]
    BY <1>2, <2>1, RingAssumption
       DEF RingTyped, TypeOK, InHand, Window, Full
  <2>3. ev[p].seq > 0
    <3>1. ev[p].seq \in 0..MaxCalls /\ ev[p].seq # 0
      BY <2>1, <2>2 DEF RingTyped, InHand, Event
    <3> QED BY <3>1, RingAssumption
  <2>4. QueuedSeq /\ QueuedSeq'
    BY PushTyped, QueuedIs, QueuedIsNext
  <2>5. ASSUME NEW k \in 1..count
        PROVE  Queued'[k] = Queued[k]
    <3>1. /\ k - 1 \in 0..Capacity /\ count \in 0..Capacity
          /\ k - 1 < count /\ count - (k - 1) < Capacity
      BY <2>2
    <3>2. After(head, k - 1) # tail /\ After(head, k - 1) \in Slots
      BY <2>2, <3>1, SlotsDiffer, SlotAfter
    <3>3. ring'[After(head, k - 1)] = ring[After(head, k - 1)]
      BY <2>1, <2>2, <3>2
    <3>4. k \in 1..count'
      BY <2>1, <2>2
    <3> QED BY <2>1, <2>4, <3>3, <3>4 DEF QueuedSeq
  <2>6. Queued'[count + 1] = ev[p]
    <3>1. count + 1 \in 1..count' /\ (count + 1) - 1 = count
      BY <2>1, <2>2
    <3> QED BY <2>1, <2>2, <2>4, <3>1 DEF QueuedSeq
  <2>7. Queued' = Append(Queued, ev[p])
    <3>1. /\ Queued \in Seq(Event) /\ Queued' \in Seq(Event)
          /\ Len(Queued) = count /\ Len(Queued') = count + 1
      BY <2>1, <2>4 DEF QueuedSeq
    <3>2. \A k \in 1..(count + 1) : Queued'[k] = Append(Queued, ev[p])[k]
      BY <2>2, <2>5, <2>6, <3>1
    <3> QED BY <2>2, <3>1, <3>2, SeqEqual
  <2>8. Len(Queued) < Capacity
    BY <2>2, <2>4 DEF QueuedSeq
  <2> QED BY <1>2, <2>1, <2>2, <2>3, <2>7, <2>8
<1> QED BY <1>1, <1>2

(* A pop takes the first n queued events, if there are any.                *)
PopTakes(n) ==
  /\ ringOn /\ n \in 1..count /\ n <= MaxBatch /\ drainPc = "pop"
  /\ batch' = SubSeq(Queued, 1, n)
  /\ popped' = popped \o SubSeq(Queued, 1, n)
  /\ ring' = SlotsCleared(n)
  /\ head' = After(head, n) /\ count' = count - n
  /\ drainPc' = "batch" /\ lock' = None
  /\ UNCHANGED <<ringOn, tail, dropVars, prodVars, stats, mainPc, live, pushed>>

PopFindsNone ==
  /\ drainPc = "pop" /\ drainPc' = "idle" /\ lock' = None
  /\ UNCHANGED <<slotVars, batch, popped, dropVars, prodVars, stats, mainPc,
                 live, pushed>>

LEMMA PopCases ==
  ASSUME RingTyped, Pop
  PROVE  PopFindsNone \/ \E n \in 1..MaxBatch : PopTakes(n)
<1> DEFINE n == IF count < MaxBatch THEN count ELSE MaxBatch
<1>1. count \in Nat /\ MaxBatch \in Nat \ {0}
  BY RingAssumption DEF RingTyped, TypeOK
<1>2. CASE ~ringOn \/ count = 0
  BY <1>2 DEF Pop, PopFindsNone
<1>3. CASE ~(~ringOn \/ count = 0)
  <2>1. /\ batch' = SubSeq(Queued, 1, n)
        /\ popped' = popped \o SubSeq(Queued, 1, n)
        /\ ring' = SlotsCleared(n) /\ head' = HeadAfter(n)
        /\ count' = count - n /\ drainPc' = "batch" /\ lock' = None
        /\ UNCHANGED <<ringOn, tail, dropVars, prodVars, stats, mainPc, live,
                       pushed>>
        /\ drainPc = "pop"
    BY <1>3 DEF Pop
  <2>2. n \in 1..count /\ n \in 1..MaxBatch /\ n <= MaxBatch
    BY <1>1, <1>3
  <2> HIDE DEF n
  <2>3. PopTakes(n)
    BY <1>3, <2>1, <2>2 DEF PopTakes, HeadAfter, After
  <2> QED BY <2>2, <2>3
<1> QED BY <1>2, <1>3

(* The slots that are left.                                                *)
LEMMA PopSlots ==
  ASSUME RingTyped, NEW n, PopTakes(n)
  PROVE  /\ n \in Nat /\ count' \in 0..Capacity /\ head' \in Slots
         /\ tail' = After(head', count')
         /\ \A k \in 0..(count' - 1) :
              /\ After(head', k) = After(head, n + k)
              /\ After(head', k) \in Slots
              /\ ring'[After(head', k)] = ring[After(head', k)]
         /\ \A i \in Slots : InWindow(i)' => InWindow(i) /\ ring'[i] = ring[i]
         /\ \A i \in Slots : InWindow(i) /\ ~InWindow(i)' => ring'[i] = None
         /\ \A i \in Slots : ring'[i] \in {ring[i], None}
         /\ ring' \in [Slots -> Event \cup {None}]
<1>1. /\ n \in 1..count /\ count \in 0..Capacity /\ head \in Slots
      /\ tail = After(head, count) /\ Capacity \in Nat \ {0}
      /\ ring \in [Slots -> Event \cup {None}]
      /\ head' = After(head, n) /\ count' = count - n /\ tail' = tail
  BY RingAssumption DEF RingTyped, TypeOK, Window, PopTakes
<1>2. /\ ring' \in [Slots -> Event \cup {None}]
      /\ \A i \in Slots :
           ring'[i] = IF \E k \in 0..(n - 1) : i = After(head, k)
                      THEN None ELSE ring[i]
  BY <1>1 DEF PopTakes, SlotsCleared, After
<1>3. n \in 0..Capacity /\ head' \in Slots /\ count' \in 0..Capacity
  <2>1. n \in 0..Capacity /\ count' \in 0..Capacity
    BY <1>1
  <2> QED BY <1>1, <2>1, SlotAfter
<1>4. tail' = After(head', count')
  BY <1>1, <1>3, SlotSum
<1>5. ASSUME NEW k \in 0..(count' - 1)
      PROVE  /\ After(head', k) = After(head, n + k)
             /\ After(head', k) \in Slots
             /\ n + k \in 0..(count - 1)
             /\ ring'[After(head', k)] = ring[After(head', k)]
  <2>1. k \in 0..Capacity /\ n + k <= Capacity /\ n + k \in 0..(count - 1)
    BY <1>1
  <2>2. After(head', k) = After(head, n + k) /\ After(head', k) \in Slots
    BY <1>1, <1>3, <2>1, SlotSum, SlotAfter
  <2>3. ASSUME NEW j \in 0..(n - 1)
        PROVE  After(head, j) # After(head, n + k)
    <3>1. /\ j \in 0..Capacity /\ n + k \in 0..Capacity
          /\ j < n + k /\ (n + k) - j < Capacity
      BY <1>1, <2>1
    <3> QED BY <1>1, <3>1, SlotsDiffer
  <2> QED BY <1>2, <2>1, <2>2, <2>3
<1>6. ASSUME NEW i \in Slots, InWindow(i)'
      PROVE  InWindow(i) /\ ring'[i] = ring[i]
  BY <1>5, <1>6 DEF InWindow
<1>7. ASSUME NEW i \in Slots, InWindow(i), ~InWindow(i)'
      PROVE  ring'[i] = None
  <2>1. PICK k \in 0..(count - 1) : i = After(head, k)
    BY <1>7 DEF InWindow
  <2>2. CASE k \in 0..(n - 1)
    BY <1>2, <2>1, <2>2
  <2>3. CASE k >= n
    <3>1. k - n \in 0..(count' - 1) /\ n + (k - n) = k
      BY <1>1, <2>3
    <3>2. After(head', k - n) = After(head, k)
      BY <1>5, <3>1
    <3> QED BY <1>7, <2>1, <3>1, <3>2 DEF InWindow
  <2> QED BY <1>1, <2>2, <2>3
<1> QED BY <1>1, <1>2, <1>3, <1>4, <1>5, <1>6, <1>7

LEMMA PopTyped ==
  ASSUME RingTyped, Pop
  PROVE  RingTyped'
<1> USE DEF slotVars, dropVars, prodVars, drainVars
<1>1. CASE PopFindsNone
  BY <1>1, ActorsAssumption
     DEF RingTyped, TypeOK, Locked, InHand, CallsCounted, Busy, Window,
         InWindow, Actors, PopFindsNone
<1>2. ASSUME NEW n \in 1..MaxBatch, PopTakes(n)
      PROVE  RingTyped'
  <2>1. /\ count' \in 0..Capacity /\ head' \in Slots
        /\ tail' = After(head', count')
        /\ ring' \in [Slots -> Event \cup {None}]
    BY <1>2, PopSlots
  <2>2. SubSeq(Queued, 1, n) \in Seq(Event)
    <3>1. Queued \in Seq(Event) /\ Len(Queued) = count /\ n \in 1..count
      BY <1>2, QueuedIs DEF QueuedSeq, PopTakes
    <3>2. \A k \in 1..n : Queued[k] \in Event
      BY <3>1, ElementOfSeq
    <3> QED BY <3>1, <3>2, SubSeqProperties
  <2>3. batch' \in Seq(Event) /\ popped' \in Seq(Event)
    BY <1>2, <2>2, ConcatProperties DEF RingTyped, TypeOK, PopTakes
  <2>4. TypeOK'
    BY <1>2, <2>1, <2>3 DEF RingTyped, TypeOK, PopTakes
  <2>5. Locked' /\ InHand' /\ CallsCounted'
    BY <1>2, ActorsAssumption
       DEF RingTyped, TypeOK, Locked, InHand, CallsCounted, Busy, Actors,
           PopTakes
  <2>6. Window'
    <3>1. \A i \in Slots :
            /\ InWindow(i)' => InWindow(i) /\ ring'[i] = ring[i]
            /\ InWindow(i) /\ ~InWindow(i)' => ring'[i] = None
            /\ ring'[i] \in {ring[i], None}
      BY <1>2, PopSlots
    <3> QED BY <1>2, <2>1, <3>1 DEF RingTyped, Window, PopTakes
  <2> QED BY <2>4, <2>5, <2>6 DEF RingTyped
<1> QED BY <1>1, <1>2, PopCases

LEMMA PopEffect ==
  ASSUME RingTyped, NEW n, PopTakes(n), Pop
  PROVE  Queued' = SubSeq(Queued, n + 1, Len(Queued))
<1>1. QueuedSeq /\ QueuedSeq'
  BY PopTyped, QueuedIs, QueuedIsNext
<1>2. /\ n \in 1..count /\ count \in 0..Capacity /\ Capacity \in Nat
      /\ count' = count - n /\ head \in Slots
  BY RingAssumption DEF RingTyped, TypeOK, PopTakes
<1>3. ASSUME NEW k \in 1..count'
      PROVE  Queued'[k] = Queued[n + k]
  <2>1. /\ k - 1 \in 0..(count' - 1) /\ n + k \in 1..count
        /\ n + (k - 1) = (n + k) - 1
    BY <1>2
  <2>2. Queued'[k] = ring'[After(head', k - 1)]
    BY <1>1 DEF QueuedSeq
  <2>3. Queued[n + k] = ring[After(head, (n + k) - 1)]
    BY <1>1, <2>1 DEF QueuedSeq
  <2> QED BY <2>1, <2>2, <2>3, PopSlots
<1>4. /\ Queued \in Seq(Event) /\ Queued' \in Seq(Event)
      /\ Len(Queued) = count /\ Len(Queued') = count - n
  BY <1>1, <1>2 DEF QueuedSeq
<1>5. /\ SubSeq(Queued, n + 1, count) \in Seq(Event)
      /\ Len(SubSeq(Queued, n + 1, count)) = count - n
      /\ \A k \in 1..(count - n) :
           SubSeq(Queued, n + 1, count)[k] = Queued[n + k]
  <2>1. \A k \in (n + 1)..count : Queued[k] \in Event
    BY <1>2, <1>4, ElementOfSeq
  <2> QED BY <1>2, <1>4, <2>1, SubSeqProperties
<1> QED BY <1>2, <1>3, <1>4, <1>5, SeqEqual

LEMMA ShutdownTyped ==
  ASSUME RingTyped, Shutdown
  PROVE  RingTyped'
<1> USE DEF slotVars, dropVars, prodVars, drainVars
<1>1. CASE ~ringOn
  BY <1>1, ActorsAssumption
     DEF RingTyped, TypeOK, Locked, InHand, CallsCounted, Busy, Window,
         InWindow, Actors, Shutdown
<1>2. CASE ringOn
  <2>1. /\ live' \subseteq live /\ head' = 0 /\ tail' = 0 /\ count' = 0
        /\ ringOn' = FALSE
        /\ ring' = [i \in Slots |-> IF InWindow(i) THEN [ring[i] EXCEPT !.size = 0]
                                    ELSE ring[i]]
        /\ mainPc = "closing" /\ mainPc' = "down" /\ lock' = None
        /\ UNCHANGED <<dropVars, prodVars, drainVars, pushed>>
    BY <1>2 DEF Shutdown, InWindow, After
  <2>2. /\ 0 \in Slots /\ 0 \in 0..Capacity /\ After(0, 0) = 0
    BY RingAssumption, SlotAfter DEF Slots
  <2>3. ASSUME NEW i \in Slots
        PROVE  /\ ring'[i] \in Event \cup {None}
               /\ ring'[i] = None \/ ring'[i].size = 0
    <3>1. CASE InWindow(i)
      BY <2>1, <3>1 DEF RingTyped, Window, Event
    <3>2. CASE ~InWindow(i)
      BY <2>1, <3>2 DEF RingTyped, TypeOK, Window
    <3> QED BY <3>1, <3>2
  <2>4. ring' \in [Slots -> Event \cup {None}]
    BY <2>1, <2>3
  <2>5. TypeOK'
    BY <2>1, <2>2, <2>4 DEF RingTyped, TypeOK
  <2>6. Locked' /\ InHand' /\ CallsCounted'
    BY <2>1, ActorsAssumption
       DEF RingTyped, TypeOK, Locked, InHand, CallsCounted, Busy, Actors
  <2>7. Window'
    <3>1. \A i \in Slots : ~InWindow(i)'
      BY <2>1 DEF InWindow
    <3>2. tail' = After(head', count')
      BY <2>1, <2>2 DEF After
    <3> QED BY <2>1, <2>3, <3>1, <3>2 DEF Window
  <2> QED BY <2>5, <2>6, <2>7 DEF RingTyped
<1> QED BY <1>1, <1>2

LEMMA NextRingTyped ==
  ASSUME RingTyped, [Next]_ringVars
  PROVE  RingTyped'
<1>1. CASE UNCHANGED ringVars
  BY <1>1
     DEF RingTyped, TypeOK, Locked, InHand, CallsCounted, Busy, Window,
         InWindow, ringVars, slotVars, dropVars, prodVars, drainVars
<1>2. CASE Next
  BY <1>2, SteadyTyped, PushTyped, PopTyped, ShutdownTyped
     DEF Next, ProducerStep, MainStep, DrainStep
<1> QED BY <1>1, <1>2

(***************************************************************************)
(* The state stays well typed, whatever the threads do.                    *)
(***************************************************************************)
THEOREM TypeCorrect == Spec => []TypeOK
<1>1. RingTyped => TypeOK
  BY DEF RingTyped
<1> QED BY <1>1, InitRingTyped, NextRingTyped, PTL DEF Spec

-----------------------------------------------------------------------------
(* Steps that end no call, count no drop and push nothing.                 *)
LEMMA CountingSteps ==
  ASSUME [Next]_ringVars,
         \A p \in Producers : ~Push(p) /\ ~CountEvent(p) /\ ~CountBytes(p)
  PROVE  /\ UNCHANGED <<done, droppedEvents, pushed>>
         /\ \/ UNCHANGED prodPc
            \/ \E p \in Producers :
                 /\ prodPc[p] # "bytes"
                 /\ \E pc \in {"try", "push", "count"} :
                      prodPc' = [prodPc EXCEPT ![p] = pc]
BY DEF Next, ProducerStep, MainStep, DrainStep, TryLock, Enqueue,
       EnqueueNoMemory, InitRing, ShutdownLock, Shutdown, PopLock, Pop,
       ReleaseBatch, StatsEvents, StatsBytes, StatsQueued, ReleaseStats,
       ringVars, slotVars, dropVars, prodVars, drainVars

LEMMA DropsCounted ==
  ASSUME RingTyped, EveryDropCounted, [Next]_ringVars
  PROVE  EveryDropCounted'
<1> DEFINE C == CountedNotReturned
<1>0. /\ prodPc \in [Producers -> {"idle", "try", "push", "count", "bytes"}]
      /\ IsFiniteSet(C) /\ Cardinality(C) \in Nat
      /\ done \in Nat /\ droppedEvents \in Nat /\ pushed \in Seq(Event)
      /\ Len(pushed) \in Nat
  <2>1. C \subseteq Busy /\ IsFiniteSet(Busy)
    BY DEF RingTyped, CallsCounted, CountedNotReturned, Busy
  <2>2. IsFiniteSet(C) /\ Cardinality(C) \in Nat
    BY <2>1, FS_Subset, FS_CardinalityType
  <2> QED BY <2>2, RingAssumption DEF RingTyped, TypeOK
<1>1. ASSUME NEW p \in Producers, Push(p)
      PROVE  EveryDropCounted'
  <2>1. C' = C
    BY <1>0, <1>1 DEF Push, Return, CountedNotReturned
  <2>2. \/ UNCHANGED <<pushed, done>>
        \/ pushed' = Append(pushed, ev[p]) /\ done' = done + 1
    BY <1>1, PushEffect DEF Return
  <2>3. droppedEvents' = droppedEvents
    BY <1>1 DEF Push, dropVars
  <2>4. ev[p] \in Event
    BY <1>1 DEF Push, RingTyped, InHand
  <2>5. Len(Append(pushed, ev[p])) = Len(pushed) + 1
    BY <1>0, <2>4
  <2> QED BY <1>0, <2>1, <2>2, <2>3, <2>5 DEF EveryDropCounted
<1>2. ASSUME NEW p \in Producers, CountEvent(p)
      PROVE  EveryDropCounted'
  <2>1. C' = C \cup {p} /\ p \notin C
    BY <1>0, <1>2 DEF CountEvent, CountedNotReturned
  <2>2. Cardinality(C') = Cardinality(C) + 1
    BY <1>0, <2>1, FS_AddElement
  <2> QED BY <1>0, <1>2, <2>2 DEF EveryDropCounted, CountEvent
<1>3. ASSUME NEW p \in Producers, CountBytes(p)
      PROVE  EveryDropCounted'
  <2>1. C' = C \ {p} /\ p \in C
    BY <1>0, <1>3 DEF CountBytes, Return, CountedNotReturned
  <2>2. Cardinality(C') = Cardinality(C) - 1
    BY <1>0, <2>1, FS_RemoveElement
  <2> QED BY <1>0, <1>3, <2>2 DEF EveryDropCounted, CountBytes, Return
<1>4. CASE \A p \in Producers : ~Push(p) /\ ~CountEvent(p) /\ ~CountBytes(p)
  <2>1. C' = C
    BY <1>0, <1>4, CountingSteps DEF CountedNotReturned
  <2> QED BY <1>4, <2>1, CountingSteps DEF EveryDropCounted
<1> QED BY <1>1, <1>2, <1>3, <1>4

(***************************************************************************)
(* No event disappears without a trace: every enqueue call that returned   *)
(* either pushed its event or counted it as dropped.                       *)
(***************************************************************************)
THEOREM DropsAreCounted == Spec => []EveryDropCounted
<1>1. Init => EveryDropCounted
  <2> SUFFICES ASSUME Init
               PROVE  EveryDropCounted
    OBVIOUS
  <2>1. CountedNotReturned = {}
    BY DEF Init, CountedNotReturned
  <2> QED BY <2>1, FS_EmptySet DEF Init, EveryDropCounted
<1> QED
  BY <1>1, InitRingTyped, NextRingTyped, DropsCounted, PTL DEF Spec

-----------------------------------------------------------------------------
(* The steps that touch the queue are those of the bounded queue.          *)
LEMMA QueueSteps ==
  ASSUME RingTyped, [Next]_ringVars
  PROVE  \/ \E p \in Producers : Push(p)
         \/ Pop /\ \E n \in 1..MaxBatch : PopTakes(n)
         \/ Shutdown /\ ringOn
         \/ mainPc = "start" /\ mainPc' = "running"
            /\ UNCHANGED <<ring, head, count, pushed, popped, batch>>
         \/ UNCHANGED <<ringOn, ring, head, count, pushed, popped>>
            /\ batch' \in {batch, <<>>} /\ mainPc' \in {mainPc, "closing", "down"}
<1>1. CASE Pop
  BY <1>1, PopCases DEF PopFindsNone, slotVars
<1>2. CASE Shutdown
  BY <1>2 DEF Shutdown, slotVars, drainVars
<1>3. CASE Next /\ ~Pop /\ ~Shutdown /\ \A p \in Producers : ~Push(p)
  BY <1>3
     DEF Next, ProducerStep, MainStep, DrainStep, TryLock, CountEvent,
         CountBytes, Enqueue, EnqueueNoMemory, InitRing, ShutdownLock, PopLock,
         ReleaseBatch, StatsEvents, StatsBytes, StatsQueued, ReleaseStats,
         slotVars, drainVars
<1>4. CASE UNCHANGED ringVars
  BY <1>4 DEF ringVars, slotVars, drainVars
<1> QED BY <1>1, <1>2, <1>3, <1>4

LEMMA StepImplementsQueue ==
  ASSUME RingTyped, [Next]_ringVars
  PROVE  [Queue!Next]_Queue!vars
<1>1. ASSUME NEW p \in Producers, Push(p)
      PROVE  [Queue!Next]_Queue!vars
  <2>1. popped' = popped
    BY <1>1 DEF Push, drainVars
  <2> QED
    BY <1>1, <2>1, PushEffect
       DEF Queue!Next, Queue!vars, Queue!Put, slotVars
<1>2. ASSUME Pop, NEW n \in 1..MaxBatch, PopTakes(n)
      PROVE  [Queue!Next]_Queue!vars
  <2>1. Queued' = SubSeq(Queued, n + 1, Len(Queued)) /\ Len(Queued) = count
    BY <1>2, PopEffect, QueuedIs DEF QueuedSeq
  <2>2. Queue!Take(n)
    BY <1>2, <2>1 DEF Queue!Take, PopTakes
  <2> QED BY <2>2 DEF Queue!Next
<1>3. CASE Shutdown /\ ringOn
  <2>1. /\ Queued' = <<>> /\ ringOn' = FALSE /\ popped' = popped
    <3>1. count' = 0 /\ ringOn' = FALSE /\ popped' = popped
      BY <1>3 DEF Shutdown, drainVars
    <3>2. QueuedSeq'
      BY ShutdownTyped, QueuedIsNext, <1>3
    <3>3. Queued' \in Seq(Event) /\ Len(Queued') = 0
      BY <3>1, <3>2 DEF QueuedSeq
    <3> QED BY <3>1, <3>3
  <2> QED BY <1>3, <2>1 DEF Queue!Next, Queue!Close
<1>4. CASE mainPc = "start" /\ UNCHANGED <<ring, head, count, popped>>
  <2>1. Queued' = Queued /\ ringOn = FALSE
    BY <1>4 DEF Queued, RingTyped, TypeOK, Window
  <2>2. ringOn' \in BOOLEAN
    BY NextRingTyped DEF RingTyped, TypeOK
  <2> QED BY <1>4, <2>1, <2>2 DEF Queue!Next, Queue!Open, Queue!vars
<1>5. CASE UNCHANGED <<ringOn, ring, head, count, popped>>
  BY <1>5 DEF Queue!vars, Queued
<1> QED BY <1>1, <1>2, <1>3, <1>4, <1>5, QueueSteps

(***************************************************************************)
(* The ring implements the bounded first-in first-out queue, however its   *)
(* slots wrap around and its threads interleave.                           *)
(***************************************************************************)
THEOREM RingIsQueue == Spec => ImplementsEventQueue
<1>1. Init => Queue!Init
  <2> SUFFICES ASSUME Init
               PROVE  Queue!Init
    OBVIOUS
  <2>1. QueuedSeq /\ count = 0
    BY InitRingTyped, QueuedIs DEF Init
  <2>2. Queued = <<>>
    BY <2>1 DEF QueuedSeq
  <2> QED BY <2>2 DEF Init, Queue!Init
<1> QED
  BY <1>1, InitRingTyped, NextRingTyped, StepImplementsQueue, PTL
     DEF Spec, ImplementsEventQueue, Queue!Spec

-----------------------------------------------------------------------------
(* The histories, as sequences, and the queue between them.                *)
LEMMA Histories ==
  ASSUME RingTyped
  PROVE  /\ pushed \in Seq(Event) /\ popped \in Seq(Event) /\ batch \in Seq(Event)
         /\ Len(pushed) \in Nat /\ Len(popped) \in Nat /\ Len(batch) \in Nat
         /\ DOMAIN pushed = 1..Len(pushed) /\ DOMAIN popped = 1..Len(popped)
         /\ DOMAIN batch = 1..Len(batch)
         /\ Queued \in Seq(Event) /\ Len(Queued) = count
         /\ count \in Nat /\ ringOn \in BOOLEAN
<1>1. /\ pushed \in Seq(Event) /\ popped \in Seq(Event) /\ batch \in Seq(Event)
      /\ count \in Nat /\ ringOn \in BOOLEAN
  BY RingAssumption DEF RingTyped, TypeOK
<1> QED BY <1>1, QueuedIs DEF QueuedSeq

LEMMA FifoKept ==
  ASSUME RingTyped, Fifo, [Next]_ringVars
  PROVE  Fifo'
<1> USE DEF slotVars, drainVars
<1>1. ASSUME NEW p \in Producers, Push(p)
      PROVE  Fifo'
  <2>0. UNCHANGED <<popped, batch, mainPc>>
    BY <1>1 DEF Push
  <2>1. CASE UNCHANGED <<slotVars, pushed, ev, done>> /\ Queued' = Queued
    BY <2>0, <2>1 DEF Fifo
  <2>2. CASE /\ ringOn /\ ringOn' = ringOn /\ count' = count + 1
             /\ ev[p] \in Event /\ pushed' = Append(pushed, ev[p])
             /\ Queued' = Append(Queued, ev[p])
    <3>1. /\ Len(pushed') = Len(pushed) + 1
          /\ pushed'[Len(pushed) + 1] = ev[p]
          /\ \A k \in 1..Len(pushed) : pushed'[k] = pushed[k]
          /\ Queued'[count + 1] = ev[p]
          /\ \A k \in 1..count : Queued'[k] = Queued[k]
          /\ count' = count + 1 /\ count \in Nat
      <4>1. /\ pushed \in Seq(Event) /\ Queued \in Seq(Event)
            /\ Len(Queued) = count /\ count \in Nat
        BY Histories
      <4>2. /\ pushed' = Append(pushed, ev[p]) /\ Queued' = Append(Queued, ev[p])
            /\ ev[p] \in Event /\ count' = count + 1
        BY <2>2
      <4> QED BY <4>1, <4>2, AppendProperties
    <3>2. Len(popped) + count = Len(pushed) /\ mainPc # "start"
      BY <2>2 DEF Fifo, RingTyped, Window
    <3>3. ASSUME NEW k \in 1..count'
          PROVE  Queued'[k] = pushed'[Len(popped) + k]
      <4>1. CASE k = count + 1
        <5>1. Len(popped) + k = Len(pushed) + 1
          BY <3>2, <4>1, Histories, SMTT(30)
        <5> QED BY <3>1, <4>1, <5>1
      <4>2. CASE k \in 1..count
        <5>1. Len(popped) + k \in 1..Len(pushed)
          BY <3>2, <4>2, Histories
        <5> QED BY <3>1, <4>2, <5>1 DEF Fifo
      <4> QED BY <3>1, <4>1, <4>2
    <3>4. /\ \A k \in DOMAIN popped : popped[k] = pushed'[k]
          /\ \A k \in DOMAIN batch :
               batch[k] = pushed'[Len(popped) - Len(batch) + k]
      <4>1. ASSUME NEW k \in DOMAIN batch
            PROVE  Len(popped) - Len(batch) + k \in 1..Len(pushed)
        BY <3>2, Histories DEF Fifo
      <4>2. ASSUME NEW k \in DOMAIN popped
            PROVE  k \in 1..Len(pushed)
        BY <3>2, Histories
      <4> QED BY <3>1, <4>1, <4>2 DEF Fifo
    <3>5. Len(popped) + count' = Len(pushed')
      BY <2>2, <3>1, <3>2, Histories
    <3> QED
      BY <2>0, <3>2, <3>3, <3>4, <3>5, Histories DEF Fifo
  <2> QED BY <1>1, <2>1, <2>2, PushEffect
<1>2. ASSUME Pop, NEW n \in 1..MaxBatch, PopTakes(n)
      PROVE  Fifo'
  <2>1. /\ popped' = popped \o SubSeq(Queued, 1, n)
        /\ batch' = SubSeq(Queued, 1, n)
        /\ n \in 1..count /\ count' = count - n /\ ringOn
        /\ UNCHANGED <<ringOn, mainPc, pushed>>
    BY <1>2 DEF PopTakes
  <2>2. /\ batch' \in Seq(Event) /\ Len(batch') = n /\ DOMAIN batch' = 1..n
        /\ \A k \in 1..n : batch'[k] = Queued[k]
    <3>1. \A k \in 1..n : Queued[k] \in Event
      BY <2>1, Histories, ElementOfSeq
    <3> QED BY <2>1, <3>1, Histories, SubSeqProperties
  <2>3. /\ Len(popped') = Len(popped) + n
        /\ DOMAIN popped' = 1..(Len(popped) + n)
        /\ \A k \in 1..Len(popped) : popped'[k] = popped[k]
        /\ \A k \in 1..n : popped'[Len(popped) + k] = Queued[k]
    BY <2>1, <2>2, Histories, ConcatProperties
  <2>4. \A k \in 1..(count - n) : Queued'[k] = Queued[n + k]
    <3>1. Queued' = SubSeq(Queued, n + 1, Len(Queued))
      BY <1>2, PopEffect
    <3>2. \A k \in (n + 1)..count : Queued[k] \in Event
      BY <2>1, Histories, ElementOfSeq
    <3> QED BY <2>1, <3>1, <3>2, Histories, SubSeqProperties
  <2>5. Len(popped) + count = Len(pushed) /\ mainPc # "start"
    BY <2>1 DEF Fifo, RingTyped, Window
  <2>6. ASSUME NEW k \in DOMAIN popped'
        PROVE  popped'[k] = pushed'[k]
    <3>1. CASE k \in 1..Len(popped)
      BY <2>1, <2>3, <3>1, Histories DEF Fifo
    <3>2. CASE k > Len(popped)
      <4>1. k - Len(popped) \in 1..n /\ k - Len(popped) \in 1..count
        BY <2>1, <2>3, <3>2, Histories
      <4>2. Len(popped) + (k - Len(popped)) = k
        BY <2>3, Histories
      <4>3. popped'[k] = Queued[k - Len(popped)]
        BY <2>3, <4>1, <4>2
      <4> QED BY <2>1, <4>1, <4>2, <4>3 DEF Fifo
    <3> QED BY <2>3, <3>1, <3>2, Histories
  <2>7. ASSUME NEW k \in 1..count'
        PROVE  Queued'[k] = pushed'[Len(popped') + k]
    <3>1. n + k \in 1..count /\ Len(popped) + (n + k) = Len(popped') + k
      BY <2>1, <2>3, Histories
    <3>2. Queued[n + k] = pushed[Len(popped) + (n + k)]
      BY <3>1 DEF Fifo
    <3> QED BY <2>1, <2>4, <3>1, <3>2
  <2>8. ASSUME NEW k \in DOMAIN batch'
        PROVE  batch'[k] = pushed'[Len(popped') - Len(batch') + k]
    <3>1. k \in 1..count /\ Len(popped') - Len(batch') + k = Len(popped) + k
      BY <2>1, <2>2, <2>3, Histories
    <3> QED BY <2>1, <2>2, <3>1 DEF Fifo
  <2>9. /\ Len(popped') + count' = Len(pushed')
        /\ Len(batch') <= Len(popped')
    BY <2>1, <2>2, <2>3, <2>5, Histories
  <2> QED
    BY <2>1, <2>5, <2>6, <2>7, <2>8, <2>9, Histories DEF Fifo
<1>3. CASE Shutdown /\ ringOn
  <2>1. /\ count' = 0 /\ ringOn' = FALSE /\ mainPc' = "down"
        /\ UNCHANGED <<popped, batch, pushed>>
    BY <1>3 DEF Shutdown
  <2>2. Len(popped) + 0 <= Len(pushed)
    BY Histories DEF Fifo
  <2> QED BY <2>1, <2>2 DEF Fifo
<1>4. CASE /\ mainPc = "start" /\ mainPc' = "running"
           /\ UNCHANGED <<ring, head, count, pushed, popped, batch>>
  <2>1. count = 0 /\ pushed = <<>> /\ popped = <<>>
    BY <1>4 DEF Fifo, RingTyped, Window
  <2>2. Queued' = Queued /\ Len(popped) + count = Len(pushed)
    BY <1>4, <2>1 DEF Queued
  <2> QED BY <1>4, <2>2 DEF Fifo
<1>5. CASE /\ UNCHANGED <<ringOn, ring, head, count, pushed, popped>>
           /\ batch' \in {batch, <<>>} /\ mainPc' \in {mainPc, "closing", "down"}
  <2>1. Queued' = Queued
    BY <1>5 DEF Queued
  <2>2. /\ Len(batch') <= Len(popped)
        /\ \A k \in DOMAIN batch' :
             batch'[k] = pushed[Len(popped) - Len(batch') + k]
    <3>1. CASE batch' = <<>>
      BY <3>1, Histories
    <3> QED BY <1>5, <3>1 DEF Fifo
  <2> QED BY <1>5, <2>1, <2>2 DEF Fifo
<1> QED BY <1>1, <1>2, <1>3, <1>4, <1>5, QueueSteps

-----------------------------------------------------------------------------
(* What a step does to the calls under way and to what was pushed.         *)
Begun(p, seq, size) ==
  /\ p \notin Busy /\ Busy' = Busy \cup {p}
  /\ ev'[p] = [seq |-> seq, tid |-> p, size |-> size]
  /\ \A q \in Busy : ev'[q] = ev[q]
  /\ pushed' = pushed

Ended(p) ==
  /\ p \in Busy /\ Busy' = Busy \ {p}
  /\ \A q \in Busy' : ev'[q] = ev[q]
  /\ nextSeq' = nextSeq

LEMMA CallSteps ==
  ASSUME RingTyped, [Next]_ringVars
  PROVE  \/ \E p \in Producers, size \in {0} \cup Sizes :
              /\ Enqueue(p, size) /\ Begun(p, nextSeq, size)
              /\ nextSeq' = nextSeq + 1
         \/ \E p \in Producers, size \in {0} \cup Sizes :
              /\ EnqueueNoMemory(p, size) /\ Begun(p, 0, size)
              /\ nextSeq' = nextSeq
         \/ \E p \in Producers :
              /\ Push(p) /\ Ended(p) /\ pushed' = Append(pushed, ev[p])
              /\ ev[p] \in Event /\ ev[p].seq > 0
              /\ Queued' = Append(Queued, ev[p])
         \/ \E p \in Producers :
              CountBytes(p) /\ Ended(p) /\ pushed' = pushed
         \/ /\ UNCHANGED <<Busy, ev, nextSeq, pushed>>
            /\ \/ Pop \/ Shutdown \/ ReleaseBatch
               \/ UNCHANGED <<live, Queued, batch>>
<1> USE DEF slotVars, dropVars, prodVars, drainVars
<1>0. /\ prodPc \in [Producers -> {"idle", "try", "push", "count", "bytes"}]
      /\ ev \in [Producers -> Event \cup {None}]
  BY DEF RingTyped, TypeOK
<1>1. ASSUME NEW p \in Producers, NEW size \in {0} \cup Sizes,
             Enqueue(p, size)
      PROVE  Begun(p, nextSeq, size) /\ nextSeq' = nextSeq + 1
  BY <1>0, <1>1 DEF Enqueue, Begun, Busy
<1>2. ASSUME NEW p \in Producers, NEW size \in {0} \cup Sizes,
             EnqueueNoMemory(p, size)
      PROVE  Begun(p, 0, size) /\ nextSeq' = nextSeq
  BY <1>0, <1>2 DEF EnqueueNoMemory, Begun, Busy
<1>3. ASSUME NEW p \in Producers, CountBytes(p)
      PROVE  Ended(p) /\ pushed' = pushed
  BY <1>0, <1>3 DEF CountBytes, Return, Ended, Busy
<1>4. ASSUME NEW p \in Producers, Push(p)
      PROVE  \/ /\ Ended(p) /\ pushed' = Append(pushed, ev[p])
                /\ ev[p] \in Event /\ ev[p].seq > 0
                /\ Queued' = Append(Queued, ev[p])
             \/ UNCHANGED <<Busy, ev, nextSeq, pushed, live, Queued, batch>>
  <2>1. prodPc[p] = "push" /\ UNCHANGED <<nextSeq, live, batch>>
    BY <1>4 DEF Push
  <2>2. CASE /\ UNCHANGED <<slotVars, pushed, ev, done>> /\ Queued' = Queued
             /\ prodPc' = [prodPc EXCEPT ![p] = "count"]
    BY <1>0, <2>1, <2>2 DEF Busy
  <2>3. CASE /\ ev[p] \in Event /\ ev[p].seq > 0
             /\ pushed' = Append(pushed, ev[p])
             /\ Queued' = Append(Queued, ev[p])
             /\ Return(p)
    BY <1>0, <2>1, <2>3 DEF Return, Ended, Busy
  <2> QED BY <1>4, <2>2, <2>3, PushEffect
<1>5. ASSUME NEW p \in Producers, TryLock(p) \/ CountEvent(p)
      PROVE  UNCHANGED <<Busy, ev, nextSeq, pushed, live, Queued, batch>>
  BY <1>0, <1>5 DEF TryLock, CountEvent, Busy, Queued
<1>6. CASE Pop \/ Shutdown \/ ReleaseBatch
  BY <1>6 DEF Pop, Shutdown, ReleaseBatch, Busy
<1>7. CASE \/ \E ok \in BOOLEAN : InitRing(ok)
           \/ ShutdownLock \/ PopLock \/ StatsEvents \/ StatsBytes
           \/ StatsQueued \/ ReleaseStats \/ UNCHANGED ringVars
  BY <1>7
     DEF InitRing, ShutdownLock, PopLock, StatsEvents, StatsBytes, StatsQueued,
         ReleaseStats, Busy, Queued, ringVars
<1> QED
  BY <1>1, <1>2, <1>3, <1>4, <1>5, <1>6, <1>7
     DEF Next, ProducerStep, MainStep, DrainStep

LEMMA NumberedOnceKept ==
  ASSUME RingTyped, NumberedOnce, [Next]_ringVars
  PROVE  NumberedOnce'
<1>0. /\ nextSeq \in Nat /\ nextSeq >= 1 /\ pushed \in Seq(Event)
      /\ DOMAIN pushed = 1..Len(pushed) /\ Len(pushed) \in Nat
      /\ \A k \in DOMAIN pushed : pushed[k].seq \in Nat
      /\ \A q \in Busy :
           /\ ev[q] \in Event /\ ev[q].seq < nextSeq /\ ev[q].seq \in Nat
           /\ ev[q].tid = q
  <2>1. \A k \in DOMAIN pushed : pushed[k] \in Event
    BY Histories, ElementOfSeq
  <2>2. \A q \in Busy : ev[q] \in Event /\ ev[q].seq < nextSeq /\ ev[q].tid = q
    BY DEF RingTyped, InHand, Busy
  <2>3. \A e \in Event : e.seq \in Nat
    BY RingAssumption DEF Event
  <2> QED BY <2>1, <2>2, <2>3, Histories, RingAssumption DEF RingTyped, TypeOK
<1>1. ASSUME NEW p \in Producers, NEW size \in {0} \cup Sizes, NEW seq,
             Begun(p, seq, size), seq = 0 \/ seq = nextSeq,
             nextSeq' = IF seq = 0 THEN nextSeq ELSE nextSeq + 1
      PROVE  NumberedOnce'
  <2>1. ev'[p].seq = seq
    BY <1>1 DEF Begun
  <2>2. \A q \in Busy' : q = p \/ (q \in Busy /\ ev'[q] = ev[q])
    BY <1>1 DEF Begun
  <2>3. \A q, r \in Busy' : q # r /\ ev'[q].seq > 0 => ev'[q].seq # ev'[r].seq
    BY <1>0, <1>1, <2>1, <2>2 DEF NumberedOnce
  <2>4. pushed' = pushed
    BY <1>1 DEF Begun
  <2>5. \A k \in DOMAIN pushed : pushed[k].seq \in 1..(nextSeq' - 1)
    BY <1>0, <1>1 DEF NumberedOnce
  <2>6. \A k \in DOMAIN pushed, q \in Busy' :
          ev'[q].seq > 0 => /\ pushed[k].seq # ev'[q].seq
                            /\ pushed[k].tid = q => pushed[k].seq < ev'[q].seq
    BY <1>0, <1>1, <2>1, <2>2 DEF NumberedOnce
  <2> QED BY <2>3, <2>4, <2>5, <2>6 DEF NumberedOnce
<1>2. ASSUME NEW p \in Producers, Ended(p), pushed' = pushed
      PROVE  NumberedOnce'
  <2>1. \A q \in Busy' : q \in Busy /\ ev'[q] = ev[q]
    BY <1>2 DEF Ended
  <2> QED BY <1>2, <2>1 DEF NumberedOnce, Ended
<1>3. ASSUME NEW p \in Producers, Ended(p), pushed' = Append(pushed, ev[p]),
             ev[p].seq > 0
      PROVE  NumberedOnce'
  <2> DEFINE n == Len(pushed)
  <2>1. /\ \A q \in Busy' : q \in Busy /\ q # p /\ ev'[q] = ev[q]
        /\ p \in Busy /\ nextSeq' = nextSeq
    BY <1>3 DEF Ended
  <2>2. /\ DOMAIN pushed' = 1..(n + 1) /\ pushed'[n + 1] = ev[p]
        /\ \A k \in 1..n : pushed'[k] = pushed[k]
    BY <1>0, <1>3, <2>1, AppendProperties
  <2>3. /\ ev[p].seq \in 1..(nextSeq - 1) /\ ev[p].tid = p
        /\ \A q \in Busy : q # p /\ ev[q].seq > 0 => ev[q].seq # ev[p].seq
        /\ \A k \in 1..n :
             /\ pushed[k].seq # ev[p].seq
             /\ pushed[k].tid = p => pushed[k].seq < ev[p].seq
    BY <1>0, <1>3, <2>1 DEF NumberedOnce
  <2>4. \A q, r \in Busy' : q # r /\ ev'[q].seq > 0 => ev'[q].seq # ev'[r].seq
    BY <2>1 DEF NumberedOnce
  <2>5. \A k \in DOMAIN pushed' : pushed'[k].seq \in 1..(nextSeq' - 1)
    BY <1>0, <2>1, <2>2, <2>3 DEF NumberedOnce
  <2>6. ASSUME NEW k \in DOMAIN pushed', NEW q \in Busy', ev'[q].seq > 0
        PROVE  /\ pushed'[k].seq # ev'[q].seq
               /\ pushed'[k].tid = q => pushed'[k].seq < ev'[q].seq
    <3>1. CASE k = n + 1
      BY <2>1, <2>2, <2>3, <2>6, <3>1
    <3>2. CASE k \in 1..n
      BY <1>0, <2>1, <2>2, <2>6, <3>2 DEF NumberedOnce
    <3> QED BY <1>0, <2>2, <3>1, <3>2
  <2>7. ASSUME NEW k \in DOMAIN pushed', NEW l \in DOMAIN pushed', k < l
        PROVE  /\ pushed'[k].seq # pushed'[l].seq
               /\ pushed'[k].tid = pushed'[l].tid => pushed'[k].seq < pushed'[l].seq
    <3>0. k \in 1..n /\ k \in DOMAIN pushed
      BY <1>0, <2>2, <2>7
    <3>1. CASE l = n + 1
      BY <2>2, <2>3, <3>0, <3>1
    <3>2. CASE l \in 1..n
      BY <1>0, <2>2, <2>7, <3>0, <3>2 DEF NumberedOnce
    <3> QED BY <1>0, <2>2, <3>1, <3>2
  <2>8. \A k, l \in DOMAIN pushed' : k # l => pushed'[k].seq # pushed'[l].seq
    <3>1. \A k, l \in DOMAIN pushed' : k # l => k < l \/ l < k
      BY <1>0, <2>2
    <3> QED BY <2>7, <3>1
  <2> QED BY <2>4, <2>5, <2>6, <2>7, <2>8 DEF NumberedOnce
<1>4. CASE UNCHANGED <<Busy, ev, nextSeq, pushed>>
  BY <1>4 DEF NumberedOnce
<1> QED
  <2>1. nextSeq # 0
    BY <1>0
  <2> QED BY <2>1, <1>1, <1>2, <1>3, <1>4, CallSteps

(***************************************************************************)
(* The client sees the events of one application thread in the order in    *)
(* which the thread made them.                                             *)
(***************************************************************************)
THEOREM ThreadsKeepOrder == Spec => []ThreadOrderKept
<1> DEFINE Inv == RingTyped /\ Fifo /\ NumberedOnce
<1>1. Init => Inv
  <2> SUFFICES ASSUME Init
               PROVE  Fifo /\ NumberedOnce
    BY InitRingTyped
  <2>1. /\ pushed = <<>> /\ popped = <<>> /\ batch = <<>> /\ count = 0
        /\ Len(<<>>) = 0 /\ Busy = {} /\ ringOn = FALSE
    BY DEF Init, Busy
  <2> QED BY <2>1 DEF Fifo, NumberedOnce
<1>2. Inv /\ [Next]_ringVars => Inv'
  BY NextRingTyped, FifoKept, NumberedOnceKept
<1>3. Inv => ThreadOrderKept
  <2> SUFFICES ASSUME Inv, NEW k \in DOMAIN popped, NEW l \in DOMAIN popped,
                      k < l, popped[k].tid = popped[l].tid
               PROVE  popped[k].seq < popped[l].seq
    BY DEF ThreadOrderKept
  <2>1. /\ k \in DOMAIN pushed /\ l \in DOMAIN pushed
        /\ popped[k] = pushed[k] /\ popped[l] = pushed[l]
    BY Histories DEF Fifo
  <2> QED BY <2>1 DEF NumberedOnce
<1> QED BY <1>1, <1>2, <1>3, PTL DEF Spec

-----------------------------------------------------------------------------
(* A copy in the ring or in a batch belongs to an event that was pushed.   *)
LEMMA CopyPlaces ==
  ASSUME RingTyped, Fifo
  PROVE  /\ \A k \in 1..count : /\ Len(popped) + k \in DOMAIN pushed
                                /\ pushed[Len(popped) + k] = Queued[k]
         /\ \A k \in DOMAIN batch :
              /\ Len(popped) - Len(batch) + k \in DOMAIN pushed
              /\ Len(popped) - Len(batch) + k <= Len(popped)
              /\ pushed[Len(popped) - Len(batch) + k] = batch[k]
<1>1. \A k \in 1..count : Len(popped) + k \in DOMAIN pushed
  BY Histories DEF Fifo
<1>2. \A k \in DOMAIN batch :
        /\ Len(popped) - Len(batch) + k \in DOMAIN pushed
        /\ Len(popped) - Len(batch) + k <= Len(popped)
  BY Histories DEF Fifo
<1> QED BY <1>1, <1>2 DEF Fifo

LEMMA CopiesApart ==
  ASSUME RingTyped, Fifo, NumberedOnce
  PROVE  /\ Copies(Queued) \cap Copies(batch) = {}
         /\ \A p \in Busy : ev[p].seq \notin Copies(Queued) \cup Copies(batch)
         /\ Held \cap (Copies(Queued) \cup Copies(batch)) = {}
         /\ \A p \in Busy : ev[p].size > 0 \/ ev[p].seq \notin Held
<1>0. \A k \in DOMAIN pushed : pushed[k].seq > 0
  BY RingAssumption DEF NumberedOnce, RingTyped, TypeOK
<1>1. ASSUME NEW s \in Copies(Queued)
      PROVE  \E k \in DOMAIN pushed : k > Len(popped) /\ pushed[k].seq = s
  <2>1. PICK k \in 1..count : Queued[k].seq = s
    BY QueuedIs DEF Copies, QueuedSeq
  <2> QED BY <2>1, CopyPlaces, Histories
<1>2. ASSUME NEW s \in Copies(batch)
      PROVE  \E k \in DOMAIN pushed : k <= Len(popped) /\ pushed[k].seq = s
  <2>1. PICK k \in DOMAIN batch : batch[k].seq = s
    BY DEF Copies
  <2> QED BY <2>1, CopyPlaces
<1>3. Copies(Queued) \cap Copies(batch) = {}
  <2> SUFFICES ASSUME NEW s \in Copies(Queued), s \in Copies(batch)
               PROVE  FALSE
    OBVIOUS
  <2>1. PICK k \in DOMAIN pushed : k > Len(popped) /\ pushed[k].seq = s
    BY <1>1
  <2>2. PICK l \in DOMAIN pushed : l <= Len(popped) /\ pushed[l].seq = s
    BY <1>2
  <2>3. k # l
    BY <2>1, <2>2, Histories
  <2> QED BY <2>1, <2>2, <2>3 DEF NumberedOnce
<1>4. ASSUME NEW p \in Busy, ev[p].seq \in Copies(Queued) \cup Copies(batch)
      PROVE  FALSE
  <2>1. PICK k \in DOMAIN pushed : pushed[k].seq = ev[p].seq
    BY <1>1, <1>2, <1>4
  <2> QED BY <1>0, <2>1 DEF NumberedOnce
<1>5. Held \cap (Copies(Queued) \cup Copies(batch)) = {}
  BY <1>4 DEF Held
<1>6. \A p \in Busy : ev[p].size > 0 \/ ev[p].seq \notin Held
  BY DEF Held, NumberedOnce
<1> QED BY <1>3, <1>4, <1>5, <1>6

LEMMA CopiesHeldKept ==
  ASSUME RingTyped, Fifo, NumberedOnce, CopiesHeld, [Next]_ringVars
  PROVE  CopiesHeld'
<1> USE DEF slotVars, dropVars, prodVars, drainVars
<1>0. /\ Queued \in Seq(Event) /\ batch \in Seq(Event)
      /\ DOMAIN Queued = 1..count /\ Len(Queued) = count /\ count \in Nat
      /\ nextSeq > 0
      /\ \A size \in {0} \cup Sizes : size \in Nat
      /\ Copies(<<>>) = {}
  BY QueuedIs, Histories, RingAssumption
     DEF QueuedSeq, RingTyped, TypeOK, Copies
<1>1. ASSUME NEW p \in Producers, NEW size \in {0} \cup Sizes,
             Enqueue(p, size), Begun(p, nextSeq, size)
      PROVE  CopiesHeld'
  <2>1. Queued' = Queued /\ batch' = batch
    BY <1>1 DEF Enqueue, Queued
  <2>2. live' = IF size > 0 THEN live \cup {nextSeq} ELSE live
    BY <1>1 DEF Enqueue
  <2>3. Held' = IF size > 0 THEN Held \cup {nextSeq} ELSE Held
    BY <1>0, <1>1 DEF Held, Begun
  <2> QED BY <2>1, <2>2, <2>3 DEF CopiesHeld
<1>2. ASSUME NEW p \in Producers, NEW size \in {0} \cup Sizes,
             EnqueueNoMemory(p, size), Begun(p, 0, size)
      PROVE  CopiesHeld'
  <2>1. Queued' = Queued /\ batch' = batch /\ live' = live
    BY <1>2 DEF EnqueueNoMemory, Queued
  <2>2. Held' = Held
    BY <1>2 DEF Held, Begun
  <2> QED BY <2>1, <2>2 DEF CopiesHeld
<1>3. ASSUME NEW p \in Producers, Ended(p)
      PROVE  Held' = IF ev[p].size > 0 /\ ev[p].seq > 0
                     THEN Held \ {ev[p].seq} ELSE Held
  BY <1>3 DEF Held, Ended, NumberedOnce
<1>4. ASSUME NEW p \in Producers, Push(p), Ended(p), ev[p] \in Event,
             ev[p].seq > 0, Queued' = Append(Queued, ev[p])
      PROVE  CopiesHeld'
  <2>1. batch' = batch /\ live' = live /\ p \in Busy
    BY <1>4 DEF Push, Ended
  <2>2. Copies(Queued)' = IF ev[p].size > 0 THEN Copies(Queued) \cup {ev[p].seq}
                          ELSE Copies(Queued)
    <3>1. /\ DOMAIN Queued' = 1..(count + 1) /\ Queued'[count + 1] = ev[p]
          /\ \A k \in 1..count : Queued'[k] = Queued[k]
      BY <1>0, <1>4, AppendProperties
    <3>2. \A k \in 1..(count + 1) : k \in 1..count \/ k = count + 1
      BY <1>0
    <3>3. 1..count \subseteq 1..(count + 1) /\ count + 1 \in 1..(count + 1)
      BY <1>0
    <3> QED BY <1>0, <3>1, <3>2, <3>3 DEF Copies
  <2>3. ev[p].size > 0 => ev[p].seq \in Held
    BY <1>4, <2>1 DEF Held
  <2> QED BY <1>3, <1>4, <2>1, <2>2, <2>3 DEF CopiesHeld
<1>5. ASSUME NEW p \in Producers, CountBytes(p), Ended(p)
      PROVE  CopiesHeld'
  <2>1. /\ Queued' = Queued /\ batch' = batch /\ live' = live \ {ev[p].seq}
        /\ p \in Busy
    BY <1>5 DEF CountBytes, FreeCopy, Queued, Ended
  <2>2. ev[p].seq \notin Copies(Queued) \cup Copies(batch)
    BY <2>1, CopiesApart
  <2>3. Held' = Held \ {ev[p].seq}
    <3>1. ev[p].seq > 0 \/ ev[p].seq \notin Held
      BY DEF Held
    <3> QED BY <1>3, <1>5, <2>1, <3>1, CopiesApart
  <2> QED BY <2>1, <2>2, <2>3 DEF CopiesHeld
<1>6. ASSUME UNCHANGED <<Busy, ev>>
      PROVE  Held' = Held
  BY <1>6 DEF Held
<1>7. ASSUME Pop, UNCHANGED <<Busy, ev>>
      PROVE  CopiesHeld'
  <2>1. CASE PopFindsNone
    BY <1>6, <1>7, <2>1 DEF PopFindsNone, CopiesHeld, Queued
  <2>2. ASSUME NEW n \in 1..MaxBatch, PopTakes(n)
        PROVE  CopiesHeld'
    <3>1. /\ batch' = SubSeq(Queued, 1, n) /\ n \in 1..count /\ live' = live
          /\ batch = <<>>
      BY <2>2 DEF PopTakes, RingTyped, InHand
    <3>2. Queued' = SubSeq(Queued, n + 1, Len(Queued))
      BY <1>7, <2>2, PopEffect
    <3>3. /\ DOMAIN batch' = 1..n /\ \A k \in 1..n : batch'[k] = Queued[k]
      <4>1. \A k \in 1..n : Queued[k] \in Event
        BY <1>0, <3>1, ElementOfSeq
      <4> QED BY <1>0, <3>1, <4>1, SubSeqProperties
    <3>4. /\ DOMAIN Queued' = 1..(count - n)
          /\ \A k \in 1..(count - n) : Queued'[k] = Queued[n + k]
      <4>1. \A k \in (n + 1)..count : Queued[k] \in Event
        BY <1>0, <3>1, ElementOfSeq
      <4> QED BY <1>0, <3>1, <3>2, <4>1, SubSeqProperties
    <3>5. Copies(batch)' \cup Copies(Queued)' \subseteq Copies(Queued)
      <4>1. ASSUME NEW k \in 1..(count - n)
            PROVE  n + k \in 1..count
        BY <1>0, <3>1
      <4>2. ASSUME NEW k \in 1..n
            PROVE  k \in 1..count
        BY <1>0, <3>1
      <4> QED BY <1>0, <3>3, <3>4, <4>1, <4>2 DEF Copies
    <3>6. Copies(Queued) \subseteq Copies(batch)' \cup Copies(Queued)'
      <4> SUFFICES ASSUME NEW k \in 1..count, Queued[k].size > 0
                   PROVE  Queued[k].seq \in Copies(batch)' \cup Copies(Queued)'
        BY <1>0 DEF Copies
      <4>1. CASE k \in 1..n
        BY <3>3, <4>1 DEF Copies
      <4>2. CASE k > n
        <5>1. k - n \in 1..(count - n) /\ n + (k - n) = k
          BY <1>0, <3>1, <4>2
        <5>2. Queued'[k - n] = Queued[k]
          BY <3>4, <5>1
        <5> QED BY <3>4, <5>1, <5>2 DEF Copies
      <4> QED BY <1>0, <3>1, <4>1, <4>2
    <3> QED
      BY <1>0, <1>6, <1>7, <3>1, <3>5, <3>6 DEF CopiesHeld
  <2> QED BY <1>7, <2>1, <2>2, PopCases
<1>8. ASSUME Shutdown, UNCHANGED <<Busy, ev>>
      PROVE  CopiesHeld'
  <2>1. CASE ~ringOn
    BY <1>6, <1>8, <2>1 DEF Shutdown, CopiesHeld, Queued
  <2>2. CASE ringOn
    <3>1. live' = live \ Copies(Queued) /\ count' = 0 /\ batch' = batch
      BY <1>8, <2>2 DEF Shutdown
    <3>2. DOMAIN Queued' = {}
      BY <3>1 DEF Queued
    <3>3. Copies(Queued)' = {}
      BY <3>2 DEF Copies
    <3> QED BY <1>6, <1>8, <3>1, <3>3, CopiesApart DEF CopiesHeld
  <2> QED BY <2>1, <2>2
<1>9. ASSUME ReleaseBatch, UNCHANGED <<Busy, ev>>
      PROVE  CopiesHeld'
  <2>1. live' = live \ Copies(batch) /\ batch' = <<>> /\ Queued' = Queued
    BY <1>9 DEF ReleaseBatch, Queued
  <2> QED BY <1>0, <1>6, <1>9, <2>1, CopiesApart DEF CopiesHeld
<1>10. CASE UNCHANGED <<Busy, ev, live, Queued, batch>>
  BY <1>6, <1>10 DEF CopiesHeld
<1> QED
  BY <1>1, <1>2, <1>4, <1>5, <1>7, <1>8, <1>9, <1>10, CallSteps

(* Each owner of a copy stands for one pushed event or one call.           *)
LEMMA OwnersApart ==
  ASSUME RingTyped, Fifo, NumberedOnce, NEW seq \in 1..MaxCalls
  PROVE  /\ \A o1, o2 \in Owners(seq) : o1 = o2
         /\ Owners(seq) # {} <=> seq \in Held \cup Copies(Queued) \cup Copies(batch)
<1> DEFINE T == {p \in Producers : /\ prodPc[p] # "idle"
                                   /\ ev[p].seq = seq /\ ev[p].size > 0}
           I == {i \in Slots : /\ ring[i] # None
                               /\ ring[i].seq = seq /\ ring[i].size > 0}
           B == {k \in DOMAIN batch : batch[k].seq = seq /\ batch[k].size > 0}
<1>0. Owners(seq) = {<<"thread", p>> : p \in T} \cup {<<"slot", i>> : i \in I}
                      \cup {<<"batch", k>> : k \in B}
  BY DEF Owners
<1>1. seq > 0 /\ \A p \in T : p \in Busy
  BY RingAssumption DEF Busy
<1>2. ASSUME NEW i \in I
      PROVE  \E k \in 1..count : i = After(head, k - 1) /\ Queued[k] = ring[i]
  <2>1. InWindow(i)
    BY DEF RingTyped, Window
  <2>2. PICK j \in 0..(count - 1) : i = After(head, j)
    BY <2>1 DEF InWindow
  <2>3. j + 1 \in 1..count /\ (j + 1) - 1 = j
    BY <2>2, Histories
  <2> QED BY <2>2, <2>3, QueuedIs DEF QueuedSeq
<1>3. \A p, q \in T : p = q
  BY <1>1 DEF NumberedOnce
<1>4. ASSUME NEW p \in T, NEW k \in DOMAIN pushed
      PROVE  pushed[k].seq # seq
  BY <1>1 DEF NumberedOnce
<1>5. ASSUME NEW i \in I
      PROVE  \E k \in 1..count : /\ i = After(head, k - 1)
                                /\ Len(popped) + k \in DOMAIN pushed
                                /\ pushed[Len(popped) + k].seq = seq
  BY <1>2, CopyPlaces
<1>6. ASSUME NEW b \in B
      PROVE  /\ Len(popped) - Len(batch) + b \in DOMAIN pushed
             /\ Len(popped) - Len(batch) + b <= Len(popped)
             /\ pushed[Len(popped) - Len(batch) + b].seq = seq
  BY CopyPlaces
<1>7. \A k, l \in DOMAIN pushed : pushed[k].seq = seq /\ pushed[l].seq = seq => k = l
  BY DEF NumberedOnce
<1>8. \A i, j \in I : i = j
  <2> SUFFICES ASSUME NEW i \in I, NEW j \in I
               PROVE  i = j
    OBVIOUS
  <2>1. PICK k \in 1..count : /\ i = After(head, k - 1)
                              /\ Len(popped) + k \in DOMAIN pushed
                              /\ pushed[Len(popped) + k].seq = seq
    BY <1>5
  <2>2. PICK l \in 1..count : /\ j = After(head, l - 1)
                              /\ Len(popped) + l \in DOMAIN pushed
                              /\ pushed[Len(popped) + l].seq = seq
    BY <1>5
  <2>3. Len(popped) + k = Len(popped) + l
    BY <1>7, <2>1, <2>2
  <2>4. k = l
    BY <2>3, Histories
  <2> QED BY <2>1, <2>2, <2>4
<1>9. \A b, c \in B : b = c
  <2> SUFFICES ASSUME NEW b \in B, NEW c \in B
               PROVE  b = c
    OBVIOUS
  <2>1. Len(popped) - Len(batch) + b = Len(popped) - Len(batch) + c
    BY <1>6, <1>7
  <2> QED BY <2>1, Histories
<1>10. ASSUME NEW i \in I, NEW b \in B
       PROVE  FALSE
  <2>1. PICK k \in 1..count : /\ Len(popped) + k \in DOMAIN pushed
                              /\ pushed[Len(popped) + k].seq = seq
    BY <1>5
  <2>2. Len(popped) + k = Len(popped) - Len(batch) + b
    BY <1>6, <1>7, <2>1
  <2> QED BY <1>6, <2>2, Histories
<1>11. (T = {} /\ I = {}) \/ (T = {} /\ B = {}) \/ (I = {} /\ B = {})
  <2>1. ASSUME NEW p \in T, NEW i \in I
        PROVE  FALSE
    BY <1>4, <1>5
  <2>2. ASSUME NEW p \in T, NEW b \in B
        PROVE  FALSE
    BY <1>4, <1>6
  <2> HIDE DEF T, I, B
  <2> QED BY <1>10, <2>1, <2>2
<1>12. \A o1, o2 \in Owners(seq) : o1 = o2
  <2> HIDE DEF T, I, B
  <2> QED BY <1>0, <1>3, <1>8, <1>9, <1>11
<1>13. T # {} <=> seq \in Held
  BY <1>1 DEF Held, Busy
<1>14. I # {} <=> seq \in Copies(Queued)
  <2>1. ASSUME NEW i \in I
        PROVE  seq \in Copies(Queued)
    BY <1>2, QueuedIs, SMTT(30) DEF Copies, QueuedSeq
  <2>2. ASSUME seq \in Copies(Queued)
        PROVE  I # {}
    <3>1. PICK k \in 1..count : Queued[k].seq = seq /\ Queued[k].size > 0
      BY <2>2, QueuedIs DEF Copies, QueuedSeq
    <3>2. /\ k - 1 \in 0..Capacity /\ head \in Slots
          /\ Queued[k] \in Event
      BY <3>1, Histories, ElementOfSeq, RingAssumption DEF RingTyped, TypeOK
    <3>3. After(head, k - 1) \in Slots /\ ring[After(head, k - 1)] = Queued[k]
      BY <3>1, <3>2, SlotAfter, QueuedIs DEF QueuedSeq
    <3> QED BY <3>1, <3>2, <3>3, NoneAssumption
  <2> QED BY <2>1, <2>2
<1>15. B # {} <=> seq \in Copies(batch)
  BY DEF Copies
<1>16. Owners(seq) # {} <=> T # {} \/ I # {} \/ B # {}
  <2> HIDE DEF T, I, B
  <2> QED BY <1>0
<1> QED BY <1>12, <1>13, <1>14, <1>15, <1>16

(***************************************************************************)
(* A code copy has one owner at a time: the thread that made it, a ring    *)
(* slot or the drainer's batch; no copy is freed twice or leaks.           *)
(***************************************************************************)
THEOREM CopiesHaveOneOwner == Spec => []CopiesOwnedOnce
<1> DEFINE Inv == RingTyped /\ Fifo /\ NumberedOnce /\ CopiesHeld
<1>1. Init => Inv
  <2> SUFFICES ASSUME Init
               PROVE  Fifo /\ NumberedOnce /\ CopiesHeld
    BY InitRingTyped
  <2>1. /\ pushed = <<>> /\ popped = <<>> /\ batch = <<>> /\ count = 0
        /\ Len(<<>>) = 0 /\ Busy = {} /\ ringOn = FALSE /\ live = {}
    BY DEF Init, Busy
  <2>2. Held = {} /\ Copies(Queued) = {} /\ Copies(batch) = {}
    BY <2>1 DEF Held, Copies, Queued
  <2> QED BY <2>1, <2>2 DEF Fifo, NumberedOnce, CopiesHeld
<1>2. Inv /\ [Next]_ringVars => Inv'
  BY NextRingTyped, FifoKept, NumberedOnceKept, CopiesHeldKept
<1>3. Inv => CopiesOwnedOnce
  <2> SUFFICES ASSUME Inv, NEW seq \in 1..MaxCalls
               PROVE  Cardinality(Owners(seq)) = IF seq \in live THEN 1 ELSE 0
    BY DEF CopiesOwnedOnce
  <2>1. /\ \A o1, o2 \in Owners(seq) : o1 = o2
        /\ Owners(seq) # {} <=> seq \in live
    BY OwnersApart DEF CopiesHeld
  <2>2. CASE Owners(seq) = {}
    BY <2>1, <2>2, FS_EmptySet
  <2>3. CASE Owners(seq) # {}
    <3>1. PICK o : Owners(seq) = {o}
      BY <2>1, <2>3
    <3> QED BY <2>1, <2>3, <3>1, FS_Singleton
  <2> QED BY <2>2, <2>3
<1> QED BY <1>1, <1>2, <1>3, PTL DEF Spec
=============================================================================
