---------------------------- MODULE TelemetryRing ----------------------------
(***************************************************************************)
(* The hook library's event ring (collector/src/telemetry.cc): application *)
(* threads that call hooked driver functions push events without ever      *)
(* waiting, the client goroutine pops them in batches, and the library's   *)
(* constructor and destructor open and close the ring.                     *)
(*                                                                         *)
(* ring_mutex is a variable: a thread that holds it is between two steps,  *)
(* so another thread's trylock can fail.  The drop counters are atomics    *)
(* that are updated and read one at a time.  An event stands for its       *)
(* sequence number, the thread that made it and the size of the code copy  *)
(* it owns (0: a kernel launch, which owns none).                          *)
(***************************************************************************)
EXTENDS Integers, Sequences, FiniteSets

CONSTANTS
  Producers,   \* application threads
  Drainer,     \* the goroutine that runs drainLoop
  Main,        \* the thread that runs the constructor and the destructor
  Capacity,    \* ring_capacity
  MaxBatch,    \* drain_batch_size
  Sizes,       \* sizes of code objects, in bytes
  MaxCalls,    \* bound: enqueue calls
  None

ASSUME RingAssumption ==
  /\ Capacity \in Nat \ {0} /\ MaxBatch \in Nat \ {0} /\ MaxCalls \in Nat
  /\ Sizes \subseteq Nat \ {0}
ASSUME ActorsAssumption ==
  /\ Drainer # Main /\ {Drainer, Main} \cap Producers = {}
  /\ None \notin Producers \cup {Drainer, Main}

Actors == Producers \cup {Drainer, Main}
Slots == 0..(Capacity - 1)
Event == [seq : 0..MaxCalls, tid : Producers, size : {0} \cup Sizes]

ASSUME NoneAssumption == None \notin Event

NoStats == [events |-> 0, bytes |-> 0, queued |-> 0]

VARIABLES
  ringOn,          \* ring_initialized
  ring, head, tail, count,
  nextSeq,         \* next_sequence
  droppedEvents, droppedBytes,
  lock,            \* the thread that holds ring_mutex, or None
  mainPc,          \* "start", "running", "closing", "down"
  prodPc, ev,      \* an application thread: control point, event it enqueues
  drainPc, batch,  \* the drainer: control point, its event buffer
  stats,           \* the SGTelemetryStats it is filling
  live,            \* code copies allocated and not yet freed
  calls,           \* enqueue calls begun (bounded by MaxCalls)
  pushed, popped,  \* history: events pushed and popped, in order
  done             \* history: enqueue calls that have returned

slotVars == <<ringOn, ring, head, tail, count>>
dropVars == <<droppedEvents, droppedBytes>>
prodVars == <<prodPc, ev, nextSeq, calls, done>>
drainVars == <<drainPc, batch, stats, popped>>
ringVars == <<slotVars, dropVars, prodVars, drainVars, lock, mainPc, live,
              pushed>>

Init ==
  /\ ringOn = FALSE
  /\ ring = [i \in Slots |-> None]
  /\ head = 0 /\ tail = 0 /\ count = 0
  /\ nextSeq = 1
  /\ droppedEvents = 0 /\ droppedBytes = 0
  /\ lock = None
  /\ mainPc = "start"
  /\ prodPc = [p \in Producers |-> "idle"]
  /\ ev = [p \in Producers |-> None]
  /\ drainPc = "idle" /\ batch = <<>>
  /\ stats = NoStats
  /\ live = {}
  /\ calls = 0 /\ done = 0
  /\ pushed = <<>> /\ popped = <<>>

-----------------------------------------------------------------------------
(* sg_telemetry_init, from the constructor, before any other thread runs;  *)
(* the allocation may fail, and then the ring stays closed.                *)
InitRing(ok) ==
  /\ mainPc = "start"
  /\ mainPc' = "running"
  /\ ringOn' = ok
  /\ UNCHANGED <<ring, head, tail, count, dropVars, prodVars, drainVars, lock,
                 live, pushed>>

ShutdownLock ==
  /\ mainPc = "running" /\ lock = None
  /\ lock' = Main
  /\ mainPc' = "closing"
  /\ UNCHANGED <<slotVars, dropVars, prodVars, drainVars, live, pushed>>

(* The events in the ring, from the oldest on.                             *)
NewestFirst == [k \in 1..count |-> ring[(tail - k) % Capacity]]   \* faulty
Queued == [k \in 1..count |-> ring[(head + k - 1) % Capacity]]

Copies(q) == {q[k].seq : k \in {k \in DOMAIN q : q[k].size > 0}}

(* sg_telemetry_shutdown: the copies of the queued events are freed.       *)
Shutdown ==
  /\ mainPc = "closing"
  /\ lock' = None
  /\ mainPc' = "down"
  /\ IF ringOn
     THEN /\ live' = live \ Copies(Queued)
          /\ head' = 0 /\ tail' = 0 /\ count' = 0
          /\ ringOn' = FALSE
          /\ ring' = [i \in Slots |->
               IF \E k \in 0..(count - 1) : i = (head + k) % Capacity
                 THEN [ring[i] EXCEPT !.size = 0] ELSE ring[i]]
     ELSE UNCHANGED <<slotVars, live>>
  /\ UNCHANGED <<dropVars, prodVars, drainVars, pushed>>

-----------------------------------------------------------------------------
(* sg_enqueue_code and sg_enqueue_kernel_launch: the sequence number is    *)
(* taken before the lock is tried.                                         *)
Enqueue(p, size) ==
  /\ prodPc[p] = "idle" /\ mainPc # "start" /\ calls < MaxCalls
  /\ calls' = calls + 1
  /\ ev' = [ev EXCEPT ![p] = [seq |-> nextSeq, tid |-> p, size |-> size]]
  /\ nextSeq' = nextSeq + 1
  /\ live' = IF size > 0 THEN live \cup {nextSeq} ELSE live
  /\ prodPc' = [prodPc EXCEPT ![p] = "try"]
  /\ UNCHANGED <<slotVars, dropVars, drainVars, lock, mainPc, done, pushed>>

(* malloc fails: the event is dropped and never gets a sequence number.    *)
EnqueueNoMemory(p, size) ==
  /\ prodPc[p] = "idle" /\ mainPc # "start" /\ calls < MaxCalls
  /\ size > 0
  /\ calls' = calls + 1
  /\ ev' = [ev EXCEPT ![p] = [seq |-> 0, tid |-> p, size |-> size]]
  /\ prodPc' = [prodPc EXCEPT ![p] = "count"]
  /\ UNCHANGED <<slotVars, dropVars, drainVars, lock, mainPc, nextSeq, live,
                 done, pushed>>

(* push_event never waits for the lock.                                    *)
TryLockSilently(p) ==   \* faulty: a push that cannot lock is not counted
  /\ prodPc[p] = "try"
  /\ IF lock = None
     THEN /\ lock' = p
          /\ prodPc' = [prodPc EXCEPT ![p] = "push"]
          /\ UNCHANGED <<ev, done, live>>
     ELSE /\ prodPc' = [prodPc EXCEPT ![p] = "idle"]
          /\ ev' = [ev EXCEPT ![p] = None]
          /\ live' = live \ {ev[p].seq}
          /\ done' = done + 1
          /\ UNCHANGED lock
  /\ UNCHANGED <<slotVars, dropVars, drainVars, mainPc, nextSeq, calls, pushed>>
WaitLock(p) ==   \* faulty: pthread_mutex_lock instead of trylock
  /\ prodPc[p] = "try" /\ lock = None
  /\ lock' = p
  /\ prodPc' = [prodPc EXCEPT ![p] = "push"]
  /\ UNCHANGED <<slotVars, dropVars, drainVars, mainPc, ev, nextSeq, calls,
                 live, done, pushed>>
TryLock(p) ==
  /\ prodPc[p] = "try"
  /\ IF lock = None
     THEN /\ lock' = p
          /\ prodPc' = [prodPc EXCEPT ![p] = "push"]
     ELSE /\ prodPc' = [prodPc EXCEPT ![p] = "count"]
          /\ UNCHANGED lock
  /\ UNCHANGED <<slotVars, dropVars, drainVars, mainPc, ev, nextSeq, calls,
                 live, done, pushed>>

Return(p) ==
  /\ prodPc' = [prodPc EXCEPT ![p] = "idle"]
  /\ ev' = [ev EXCEPT ![p] = None]
  /\ done' = done + 1

Full == count = Capacity

Push(p) ==
  /\ prodPc[p] = "push"
  /\ lock' = None
  /\ IF ~ringOn \/ Full
     THEN /\ prodPc' = [prodPc EXCEPT ![p] = "count"]
          /\ UNCHANGED <<slotVars, ev, done, pushed>>
     ELSE /\ ring' = [ring EXCEPT ![tail] = ev[p]]
          /\ tail' = (tail + 1) % Capacity
          /\ count' = count + 1
          /\ pushed' = Append(pushed, ev[p])
          /\ Return(p)
          /\ UNCHANGED <<ringOn, head>>
  /\ UNCHANGED <<dropVars, drainVars, mainPc, nextSeq, calls, live>>

(* count_drop: two atomic additions, one after the other.                  *)
CountEvent(p) ==
  /\ prodPc[p] = "count"
  /\ droppedEvents' = droppedEvents + 1
  /\ prodPc' = [prodPc EXCEPT ![p] = "bytes"]
  /\ UNCHANGED <<slotVars, droppedBytes, drainVars, lock, mainPc, ev, nextSeq,
                 calls, live, done, pushed>>

(* The caller frees the copy of an event that was not pushed.              *)
KeepCopy(p) == live               \* faulty: the copy of a dropped event leaks
FreeCopy(p) == live \ {ev[p].seq}

CountBytes(p) ==
  /\ prodPc[p] = "bytes"
  /\ droppedBytes' = droppedBytes + ev[p].size
  /\ live' = FreeCopy(p)
  /\ Return(p)
  /\ UNCHANGED <<slotVars, droppedEvents, drainVars, lock, mainPc, nextSeq,
                 calls, pushed>>

-----------------------------------------------------------------------------
(* sg_ring_pop_batch waits for the lock.                                   *)
PopLock ==
  /\ drainPc = "idle" /\ lock = None
  /\ lock' = Drainer
  /\ drainPc' = "pop"
  /\ UNCHANGED <<slotVars, dropVars, prodVars, batch, stats, popped, mainPc,
                 live, pushed>>

SlotsKept(n) == ring              \* faulty: popped slots keep their events
SlotsCleared(n) ==
  [i \in Slots |-> IF \E k \in 0..(n - 1) : i = (head + k) % Capacity
                   THEN None ELSE ring[i]]

HeadAfterOne(n) == (head + 1) % Capacity   \* faulty: one slot per batch
HeadAfter(n) == (head + n) % Capacity

Pop ==
  LET n == IF count < MaxBatch THEN count ELSE MaxBatch IN
  /\ drainPc = "pop"
  /\ lock' = None
  /\ IF ~ringOn \/ count = 0
     THEN /\ drainPc' = "idle"
          /\ UNCHANGED <<slotVars, batch, popped>>
     ELSE /\ batch' = SubSeq(Queued, 1, n)
          /\ popped' = popped \o SubSeq(Queued, 1, n)
          /\ ring' = SlotsCleared(n)
          /\ head' = HeadAfter(n)
          /\ count' = count - n
          /\ drainPc' = "batch"
          /\ UNCHANGED <<ringOn, tail>>
  /\ UNCHANGED <<dropVars, prodVars, stats, mainPc, live, pushed>>

(* sg_ring_release_batch, when the client is done with the batch.          *)
ReleaseBatch ==
  /\ drainPc = "batch"
  /\ live' = live \ Copies(batch)
  /\ batch' = <<>>
  /\ drainPc' = "idle"
  /\ UNCHANGED <<slotVars, dropVars, prodVars, stats, popped, lock, mainPc,
                 pushed>>

(* sg_ring_stats: the counters are read before the lock is taken.          *)
StatsEvents ==
  /\ drainPc = "idle"
  /\ stats' = [stats EXCEPT !.events = droppedEvents]
  /\ drainPc' = "bytes"
  /\ UNCHANGED <<slotVars, dropVars, prodVars, batch, popped, lock, mainPc,
                 live, pushed>>

StatsBytes ==
  /\ drainPc = "bytes"
  /\ stats' = [stats EXCEPT !.bytes = droppedBytes]
  /\ drainPc' = "queued"
  /\ UNCHANGED <<slotVars, dropVars, prodVars, batch, popped, lock, mainPc,
                 live, pushed>>

StatsQueued ==
  /\ drainPc = "queued" /\ lock = None
  /\ stats' = [stats EXCEPT !.queued = count]
  /\ drainPc' = "report"
  /\ UNCHANGED <<slotVars, dropVars, prodVars, batch, popped, lock, mainPc,
                 live, pushed>>

(* The client is done with its SGTelemetryStats.                           *)
ReleaseStats ==
  /\ drainPc = "report"
  /\ stats' = NoStats
  /\ drainPc' = "idle"
  /\ UNCHANGED <<slotVars, dropVars, prodVars, batch, popped, lock, mainPc,
                 live, pushed>>

-----------------------------------------------------------------------------
ProducerStep(p) ==
  \/ TryLock(p) \/ Push(p) \/ CountEvent(p) \/ CountBytes(p)

MainStep ==
  \/ \E ok \in BOOLEAN : InitRing(ok)
  \/ ShutdownLock \/ Shutdown

DrainStep ==
  \/ PopLock \/ Pop \/ ReleaseBatch \/ StatsEvents \/ StatsBytes \/ StatsQueued
  \/ ReleaseStats

Next ==
  \/ \E p \in Producers :
       \/ ProducerStep(p)
       \/ \E size \in {0} \cup Sizes : Enqueue(p, size) \/ EnqueueNoMemory(p, size)
  \/ MainStep
  \/ DrainStep

Spec == Init /\ [][Next]_ringVars

(* The application threads keep running; the drainer may stop anywhere,    *)
(* even while it holds the lock, and the destructor may never run.         *)
ProducersFair == \A p \in Producers : WF_ringVars(ProducerStep(p))

FairSpec == Spec /\ ProducersFair

-----------------------------------------------------------------------------
(* The state stays well typed.                                             *)
TypeOK ==
  /\ ringOn \in BOOLEAN
  /\ ring \in [Slots -> Event \cup {None}]
  /\ head \in Slots /\ tail \in Slots /\ count \in 0..Capacity
  /\ nextSeq \in 1..(MaxCalls + 1)
  /\ droppedEvents \in Nat /\ droppedBytes \in Nat
  /\ lock \in Actors \cup {None}
  /\ mainPc \in {"start", "running", "closing", "down"}
  /\ prodPc \in [Producers -> {"idle", "try", "push", "count", "bytes"}]
  /\ ev \in [Producers -> Event \cup {None}]
  /\ drainPc \in {"idle", "pop", "batch", "bytes", "queued", "report"}
  /\ batch \in Seq(Event)
  /\ stats \in [events : Nat, bytes : Nat, queued : 0..Capacity]
  /\ live \subseteq 1..MaxCalls
  /\ calls \in 0..MaxCalls /\ done \in 0..MaxCalls
  /\ pushed \in Seq(Event) /\ popped \in Seq(Event)

(***************************************************************************)
(* No event disappears without a trace: every enqueue call that returned   *)
(* either pushed its event or counted it in dropped_events, whichever of   *)
(* the four ways to fail it met: no memory, lock taken, ring closed, ring  *)
(* full.  (A producer between its two counters has counted its event.)     *)
(***************************************************************************)
CountedNotReturned == {p \in Producers : prodPc[p] = "bytes"}
EveryDropCounted ==
  done + Cardinality(CountedNotReturned) = Len(pushed) + droppedEvents

(***************************************************************************)
(* A code copy has one owner at a time: the thread that allocated it until *)
(* it is pushed, then one ring slot, then the batch of the drainer; nobody *)
(* refers to a copy that was freed, and no copy is left without an owner.  *)
(***************************************************************************)
Owners(seq) ==
  {<<"thread", p>> : p \in {p \in Producers :
                              /\ prodPc[p] # "idle"
                              /\ ev[p].seq = seq /\ ev[p].size > 0}}
  \cup {<<"slot", i>> : i \in {i \in Slots :
                                 /\ ring[i] # None
                                 /\ ring[i].seq = seq /\ ring[i].size > 0}}
  \cup {<<"batch", k>> : k \in {k \in DOMAIN batch :
                                  batch[k].seq = seq /\ batch[k].size > 0}}
CopiesOwnedOnce ==
  \A seq \in 1..MaxCalls :
    Cardinality(Owners(seq)) = IF seq \in live THEN 1 ELSE 0

(***************************************************************************)
(* The client sees the events of one application thread in the order in    *)
(* which the thread made them.  (Events of two threads may come out with   *)
(* their sequence numbers swapped: the number is taken before the lock.)   *)
(***************************************************************************)
ThreadOrderKept ==
  \A k, l \in DOMAIN popped :
    k < l /\ popped[k].tid = popped[l].tid => popped[k].seq < popped[l].seq

(***************************************************************************)
(* A hooked driver call never waits for telemetry: it returns although the *)
(* drainer, or the thread that closes the ring, stops with the lock held.  *)
(***************************************************************************)
HooksNeverWait ==
  \A p \in Producers : (prodPc[p] # "idle") ~> (prodPc[p] = "idle")

(***************************************************************************)
(* The ring implements the bounded queue: a push puts, a pop takes a batch,*)
(* a shutdown closes.                                                      *)
(***************************************************************************)
Queue == INSTANCE EventQueue WITH
  Items <- Event,
  open  <- ringOn,
  queue <- Queued,
  taken <- popped

ImplementsEventQueue == Queue!Spec
=============================================================================
