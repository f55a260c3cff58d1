--------------------------- MODULE CollectorProofs ---------------------------
(***************************************************************************)
(* Theorems about Collector, for every value of its constants.             *)
(***************************************************************************)
EXTENDS Collector, SequenceTheorems, FiniteSetTheorems, TLAPS

(* What a handler has in its hands at each control point.                  *)
Storing == {"register", "lock", "store"}
Purging == {"purge", "restore"}
Control ==
  \A c \in Conns :
    /\ connPc[c] \in Storing => frame[c] \in Kinds
    /\ connPc[c] = "purge" => left[c] >= 1
    /\ connPc[c] \notin Purging => kept[c] = <<>>
    /\ Len(kept[c]) + left[c] <= QueueSize
    /\ connPc[c] = "new" => c \notin named /\ c \notin open
    /\ connPc[c] \notin {"new", "read", "register", "closed"} => c \in named

(* The rows that the ticker has yet to flush stay where they are.          *)
Flushes == \A s \in flushing : batches[s] # <<>>

Typed == TypeOK /\ Control /\ Flushes

(* A client has one connection, and its handler the session, unless a late *)
(* frame of an earlier connection took it.                                 *)
Connected ==
  /\ \A c, d \in open : Owner[c] = Owner[d] => c = d
  /\ \A c \in open \cap named : sessions[Owner[c]] = c \/ Owner[c] \in stale

(* An event is in one of a queue's messages; in one of them only.          *)
In(q, id) == \E k \in DOMAIN q : id \in Range(q[k].ids)
Once(q, id) ==
  \A k, l \in DOMAIN q : id \in Range(q[k].ids) /\ id \in Range(q[l].ids) => k = l
Batched(id) == \E s \in Sessions : id \in Range(batches[s])
Queued(id) == In(sendCh, id)
Held(id) == \E c \in Conns : In(kept[c], id)
Writing(id) == writing # None /\ id \in Range(writing.ids)
Written(id) == In(written, id)
Lost(id) == id \in lost

(* The events are the numbers below nextId; each of them is in one place.  *)
Placed(id) ==
  Batched(id) \/ Queued(id) \/ Held(id) \/ Writing(id) \/ Written(id) \/ Lost(id)
Apart(id) ==
  /\ Batched(id) => ~(Queued(id) \/ Held(id) \/ Writing(id) \/ Written(id) \/ Lost(id))
  /\ Queued(id) => ~(Held(id) \/ Writing(id) \/ Written(id) \/ Lost(id))
  /\ Held(id) => ~(Writing(id) \/ Written(id) \/ Lost(id))
  /\ Writing(id) => ~(Written(id) \/ Lost(id))
  /\ Written(id) => ~Lost(id)
Single(id) ==
  /\ \A r, s \in Sessions : id \in Range(batches[r]) /\ id \in Range(batches[s]) => r = s
  /\ \A c, d \in Conns : In(kept[c], id) /\ In(kept[d], id) => c = d
  /\ Once(sendCh, id) /\ Once(written, id)
  /\ \A c \in Conns : Once(kept[c], id)
OncePlaced ==
  /\ nextId >= 1
  /\ \A id \in Nat :
       (Placed(id) <=> id \in 1..(nextId - 1)) /\ Apart(id) /\ Single(id)

(* m1 may be ahead of m2 on the way to the processor, when the events of   *)
(* back were put back and the sessions of again have connected again.      *)
Before(m1, m2, back, again) ==
  m1.sess = m2.sess /\ Range(m2.ids) \cap back = {} =>
    IF m1.type = "session_end" THEN m1.sess \in again
    ELSE Range(m1.ids) \cap back = {} => MayOvertake(m1, m2) \/ Increasing(m1, m2)
Ordered(q, back, again) ==
  \A k, l \in DOMAIN q : k < l => Before(q[k], q[l], back, again)
Leads(ms, ns, back, again) == \A m \in ms, n \in ns : Before(m, n, back, again)

Again == {s \in Sessions : ~NeverReconnects(s)}
InHand == {writing} \ {None}
Pipeline ==
  /\ Ordered(written, restored, Again)
  /\ Ordered(sendCh, restored, Again)
  /\ Leads(Range(written), Range(sendCh), restored, Again)
  /\ Leads(Range(written), InHand, restored, Again)
  /\ Leads(InHand, Range(sendCh), restored, Again)

(* What a message says of the state it came from: it carries events, its   *)
(* launches are older than those that wait in the batch, and the end of a  *)
(* session is sent by a handler that has nothing more to send.             *)
Sent ==
  Range(sendCh) \cup Range(written) \cup InHand
    \cup UNION {Range(kept[c]) : c \in Conns}
Truthful(m) ==
  /\ m.ids # <<>>
  /\ \A a \in Range(m.ids) : a < nextId
  /\ m.type = "launches" =>
       \A a \in Range(m.ids), b \in Range(batches[m.sess]) : a < b
  /\ m.type = "session_end" =>
       \E c \in named : Owner[c] = m.sess /\ connPc[c] \in {"unregister", "closed"}
Messages == \A m \in Sent : Truthful(m)
Batches == \A s \in Sessions : \A b \in Range(batches[s]) : b < nextId

(* A handler that has dropped its session's batch leaves it empty, unless  *)
(* the session has another connection.                                     *)
Ending == {"count", "purge", "restore", "end", "unregister", "closed"}
NoMore ==
  \A c \in named :
    connPc[c] \in Ending /\ Owner[c] \notin Again => batches[Owner[c]] = <<>>

-----------------------------------------------------------------------------
USE DEF Storing, Purging

LEMMA InitTyped == Init => Typed
BY OwnerAssumption, SizesAssumption DEF Init, Typed, TypeOK, Control, Flushes

(* What Send leaves of the channel and of the dropped events.              *)
LEMMA SendTyped ==
  ASSUME TypeOK, NEW m \in Message, Send(m)
  PROVE  /\ sendCh' \in Seq(Message) /\ Len(sendCh') <= QueueSize
         /\ lost' \subseteq Nat
<1>1. Range(m.ids) \subseteq Nat
  BY DEF Message, Range
<1>2. CASE Len(sendCh) < QueueSize
  <2>1. sendCh' = Append(sendCh, m) /\ lost' = lost
    BY <1>2 DEF Send
  <2> QED
    BY <2>1, <1>2, SizesAssumption, AppendProperties DEF TypeOK
<1>3. CASE ~(Len(sendCh) < QueueSize)
  <2>1. sendCh' = sendCh /\ lost' = lost \cup Range(m.ids)
    BY <1>3 DEF Send
  <2> QED
    BY <2>1, <1>1 DEF TypeOK
<1> QED
  BY <1>2, <1>3

LEMMA FlushTyped ==
  ASSUME TypeOK, NEW s \in Sessions, NEW rows \in Seq(Nat), FlushLocked(s, rows)
  PROVE  /\ sendCh' \in Seq(Message) /\ Len(sendCh') <= QueueSize
         /\ lost' \subseteq Nat
         /\ batches' = [batches EXCEPT ![s] = <<>>]
         /\ batches' \in [Sessions -> Seq(Nat)]
         /\ \A r \in Sessions : Len(batches'[r]) < MaxBatch
<1>1. Launches(s, rows) \in Message
  BY DEF Launches, Message
<1>2. Send(Launches(s, rows)) /\ batches' = [batches EXCEPT ![s] = <<>>]
  BY DEF FlushLocked, BatchTaken
<1>3. sendCh' \in Seq(Message) /\ Len(sendCh') <= QueueSize /\ lost' \subseteq Nat
  BY <1>1, <1>2, SendTyped
<1>4. batches' \in [Sessions -> Seq(Nat)]
  BY <1>2 DEF TypeOK
<1>5. \A r \in Sessions : Len(batches'[r]) < MaxBatch
  BY <1>2, SizesAssumption DEF TypeOK
<1> QED
  BY <1>2, <1>3, <1>4, <1>5

LEMMA AddTyped ==
  ASSUME TypeOK, NEW s \in Sessions, AddLaunch(s, nextId)
  PROVE  /\ sendCh' \in Seq(Message) /\ Len(sendCh') <= QueueSize
         /\ lost' \subseteq Nat
         /\ batches' \in [Sessions -> Seq(Nat)]
         /\ \A r \in Sessions : Len(batches'[r]) < MaxBatch
<1> DEFINE rows == Append(batches[s], nextId)
<1>1. nextId \in Nat /\ batches[s] \in Seq(Nat) /\ batches \in [Sessions -> Seq(Nat)]
      /\ lost \subseteq Nat /\ sendCh \in Seq(Message) /\ Len(sendCh) <= QueueSize
      /\ \A r \in Sessions : Len(batches[r]) < MaxBatch
  BY DEF TypeOK
<1>2. rows \in Seq(Nat) /\ Len(rows) \in Nat
  BY <1>1, AppendProperties, LenProperties
<1>3. CASE Len(batches[s]) >= MaxUnsent
  <2>1. lost' = lost \cup {nextId} /\ batches' = batches /\ sendCh' = sendCh
    BY <1>3 DEF AddLaunch
  <2> QED
    BY <2>1, <1>1
<1>4. CASE ~(Len(batches[s]) >= MaxUnsent) /\ Len(rows) >= MaxBatch
  <2>1. FlushLocked(s, rows)
    BY <1>4 DEF AddLaunch
  <2> QED
    BY <2>1, <1>2, FlushTyped
<1>5. CASE ~(Len(batches[s]) >= MaxUnsent) /\ ~(Len(rows) >= MaxBatch)
  <2>1. batches' = [batches EXCEPT ![s] = rows] /\ sendCh' = sendCh /\ lost' = lost
    BY <1>5 DEF AddLaunch
  <2>2. Len(rows) < MaxBatch
    BY <1>5, <1>2, SizesAssumption
  <2> HIDE DEF rows
  <2> QED
    BY <2>1, <2>2, <1>1, <1>2
<1> QED
  BY <1>3, <1>4, <1>5

(* Every step keeps the types and what the handlers have in their hands.   *)
LEMMA TypedStep == Typed /\ [Next]_vars => Typed'
<1> SUFFICES ASSUME Typed, [Next]_vars PROVE Typed'
  OBVIOUS
<1>t. TypeOK /\ Control /\ Flushes
  BY DEF Typed
<1> USE OwnerAssumption, SizesAssumption, NoneAssumption
<1>1. ASSUME NEW c \in Conns, Dial(c) PROVE Typed'
  BY <1>t, <1>1 DEF Dial, Typed, TypeOK, Control, Flushes, batchVars, purgeVars,
       linkVars, verdictVars, idVars
<1>2. ASSUME NEW c \in Conns, ClientGone(c) PROVE Typed'
  BY <1>t, <1>2 DEF ClientGone, Typed, TypeOK, Control, Flushes, batchVars, purgeVars,
       linkVars, verdictVars, idVars
<1>3. ASSUME NEW c \in Conns, NEW kind \in Kinds, ReadFrame(c, kind) PROVE Typed'
  <2>1. TypeOK'
    BY <1>t, <1>3 DEF ReadFrame, TypeOK, batchVars, purgeVars, linkVars, verdictVars, idVars
  <2>2. Control'
    BY <1>t, <1>3 DEF ReadFrame, TypeOK, Control, purgeVars
  <2>3. Flushes'
    BY <1>t, <1>3 DEF ReadFrame, Flushes, batchVars
  <2> QED
    BY <2>1, <2>2, <2>3 DEF Typed
<1>4. ASSUME NEW c \in Conns, StoreFails(c) PROVE Typed'
  BY <1>t, <1>4 DEF StoreFails, Typed, TypeOK, Control, Flushes, batchVars, purgeVars,
       linkVars, verdictVars, idVars
<1>5. ASSUME NEW c \in Conns, Register(c) PROVE Typed'
  BY <1>t, <1>5 DEF Register, Registered, Typed, TypeOK, Control, Flushes, batchVars,
       purgeVars, linkVars, verdictVars, idVars
<1>6. ASSUME NEW c \in Conns, LockStore(c) PROVE Typed'
  BY <1>t, <1>6 DEF LockStore, Typed, TypeOK, Control, Flushes, batchVars, purgeVars,
       linkVars, verdictVars, idVars
<1>7. ASSUME NEW c \in Conns, NEW recorded \in BOOLEAN, StoreEvent(c, recorded)
      PROVE Typed'
  <2>1. /\ connPc[c] = "store" /\ Owner[c] \in Sessions /\ frame[c] \in Kinds
        /\ frame' = [frame EXCEPT ![c] = None]
        /\ connPc' = [connPc EXCEPT ![c] = IF recorded THEN "read" ELSE "endBatch"]
        /\ UNCHANGED <<open, named, frames, sessions, stale, flushing, purgeVars,
                       linkVars, verdictVars>>
    BY <1>t, <1>7 DEF StoreEvent, Control
  <2>2. Control'
    BY <1>t, <2>1 DEF Control, TypeOK, purgeVars
  <2>3. /\ sendCh' \in Seq(Message) /\ Len(sendCh') <= QueueSize
        /\ lost' \subseteq Nat /\ nextId' \in Nat
        /\ batches' \in [Sessions -> Seq(Nat)]
        /\ \A r \in Sessions : Len(batches'[r]) < MaxBatch
        /\ infoStored' \subseteq Sessions
        /\ batches' = batches \/ BMuFree
    <3>1. CASE UNCHANGED <<infoStored, batches, sendCh, nextId, lost>>
      BY <1>t, <3>1 DEF TypeOK
    <3>2. CASE /\ ~StoredOnly(c) /\ frame[c] # "launch"
               /\ Send([type |-> frame[c], sess |-> Owner[c], ids |-> <<nextId>>])
               /\ nextId' = nextId + 1
               /\ infoStored' = IF frame[c] = "process_info"
                                THEN infoStored \cup {Owner[c]} ELSE infoStored
               /\ UNCHANGED batches
      <4>1. frame[c] \in {"process_info", "code", "stats"}
        BY <2>1, <3>2, KindsAssumption DEF StoredOnly
      <4>2. [type |-> frame[c], sess |-> Owner[c], ids |-> <<nextId>>] \in Message
        BY <2>1, <4>1, <1>t DEF Message, TypeOK
      <4>3. sendCh' \in Seq(Message) /\ Len(sendCh') <= QueueSize /\ lost' \subseteq Nat
        BY <1>t, <3>2, <4>2, SendTyped
      <4> QED
        BY <4>3, <3>2, <2>1, <1>t DEF TypeOK
    <3>3. CASE AddLaunch(Owner[c], nextId) /\ nextId' = nextId + 1 /\ UNCHANGED infoStored
      <4>1. /\ sendCh' \in Seq(Message) /\ Len(sendCh') <= QueueSize
            /\ lost' \subseteq Nat
            /\ batches' \in [Sessions -> Seq(Nat)]
            /\ \A r \in Sessions : Len(batches'[r]) < MaxBatch
        BY <1>t, <2>1, <3>3, AddTyped
      <4>2. BMuFree
        BY <3>3 DEF AddLaunch
      <4> QED
        BY <4>1, <4>2, <3>3, <1>t, SMTT(30) DEF TypeOK
    <3> QED
      BY <1>7, <3>1, <3>2, <3>3 DEF StoreEvent
  <2>4. TypeOK'
    BY <1>t, <2>1, <2>3 DEF TypeOK, purgeVars, linkVars, verdictVars
  <2>5. Flushes'
    BY <1>t, <2>1, <2>3 DEF Flushes, BMuFree
  <2> QED
    BY <2>2, <2>4, <2>5 DEF Typed
<1>8. ASSUME NEW c \in Conns, StopReading(c) PROVE Typed'
  BY <1>t, <1>8 DEF StopReading, Typed, TypeOK, Control, Flushes, batchVars, purgeVars,
       linkVars, verdictVars, idVars
<1>9. ASSUME NEW c \in Conns, EndBatch(c) PROVE Typed'
  <2>1. Owner[c] \in Sessions /\ batches[Owner[c]] \in Seq(Nat)
    BY <1>t DEF TypeOK
  <2>2. Range(batches[Owner[c]]) \subseteq Nat
    BY <2>1 DEF Range
  <2>3. TypeOK'
    <3>1. lost' \subseteq Nat /\ batches' \in [Sessions -> Seq(Nat)]
          /\ connPc' = [connPc EXCEPT ![c] = "count"]
          /\ \A r \in Sessions : Len(batches'[r]) < MaxBatch
      <4>1. /\ lost' = lost \cup Range(batches[Owner[c]])
            /\ batches' = [batches EXCEPT ![Owner[c]] = <<>>]
            /\ connPc' = [connPc EXCEPT ![c] = "count"]
        BY <1>9 DEF EndBatch
      <4>2. /\ lost \subseteq Nat /\ batches \in [Sessions -> Seq(Nat)]
            /\ \A r \in Sessions : Len(batches[r]) < MaxBatch
        BY <1>t DEF TypeOK
      <4>3. lost' \subseteq Nat
        BY <4>1, <4>2, <2>2
      <4> QED
        BY <4>1, <4>2, <4>3, <2>1
    <3>2. connPc' \in [Conns -> {"new", "read", "register", "lock", "store",
                           "endBatch", "count", "purge", "restore", "end",
                           "unregister", "closed"}]
      BY <1>t, <3>1 DEF TypeOK
    <3>3. UNCHANGED <<open, named, frame, frames, sessions, infoStored, stale,
                 flushing, sendCh, left, kept, restored, link, writing, written,
                 verdictCh, handling, target, verdicts, missed, nextId>>
      BY <1>9 DEF EndBatch, purgeVars, linkVars, verdictVars
    <3> QED
      BY <1>t, <3>1, <3>2, <3>3 DEF TypeOK
  <2>4. Control' /\ Flushes'
    BY <1>t, <1>9 DEF EndBatch, TypeOK, Control, Flushes, BMuFree, purgeVars
  <2> QED
    BY <2>3, <2>4 DEF Typed
<1>10. ASSUME NEW c \in Conns, PurgeStart(c) PROVE Typed'
  <2>1. sendCh \in Seq(Message) /\ Len(sendCh) \in 0..QueueSize
        /\ (sendCh # <<>> => Len(sendCh) >= 1)
    BY <1>t, LenProperties, EmptySeq DEF TypeOK
  <2>2. kept[c] = <<>>
    BY <1>t, <1>10 DEF PurgeStart, Control
  <2>3. TypeOK' /\ Flushes'
    BY <1>t, <1>10, <2>1 DEF PurgeStart, TypeOK, Flushes, batchVars, linkVars, verdictVars,
         idVars
  <2>4. Control'
    BY <1>t, <1>10, <2>1, <2>2, SMTT(30) DEF PurgeStart, TypeOK, Control
  <2> QED
    BY <2>3, <2>4 DEF Typed
<1>11. ASSUME NEW c \in Conns, PurgeTake(c) PROVE Typed'
  <2>1. /\ sendCh \in Seq(Message) /\ Len(sendCh) <= QueueSize
        /\ left \in [Conns -> 0..QueueSize] /\ kept \in [Conns -> Seq(Message)]
        /\ lost \subseteq Nat
        /\ connPc[c] = "purge" /\ left[c] >= 1 /\ Len(kept[c]) + left[c] <= QueueSize
        /\ connPc' = [connPc EXCEPT ![c] = IF left'[c] = 0 THEN "restore" ELSE "purge"]
        /\ UNCHANGED <<open, named, frame, frames, sessions, infoStored, stale, batchVars,
                 restored, linkVars, verdictVars, nextId>>
    BY <1>t, <1>11 DEF PurgeTake, TypeOK, Control
  <2>2. /\ sendCh' \in Seq(Message) /\ Len(sendCh') <= QueueSize
        /\ lost' \subseteq Nat
        /\ \E n \in 0..QueueSize, q \in Seq(Message) :
             left' = [left EXCEPT ![c] = n] /\ kept' = [kept EXCEPT ![c] = q]
             /\ n + Len(q) <= QueueSize
    <3>1. CASE sendCh = <<>>
      <4>1. left' = [left EXCEPT ![c] = 0] /\ sendCh' = sendCh /\ kept' = kept
            /\ lost' = lost
        BY <1>11, <3>1 DEF PurgeTake
      <4>2. kept' = [kept EXCEPT ![c] = kept[c]] /\ kept[c] \in Seq(Message)
        BY <4>1, <2>1
      <4>3. 0 + Len(kept[c]) <= QueueSize
        BY <2>1, <4>2, LenProperties
      <4> QED
        BY <4>1, <4>2, <4>3, <2>1
    <3>2. CASE sendCh # <<>>
      <4>1. Head(sendCh) \in Message /\ Tail(sendCh) \in Seq(Message)
            /\ Len(Tail(sendCh)) = Len(sendCh) - 1
        BY <2>1, <3>2, HeadTailProperties
      <4>2. left' = [left EXCEPT ![c] = left[c] - 1] /\ sendCh' = Tail(sendCh)
        BY <1>11, <3>2 DEF PurgeTake
      <4>3. Len(sendCh) \in Nat
        BY <2>1, LenProperties
      <4>4. CASE Head(sendCh).sess = Owner[c]
        <5>1. lost' = lost \cup Range(Head(sendCh).ids) /\ kept' = kept
          BY <1>11, <3>2, <4>4 DEF PurgeTake
        <5>2. Range(Head(sendCh).ids) \subseteq Nat
          BY <4>1 DEF Message, Range
        <5>3. kept' = [kept EXCEPT ![c] = kept[c]] /\ kept[c] \in Seq(Message)
          BY <5>1, <2>1
        <5>4. left[c] - 1 \in 0..QueueSize /\ left[c] - 1 + Len(kept[c]) <= QueueSize
          BY <2>1, <5>3, LenProperties
        <5>5. \E n \in 0..QueueSize, q \in Seq(Message) :
                left' = [left EXCEPT ![c] = n] /\ kept' = [kept EXCEPT ![c] = q]
                /\ n + Len(q) <= QueueSize
          BY <4>2, <5>3, <5>4
        <5>6. sendCh' \in Seq(Message) /\ Len(sendCh') <= QueueSize
          BY <4>1, <4>2, <4>3, <2>1
        <5>7. lost' \subseteq Nat
          BY <5>1, <5>2, <2>1
        <5> QED
          BY <5>5, <5>6, <5>7
      <4>5. CASE Head(sendCh).sess # Owner[c]
        <5>1. lost' = lost /\ kept' = [kept EXCEPT ![c] = Append(kept[c], Head(sendCh))]
          BY <1>11, <3>2, <4>5 DEF PurgeTake
        <5>2. Append(kept[c], Head(sendCh)) \in Seq(Message)
              /\ Len(Append(kept[c], Head(sendCh))) = Len(kept[c]) + 1
              /\ Len(kept[c]) \in Nat
          BY <2>1, <4>1, AppendProperties, LenProperties
        <5>3. left[c] - 1 \in 0..QueueSize
              /\ left[c] - 1 + Len(Append(kept[c], Head(sendCh))) <= QueueSize
          BY <2>1, <5>2
        <5>4. \E n \in 0..QueueSize, q \in Seq(Message) :
                left' = [left EXCEPT ![c] = n] /\ kept' = [kept EXCEPT ![c] = q]
                /\ n + Len(q) <= QueueSize
          BY <4>2, <5>1, <5>2, <5>3
        <5>5. sendCh' \in Seq(Message) /\ Len(sendCh') <= QueueSize
          BY <4>1, <4>2, <4>3, <2>1
        <5>6. lost' \subseteq Nat
          BY <5>1, <2>1
        <5> QED
          BY <5>4, <5>5, <5>6
      <4> QED
        BY <4>4, <4>5
    <3> QED
      BY <3>1, <3>2
  <2>3. PICK n \in 0..QueueSize, q \in Seq(Message) :
          left' = [left EXCEPT ![c] = n] /\ kept' = [kept EXCEPT ![c] = q]
          /\ n + Len(q) <= QueueSize
    BY <2>2
  <2>4. TypeOK' /\ Flushes'
    BY <1>t, <2>1, <2>2, <2>3 DEF TypeOK, Flushes, batchVars, linkVars, verdictVars
  <2>5. left'[c] = n /\ kept'[c] = q
    BY <2>1, <2>3
  <2>6. connPc'[c] = IF n = 0 THEN "restore" ELSE "purge"
    BY <2>1, <2>5, <1>t DEF TypeOK
  <2>7. Control'
    BY <1>t, <2>1, <2>3, <2>5, <2>6, SMTT(30) DEF TypeOK, Control
  <2> QED
    BY <2>4, <2>7 DEF Typed
<1>12. ASSUME NEW c \in Conns, PurgeRestore(c) PROVE Typed'
  <2>1. /\ kept[c] \in Seq(Message) /\ connPc[c] = "restore"
        /\ UNCHANGED <<open, named, frame, frames, sessions, infoStored, stale, batchVars,
                 left, linkVars, verdictVars, nextId>>
    BY <1>t, <1>12 DEF PurgeRestore, TypeOK
  <2>2. CASE kept[c] = <<>>
    <3>1. connPc' = [connPc EXCEPT ![c] = "end"] /\ UNCHANGED <<sendCh, lost, kept, restored>>
      BY <1>12, <2>2 DEF PurgeRestore
    <3> QED
      BY <1>t, <2>1, <2>2, <3>1 DEF Typed, TypeOK, Control, Flushes, batchVars, linkVars,
        verdictVars
  <2>3. CASE kept[c] # <<>>
    <3>1. /\ Head(kept[c]) \in Message /\ Tail(kept[c]) \in Seq(Message)
          /\ Len(Tail(kept[c])) = Len(kept[c]) - 1
      BY <2>1, <2>3, HeadTailProperties
    <3>2. /\ Send(Head(kept[c]))
          /\ restored' = restored \cup Range(Head(kept[c]).ids)
          /\ kept' = [kept EXCEPT ![c] = Tail(kept[c])]
          /\ UNCHANGED connPc
      BY <1>12, <2>3 DEF PurgeRestore
    <3>3. sendCh' \in Seq(Message) /\ Len(sendCh') <= QueueSize /\ lost' \subseteq Nat
      BY <1>t, <3>1, <3>2, SendTyped
    <3>4. Range(Head(kept[c]).ids) \subseteq Nat
      BY <3>1 DEF Message, Range
    <3>5. TypeOK' /\ Flushes'
      BY <1>t, <2>1, <3>1, <3>2, <3>3, <3>4 DEF TypeOK, Flushes, batchVars, linkVars,
           verdictVars
    <3>6. Len(kept[c]) \in Nat /\ kept'[c] = Tail(kept[c])
      BY <1>t, <2>1, <3>2, LenProperties DEF TypeOK
    <3>7. Control'
      BY <1>t, <2>1, <3>1, <3>2, <3>6 DEF TypeOK, Control
    <3> QED
      BY <3>5, <3>7 DEF Typed
  <2> QED
    BY <2>2, <2>3
<1>13. ASSUME NEW c \in Conns, SendEnd(c) PROVE Typed'
  <2>1. [type |-> "session_end", sess |-> Owner[c], ids |-> <<nextId>>] \in Message
    BY <1>t DEF TypeOK, Message
  <2>2. Send([type |-> "session_end", sess |-> Owner[c], ids |-> <<nextId>>])
    BY <1>13 DEF SendEnd
  <2>3. sendCh' \in Seq(Message) /\ Len(sendCh') <= QueueSize /\ lost' \subseteq Nat
    BY <1>t, <2>1, <2>2, SendTyped
  <2>4. TypeOK'
    <3>1. connPc' \in [Conns -> {"new", "read", "register", "lock", "store",
                           "endBatch", "count", "purge", "restore", "end",
                           "unregister", "closed"}]
          /\ nextId' \in Nat
      BY <1>t, <1>13 DEF SendEnd, TypeOK
    <3>2. UNCHANGED <<open, named, frame, frames, sessions, infoStored, stale, batches,
                 flushing, left, kept, restored, link, writing, written,
                 verdictCh, handling, target, verdicts, missed>>
      BY <1>13 DEF SendEnd, batchVars, purgeVars, linkVars, verdictVars
    <3> QED
      BY <1>t, <2>3, <3>1, <3>2 DEF TypeOK
  <2>5. Control'
    BY <1>t, <1>13 DEF SendEnd, TypeOK, Control, purgeVars
  <2>6. Flushes'
    BY <1>t, <1>13 DEF SendEnd, Flushes, batchVars
  <2> QED
    BY <2>4, <2>5, <2>6 DEF Typed
<1>14. ASSUME NEW c \in Conns, Unregister(c) PROVE Typed'
  BY <1>t, <1>14 DEF Unregister, Typed, TypeOK, Control, Flushes, batchVars, purgeVars,
       linkVars, verdictVars, idVars
<1>15. CASE Tick
  BY <1>t, <1>15 DEF Tick, Typed, TypeOK, Control, Flushes, connVars, purgeVars,
       linkVars, verdictVars, idVars
<1>16. ASSUME NEW s \in Sessions, TickFlush(s) PROVE Typed'
  <2>1. /\ FlushLocked(s, batches[s]) /\ flushing' = flushing \ {s}
        /\ UNCHANGED <<connVars, purgeVars, linkVars, verdictVars, nextId>>
        /\ batches[s] \in Seq(Nat)
    BY <1>t, <1>16 DEF TickFlush, TypeOK
  <2>2. /\ sendCh' \in Seq(Message) /\ Len(sendCh') <= QueueSize
        /\ lost' \subseteq Nat
        /\ batches' = [batches EXCEPT ![s] = <<>>]
        /\ batches' \in [Sessions -> Seq(Nat)]
        /\ \A r \in Sessions : Len(batches'[r]) < MaxBatch
    BY <1>t, <2>1, FlushTyped
  <2>3. TypeOK' /\ Control'
    BY <1>t, <2>1, <2>2 DEF TypeOK, Control, connVars, purgeVars, linkVars, verdictVars
  <2>4. Flushes'
    BY <1>t, <2>1, <2>2 DEF Flushes, TypeOK
  <2> QED
    BY <2>3, <2>4 DEF Typed
<1>17. CASE LinkStep
  <2>1. CASE Connect \/ LinkBreaks
    BY <1>t, <2>1 DEF Connect, LinkBreaks, Typed, TypeOK, Control, Flushes, connVars,
      batchVars, purgeVars, verdictVars, idVars
  <2>2. CASE TakeMessage
    <3>1. Head(sendCh) \in Message /\ Tail(sendCh) \in Seq(Message)
          /\ Len(Tail(sendCh)) = Len(sendCh) - 1 /\ Len(sendCh) \in Nat
      BY <1>t, <2>2, HeadTailProperties, LenProperties DEF TakeMessage, TypeOK
    <3> QED
      BY <1>t, <2>2, <3>1 DEF TakeMessage, Typed, TypeOK, Control, Flushes, connVars,
        batchVars, purgeVars, verdictVars, idVars
  <2>3. CASE WriteMessage
    <3>1. writing \in Message /\ Append(written, writing) \in Seq(Message)
      BY <1>t, <2>3, AppendProperties DEF WriteMessage, TypeOK
    <3> QED
      BY <1>t, <2>3, <3>1 DEF WriteMessage, Typed, TypeOK, Control, Flushes, connVars,
        batchVars, purgeVars, verdictVars, idVars
  <2>4. CASE WriteFails
    <3>1. Range(writing.ids) \subseteq Nat
      <4>1. writing \in Message
        BY <1>t, <2>4 DEF WriteFails, TypeOK
      <4> QED
        BY <4>1 DEF Message, Range
    <3>2. lost' \subseteq Nat /\ writing' = None /\ link' = "down"
      <4>1. lost' = lost \cup Range(writing.ids) /\ writing' = None /\ link' = "down"
        BY <2>4 DEF WriteFails
      <4>2. lost \subseteq Nat
        BY <1>t DEF TypeOK
      <4> QED
        BY <4>1, <4>2, <3>1
    <3>3. UNCHANGED <<connVars, batchVars, sendCh, purgeVars, written, verdictVars,
                 nextId>>
      BY <2>4 DEF WriteFails
    <3>4. TypeOK'
      BY <1>t, <3>2, <3>3 DEF TypeOK, connVars, batchVars, purgeVars, verdictVars
    <3> QED
      BY <1>t, <2>4, <3>4 DEF WriteFails, Typed, Control, Flushes, connVars, batchVars,
        purgeVars
  <2> QED
    BY <1>17, <2>1, <2>2, <2>3, <2>4 DEF LinkStep
<1>18. CASE VerdictStep
  <2>1. CASE TakeVerdict
    <3>1. Head(verdictCh) \in Sessions /\ Tail(verdictCh) \in Seq(Sessions)
          /\ Len(Tail(verdictCh)) = Len(verdictCh) - 1 /\ Len(verdictCh) \in Nat
      BY <1>t, <2>1, HeadTailProperties, LenProperties DEF TakeVerdict, TypeOK
    <3>2. handling' \in Sessions /\ verdictCh' \in Seq(Sessions)
          /\ Len(verdictCh') <= VerdictSize
      BY <1>t, <2>1, <3>1 DEF TakeVerdict, TypeOK
    <3>3. UNCHANGED <<connVars, batchVars, sendCh, purgeVars, linkVars, target,
                 verdicts, missed, idVars>>
      BY <2>1 DEF TakeVerdict
    <3>4. TypeOK'
      BY <1>t, <3>2, <3>3 DEF TypeOK, connVars, batchVars, purgeVars, linkVars, idVars
    <3> QED
      BY <1>t, <2>1, <3>4 DEF TakeVerdict, Typed, Control, Flushes, connVars, batchVars,
        purgeVars
  <2>2. CASE LookupSession
    BY <1>t, <2>2 DEF LookupSession, Typed, TypeOK, Control, Flushes, connVars,
        batchVars, purgeVars, linkVars, idVars
  <2>3. CASE WriteControl
    BY <1>t, <2>3 DEF WriteControl, Typed, TypeOK, Control, Flushes, connVars,
        batchVars, purgeVars, linkVars, idVars
  <2> QED
    BY <1>18, <2>1, <2>2, <2>3 DEF VerdictStep
<1>19. ASSUME NEW s \in Sessions, ReceiveVerdict(s) PROVE Typed'
  <2>1. verdictCh' \in Seq(Sessions) /\ Len(verdictCh') <= VerdictSize
    BY <1>t, <1>19, AppendProperties, LenProperties DEF ReceiveVerdict, TypeOK
  <2>2. verdicts' \in 0..MaxVerdicts
    BY <1>t, <1>19 DEF ReceiveVerdict, TypeOK
  <2>3. TypeOK'
    BY <1>t, <1>19, <2>1, <2>2 DEF ReceiveVerdict, TypeOK, connVars, batchVars, purgeVars,
      linkVars, idVars
  <2> QED
    BY <1>t, <1>19, <2>3 DEF ReceiveVerdict, Typed, Control, Flushes, connVars, batchVars,
      purgeVars
<1>20. CASE UNCHANGED vars
  BY <1>t, <1>20 DEF vars, Typed, TypeOK, Control, Flushes, connVars, batchVars, purgeVars,
    linkVars, verdictVars, idVars
<1> QED
  BY <1>1, <1>2, <1>3, <1>4, <1>5, <1>6, <1>7, <1>8, <1>9, <1>10, <1>11, <1>12, <1>13,
     <1>14, <1>15, <1>16, <1>17, <1>18, <1>19, <1>20
     DEF Next, HandlerStep, TickerStep

(***************************************************************************)
(* The variables keep their types, the channels their capacity and the     *)
(* batches the size that sends them, whatever the interleaving.            *)
(***************************************************************************)
THEOREM TypeCorrect == Spec => []TypeOK
<1>1. Typed => TypeOK
  BY DEF Typed
<1> QED
  BY <1>1, InitTyped, TypedStep, PTL DEF Spec

-----------------------------------------------------------------------------
(* A step that touches none of the tables of connections.                  *)
LEMMA ConnectedKept ==
  ASSUME Connected, UNCHANGED <<open, named, sessions, stale>>
  PROVE  Connected'
BY DEF Connected

LEMMA ConnectedStep == Typed /\ Connected /\ [Next]_vars => Connected'
<1> SUFFICES ASSUME Typed, Connected, [Next]_vars PROVE Connected'
  OBVIOUS
<1>t. TypeOK /\ Control
  BY DEF Typed
<1> USE OwnerAssumption, NoneAssumption
<1>1. ASSUME NEW c \in Conns, Dial(c) PROVE Connected'
  <2>1. c \notin named /\ open' = open \cup {c} /\ UNCHANGED <<named, sessions, stale>>
        /\ \A d \in open : Owner[d] # Owner[c]
    BY <1>t, <1>1 DEF Dial, Control
  <2> QED
    BY <2>1, <1>t DEF Connected, TypeOK
<1>2. ASSUME NEW c \in Conns, ClientGone(c) PROVE Connected'
  BY <1>2 DEF ClientGone, Connected
<1>3. ASSUME NEW c \in Conns, Register(c) PROVE Connected'
  <2>1. /\ named' = named \cup {c} /\ open' = open
        /\ sessions' = [sessions EXCEPT ![Owner[c]] = c]
        /\ stale' = IF c \notin open /\ \E d \in open \cap named : Owner[d] = Owner[c]
                    THEN stale \cup {Owner[c]} ELSE stale
    BY <1>3 DEF Register, Registered
  <2>2. ASSUME NEW d \in open \cap named'
        PROVE  sessions'[Owner[d]] = d \/ Owner[d] \in stale'
    <3>1. d \in Conns /\ Owner[d] \in Sessions /\ Owner[c] \in Sessions
          /\ sessions \in [Sessions -> Conns \cup {None}]
      BY <1>t DEF TypeOK
    <3>2. CASE Owner[d] # Owner[c]
      BY <3>1, <3>2, <2>1, <2>2 DEF Connected
    <3>3. CASE d = c
      BY <3>1, <3>3, <2>1
    <3>4. CASE Owner[d] = Owner[c] /\ d # c
      <4>1. c \notin open /\ d \in open \cap named
        BY <3>4, <2>1, <2>2 DEF Connected
      <4> QED
        BY <4>1, <3>4, <2>1
    <3> QED
      BY <3>2, <3>3, <3>4
  <2> QED
    BY <2>1, <2>2 DEF Connected
<1>4. ASSUME NEW c \in Conns, Unregister(c) PROVE Connected'
  <2>1. /\ named' = named /\ open' = open \ {c} /\ stale' = stale
        /\ sessions' = IF sessions[Owner[c]] = c
                       THEN [sessions EXCEPT ![Owner[c]] = None] ELSE sessions
    BY <1>4 DEF Unregister
  <2>2. sessions \in [Sessions -> Conns \cup {None}] /\ open \subseteq Conns
    BY <1>t DEF TypeOK
  <2> QED
    BY <2>1, <2>2 DEF Connected
<1>5. ASSUME NEW c \in Conns,
             \/ StoreFails(c) \/ LockStore(c) \/ StopReading(c) \/ EndBatch(c)
             \/ PurgeStart(c) \/ PurgeTake(c) \/ PurgeRestore(c) \/ SendEnd(c)
             \/ \E kind \in Kinds : ReadFrame(c, kind)
             \/ \E recorded \in BOOLEAN : StoreEvent(c, recorded)
      PROVE  UNCHANGED <<open, named, sessions, stale>>
  BY <1>5 DEF StoreFails, LockStore, StopReading, EndBatch, PurgeStart, PurgeTake,
    PurgeRestore, SendEnd, ReadFrame, StoreEvent
<1>6. ASSUME TickerStep \/ LinkStep \/ VerdictStep
             \/ \E s \in Sessions : ReceiveVerdict(s)
      PROVE  UNCHANGED <<open, named, sessions, stale>>
  BY <1>6 DEF TickerStep, LinkStep, VerdictStep, ReceiveVerdict, Tick, TickFlush, Connect,
    TakeMessage, WriteMessage, WriteFails, LinkBreaks, TakeVerdict, LookupSession,
    WriteControl, connVars
<1>7. CASE UNCHANGED vars
  BY <1>7, ConnectedKept DEF vars, connVars
<1> QED
  BY <1>1, <1>2, <1>3, <1>4, <1>5, <1>6, <1>7, ConnectedKept DEF Next, HandlerStep

(* Only a lookup of the session of a verdict can miss a client.            *)
LEMMA MissedStep ==
  Typed /\ Connected /\ VerdictFindsClientUnlessStale /\ [Next]_vars
    => VerdictFindsClientUnlessStale'
<1> SUFFICES ASSUME Typed, Connected, missed \subseteq stale, [Next]_vars
             PROVE  missed' \subseteq stale'
  BY DEF VerdictFindsClientUnlessStale
<1>1. CASE LookupSession
  <2>1. /\ stale' = stale
        /\ missed' = IF sessions[handling] \notin open /\ Reachable(handling)
                     THEN missed \cup {handling} ELSE missed
    BY <1>1 DEF LookupSession, connVars
  <2>2. ASSUME sessions[handling] \notin open, Reachable(handling) PROVE handling \in stale
    BY <2>2 DEF Reachable, Connected
  <2> QED
    BY <2>1, <2>2
<1>2. CASE ~LookupSession
  <2>1. missed' = missed
    <3>1. ASSUME NEW c \in Conns,
                 \/ Dial(c) \/ ClientGone(c) \/ StoreFails(c) \/ HandlerStep(c)
                 \/ \E kind \in Kinds : ReadFrame(c, kind)
          PROVE  missed' = missed
      BY <3>1 DEF Dial, ClientGone, StoreFails, HandlerStep, ReadFrame, Register, LockStore,
        StoreEvent, StopReading, EndBatch, PurgeStart, PurgeTake, PurgeRestore, SendEnd,
        Unregister, verdictVars
    <3>2. ASSUME TickerStep \/ LinkStep \/ TakeVerdict \/ WriteControl
                 \/ \E s \in Sessions : ReceiveVerdict(s)
          PROVE  missed' = missed
      BY <3>2 DEF TickerStep, Tick, TickFlush, LinkStep, Connect, TakeMessage, WriteMessage,
        WriteFails, LinkBreaks, TakeVerdict, WriteControl, ReceiveVerdict, verdictVars
    <3>3. CASE UNCHANGED vars
      BY <3>3 DEF vars, verdictVars
    <3> QED
      BY <1>2, <3>1, <3>2, <3>3 DEF Next, VerdictStep
  <2>2. stale \subseteq stale'
    <3>1. ASSUME NEW c \in Conns,
                 \/ Dial(c) \/ ClientGone(c) \/ StoreFails(c) \/ HandlerStep(c)
                 \/ \E kind \in Kinds : ReadFrame(c, kind)
          PROVE  stale \subseteq stale'
      <4>1. CASE Register(c)
        BY <4>1 DEF Register
      <4>2. CASE ~Register(c)
        BY <3>1, <4>2 DEF Dial, ClientGone, StoreFails, HandlerStep, ReadFrame, LockStore,
          StoreEvent, StopReading, EndBatch, PurgeStart, PurgeTake, PurgeRestore, SendEnd,
          Unregister
      <4> QED
        BY <4>1, <4>2
    <3>2. ASSUME TickerStep \/ LinkStep \/ TakeVerdict \/ WriteControl
                 \/ \E s \in Sessions : ReceiveVerdict(s)
          PROVE  stale' = stale
      BY <3>2 DEF TickerStep, Tick, TickFlush, LinkStep, Connect, TakeMessage, WriteMessage,
        WriteFails, LinkBreaks, TakeVerdict, WriteControl, ReceiveVerdict, connVars
    <3>3. CASE UNCHANGED vars
      BY <3>3 DEF vars, connVars
    <3> QED
      BY <1>2, <3>1, <3>2, <3>3 DEF Next, VerdictStep
  <2> QED
    BY <2>1, <2>2
<1> QED
  BY <1>1, <1>2

(***************************************************************************)
(* A verdict misses a connected client that has introduced itself only     *)
(* when a late frame of an earlier connection had taken the session: the   *)
(* table names the one open connection of each client that has sent a      *)
(* frame, whatever else happens (Connected).                               *)
(***************************************************************************)
THEOREM VerdictsFindClients == Spec => []VerdictFindsClientUnlessStale
<1>1. Init => Connected /\ VerdictFindsClientUnlessStale
  BY DEF Init, Connected, VerdictFindsClientUnlessStale
<1> QED
  BY <1>1, InitTyped, TypedStep, ConnectedStep, MissedStep, PTL DEF Spec

-----------------------------------------------------------------------------
(* A queue of messages with one more, and without its head.                *)
LEMMA Appended ==
  ASSUME NEW q \in Seq(Message), NEW m \in Message, NEW id
  PROVE  /\ In(Append(q, m), id) <=> In(q, id) \/ id \in Range(m.ids)
         /\ Once(q, id) /\ ~(In(q, id) /\ id \in Range(m.ids)) => Once(Append(q, m), id)
<1>1. /\ DOMAIN q = 1..Len(q) /\ Len(q) \in Nat
      /\ DOMAIN Append(q, m) = 1..(Len(q) + 1)
      /\ \A k \in 1..Len(q) : Append(q, m)[k] = q[k]
      /\ Append(q, m)[Len(q) + 1] = m
  BY AppendProperties, LenProperties
<1>2. \A k \in 1..(Len(q) + 1) : k \in 1..Len(q) \/ k = Len(q) + 1
  BY <1>1
<1>3. 1..Len(q) \subseteq 1..(Len(q) + 1) /\ Len(q) + 1 \in 1..(Len(q) + 1)
  BY <1>1
<1>4. In(Append(q, m), id) <=> In(q, id) \/ id \in Range(m.ids)
  BY <1>1, <1>2, <1>3 DEF In
<1>5. ASSUME Once(q, id), ~(In(q, id) /\ id \in Range(m.ids))
      PROVE  Once(Append(q, m), id)
  BY <1>1, <1>2, <1>5 DEF In, Once
<1> QED
  BY <1>4, <1>5

LEMMA Beheaded ==
  ASSUME NEW q \in Seq(Message), q # <<>>, NEW id, Once(q, id)
  PROVE  /\ In(q, id) <=> In(Tail(q), id) \/ id \in Range(Head(q).ids)
         /\ ~(In(Tail(q), id) /\ id \in Range(Head(q).ids))
         /\ Once(Tail(q), id)
<1>1. /\ DOMAIN q = 1..Len(q) /\ Len(q) \in Nat \ {0} /\ Head(q) = q[1]
      /\ DOMAIN Tail(q) = 1..(Len(q) - 1)
      /\ \A k \in 1..(Len(q) - 1) : Tail(q)[k] = q[k + 1]
  BY HeadTailProperties, LenProperties, EmptySeq
<1>2. \A k \in 1..(Len(q) - 1) : k + 1 \in 1..Len(q) /\ k + 1 # 1
  BY <1>1
<1>3. \A k \in 1..Len(q) : k = 1 \/ (k - 1 \in 1..(Len(q) - 1) /\ (k - 1) + 1 = k)
  BY <1>1
<1>4. ASSUME NEW k \in DOMAIN Tail(q), id \in Range(Tail(q)[k].ids)
      PROVE  k + 1 \in DOMAIN q /\ id \in Range(q[k + 1].ids) /\ k + 1 # 1
  BY <1>1, <1>2, <1>4
<1>5. In(Tail(q), id) => In(q, id)
  BY <1>4 DEF In
<1>6. ~(In(Tail(q), id) /\ id \in Range(Head(q).ids))
  BY <1>1, <1>4 DEF In, Once
<1>7. In(q, id) => In(Tail(q), id) \/ id \in Range(Head(q).ids)
  BY <1>1, <1>3 DEF In
<1>8. id \in Range(Head(q).ids) => In(q, id)
  BY <1>1 DEF In
<1>9. Once(Tail(q), id)
  <2>1. SUFFICES ASSUME NEW k \in DOMAIN Tail(q), NEW l \in DOMAIN Tail(q),
                        id \in Range(Tail(q)[k].ids), id \in Range(Tail(q)[l].ids)
                 PROVE  k = l
    BY DEF Once
  <2>2. k + 1 = l + 1
    BY <1>4, <2>1 DEF Once
  <2> QED
    BY <2>2, <1>1
<1> QED
  BY <1>5, <1>6, <1>7, <1>8, <1>9

(* Send takes the events of a message to the channel or to the dropped.    *)
LEMMA SendMoves ==
  ASSUME TypeOK, NEW m \in Message, Send(m), NEW id, Once(sendCh, id),
         ~(Queued(id) /\ id \in Range(m.ids))
  PROVE  /\ Once(sendCh', id)
         /\ \/ /\ Queued(id)' <=> Queued(id) \/ id \in Range(m.ids)
               /\ Lost(id)' <=> Lost(id)
            \/ /\ Queued(id)' <=> Queued(id)
               /\ Lost(id)' <=> Lost(id) \/ id \in Range(m.ids)
<1>1. sendCh \in Seq(Message)
  BY DEF TypeOK
<1>2. CASE Len(sendCh) < QueueSize
  <2>1. sendCh' = Append(sendCh, m) /\ lost' = lost
    BY <1>2 DEF Send
  <2> QED
    BY <2>1, <1>1, Appended DEF Queued, Lost
<1>3. CASE ~(Len(sendCh) < QueueSize)
  BY <1>3 DEF Send, Queued, Lost
<1> QED
  BY <1>2, <1>3

LEMMA NewEventPlaced ==
  ASSUME TypeOK, OncePlaced, NEW m \in Message, Range(m.ids) = {nextId}, Send(m),
         nextId' = nextId + 1, UNCHANGED <<batches, kept, writing, written>>
  PROVE  OncePlaced'
<1>0. nextId \in Nat \ {0}
  BY DEF OncePlaced, TypeOK
<1> SUFFICES ASSUME NEW id \in Nat
             PROVE  (Placed(id) <=> id \in 1..(nextId - 1))' /\ Apart(id)' /\ Single(id)'
  BY <1>0 DEF OncePlaced
<1>1. (Placed(id) <=> id \in 1..(nextId - 1)) /\ Apart(id) /\ Single(id)
  BY DEF OncePlaced
<1>2. id = nextId => ~Placed(id)
  BY <1>1
<1>3. /\ Once(sendCh', id)
      /\ \/ /\ Queued(id)' <=> Queued(id) \/ id = nextId
            /\ Lost(id)' <=> Lost(id)
         \/ /\ Queued(id)' <=> Queued(id)
            /\ Lost(id)' <=> Lost(id) \/ id = nextId
  BY <1>1, <1>2, SendMoves DEF Single, Placed
<1>4. /\ Batched(id)' <=> Batched(id)
      /\ Held(id)' <=> Held(id)
      /\ Writing(id)' <=> Writing(id)
      /\ Written(id)' <=> Written(id)
  BY DEF Batched, Held, Writing, Written
<1>5. Single(id)'
  BY <1>1, <1>3 DEF Single
<1>6. Apart(id)'
  BY <1>1, <1>2, <1>3, <1>4 DEF Apart, Placed
<1>7. Placed(id)' <=> Placed(id) \/ id = nextId
  BY <1>3, <1>4 DEF Placed
<1>8. id \in 1..(nextId' - 1) <=> id \in 1..(nextId - 1) \/ id = nextId
  BY <1>0
<1> QED
  BY <1>1, <1>5, <1>6, <1>7, <1>8

(* A flush takes the rows of a session, and perhaps a new one, out of its  *)
(* batch.                                                                  *)
LEMMA FlushPlaced ==
  ASSUME TypeOK, OncePlaced, NEW s \in Sessions, NEW rows \in Seq(Nat),
         FlushLocked(s, rows), UNCHANGED <<kept, writing, written>>,
         \/ nextId' = nextId /\ Range(rows) = Range(batches[s])
         \/ nextId' = nextId + 1 /\ Range(rows) = Range(batches[s]) \cup {nextId}
  PROVE  OncePlaced'
<1>0. nextId \in Nat \ {0} /\ nextId' \in Nat \ {0} /\ nextId' >= 1
  BY DEF OncePlaced, TypeOK
<1> SUFFICES ASSUME NEW id \in Nat
             PROVE  (Placed(id) <=> id \in 1..(nextId - 1))' /\ Apart(id)' /\ Single(id)'
  BY <1>0 DEF OncePlaced
<1> DEFINE new == nextId' = nextId + 1 /\ id = nextId
           row == id \in Range(batches[s])
           m == Launches(s, rows)
<1>1. (Placed(id) <=> id \in 1..(nextId - 1)) /\ Apart(id) /\ Single(id)
  BY DEF OncePlaced
<1>2. new => ~Placed(id)
  BY <1>0, <1>1
<1>3. /\ m \in Message
      /\ id \in Range(m.ids) <=> row \/ new
      /\ batches' = [batches EXCEPT ![s] = <<>>]
      /\ Send(m)
  BY <1>0 DEF Launches, Message, FlushLocked, BatchTaken
<1>4. row => Batched(id)
  BY DEF Batched
<1>5. (row \/ new) => ~(Queued(id) \/ Held(id) \/ Writing(id) \/ Written(id) \/ Lost(id))
  BY <1>1, <1>2, <1>4 DEF Apart, Placed
<1>6. Once(sendCh, id) /\ ~(Queued(id) /\ id \in Range(m.ids))
  BY <1>1, <1>3, <1>5 DEF Single
<1> HIDE DEF m
<1>7. /\ Once(sendCh', id)
      /\ \/ /\ Queued(id)' <=> Queued(id) \/ row \/ new
            /\ Lost(id)' <=> Lost(id)
         \/ /\ Queued(id)' <=> Queued(id)
            /\ Lost(id)' <=> Lost(id) \/ row \/ new
  BY <1>3, <1>6, SendMoves
<1>8. batches \in [Sessions -> Seq(Nat)] /\ Range(<<>>) = {}
  BY DEF TypeOK, Range
<1>9. \A r \in Sessions :
        id \in Range(batches'[r]) <=> r # s /\ id \in Range(batches[r])
  BY <1>3, <1>8
<1>10. Batched(id)' <=> Batched(id) /\ ~row
  BY <1>1, <1>9 DEF Batched, Single
<1>11. /\ Held(id)' <=> Held(id)
       /\ Writing(id)' <=> Writing(id)
       /\ Written(id)' <=> Written(id)
  BY DEF Held, Writing, Written
<1>12. Single(id)'
  BY <1>1, <1>7, <1>9 DEF Single
<1>13. id \in 1..(nextId' - 1) <=> id \in 1..(nextId - 1) \/ new
  <2>1. nextId' = nextId \/ nextId' = nextId + 1
    OBVIOUS
  <2>2. CASE nextId' = nextId
    BY <1>0, <2>2
  <2>3. CASE nextId' = nextId + 1
    BY <1>0, <2>3
  <2> QED
    BY <2>1, <2>2, <2>3
<1> HIDE DEF row, new
<1>14. Apart(id)'
  <2>1. CASE row \/ new
    <3>1. ~Batched(id)'
      BY <1>2, <1>10, <2>1 DEF Placed
    <3>2. ~(Held(id)' \/ Writing(id)' \/ Written(id)')
      BY <1>5, <1>11, <2>1
    <3>3. ~(Queued(id)' /\ Lost(id)')
      BY <1>5, <1>7, <2>1
    <3> QED
      BY <3>1, <3>2, <3>3 DEF Apart
  <2>2. CASE ~(row \/ new)
    BY <1>1, <1>7, <1>10, <1>11, <2>2 DEF Apart
  <2> QED
    BY <2>1, <2>2
<1>15. Placed(id)' <=> Placed(id) \/ new
  BY <1>4, <1>7, <1>10, <1>11 DEF Placed
<1> QED
  BY <1>1, <1>12, <1>13, <1>14, <1>15

LEMMA AppendedRow ==
  ASSUME NEW q \in Seq(Nat), NEW id \in Nat
  PROVE  Append(q, id) \in Seq(Nat) /\ Range(Append(q, id)) = Range(q) \cup {id}
<1>1. /\ Append(q, id) \in Seq(Nat)
      /\ DOMAIN q = 1..Len(q) /\ Len(q) \in Nat
      /\ DOMAIN Append(q, id) = 1..(Len(q) + 1)
      /\ \A k \in 1..Len(q) : Append(q, id)[k] = q[k]
      /\ Append(q, id)[Len(q) + 1] = id
  BY AppendProperties, LenProperties
<1>2. \A k \in 1..(Len(q) + 1) : k \in 1..Len(q) \/ k = Len(q) + 1
  BY <1>1
<1>3. 1..Len(q) \subseteq 1..(Len(q) + 1) /\ Len(q) + 1 \in 1..(Len(q) + 1)
  BY <1>1
<1> QED
  BY <1>1, <1>2, <1>3 DEF Range

LEMMA AddPlaced ==
  ASSUME TypeOK, OncePlaced, NEW s \in Sessions, AddLaunch(s, nextId),
         nextId' = nextId + 1, UNCHANGED <<kept, writing, written>>
  PROVE  OncePlaced'
<1>0. nextId \in Nat \ {0} /\ batches[s] \in Seq(Nat) /\ batches \in [Sessions -> Seq(Nat)]
  BY DEF OncePlaced, TypeOK
<1> DEFINE rows == Append(batches[s], nextId)
<1>1. rows \in Seq(Nat) /\ Range(rows) = Range(batches[s]) \cup {nextId}
  BY <1>0, AppendedRow
<1>2. CASE FlushLocked(s, rows)
  <2> HIDE DEF rows
  <2> QED
    BY <1>1, <1>2, FlushPlaced
<1>3. CASE \/ lost' = lost \cup {nextId} /\ UNCHANGED <<batches, sendCh>>
           \/ batches' = [batches EXCEPT ![s] = rows] /\ UNCHANGED <<sendCh, lost>>
  <2> HIDE DEF rows
  <2> SUFFICES ASSUME NEW id \in Nat
               PROVE  (Placed(id) <=> id \in 1..(nextId - 1))' /\ Apart(id)' /\ Single(id)'
    BY <1>0 DEF OncePlaced
  <2>1. (Placed(id) <=> id \in 1..(nextId - 1)) /\ Apart(id) /\ Single(id)
    BY DEF OncePlaced
  <2>2. id = nextId => ~Placed(id)
    BY <1>0, <2>1
  <2>3. /\ Queued(id)' <=> Queued(id)
        /\ Held(id)' <=> Held(id)
        /\ Writing(id)' <=> Writing(id)
        /\ Written(id)' <=> Written(id)
    BY <1>3 DEF Queued, Held, Writing, Written
  <2>4. \/ /\ Batched(id)' <=> Batched(id)
           /\ Lost(id)' <=> Lost(id) \/ id = nextId
        \/ /\ Batched(id)' <=> Batched(id) \/ id = nextId
           /\ Lost(id)' <=> Lost(id)
    BY <1>0, <1>1, <1>3 DEF Batched, Lost
  <2>5. \A r \in Sessions : id \in Range(batches'[r])
                              => id \in Range(batches[r]) \/ (id = nextId /\ r = s)
    BY <1>0, <1>1, <1>3
  <2>6. Single(id)'
    <3>1. id = nextId => \A r \in Sessions : id \notin Range(batches[r])
      BY <2>2 DEF Placed, Batched
    <3>2. \A q, r \in Sessions : id \in Range(batches'[q]) /\ id \in Range(batches'[r])
                                   => q = r
      BY <2>1, <2>5, <3>1 DEF Single
    <3> QED
      BY <1>3, <2>1, <3>2 DEF Single
  <2>7. Apart(id)'
    BY <2>1, <2>2, <2>3, <2>4 DEF Apart, Placed
  <2>8. Placed(id)' <=> Placed(id) \/ id = nextId
    BY <2>3, <2>4 DEF Placed
  <2>9. id \in 1..(nextId' - 1) <=> id \in 1..(nextId - 1) \/ id = nextId
    BY <1>0
  <2> QED
    BY <2>1, <2>6, <2>7, <2>8, <2>9
<1> QED
  BY <1>2, <1>3 DEF AddLaunch

LEMMA EndBatchPlaced ==
  ASSUME TypeOK, OncePlaced, NEW c \in Conns, EndBatch(c)
  PROVE  OncePlaced'
<1>0. /\ UNCHANGED <<kept, writing, written, sendCh, nextId>>
      /\ lost' = lost \cup Range(batches[Owner[c]])
      /\ batches' = [batches EXCEPT ![Owner[c]] = <<>>]
      /\ nextId >= 1
  BY DEF EndBatch, purgeVars, linkVars, OncePlaced
<1>1. batches \in [Sessions -> Seq(Nat)] /\ Range(<<>>) = {} /\ Owner[c] \in Sessions
  BY OwnerAssumption DEF TypeOK, Range
<1> SUFFICES ASSUME NEW id \in Nat
             PROVE  (Placed(id) <=> id \in 1..(nextId - 1))' /\ Apart(id)' /\ Single(id)'
  BY <1>0 DEF OncePlaced
<1> DEFINE row == id \in Range(batches[Owner[c]])
<1>2. (Placed(id) <=> id \in 1..(nextId - 1)) /\ Apart(id) /\ Single(id)
  BY DEF OncePlaced
<1>3. /\ Queued(id)' <=> Queued(id)
      /\ Held(id)' <=> Held(id)
      /\ Writing(id)' <=> Writing(id)
      /\ Written(id)' <=> Written(id)
      /\ Lost(id)' <=> Lost(id) \/ row
  BY <1>0 DEF Queued, Held, Writing, Written, Lost
<1>4. \A r \in Sessions :
        id \in Range(batches'[r]) <=> r # Owner[c] /\ id \in Range(batches[r])
  BY <1>0, <1>1
<1>5. (Batched(id)' <=> Batched(id) /\ ~row) /\ (row => Batched(id))
  BY <1>1, <1>2, <1>4 DEF Batched, Single
<1>6. Single(id)'
  BY <1>0, <1>2, <1>4 DEF Single
<1> HIDE DEF row
<1>7. Apart(id)' /\ (Placed(id)' <=> Placed(id))
  BY <1>2, <1>3, <1>5 DEF Apart, Placed
<1> QED
  BY <1>0, <1>2, <1>6, <1>7

LEMMA TakePlaced ==
  ASSUME TypeOK, OncePlaced, NEW c \in Conns, PurgeTake(c)
  PROVE  OncePlaced'
<1>0. UNCHANGED <<batches, writing, written, nextId>> /\ nextId >= 1
  BY DEF PurgeTake, batchVars, linkVars, OncePlaced
<1>1. sendCh \in Seq(Message) /\ kept \in [Conns -> Seq(Message)]
  BY DEF TypeOK
<1> SUFFICES ASSUME NEW id \in Nat
             PROVE  (Placed(id) <=> id \in 1..(nextId - 1))' /\ Apart(id)' /\ Single(id)'
  BY <1>0 DEF OncePlaced
<1>2. (Placed(id) <=> id \in 1..(nextId - 1)) /\ Apart(id) /\ Single(id)
  BY DEF OncePlaced
<1>3. /\ Batched(id)' <=> Batched(id)
      /\ Writing(id)' <=> Writing(id)
      /\ Written(id)' <=> Written(id)
  BY <1>0 DEF Batched, Writing, Written
<1>4. CASE sendCh = <<>>
  <2>1. UNCHANGED <<sendCh, kept, lost>>
    BY <1>4 DEF PurgeTake
  <2>2. Queued(id)' <=> Queued(id)
    BY <2>1 DEF Queued
  <2>3. Held(id)' <=> Held(id)
    BY <2>1 DEF Held
  <2>4. Lost(id)' <=> Lost(id)
    BY <2>1 DEF Lost
  <2>5. Single(id)'
    BY <1>0, <1>2, <2>1 DEF Single
  <2> QED
    BY <1>0, <1>2, <1>3, <2>2, <2>3, <2>4, <2>5 DEF Apart, Placed
<1>5. CASE sendCh # <<>>
  <2> DEFINE m == Head(sendCh)
             here == id \in Range(m.ids)
  <2>1. m \in Message /\ sendCh' = Tail(sendCh)
    BY <1>1, <1>5, HeadTailProperties DEF PurgeTake
  <2>2. Once(sendCh, id)
    BY <1>2 DEF Single
  <2>3. /\ Queued(id) <=> Queued(id)' \/ here
        /\ ~(Queued(id)' /\ here)
        /\ Once(sendCh', id)
    BY <1>1, <1>5, <2>1, <2>2, Beheaded DEF Queued
  <2>4. here => ~(Batched(id) \/ Held(id) \/ Writing(id) \/ Written(id) \/ Lost(id))
    BY <1>2, <2>3 DEF Apart
  <2>5. CASE m.sess = Owner[c]
    <3>1. lost' = lost \cup Range(m.ids) /\ kept' = kept
      BY <1>5, <2>5 DEF PurgeTake
    <3>2. /\ Held(id)' <=> Held(id)
          /\ Lost(id)' <=> Lost(id) \/ here
      BY <3>1 DEF Held, Lost
    <3>3. Single(id)'
      BY <1>0, <1>2, <2>3, <3>1 DEF Single
    <3> HIDE DEF m, here
    <3>4. Apart(id)' /\ (Placed(id)' <=> Placed(id))
      BY <1>2, <1>3, <2>3, <2>4, <3>2 DEF Apart, Placed
    <3> QED
      BY <1>0, <1>2, <3>3, <3>4
  <2>6. CASE m.sess # Owner[c]
    <3>1. lost' = lost /\ kept' = [kept EXCEPT ![c] = Append(kept[c], m)]
      BY <1>5, <2>6 DEF PurgeTake
    <3>2. kept[c] \in Seq(Message) /\ Once(kept[c], id) /\ (In(kept[c], id) => Held(id))
      BY <1>1, <1>2 DEF Single, Held
    <3> HIDE DEF m
    <3>3. /\ In(Append(kept[c], m), id) <=> In(kept[c], id) \/ here
          /\ Once(Append(kept[c], m), id)
      BY <2>1, <2>4, <3>2, Appended
    <3>4. /\ \A d \in Conns : In(kept'[d], id) <=> In(kept[d], id) \/ (d = c /\ here)
          /\ \A d \in Conns : Once(kept'[d], id)
      BY <1>1, <1>2, <3>1, <3>3 DEF Single
    <3>5. /\ Held(id)' <=> Held(id) \/ here
          /\ Lost(id)' <=> Lost(id)
      BY <3>1, <3>4 DEF Held, Lost
    <3>6. \A d, e \in Conns : In(kept'[d], id) /\ In(kept'[e], id) => d = e
      BY <1>2, <2>4, <3>4 DEF Single, Held
    <3>7. Single(id)'
      BY <1>0, <1>2, <2>3, <3>4, <3>6 DEF Single
    <3> HIDE DEF here
    <3>8. Apart(id)' /\ (Placed(id)' <=> Placed(id))
      BY <1>2, <1>3, <2>3, <2>4, <3>5 DEF Apart, Placed
    <3> QED
      BY <1>0, <1>2, <3>7, <3>8
  <2> QED
    BY <2>5, <2>6
<1> QED
  BY <1>4, <1>5

LEMMA RestorePlaced ==
  ASSUME TypeOK, OncePlaced, NEW c \in Conns, PurgeRestore(c), kept[c] # <<>>
  PROVE  OncePlaced'
<1> DEFINE m == Head(kept[c])
<1>0. /\ UNCHANGED <<batches, writing, written, nextId>> /\ nextId >= 1
      /\ Send(m)
      /\ kept' = [kept EXCEPT ![c] = Tail(kept[c])]
  BY DEF PurgeRestore, batchVars, linkVars, OncePlaced
<1>1. kept \in [Conns -> Seq(Message)] /\ kept[c] \in Seq(Message) /\ m \in Message
  BY HeadTailProperties DEF TypeOK
<1> SUFFICES ASSUME NEW id \in Nat
             PROVE  (Placed(id) <=> id \in 1..(nextId - 1))' /\ Apart(id)' /\ Single(id)'
  BY <1>0 DEF OncePlaced
<1> DEFINE here == id \in Range(m.ids)
<1>2. (Placed(id) <=> id \in 1..(nextId - 1)) /\ Apart(id) /\ Single(id)
  BY DEF OncePlaced
<1>3. /\ Batched(id)' <=> Batched(id)
      /\ Writing(id)' <=> Writing(id)
      /\ Written(id)' <=> Written(id)
  BY <1>0 DEF Batched, Writing, Written
<1>4. Once(kept[c], id)
  BY <1>2 DEF Single
<1>5. /\ In(kept[c], id) <=> In(Tail(kept[c]), id) \/ here
      /\ ~(In(Tail(kept[c]), id) /\ here)
      /\ Once(Tail(kept[c]), id)
  BY <1>1, <1>4, Beheaded
<1>6. here => Held(id) /\ ~(Batched(id) \/ Queued(id) \/ Writing(id) \/ Written(id) \/ Lost(id))
  BY <1>2, <1>5 DEF Apart, Held
<1>7. Once(sendCh, id) /\ ~(Queued(id) /\ here)
  BY <1>2, <1>6 DEF Single
<1> HIDE DEF m
<1>8. /\ Once(sendCh', id)
      /\ \/ /\ Queued(id)' <=> Queued(id) \/ here
            /\ Lost(id)' <=> Lost(id)
         \/ /\ Queued(id)' <=> Queued(id)
            /\ Lost(id)' <=> Lost(id) \/ here
  BY <1>0, <1>1, <1>7, SendMoves
<1>9. /\ \A d \in Conns : In(kept'[d], id) <=> In(kept[d], id) /\ ~(d = c /\ here)
      /\ \A d \in Conns : Once(kept'[d], id)
  BY <1>0, <1>1, <1>2, <1>5 DEF Single
<1>10. Held(id)' <=> Held(id) /\ ~here
  BY <1>2, <1>5, <1>9 DEF Held, Single
<1>11. Single(id)'
  BY <1>0, <1>2, <1>8, <1>9 DEF Single
<1> HIDE DEF here
<1>12. Apart(id)'
  <2>1. CASE here
    <3>1. ~(Batched(id)' \/ Held(id)' \/ Writing(id)' \/ Written(id)')
      BY <1>3, <1>6, <1>10, <2>1
    <3>2. ~(Queued(id)' /\ Lost(id)')
      BY <1>6, <1>8, <2>1
    <3> QED
      BY <3>1, <3>2 DEF Apart
  <2>2. CASE ~here
    BY <1>2, <1>3, <1>8, <1>10, <2>2 DEF Apart
  <2> QED
    BY <2>1, <2>2
<1>13. Placed(id)' <=> Placed(id)
  BY <1>3, <1>6, <1>8, <1>10 DEF Placed
<1> QED
  BY <1>0, <1>2, <1>11, <1>12, <1>13

LEMMA WriterPlaced ==
  ASSUME TypeOK, OncePlaced, TakeMessage \/ WriteMessage \/ WriteFails
  PROVE  OncePlaced'
<1>0. UNCHANGED <<batches, kept, nextId>> /\ nextId >= 1
  BY DEF TakeMessage, WriteMessage, WriteFails, batchVars, purgeVars, idVars, OncePlaced
<1>1. sendCh \in Seq(Message) /\ written \in Seq(Message) /\ writing \in Message \cup {None}
      /\ None \notin Message
  BY NoneAssumption DEF TypeOK
<1> SUFFICES ASSUME NEW id \in Nat
             PROVE  (Placed(id) <=> id \in 1..(nextId - 1))' /\ Apart(id)' /\ Single(id)'
  BY <1>0 DEF OncePlaced
<1>2. (Placed(id) <=> id \in 1..(nextId - 1)) /\ Apart(id) /\ Single(id)
  BY DEF OncePlaced
<1>3. /\ Batched(id)' <=> Batched(id)
      /\ Held(id)' <=> Held(id)
  BY <1>0 DEF Batched, Held
<1>4. Once(sendCh, id) /\ Once(written, id)
  BY <1>2 DEF Single
<1>5. CASE TakeMessage
  <2>1. /\ sendCh # <<>> /\ writing = None /\ writing' = Head(sendCh)
        /\ sendCh' = Tail(sendCh) /\ written' = written /\ lost' = lost
        /\ Head(sendCh) \in Message
    BY <1>1, <1>5, HeadTailProperties DEF TakeMessage, idVars
  <2>2. /\ Queued(id) <=> Queued(id)' \/ Writing(id)'
        /\ ~(Queued(id)' /\ Writing(id)')
        /\ Once(sendCh', id)
    BY <1>1, <1>4, <2>1, Beheaded DEF Queued, Writing
  <2>3. /\ ~Writing(id)
        /\ Written(id)' <=> Written(id)
        /\ Lost(id)' <=> Lost(id)
    BY <2>1 DEF Writing, Written, Lost
  <2>4. Single(id)'
    BY <1>0, <1>2, <2>1, <2>2 DEF Single
  <2>5. Apart(id)' /\ (Placed(id)' <=> Placed(id))
    BY <1>2, <1>3, <2>2, <2>3 DEF Apart, Placed
  <2> QED
    BY <1>0, <1>2, <2>4, <2>5
<1>6. CASE WriteMessage
  <2>1. /\ writing \in Message /\ writing # None /\ writing' = None
        /\ written' = Append(written, writing)
        /\ sendCh' = sendCh /\ lost' = lost
    BY <1>1, <1>6 DEF WriteMessage, idVars
  <2>2. /\ ~Writing(id)'
        /\ Queued(id)' <=> Queued(id)
        /\ Lost(id)' <=> Lost(id)
    BY <2>1 DEF Writing, Queued, Lost
  <2>3. ~(In(written, id) /\ id \in Range(writing.ids))
    BY <1>2, <2>1 DEF Apart, Writing, Written
  <2>4. /\ Written(id)' <=> Written(id) \/ Writing(id)
        /\ Once(written', id)
    BY <1>1, <1>4, <2>1, <2>3, Appended DEF Written, Writing
  <2>5. Single(id)'
    BY <1>0, <1>2, <2>1, <2>4 DEF Single
  <2>6. Apart(id)' /\ (Placed(id)' <=> Placed(id))
    BY <1>2, <1>3, <2>2, <2>4 DEF Apart, Placed
  <2> QED
    BY <1>0, <1>2, <2>5, <2>6
<1>7. CASE WriteFails
  <2>1. /\ writing # None /\ writing' = None /\ lost' = lost \cup Range(writing.ids)
        /\ written' = written /\ sendCh' = sendCh
    BY <1>7 DEF WriteFails
  <2>2. /\ ~Writing(id)'
        /\ Queued(id)' <=> Queued(id)
        /\ Written(id)' <=> Written(id)
        /\ Lost(id)' <=> Lost(id) \/ Writing(id)
    BY <2>1 DEF Writing, Queued, Written, Lost
  <2>3. Single(id)'
    BY <1>0, <1>2, <2>1 DEF Single
  <2>4. Apart(id)' /\ (Placed(id)' <=> Placed(id))
    BY <1>2, <1>3, <2>2 DEF Apart, Placed
  <2> QED
    BY <1>0, <1>2, <2>3, <2>4
<1> QED
  BY <1>5, <1>6, <1>7

LEMMA PlacedKept ==
  ASSUME OncePlaced, UNCHANGED <<batches, sendCh, kept, writing, written, lost, nextId>>
  PROVE  OncePlaced'
<1> SUFFICES ASSUME NEW id \in Nat
             PROVE  (Placed(id) <=> id \in 1..(nextId - 1))' /\ Apart(id)' /\ Single(id)'
  BY DEF OncePlaced
<1>1. (Placed(id) <=> id \in 1..(nextId - 1)) /\ Apart(id) /\ Single(id)
  BY DEF OncePlaced
<1>2. /\ Batched(id)' <=> Batched(id)
      /\ Queued(id)' <=> Queued(id)
      /\ Held(id)' <=> Held(id)
      /\ Writing(id)' <=> Writing(id)
      /\ Written(id)' <=> Written(id)
      /\ Lost(id)' <=> Lost(id)
  BY DEF Batched, Queued, Held, Writing, Written, Lost
<1>3. Single(id)'
  BY <1>1 DEF Single
<1>4. Apart(id)' /\ (Placed(id)' <=> Placed(id))
  BY <1>1, <1>2 DEF Apart, Placed
<1> QED
  BY <1>1, <1>3, <1>4

LEMMA PlacedStep == Typed /\ OncePlaced /\ [Next]_vars => OncePlaced'
<1> SUFFICES ASSUME Typed, OncePlaced, [Next]_vars PROVE OncePlaced'
  OBVIOUS
<1>t. TypeOK /\ Control
  BY DEF Typed
<1>o. \A c \in Conns : Owner[c] \in Sessions
  BY OwnerAssumption
<1>n. nextId \in Nat /\ Range(<<nextId>>) = {nextId}
  BY <1>t DEF TypeOK, Range
<1>1. ASSUME NEW c \in Conns, NEW recorded \in BOOLEAN, StoreEvent(c, recorded)
      PROVE  OncePlaced'
  <2>1. UNCHANGED <<kept, writing, written>> /\ frame[c] \in Kinds
    BY <1>1, <1>t DEF StoreEvent, purgeVars, linkVars, Control
  <2>2. CASE UNCHANGED <<infoStored, batches, sendCh, nextId, lost>>
    BY <2>1, <2>2, PlacedKept
  <2>3. CASE /\ ~StoredOnly(c) /\ frame[c] # "launch"
             /\ Send([type |-> frame[c], sess |-> Owner[c], ids |-> <<nextId>>])
             /\ nextId' = nextId + 1 /\ UNCHANGED batches
    <3> DEFINE m == [type |-> frame[c], sess |-> Owner[c], ids |-> <<nextId>>]
    <3>1. frame[c] \in {"process_info", "code", "stats"}
      BY <2>1, <2>3, KindsAssumption DEF StoredOnly
    <3>2. m \in Message /\ Range(m.ids) = {nextId} /\ Send(m)
      BY <2>3, <3>1, <1>o, <1>n DEF Message
    <3> HIDE DEF m
    <3> QED
      BY <1>t, <2>1, <2>3, <3>2, NewEventPlaced
  <2>4. CASE AddLaunch(Owner[c], nextId) /\ nextId' = nextId + 1
    BY <1>t, <1>o, <2>1, <2>4, AddPlaced
  <2> QED
    BY <1>1, <2>2, <2>3, <2>4 DEF StoreEvent
<1>2. ASSUME NEW c \in Conns, EndBatch(c) PROVE OncePlaced'
  BY <1>t, <1>2, EndBatchPlaced
<1>3. ASSUME NEW c \in Conns, PurgeTake(c) PROVE OncePlaced'
  BY <1>t, <1>3, TakePlaced
<1>4. ASSUME NEW c \in Conns, PurgeRestore(c) PROVE OncePlaced'
  <2>1. CASE kept[c] # <<>>
    BY <1>t, <1>4, <2>1, RestorePlaced
  <2>2. CASE kept[c] = <<>>
    <3>1. UNCHANGED <<batches, sendCh, kept, writing, written, lost, nextId>>
      BY <1>4, <2>2 DEF PurgeRestore, batchVars, linkVars
    <3> QED
      BY <3>1, PlacedKept
  <2> QED
    BY <2>1, <2>2
<1>5. ASSUME NEW c \in Conns, SendEnd(c) PROVE OncePlaced'
  <2> DEFINE m == [type |-> "session_end", sess |-> Owner[c], ids |-> <<nextId>>]
  <2>1. m \in Message /\ Range(m.ids) = {nextId} /\ Send(m)
    BY <1>5, <1>o, <1>n DEF Message, SendEnd
  <2>2. nextId' = nextId + 1 /\ UNCHANGED <<batches, kept, writing, written>>
    BY <1>5 DEF SendEnd, batchVars, purgeVars, linkVars
  <2> HIDE DEF m
  <2> QED
    BY <1>t, <2>1, <2>2, NewEventPlaced
<1>6. ASSUME NEW s \in Sessions, TickFlush(s) PROVE OncePlaced'
  <2>1. FlushLocked(s, batches[s]) /\ UNCHANGED <<kept, writing, written, nextId>>
        /\ batches[s] \in Seq(Nat)
    BY <1>t, <1>6 DEF TickFlush, purgeVars, linkVars, TypeOK
  <2> QED
    BY <1>t, <2>1, FlushPlaced
<1>7. CASE TakeMessage \/ WriteMessage \/ WriteFails
  BY <1>t, <1>7, WriterPlaced
<1>8. ASSUME \/ \E c \in Conns :
                  \/ Dial(c) \/ ClientGone(c) \/ StoreFails(c) \/ Register(c)
                  \/ LockStore(c) \/ StopReading(c) \/ PurgeStart(c) \/ Unregister(c)
                  \/ \E kind \in Kinds : ReadFrame(c, kind)
             \/ Tick \/ Connect \/ LinkBreaks \/ VerdictStep
             \/ \E s \in Sessions : ReceiveVerdict(s)
             \/ UNCHANGED vars
      PROVE  OncePlaced'
  <2>1. UNCHANGED <<batches, sendCh, kept, writing, written, lost, nextId>>
    BY <1>8 DEF Dial, ClientGone, StoreFails, Register, LockStore, StopReading, PurgeStart,
      Unregister, ReadFrame, Tick, Connect, LinkBreaks, VerdictStep, TakeVerdict,
      LookupSession, WriteControl, ReceiveVerdict, vars, connVars, batchVars, purgeVars,
      linkVars, verdictVars, idVars
  <2> QED
    BY <2>1, PlacedKept
<1> QED
  BY <1>1, <1>2, <1>3, <1>4, <1>5, <1>6, <1>7, <1>8 DEF Next, HandlerStep, TickerStep,
     LinkStep

LEMMA InitPlaced == Init => OncePlaced
<1> SUFFICES ASSUME Init PROVE OncePlaced
  OBVIOUS
<1>1. /\ batches = [s \in Sessions |-> <<>>] /\ kept = [c \in Conns |-> <<>>]
      /\ sendCh = <<>> /\ written = <<>> /\ writing = None /\ lost = {} /\ nextId = 1
  BY DEF Init
<1> QED
  BY <1>1 DEF OncePlaced, Placed, Apart, Single, Batched, Queued, Held, Writing, Written,
    Lost, In, Once, Range

(* An event that is in one place has one of the places of EventsAccounted. *)
LEMMA OnePlace ==
  ASSUME TypeOK, NEW id \in Nat, Placed(id), Apart(id), Single(id)
  PROVE  \E x : Places(id) = {x}
<1>1. Places(id) = InBatch(id) \cup InQueue(id) \cup InPurge(id) \cup InWriter(id)
                     \cup InWritten(id) \cup InLost(id)
  BY DEF Places
<1>2. /\ ~Batched(id) => InBatch(id) = {}
      /\ ~Queued(id) => InQueue(id) = {}
      /\ ~Held(id) => InPurge(id) = {}
      /\ ~Writing(id) => InWriter(id) = {}
      /\ ~Written(id) => InWritten(id) = {}
      /\ ~Lost(id) => InLost(id) = {}
  <2>1. ~Batched(id) => InBatch(id) = {}
    BY DEF Batched, InBatch
  <2>2. ~Queued(id) => InQueue(id) = {}
    BY DEF Queued, In, InQueue
  <2>3. ~Held(id) => InPurge(id) = {}
    <3>1. SUFFICES ASSUME ~Held(id), NEW x \in InPurge(id) PROVE FALSE
      OBVIOUS
    <3>2. PICK c \in Conns :
            x \in {<<"purge", c, k>> :
                     k \in {k \in DOMAIN kept[c] : id \in Range(kept[c][k].ids)}}
      BY <3>1 DEF InPurge
    <3> QED
      BY <3>1, <3>2 DEF Held, In
  <2>4. ~Writing(id) => InWriter(id) = {}
    BY DEF Writing, InWriter
  <2>5. ~Written(id) => InWritten(id) = {}
    BY DEF Written, In, InWritten
  <2>6. ~Lost(id) => InLost(id) = {}
    BY DEF Lost, InLost
  <2> QED
    BY <2>1, <2>2, <2>3, <2>4, <2>5, <2>6
<1>3. Batched(id) => \E x : InBatch(id) = {x}
  <2>1. SUFFICES ASSUME NEW s \in Sessions, id \in Range(batches[s])
                 PROVE  InBatch(id) = {<<"batch", s>>}
    BY DEF Batched
  <2>2. \A r \in Sessions : id \in Range(batches[r]) => r = s
    BY <2>1 DEF Single
  <2> QED
    BY <2>1, <2>2 DEF InBatch
<1>4. Queued(id) => \E x : InQueue(id) = {x}
  <2>1. SUFFICES ASSUME NEW k \in DOMAIN sendCh, id \in Range(sendCh[k].ids)
                 PROVE  InQueue(id) = {<<"queue", k>>}
    BY DEF Queued, In
  <2>2. \A l \in DOMAIN sendCh : id \in Range(sendCh[l].ids) => l = k
    BY <2>1 DEF Single, Once
  <2> QED
    BY <2>1, <2>2 DEF InQueue
<1>5. Held(id) => \E x : InPurge(id) = {x}
  <2>1. SUFFICES ASSUME NEW c \in Conns, NEW k \in DOMAIN kept[c],
                        id \in Range(kept[c][k].ids)
                 PROVE  InPurge(id) = {<<"purge", c, k>>}
    BY DEF Held, In
  <2>2. \A d \in Conns : \A l \in DOMAIN kept[d] : id \in Range(kept[d][l].ids) => d = c
    BY <2>1 DEF Single, In
  <2>3. \A l \in DOMAIN kept[c] : id \in Range(kept[c][l].ids) => l = k
    BY <2>1 DEF Single, Once
  <2>4. ASSUME NEW x \in InPurge(id) PROVE x = <<"purge", c, k>>
    <3>1. PICK d \in Conns :
            x \in {<<"purge", d, l>> :
                     l \in {l \in DOMAIN kept[d] : id \in Range(kept[d][l].ids)}}
      BY <2>4 DEF InPurge
    <3>2. PICK l \in DOMAIN kept[d] : id \in Range(kept[d][l].ids) /\ x = <<"purge", d, l>>
      BY <3>1
    <3> QED
      BY <2>2, <2>3, <3>2
  <2>5. <<"purge", c, k>> \in InPurge(id)
    <3>1. <<"purge", c, k>> \in {<<"purge", c, l>> :
                     l \in {l \in DOMAIN kept[c] : id \in Range(kept[c][l].ids)}}
      BY <2>1
    <3> QED
      BY <3>1 DEF InPurge
  <2> QED
    BY <2>4, <2>5
<1>6. Writing(id) => InWriter(id) = {<<"writer">>}
  BY DEF Writing, InWriter
<1>7. Written(id) => \E x : InWritten(id) = {x}
  <2>1. SUFFICES ASSUME NEW k \in DOMAIN written, id \in Range(written[k].ids)
                 PROVE  InWritten(id) = {<<"written", k>>}
    BY DEF Written, In
  <2>2. \A l \in DOMAIN written : id \in Range(written[l].ids) => l = k
    BY <2>1 DEF Single, Once
  <2> QED
    BY <2>1, <2>2 DEF InWritten
<1>8. Lost(id) => InLost(id) = {<<"lost">>}
  BY DEF Lost, InLost
<1>9. CASE Batched(id)
  <2>1. Places(id) = InBatch(id)
    BY <1>1, <1>2, <1>9 DEF Apart
  <2> QED
    BY <2>1, <1>3, <1>9
<1>10. CASE Queued(id)
  <2>1. Places(id) = InQueue(id)
    BY <1>1, <1>2, <1>10 DEF Apart
  <2> QED
    BY <2>1, <1>4, <1>10
<1>11. CASE Held(id)
  <2>1. Places(id) = InPurge(id)
    BY <1>1, <1>2, <1>11 DEF Apart
  <2> QED
    BY <2>1, <1>5, <1>11
<1>12. CASE Writing(id)
  <2>1. Places(id) = InWriter(id)
    BY <1>1, <1>2, <1>12 DEF Apart
  <2> QED
    BY <2>1, <1>6, <1>12
<1>13. CASE Written(id)
  <2>1. Places(id) = InWritten(id)
    BY <1>1, <1>2, <1>13 DEF Apart
  <2> QED
    BY <2>1, <1>7, <1>13
<1>14. CASE Lost(id)
  <2>1. Places(id) = InLost(id)
    BY <1>1, <1>2, <1>14 DEF Apart
  <2> QED
    BY <2>1, <1>8, <1>14
<1> QED
  BY <1>9, <1>10, <1>11, <1>12, <1>13, <1>14 DEF Placed

(***************************************************************************)
(* Every event is in exactly one place at any time, however many purges    *)
(* work on the channel together with handlers, ticker and writer: each     *)
(* step moves whole messages, and the rows of a batch together.            *)
(***************************************************************************)
THEOREM NothingTwice == Spec => []EventsAccounted
<1>1. Typed /\ OncePlaced => EventsAccounted
  <2>1. SUFFICES ASSUME TypeOK, OncePlaced, NEW id \in 1..(nextId - 1)
                 PROVE  Cardinality(Places(id)) = 1
    BY DEF Typed, EventsAccounted
  <2>2. id \in Nat
    BY <2>1 DEF TypeOK
  <2>3. Placed(id) /\ Apart(id) /\ Single(id)
    BY <2>1, <2>2 DEF OncePlaced
  <2> QED
    BY <2>1, <2>2, <2>3, OnePlace, FS_Singleton
<1> QED
  BY <1>1, InitTyped, InitPlaced, TypedStep, PlacedStep, PTL DEF Spec

-----------------------------------------------------------------------------
(* What orders two messages is not taken back: events that were put back   *)
(* stay put back, sessions that have connected again stay so.              *)
LEMMA BeforeStays ==
  ASSUME NEW m1, NEW m2, NEW back, NEW again, NEW back2, NEW again2,
         back \subseteq back2, again \subseteq again2,
         Before(m1, m2, back, again)
  PROVE  Before(m1, m2, back2, again2)
<1>1. \A x : x \cap back2 = {} => x \cap back = {}
  OBVIOUS
<1> QED
  BY <1>1 DEF Before

LEMMA RangeAppend ==
  ASSUME NEW q \in Seq(Message), NEW m \in Message
  PROVE  /\ Range(Append(q, m)) = Range(q) \cup {m}
         /\ \A k \in DOMAIN Append(q, m) :
              \/ k \in DOMAIN q /\ Append(q, m)[k] = q[k]
              \/ k = Len(q) + 1 /\ Append(q, m)[k] = m
<1>1. /\ DOMAIN q = 1..Len(q) /\ Len(q) \in Nat
      /\ DOMAIN Append(q, m) = 1..(Len(q) + 1)
      /\ \A k \in 1..Len(q) : Append(q, m)[k] = q[k]
      /\ Append(q, m)[Len(q) + 1] = m
  BY AppendProperties, LenProperties
<1>2. \A k \in 1..(Len(q) + 1) : k \in 1..Len(q) \/ k = Len(q) + 1
  BY <1>1
<1>3. 1..Len(q) \subseteq 1..(Len(q) + 1) /\ Len(q) + 1 \in 1..(Len(q) + 1)
  BY <1>1
<1> QED
  BY <1>1, <1>2, <1>3 DEF Range

LEMMA RangeTail ==
  ASSUME NEW q \in Seq(Message), q # <<>>
  PROVE  /\ Range(q) = {Head(q)} \cup Range(Tail(q))
         /\ Head(q) \in Message /\ Tail(q) \in Seq(Message)
         /\ DOMAIN q = 1..Len(q) /\ Len(q) \in Nat /\ 1 \in DOMAIN q /\ Head(q) = q[1]
         /\ \A k \in DOMAIN Tail(q) : k \in Nat \ {0} /\ k + 1 \in DOMAIN q
                                      /\ Tail(q)[k] = q[k + 1]
<1>1. /\ DOMAIN q = 1..Len(q) /\ Len(q) \in Nat \ {0} /\ Head(q) = q[1]
      /\ Head(q) \in Message /\ Tail(q) \in Seq(Message)
      /\ DOMAIN Tail(q) = 1..(Len(q) - 1)
      /\ \A k \in 1..(Len(q) - 1) : Tail(q)[k] = q[k + 1]
  BY HeadTailProperties, LenProperties, EmptySeq
<1>2. \A k \in 1..(Len(q) - 1) : k + 1 \in 1..Len(q) /\ k \in Nat \ {0}
  BY <1>1
<1>3. \A k \in 1..Len(q) : k = 1 \/ (k - 1 \in 1..(Len(q) - 1) /\ (k - 1) + 1 = k)
  BY <1>1
<1>4. 1 \in 1..Len(q)
  BY <1>1
<1>5. Range(q) = {Head(q)} \cup Range(Tail(q))
  <2>1. ASSUME NEW k \in 1..Len(q) PROVE q[k] \in {Head(q)} \cup Range(Tail(q))
    <3>1. CASE k = 1
      BY <1>1, <3>1
    <3>2. CASE k # 1
      <4>1. k - 1 \in DOMAIN Tail(q) /\ (k - 1) + 1 = k
        BY <1>1, <1>3, <3>2
      <4>2. Tail(q)[k - 1] = q[k]
        BY <1>1, <4>1
      <4> QED
        BY <4>1, <4>2 DEF Range
    <3> QED
      BY <3>1, <3>2
  <2>2. ASSUME NEW k \in DOMAIN Tail(q) PROVE Tail(q)[k] \in Range(q)
    BY <1>1, <1>2 DEF Range
  <2>3. Head(q) \in Range(q)
    BY <1>1, <1>4 DEF Range
  <2> QED
    BY <1>1, <2>1, <2>2, <2>3 DEF Range
<1> QED
  BY <1>1, <1>2, <1>4, <1>5

(* An ordered queue of messages: with one more, and without its head.      *)
LEMMA OrderedAppend ==
  ASSUME NEW q \in Seq(Message), NEW m \in Message, NEW back, NEW again,
         Ordered(q, back, again), Leads(Range(q), {m}, back, again)
  PROVE  Ordered(Append(q, m), back, again)
<1>1. SUFFICES ASSUME NEW k \in DOMAIN Append(q, m), NEW l \in DOMAIN Append(q, m), k < l
               PROVE  Before(Append(q, m)[k], Append(q, m)[l], back, again)
  BY DEF Ordered
<1>2. DOMAIN q = 1..Len(q) /\ Len(q) \in Nat
  BY LenProperties
<1>3. k \in DOMAIN q /\ Append(q, m)[k] = q[k] /\ q[k] \in Range(q)
  <2>1. k \in DOMAIN q \/ (k = Len(q) + 1 /\ l \in 1..(Len(q) + 1))
    BY <1>2, AppendProperties, RangeAppend
  <2> QED
    BY <1>1, <1>2, <2>1, RangeAppend DEF Range
<1>4. CASE l \in DOMAIN q /\ Append(q, m)[l] = q[l]
  BY <1>1, <1>3, <1>4 DEF Ordered
<1>5. CASE Append(q, m)[l] = m
  BY <1>3, <1>5 DEF Leads
<1> QED
  BY <1>4, <1>5, RangeAppend

LEMMA OrderedTail ==
  ASSUME NEW q \in Seq(Message), q # <<>>, NEW back, NEW again, Ordered(q, back, again)
  PROVE  Ordered(Tail(q), back, again) /\ Leads({Head(q)}, Range(Tail(q)), back, again)
<1>1. ASSUME NEW k \in DOMAIN Tail(q), NEW l \in DOMAIN Tail(q), k < l
      PROVE  Before(Tail(q)[k], Tail(q)[l], back, again)
  <2>1. k + 1 \in DOMAIN q /\ l + 1 \in DOMAIN q /\ k + 1 < l + 1
        /\ Tail(q)[k] = q[k + 1] /\ Tail(q)[l] = q[l + 1]
    BY <1>1, RangeTail
  <2> QED
    BY <2>1 DEF Ordered
<1>2. ASSUME NEW l \in DOMAIN Tail(q) PROVE Before(Head(q), Tail(q)[l], back, again)
  <2>1. 1 \in DOMAIN q /\ l + 1 \in DOMAIN q /\ 1 < l + 1
        /\ Head(q) = q[1] /\ Tail(q)[l] = q[l + 1]
    BY RangeTail
  <2> QED
    BY <2>1 DEF Ordered
<1> QED
  BY <1>1, <1>2 DEF Ordered, Leads, Range

(* The pipeline when no message joins it.                                  *)
Later == restored \subseteq restored' /\ Again \subseteq Again'

LEMMA PipelineLater ==
  ASSUME Pipeline, Later
  PROVE  /\ Ordered(written, restored', Again')
         /\ Ordered(sendCh, restored', Again')
         /\ Leads(Range(written), Range(sendCh), restored', Again')
         /\ Leads(Range(written), InHand, restored', Again')
         /\ Leads(InHand, Range(sendCh), restored', Again')
BY BeforeStays DEF Pipeline, Later, Ordered, Leads

LEMMA PipelineKept ==
  ASSUME Pipeline, Later, UNCHANGED <<written, writing, sendCh>>
  PROVE  Pipeline'
BY PipelineLater DEF Pipeline, InHand

LEMMA PipelineSend ==
  ASSUME TypeOK, Pipeline, Later, NEW m \in Message, Send(m),
         UNCHANGED <<written, writing>>,
         Leads(Range(written) \cup InHand \cup Range(sendCh), {m}, restored', Again')
  PROVE  Pipeline'
<1>1. sendCh \in Seq(Message)
  BY DEF TypeOK
<1>2. CASE sendCh' = Append(sendCh, m)
  <2>1. Range(sendCh') = Range(sendCh) \cup {m}
    BY <1>1, <1>2, RangeAppend
  <2>2. InHand' = InHand
    BY DEF InHand
  <2>3. Ordered(sendCh', restored', Again')
    <3>1. Leads(Range(sendCh), {m}, restored', Again')
      BY DEF Leads
    <3> QED
      BY <1>1, <1>2, <3>1, OrderedAppend, PipelineLater
  <2>4. Leads(Range(written), Range(sendCh'), restored', Again')
        /\ Leads(InHand, Range(sendCh'), restored', Again')
    BY <2>1, PipelineLater DEF Leads
  <2> QED
    BY <2>2, <2>3, <2>4, PipelineLater DEF Pipeline
<1>3. CASE sendCh' = sendCh
  BY <1>3, PipelineKept
<1> QED
  BY <1>2, <1>3 DEF Send

LEMMA PipelineTake ==
  ASSUME TypeOK, Pipeline, Later, sendCh # <<>>, sendCh' = Tail(sendCh),
         UNCHANGED <<written, writing>>
  PROVE  Pipeline'
<1>1. sendCh \in Seq(Message)
  BY DEF TypeOK
<1>2. Ordered(sendCh', restored', Again') /\ Range(sendCh') \subseteq Range(sendCh)
  <2>1. Ordered(sendCh', restored', Again')
    BY <1>1, PipelineLater, OrderedTail
  <2>2. Range(sendCh') \subseteq Range(sendCh)
    BY <1>1, RangeTail
  <2> QED
    BY <2>1, <2>2
<1>3. InHand' = InHand
  BY DEF InHand
<1>4. /\ Leads(Range(written), Range(sendCh'), restored', Again')
      /\ Leads(InHand, Range(sendCh'), restored', Again')
  BY <1>2, PipelineLater DEF Leads
<1> QED
  BY <1>2, <1>3, <1>4, PipelineLater DEF Pipeline

LEMMA PipelineWrite ==
  ASSUME TypeOK, Pipeline, Later, TakeMessage \/ WriteMessage \/ WriteFails
  PROVE  Pipeline'
<1>1. sendCh \in Seq(Message) /\ written \in Seq(Message) /\ writing \in Message \cup {None}
      /\ None \notin Message
  BY NoneAssumption DEF TypeOK
<1>2. CASE TakeMessage
  <2>1. /\ sendCh # <<>> /\ writing' = Head(sendCh) /\ sendCh' = Tail(sendCh)
        /\ written' = written
    BY <1>2 DEF TakeMessage
  <2>2. InHand' = {Head(sendCh)}
    BY <1>1, <2>1, RangeTail DEF InHand
  <2>3. Range(sendCh) = {Head(sendCh)} \cup Range(sendCh')
    BY <1>1, <2>1, RangeTail
  <2>4. Ordered(sendCh', restored', Again')
        /\ Leads(InHand', Range(sendCh'), restored', Again')
    BY <1>1, <2>1, <2>2, PipelineLater, OrderedTail
  <2>5. Leads(Range(written'), Range(sendCh'), restored', Again')
        /\ Leads(Range(written'), InHand', restored', Again')
    BY <2>1, <2>2, <2>3, PipelineLater DEF Leads
  <2> QED
    BY <2>1, <2>4, <2>5, PipelineLater DEF Pipeline
<1>3. CASE WriteMessage
  <2>1. /\ writing \in Message /\ writing' = None /\ written' = Append(written, writing)
        /\ sendCh' = sendCh
    BY <1>1, <1>3 DEF WriteMessage
  <2>2. InHand = {writing} /\ InHand' = {}
    BY <1>1, <2>1 DEF InHand
  <2>3. Range(written') = Range(written) \cup {writing}
    BY <1>1, <2>1, RangeAppend
  <2>4. Ordered(written', restored', Again')
    BY <1>1, <2>1, <2>2, PipelineLater, OrderedAppend
  <2>5. Leads(Range(written'), Range(sendCh'), restored', Again')
    BY <2>1, <2>2, <2>3, PipelineLater DEF Leads
  <2> QED
    BY <2>1, <2>2, <2>4, <2>5, PipelineLater DEF Pipeline, Leads
<1>4. CASE WriteFails
  <2>1. writing' = None /\ written' = written /\ sendCh' = sendCh
    BY <1>4 DEF WriteFails
  <2>2. InHand' = {}
    BY <2>1 DEF InHand
  <2> QED
    BY <2>1, <2>2, PipelineLater DEF Pipeline, Leads
<1> QED
  BY <1>2, <1>3, <1>4

-----------------------------------------------------------------------------
(***************************************************************************)
(* What no step takes back: the numbers grow, a handler that knows its     *)
(* session and has sent its end remains so, and a batch grows only by the  *)
(* next event.                                                             *)
(***************************************************************************)
Ended(c) == connPc[c] \in {"unregister", "closed"}
Remains ==
  /\ nextId' >= nextId
  /\ named \subseteq named'
  /\ \A c \in Conns : Ended(c) => Ended(c)'
  /\ \A c \in Conns : connPc[c] # "new" => connPc'[c] # "new"
  /\ restored \subseteq restored'
  /\ \A s \in Sessions :
       \/ Range(batches'[s]) \subseteq Range(batches[s])
       \/ nextId' = nextId + 1 /\ Range(batches'[s]) = Range(batches[s]) \cup {nextId}

LEMMA RowsRemain ==
  ASSUME TypeOK, NEW s \in Sessions, batches' = [batches EXCEPT ![s] = <<>>]
  PROVE  \A r \in Sessions : Range(batches'[r]) \subseteq Range(batches[r])
<1>1. batches \in [Sessions -> Seq(Nat)] /\ Range(<<>>) = {}
  BY DEF TypeOK, Range
<1> QED
  BY <1>1

LEMMA StepRemains == Typed /\ [Next]_vars => Remains
<1> SUFFICES ASSUME Typed, [Next]_vars PROVE Remains
  OBVIOUS
<1>t. TypeOK /\ Control /\ nextId \in Nat /\ nextId + 1 >= nextId /\ nextId >= nextId
  BY DEF Typed, TypeOK
<1>p. connPc \in [Conns -> {"new", "read", "register", "lock", "store",
                           "endBatch", "count", "purge", "restore", "end",
                           "unregister", "closed"}]
  BY <1>t DEF TypeOK
<1>o. \A c \in Conns : Owner[c] \in Sessions
  BY OwnerAssumption
<1>1. ASSUME NEW c \in Conns, NEW recorded \in BOOLEAN, StoreEvent(c, recorded)
      PROVE  Remains
  <2>1. /\ UNCHANGED <<named, restored>> /\ connPc[c] = "store"
        /\ connPc' = [connPc EXCEPT ![c] = IF recorded THEN "read" ELSE "endBatch"]
    BY <1>1 DEF StoreEvent, purgeVars
  <2>2. /\ \A d \in Conns : Ended(d) => Ended(d)'
        /\ \A d \in Conns : connPc[d] # "new" => connPc'[d] # "new"
    BY <1>p, <2>1 DEF Ended
  <2>3. CASE UNCHANGED <<batches, nextId>>
    BY <1>t, <2>1, <2>2, <2>3 DEF Remains
  <2>4. CASE nextId' = nextId + 1 /\ UNCHANGED batches
    BY <1>t, <2>1, <2>2, <2>4 DEF Remains
  <2>5. CASE AddLaunch(Owner[c], nextId) /\ nextId' = nextId + 1
    <3> DEFINE s == Owner[c]
               rows == Append(batches[s], nextId)
    <3>1. batches \in [Sessions -> Seq(Nat)] /\ s \in Sessions
      BY <1>t, <1>o DEF TypeOK
    <3>2. Range(rows) = Range(batches[s]) \cup {nextId}
      BY <1>t, <3>1, AppendedRow
    <3>3. \/ UNCHANGED batches
          \/ batches' = [batches EXCEPT ![s] = <<>>]
          \/ batches' = [batches EXCEPT ![s] = rows]
      BY <2>5 DEF AddLaunch, FlushLocked, BatchTaken
    <3> HIDE DEF rows, s
    <3>4. \A r \in Sessions :
            \/ Range(batches'[r]) \subseteq Range(batches[r])
            \/ Range(batches'[r]) = Range(batches[r]) \cup {nextId}
      BY <1>t, <3>1, <3>2, <3>3, RowsRemain
    <3> QED
      BY <1>t, <2>1, <2>2, <2>5, <3>4 DEF Remains
  <2> QED
    BY <1>1, <2>3, <2>4, <2>5 DEF StoreEvent
<1>2. ASSUME NEW c \in Conns, EndBatch(c) PROVE Remains
  <2>1. /\ UNCHANGED <<named, restored, nextId>> /\ connPc[c] = "endBatch"
        /\ connPc' = [connPc EXCEPT ![c] = "count"]
        /\ batches' = [batches EXCEPT ![Owner[c]] = <<>>]
    BY <1>2 DEF EndBatch, purgeVars
  <2>2. \A r \in Sessions : Range(batches'[r]) \subseteq Range(batches[r])
    BY <1>t, <1>o, <2>1, RowsRemain
  <2> QED
    BY <1>t, <1>p, <2>1, <2>2 DEF Remains, Ended
<1>3. ASSUME NEW s \in Sessions, TickFlush(s) PROVE Remains
  <2>1. /\ UNCHANGED <<named, restored, nextId, connPc>>
        /\ batches' = [batches EXCEPT ![s] = <<>>]
    BY <1>3 DEF TickFlush, purgeVars, connVars, FlushLocked, BatchTaken
  <2>2. \A r \in Sessions : Range(batches'[r]) \subseteq Range(batches[r])
    BY <1>t, <2>1, RowsRemain
  <2> QED
    BY <1>t, <2>1, <2>2 DEF Remains, Ended
<1>4. ASSUME NEW c \in Conns,
             \/ Dial(c) \/ ClientGone(c) \/ StoreFails(c) \/ Register(c) \/ LockStore(c)
             \/ StopReading(c) \/ PurgeStart(c) \/ PurgeTake(c) \/ PurgeRestore(c)
             \/ SendEnd(c) \/ Unregister(c)
             \/ \E kind \in Kinds : ReadFrame(c, kind)
      PROVE  Remains
  <2>1. UNCHANGED batches /\ nextId' >= nextId
    BY <1>t, <1>4 DEF Dial, ClientGone, StoreFails, Register, LockStore, StopReading,
      PurgeStart, PurgeTake, PurgeRestore, SendEnd, Unregister, ReadFrame, batchVars, idVars
  <2>2. named \subseteq named'
    BY <1>4 DEF Dial, ClientGone, StoreFails, Register, LockStore, StopReading,
      PurgeStart, PurgeTake, PurgeRestore, SendEnd, Unregister, ReadFrame
  <2>3. restored \subseteq restored'
    BY <1>4 DEF Dial, ClientGone, StoreFails, Register, LockStore, StopReading,
      PurgeStart, PurgeTake, PurgeRestore, SendEnd, Unregister, ReadFrame, purgeVars
  <2>4. \/ UNCHANGED connPc
        \/ /\ connPc[c] \notin {"unregister", "closed"}
           /\ \E pc : pc # "new" /\ connPc' = [connPc EXCEPT ![c] = pc]
        \/ connPc[c] = "unregister" /\ connPc' = [connPc EXCEPT ![c] = "closed"]
    <3>1. CASE PurgeTake(c)
      BY <3>1 DEF PurgeTake
    <3>2. CASE PurgeStart(c) \/ StopReading(c)
      BY <3>2 DEF PurgeStart, StopReading
    <3>3. CASE PurgeRestore(c)
      BY <3>3 DEF PurgeRestore
    <3>4. CASE Dial(c) \/ ClientGone(c) \/ StoreFails(c) \/ Register(c) \/ LockStore(c)
      BY <3>4 DEF Dial, ClientGone, StoreFails, Register, LockStore
    <3>5. CASE SendEnd(c) \/ Unregister(c) \/ \E kind \in Kinds : ReadFrame(c, kind)
      BY <3>5 DEF SendEnd, Unregister, ReadFrame
    <3> QED
      BY <1>4, <3>1, <3>2, <3>3, <3>4, <3>5
  <2>5. /\ \A d \in Conns : Ended(d) => Ended(d)'
        /\ \A d \in Conns : connPc[d] # "new" => connPc'[d] # "new"
    BY <1>p, <2>4 DEF Ended
  <2> QED
    BY <2>1, <2>2, <2>3, <2>5 DEF Remains
<1>5. ASSUME Tick \/ LinkStep \/ VerdictStep \/ (\E s \in Sessions : ReceiveVerdict(s))
             \/ UNCHANGED vars
      PROVE  Remains
  <2>1. UNCHANGED <<batches, nextId, named, restored, connPc>>
    BY <1>5 DEF Tick, LinkStep, Connect, TakeMessage, WriteMessage, WriteFails, LinkBreaks,
      VerdictStep, TakeVerdict, LookupSession, WriteControl, ReceiveVerdict, vars, connVars,
      batchVars, purgeVars, idVars
  <2> QED
    BY <1>t, <2>1 DEF Remains, Ended
<1> QED
  BY <1>1, <1>2, <1>3, <1>4, <1>5 DEF Next, HandlerStep, TickerStep

LEMMA LaterRemains == Remains => Later
<1> SUFFICES ASSUME Remains PROVE Again \subseteq Again'
  BY DEF Later, Remains
<1> QED
  BY DEF Remains, Again, NeverReconnects

(* So a batch holds earlier events only, and a message that was truthful   *)
(* stays so.                                                               *)
LEMMA BatchesStep == TypeOK /\ TypeOK' /\ Batches /\ Remains => Batches'
<1> SUFFICES ASSUME TypeOK, TypeOK', Batches, Remains, NEW s \in Sessions,
                    NEW b \in Range(batches'[s])
             PROVE  b < nextId'
  BY DEF Batches
<1>1. nextId \in Nat /\ nextId' \in Nat /\ nextId' >= nextId
      /\ Range(batches[s]) \subseteq Nat
  <2>1. nextId \in Nat /\ nextId' \in Nat /\ nextId' >= nextId /\ batches[s] \in Seq(Nat)
    BY DEF TypeOK, Remains
  <2> QED
    BY <2>1 DEF Range
<1>2. CASE b \in Range(batches[s])
  BY <1>1, <1>2 DEF Batches
<1>3. CASE b = nextId /\ nextId' = nextId + 1
  BY <1>1, <1>3
<1> QED
  BY <1>2, <1>3 DEF Remains

LEMMA TruthfulStays ==
  ASSUME TypeOK, TypeOK', Remains, NEW m \in Message, Truthful(m)
  PROVE  Truthful(m)'
<1>1. nextId \in Nat /\ nextId' \in Nat /\ nextId' >= nextId /\ Range(m.ids) \subseteq Nat
      /\ m.sess \in Sessions
  <2>1. nextId \in Nat /\ nextId' \in Nat /\ nextId' >= nextId
    BY DEF TypeOK, Remains
  <2>2. m.ids \in Seq(Nat) /\ m.sess \in Sessions
    BY DEF Message
  <2> QED
    BY <2>1, <2>2 DEF Range
<1>2. \A a \in Range(m.ids) : a < nextId'
  BY <1>1 DEF Truthful
<1>3. ASSUME m.type = "launches", NEW a \in Range(m.ids), NEW b \in Range(batches'[m.sess])
      PROVE  a < b
  <2>1. CASE b \in Range(batches[m.sess])
    BY <1>3, <2>1 DEF Truthful
  <2>2. CASE b = nextId
    BY <2>2 DEF Truthful
  <2> QED
    BY <1>1, <2>1, <2>2 DEF Remains
<1>4. ASSUME m.type = "session_end"
      PROVE  \E c \in named' : Owner[c] = m.sess /\ Ended(c)'
  <2>1. PICK c \in named : Owner[c] = m.sess /\ Ended(c)
    BY <1>4 DEF Truthful, Ended
  <2> QED
    BY <2>1 DEF Remains, TypeOK
<1> QED
  BY <1>2, <1>3, <1>4 DEF Truthful, Ended

LEMMA NoMoreStep == Typed /\ NoMore /\ [Next]_vars => NoMore'
<1> SUFFICES ASSUME Typed, NoMore, [Next]_vars, NEW c \in named',
                    connPc'[c] \in Ending, Owner[c] \notin Again'
             PROVE  batches'[Owner[c]] = <<>>
  BY DEF NoMore
<1> DEFINE s == Owner[c]
<1>t. TypeOK /\ Control /\ Remains
  BY StepRemains DEF Typed
<1>p. /\ connPc \in [Conns -> {"new", "read", "register", "lock", "store",
                           "endBatch", "count", "purge", "restore", "end",
                           "unregister", "closed"}]
      /\ named \subseteq Conns /\ batches \in [Sessions -> Seq(Nat)]
  BY <1>t DEF TypeOK
<1>n. s \notin Again
  BY <1>t, LaterRemains DEF Later
<1>1. ASSUME NEW d \in Conns, EndBatch(d) PROVE batches'[s] = <<>>
  <2>1. /\ named' = named /\ connPc[d] = "endBatch"
        /\ connPc' = [connPc EXCEPT ![d] = "count"]
        /\ batches' = [batches EXCEPT ![Owner[d]] = <<>>]
    BY <1>1 DEF EndBatch
  <2>2. CASE c = d
    BY <1>p, <2>1, <2>2, OwnerAssumption
  <2>3. CASE c # d
    BY <1>p, <1>n, <2>1, <2>3, OwnerAssumption DEF NoMore
  <2> QED
    BY <2>2, <2>3
<1>2. ASSUME NEW d \in Conns,
             \/ Dial(d) \/ ClientGone(d) \/ StoreFails(d) \/ Register(d) \/ LockStore(d)
             \/ StopReading(d) \/ PurgeStart(d) \/ PurgeTake(d) \/ PurgeRestore(d)
             \/ SendEnd(d) \/ Unregister(d)
             \/ \E kind \in Kinds : ReadFrame(d, kind)
      PROVE  batches'[s] = <<>>
  <2>1. UNCHANGED batches
    BY <1>2 DEF Dial, ClientGone, StoreFails, Register, LockStore, StopReading,
      PurgeStart, PurgeTake, PurgeRestore, SendEnd, Unregister, ReadFrame, batchVars
  <2>2. c \in named /\ connPc[c] \in Ending
    <3>1. CASE Register(d)
      BY <1>p, <3>1 DEF Register, Ending
    <3>2. CASE StopReading(d)
      BY <1>p, <3>2 DEF StopReading, Ending
    <3>3. CASE PurgeStart(d) \/ PurgeRestore(d)
      BY <1>p, <3>3 DEF PurgeStart, PurgeRestore, Ending
    <3>4. CASE PurgeTake(d)
      BY <1>p, <3>4 DEF PurgeTake, Ending
    <3>5. CASE Dial(d) \/ ClientGone(d) \/ StoreFails(d) \/ LockStore(d)
      BY <1>p, <3>5 DEF Dial, ClientGone, StoreFails, LockStore, Ending
    <3>6. CASE SendEnd(d) \/ Unregister(d) \/ \E kind \in Kinds : ReadFrame(d, kind)
      BY <1>p, <3>6 DEF SendEnd, Unregister, ReadFrame, Ending
    <3> QED
      BY <1>2, <3>1, <3>2, <3>3, <3>4, <3>5, <3>6
  <2> QED
    BY <1>n, <2>1, <2>2 DEF NoMore
<1>3. ASSUME NEW d \in Conns, NEW recorded \in BOOLEAN, StoreEvent(d, recorded)
      PROVE  batches'[s] = <<>>
  <2>1. /\ named' = named /\ connPc[d] = "store"
        /\ connPc' = [connPc EXCEPT ![d] = IF recorded THEN "read" ELSE "endBatch"]
    BY <1>3 DEF StoreEvent
  <2>2. c # d /\ c \in named /\ connPc[c] \in Ending
    BY <1>p, <2>1 DEF Ending
  <2>3. batches[s] = <<>>
    BY <1>n, <2>2 DEF NoMore
  <2>4. Owner[d] # s
    <3>1. connPc[c] # "new" /\ c \in Conns
      BY <1>p, <2>2 DEF Ending
    <3>2. s \in Sessions
      BY <3>1, OwnerAssumption
    <3> QED
      BY <1>n, <2>1, <2>2, <3>1, <3>2 DEF Again, NeverReconnects
  <2>5. batches'[s] = batches[s]
    <3>1. UNCHANGED batches \/ AddLaunch(Owner[d], nextId)
      BY <1>3 DEF StoreEvent
    <3>2. UNCHANGED batches \/ \E rows : batches' = [batches EXCEPT ![Owner[d]] = rows]
      BY <3>1 DEF AddLaunch, FlushLocked, BatchTaken
    <3>3. s \in Sessions
      BY <1>p, <2>2, OwnerAssumption
    <3> QED
      BY <1>p, <2>4, <3>2, <3>3
  <2> QED
    BY <2>3, <2>5
<1>4. ASSUME NEW r \in Sessions, TickFlush(r) PROVE batches'[s] = <<>>
  <2>1. UNCHANGED <<named, connPc>> /\ batches' = [batches EXCEPT ![r] = <<>>]
    BY <1>4 DEF TickFlush, connVars, FlushLocked, BatchTaken
  <2> QED
    BY <1>p, <1>n, <2>1, OwnerAssumption DEF NoMore
<1>5. ASSUME Tick \/ LinkStep \/ VerdictStep \/ (\E r \in Sessions : ReceiveVerdict(r))
             \/ UNCHANGED vars
      PROVE  batches'[s] = <<>>
  <2>1. UNCHANGED <<named, connPc, batches>>
    BY <1>5 DEF Tick, LinkStep, Connect, TakeMessage, WriteMessage, WriteFails, LinkBreaks,
      VerdictStep, TakeVerdict, LookupSession, WriteControl, ReceiveVerdict, vars, connVars,
      batchVars
  <2> QED
    BY <1>n, <2>1 DEF NoMore
<1> QED
  BY <1>1, <1>2, <1>3, <1>4, <1>5 DEF Next, HandlerStep, TickerStep

(* The messages that are on their way are messages.                        *)
LEMMA SentAreMessages == ASSUME TypeOK PROVE Sent \subseteq Message
<1>1. \A q \in Seq(Message) : Range(q) \subseteq Message
  BY DEF Range
<1>2. sendCh \in Seq(Message) /\ written \in Seq(Message) /\ kept \in [Conns -> Seq(Message)]
      /\ writing \in Message \cup {None}
  BY DEF TypeOK
<1>3. \A c \in Conns : Range(kept[c]) \subseteq Message
  BY <1>1, <1>2
<1> QED
  BY <1>1, <1>2, <1>3 DEF Sent, InHand

LEMMA MessagesFewer ==
  ASSUME TypeOK, TypeOK', Remains, Messages, Sent' \subseteq Sent
  PROVE  Messages'
<1> SUFFICES ASSUME NEW m \in Sent' PROVE Truthful(m)'
  BY DEF Messages
<1>1. m \in Message /\ Truthful(m)
  BY SentAreMessages DEF Messages
<1> QED
  BY <1>1, TruthfulStays

LEMMA MessagesSend ==
  ASSUME TypeOK, TypeOK', Remains, Messages, NEW m \in Message, Send(m),
         UNCHANGED <<written, writing, kept>>, Truthful(m)'
  PROVE  Messages'
<1>1. Range(sendCh') \subseteq Range(sendCh) \cup {m}
  <2>1. sendCh \in Seq(Message)
    BY DEF TypeOK
  <2> QED
    BY <2>1, RangeAppend DEF Send
<1>2. Sent' \subseteq Sent \cup {m}
  BY <1>1 DEF Sent, InHand
<1> SUFFICES ASSUME NEW n \in Sent' PROVE Truthful(n)'
  BY DEF Messages
<1>3. CASE n = m
  BY <1>3
<1>4. CASE n \in Sent
  <2>1. n \in Message /\ Truthful(n)
    BY <1>4, SentAreMessages DEF Messages
  <2> QED
    BY <2>1, TruthfulStays
<1> QED
  BY <1>2, <1>3, <1>4

(* A message of new events, or of a batch, comes after all that are on     *)
(* their way; and a session that has ended has no other handler.           *)
LEMMA Behind ==
  ASSUME TypeOK, NEW n \in Message, Truthful(n), NEW m \in Message, NEW back, NEW again,
         \A a \in Range(m.ids) :
           a = nextId \/ (m.type = "launches" /\ a \in Range(batches[m.sess])),
         n.type = "session_end" /\ n.sess = m.sess => n.sess \in again
  PROVE  Before(n, m, back, again)
<1>1. n.type \in {"process_info", "code", "stats", "launches", "session_end"}
  BY DEF Message
<1>2. \A a \in Range(n.ids) : a < nextId
  BY DEF Truthful
<1> SUFFICES ASSUME n.sess = m.sess, n.type # "session_end"
             PROVE  MayOvertake(n, m) \/ Increasing(n, m)
  BY DEF Before
<1>3. CASE m.type = "launches" /\ n.type = "launches"
  BY <1>2, <1>3 DEF Increasing, Truthful
<1>4. CASE m.type = "launches" /\ n.type # "launches"
  BY <1>1, <1>4 DEF MayOvertake
<1>5. CASE m.type # "launches"
  BY <1>2, <1>5 DEF Increasing
<1> QED
  BY <1>3, <1>4, <1>5

LEMMA EndedAgain ==
  ASSUME TypeOK, NEW n \in Message, Truthful(n), n.type = "session_end",
         NEW d \in Conns, Owner[d] = n.sess, connPc[d] \notin {"new", "unregister", "closed"}
  PROVE  n.sess \in Again
<1>1. PICK c \in named : Owner[c] = n.sess /\ connPc[c] \in {"unregister", "closed"}
  BY DEF Truthful
<1>2. c \in Conns /\ c # d /\ connPc[c] # "new" /\ n.sess \in Sessions
  BY <1>1 DEF TypeOK, Message
<1> QED
  BY <1>1, <1>2 DEF Again, NeverReconnects

(***************************************************************************)
(* Everything that is said of messages and batches, in one invariant.      *)
(***************************************************************************)
Line == Pipeline /\ Messages /\ Batches /\ NoMore

LEMMA LineSend ==
  ASSUME TypeOK, TypeOK', Remains, Pipeline, Messages, NEW m \in Message, Send(m),
         UNCHANGED <<written, writing, kept>>, Truthful(m)',
         \A n \in Message : Truthful(n) => Before(n, m, restored', Again')
  PROVE  Pipeline' /\ Messages'
<1>1. Leads(Range(written) \cup InHand \cup Range(sendCh), {m}, restored', Again')
  <2>1. \A n \in Range(written) \cup InHand \cup Range(sendCh) : n \in Message /\ Truthful(n)
    BY SentAreMessages DEF Messages, Sent
  <2> QED
    BY <2>1 DEF Leads
<1>2. Pipeline'
  BY <1>1, LaterRemains, PipelineSend
<1> QED
  BY <1>2, MessagesSend

LEMMA FlushLine ==
  ASSUME TypeOK, TypeOK', Remains, Pipeline, Messages, Batches, NEW s \in Sessions,
         NEW rows \in Seq(Nat), rows # <<>>, FlushLocked(s, rows),
         \/ Range(rows) \subseteq Range(batches[s])
         \/ nextId' = nextId + 1 /\ Range(rows) \subseteq Range(batches[s]) \cup {nextId},
         UNCHANGED <<written, writing, kept>>,
         \A n \in Message :
           Truthful(n) /\ n.type = "session_end" /\ n.sess = s => s \in Again'
  PROVE  Pipeline' /\ Messages'
<1> DEFINE m == Launches(s, rows)
<1>1. m \in Message /\ m.type = "launches" /\ m.sess = s /\ m.ids = rows /\ Send(m)
      /\ batches' = [batches EXCEPT ![s] = <<>>]
  BY DEF Launches, Message, FlushLocked, BatchTaken
<1> HIDE DEF m
<1>2. nextId \in Nat /\ nextId' \in Nat /\ nextId' >= nextId
      /\ batches \in [Sessions -> Seq(Nat)]
  BY DEF TypeOK, Remains
<1>3. \A b \in Range(batches[s]) : b \in Nat /\ b < nextId
  BY <1>2 DEF Batches, Range
<1>4. \A a \in Range(rows) : a < nextId'
  <2>1. CASE Range(rows) \subseteq Range(batches[s])
    BY <1>2, <1>3, <2>1
  <2>2. CASE nextId' = nextId + 1 /\ Range(rows) \subseteq Range(batches[s]) \cup {nextId}
    BY <1>2, <1>3, <2>2
  <2> QED
    BY <2>1, <2>2
<1>5. Range(batches'[s]) = {}
  BY <1>1, <1>2 DEF Range
<1>6. Truthful(m)'
  BY <1>1, <1>4, <1>5 DEF Truthful
<1>7. \A a \in Range(m.ids) :
        a = nextId \/ (m.type = "launches" /\ a \in Range(batches[m.sess]))
  BY <1>1
<1>8. \A n \in Message : Truthful(n) => Before(n, m, restored', Again')
  BY <1>1, <1>7, Behind
<1> QED
  BY <1>1, <1>6, <1>8, LineSend

LEMMA StoreLine ==
  ASSUME Typed, Typed', Remains, Pipeline, Messages, Batches,
         NEW c \in Conns, NEW recorded \in BOOLEAN, StoreEvent(c, recorded)
  PROVE  Pipeline' /\ Messages'
<1> DEFINE s == Owner[c]
<1>1. TypeOK /\ TypeOK' /\ Control /\ Later
  BY LaterRemains DEF Typed
<1>2. UNCHANGED <<written, writing, kept>> /\ connPc[c] = "store"
      /\ frame[c] \in Kinds /\ s \in Sessions /\ nextId \in Nat /\ nextId' \in Nat
  BY <1>1, OwnerAssumption DEF StoreEvent, purgeVars, linkVars, Control, TypeOK
<1>3. ASSUME NEW n \in Message, Truthful(n), n.type = "session_end", n.sess = s
      PROVE  s \in Again'
  BY <1>1, <1>2, <1>3, EndedAgain DEF Later
<1>4. CASE UNCHANGED <<infoStored, batches, sendCh, nextId, lost>>
  <2>1. Sent' = Sent
    BY <1>2, <1>4 DEF Sent, InHand
  <2>2. Messages'
    BY <1>1, <2>1, MessagesFewer
  <2>3. Pipeline'
    BY <1>1, <1>2, <1>4, PipelineKept
  <2> QED
    BY <2>2, <2>3
<1>5. CASE /\ ~StoredOnly(c) /\ frame[c] # "launch"
           /\ Send([type |-> frame[c], sess |-> Owner[c], ids |-> <<nextId>>])
           /\ nextId' = nextId + 1 /\ UNCHANGED batches
  <2>1. frame[c] \in {"process_info", "code", "stats"}
    BY <1>2, <1>5, KindsAssumption DEF StoredOnly
  <2>m. PICK m : m = [type |-> frame[c], sess |-> Owner[c], ids |-> <<nextId>>]
    OBVIOUS
  <2>2. m \in Message /\ Send(m) /\ m.type \notin {"launches", "session_end"}
        /\ m.sess = s /\ Range(m.ids) = {nextId} /\ m.ids # <<>>
    BY <1>2, <1>5, <2>1, <2>m DEF Message, Range
  <2>3. Truthful(m)'
    BY <1>2, <1>5, <2>1, <2>2 DEF Truthful
  <2>4. \A n \in Message : Truthful(n) => Before(n, m, restored', Again')
    BY <1>1, <1>3, <2>2, Behind
  <2> QED
    BY <1>1, <1>2, <2>2, <2>3, <2>4, LineSend
<1>6. CASE AddLaunch(Owner[c], nextId) /\ nextId' = nextId + 1
  <2> DEFINE rows == Append(batches[s], nextId)
  <2>1. CASE FlushLocked(s, rows)
    <3>1. batches[s] \in Seq(Nat)
      BY <1>1, <1>2 DEF TypeOK
    <3>2. rows \in Seq(Nat) /\ rows # <<>> /\ Range(rows) = Range(batches[s]) \cup {nextId}
      BY <1>2, <3>1, AppendedRow, AppendProperties
    <3> HIDE DEF rows, s
    <3> QED
      BY <1>1, <1>2, <1>3, <1>6, <2>1, <3>2, FlushLine
  <2>2. CASE UNCHANGED sendCh
    <3>1. Sent' = Sent
      BY <1>2, <2>2 DEF Sent, InHand
    <3>2. Messages'
      BY <1>1, <3>1, MessagesFewer
    <3>3. Pipeline'
      BY <1>1, <1>2, <2>2, PipelineKept
    <3> QED
      BY <3>2, <3>3
  <2> QED
    BY <1>6, <2>1, <2>2 DEF AddLaunch
<1> QED
  BY <1>4, <1>5, <1>6 DEF StoreEvent

LEMMA TickLine ==
  ASSUME Typed, Typed', Remains, Line, NEW s \in Sessions, TickFlush(s)
  PROVE  Pipeline' /\ Messages'
<1>1. TypeOK /\ TypeOK' /\ Later /\ Flushes
  BY LaterRemains DEF Typed
<1>2. FlushLocked(s, batches[s]) /\ UNCHANGED <<written, writing, kept, nextId>>
      /\ batches[s] \in Seq(Nat) /\ batches[s] # <<>>
  BY <1>1 DEF TickFlush, purgeVars, linkVars, TypeOK, Flushes
<1>3. ASSUME NEW n \in Message, Truthful(n), n.type = "session_end", n.sess = s
      PROVE  s \in Again'
  <2>1. PICK c \in named : Owner[c] = s /\ connPc[c] \in {"unregister", "closed"}
    BY <1>3 DEF Truthful
  <2>2. s \in Again
    BY <1>2, <2>1 DEF Line, NoMore, Ending
  <2> QED
    BY <1>1, <2>2 DEF Later
<1> QED
  BY <1>1, <1>2, <1>3, FlushLine DEF Line

LEMMA EndLine ==
  ASSUME Typed, Typed', Remains, Line, NEW c \in Conns, SendEnd(c)
  PROVE  Pipeline' /\ Messages'
<1>m. PICK m : m = [type |-> "session_end", sess |-> Owner[c], ids |-> <<nextId>>]
  OBVIOUS
<1>1. TypeOK /\ TypeOK' /\ Later /\ Control /\ Pipeline /\ Messages
  BY LaterRemains DEF Typed, Line
<1>2. /\ Send(m) /\ connPc[c] = "end" /\ c \in named /\ nextId' = nextId + 1
      /\ UNCHANGED <<written, writing, kept, batches, named>>
      /\ connPc' = [connPc EXCEPT ![c] = "unregister"] /\ nextId \in Nat
  BY <1>1, <1>m DEF SendEnd, purgeVars, linkVars, batchVars, Control, TypeOK
<1>3. /\ m \in Message /\ m.type = "session_end" /\ m.sess = Owner[c]
      /\ m.ids # <<>> /\ Range(m.ids) = {nextId}
  BY <1>2, <1>m, OwnerAssumption DEF Message, Range
<1>4. ASSUME NEW n \in Message, Truthful(n), n.type = "session_end", n.sess = m.sess
      PROVE  n.sess \in Again'
  BY <1>1, <1>2, <1>3, <1>4, EndedAgain DEF Later
<1>5. \A n \in Message : Truthful(n) => Before(n, m, restored', Again')
  BY <1>1, <1>3, <1>4, Behind
<1>6. Truthful(m)'
  <2>1. c \in named' /\ connPc'[c] = "unregister"
    BY <1>1, <1>2 DEF TypeOK
  <2> QED
    BY <1>2, <1>3, <2>1 DEF Truthful
<1> QED
  BY <1>1, <1>2, <1>3, <1>5, <1>6, LineSend

LEMMA TakeLine ==
  ASSUME Typed, Typed', Remains, Line, NEW c \in Conns, PurgeTake(c)
  PROVE  Pipeline' /\ Messages'
<1>1. TypeOK /\ TypeOK' /\ Later /\ Pipeline /\ Messages
  BY LaterRemains DEF Typed, Line
<1>2. UNCHANGED <<written, writing>> /\ sendCh \in Seq(Message)
      /\ kept \in [Conns -> Seq(Message)]
  BY <1>1 DEF PurgeTake, linkVars, TypeOK
<1>3. CASE sendCh = <<>>
  <2>1. UNCHANGED <<sendCh, kept>>
    BY <1>3 DEF PurgeTake
  <2>2. Sent' = Sent
    BY <1>2, <2>1 DEF Sent, InHand
  <2>3. Messages'
    BY <1>1, <2>2, MessagesFewer
  <2>4. Pipeline'
    BY <1>1, <1>2, <2>1, PipelineKept
  <2> QED
    BY <2>3, <2>4
<1>4. CASE sendCh # <<>>
  <2> DEFINE m == Head(sendCh)
  <2>1. /\ sendCh' = Tail(sendCh) /\ m \in Message
        /\ Range(sendCh') \subseteq Range(sendCh) /\ m \in Range(sendCh)
        /\ kept' = kept \/ kept' = [kept EXCEPT ![c] = Append(kept[c], m)]
    <3>1. /\ sendCh' = Tail(sendCh)
          /\ kept' = kept \/ kept' = [kept EXCEPT ![c] = Append(kept[c], m)]
      BY <1>4 DEF PurgeTake
    <3>2. Range(sendCh) = {m} \cup Range(Tail(sendCh)) /\ m \in Message
      BY <1>2, <1>4, RangeTail
    <3> QED
      BY <3>1, <3>2
  <2> HIDE DEF m
  <2>2. Range(Append(kept[c], m)) = Range(kept[c]) \cup {m}
    BY <1>2, <2>1, RangeAppend
  <2>3. \A d \in Conns : Range(kept'[d]) \subseteq Range(kept[d]) \cup {m}
    BY <1>2, <2>1, <2>2
  <2>4. Sent' \subseteq Sent
    BY <1>2, <2>1, <2>3 DEF Sent, InHand
  <2>5. Messages'
    BY <1>1, <2>4, MessagesFewer
  <2>6. Pipeline'
    BY <1>1, <1>2, <1>4, <2>1, PipelineTake
  <2> QED
    BY <2>5, <2>6
<1> QED
  BY <1>3, <1>4

LEMMA RestoreLine ==
  ASSUME Typed, Typed', Remains, Line, NEW c \in Conns, PurgeRestore(c)
  PROVE  Pipeline' /\ Messages'
<1>1. TypeOK /\ TypeOK' /\ Later /\ Pipeline /\ Messages
  BY LaterRemains DEF Typed, Line
<1>2. UNCHANGED <<written, writing>> /\ sendCh \in Seq(Message)
      /\ kept \in [Conns -> Seq(Message)]
  BY <1>1 DEF PurgeRestore, linkVars, TypeOK
<1>3. CASE kept[c] = <<>>
  <2>1. UNCHANGED <<sendCh, kept>>
    BY <1>3 DEF PurgeRestore
  <2>2. Sent' = Sent
    BY <1>2, <2>1 DEF Sent, InHand
  <2>3. Messages'
    BY <1>1, <2>2, MessagesFewer
  <2>4. Pipeline'
    BY <1>1, <1>2, <2>1, PipelineKept
  <2> QED
    BY <2>3, <2>4
<1>4. CASE kept[c] # <<>>
  <2> DEFINE m == Head(kept[c])
  <2>1. /\ Send(m) /\ kept' = [kept EXCEPT ![c] = Tail(kept[c])]
        /\ restored' = restored \cup Range(m.ids)
    BY <1>4 DEF PurgeRestore
  <2>2. /\ m \in Message /\ Range(kept[c]) = {m} \cup Range(Tail(kept[c]))
    BY <1>2, <1>4, RangeTail
  <2> HIDE DEF m
  <2>3. m \in Sent
    BY <2>2 DEF Sent
  <2>4. Truthful(m)
    BY <1>1, <2>3 DEF Messages
  <2>5. \E a \in Range(m.ids) : a \in restored'
    <3>1. m.ids \in Seq(Nat) /\ m.ids # <<>>
      BY <2>2, <2>4 DEF Message, Truthful
    <3>2. 1 \in DOMAIN m.ids
      BY <3>1, LenProperties, EmptySeq
    <3> QED
      BY <2>1, <3>2 DEF Range
  <2>6. \A n \in Message : Before(n, m, restored', Again')
    BY <2>5 DEF Before
  <2>7. Pipeline'
    <3>1. Leads(Range(written) \cup InHand \cup Range(sendCh), {m}, restored', Again')
      <4>1. Range(written) \cup InHand \cup Range(sendCh) \subseteq Message
        BY <1>1, SentAreMessages DEF Sent
      <4> QED
        BY <2>6, <4>1 DEF Leads
    <3> QED
      BY <1>1, <1>2, <2>1, <2>2, <3>1, PipelineSend
  <2>8. Sent' \subseteq Sent
    <3>1. Range(sendCh') \subseteq Range(sendCh) \cup {m}
      BY <1>2, <2>1, <2>2, RangeAppend DEF Send
    <3>2. \A d \in Conns : Range(kept'[d]) \subseteq Range(kept[d])
      BY <1>2, <2>1, <2>2
    <3> QED
      BY <1>2, <2>3, <3>1, <3>2 DEF Sent, InHand
  <2>9. Messages'
    BY <1>1, <2>8, MessagesFewer
  <2> QED
    BY <2>7, <2>9
<1> QED
  BY <1>3, <1>4

LEMMA WriterLine ==
  ASSUME Typed, Typed', Remains, Line, TakeMessage \/ WriteMessage \/ WriteFails
  PROVE  Pipeline' /\ Messages'
<1>1. TypeOK /\ TypeOK' /\ Later /\ Pipeline /\ Messages
  BY LaterRemains DEF Typed, Line
<1>2. Pipeline'
  BY <1>1, PipelineWrite
<1>3. sendCh \in Seq(Message) /\ written \in Seq(Message)
      /\ writing \in Message \cup {None} /\ None \notin Message
  BY <1>1, NoneAssumption DEF TypeOK
<1>4. kept' = kept
  BY DEF TakeMessage, WriteMessage, WriteFails, purgeVars
<1>5. Range(sendCh') \cup Range(written') \cup InHand'
        \subseteq Range(sendCh) \cup Range(written) \cup InHand
  <2>1. CASE TakeMessage
    <3>1. sendCh # <<>> /\ writing' = Head(sendCh) /\ sendCh' = Tail(sendCh)
          /\ written' = written
      BY <2>1 DEF TakeMessage
    <3> QED
      BY <1>3, <3>1, RangeTail DEF InHand
  <2>2. CASE WriteMessage
    <3>1. writing \in Message /\ writing # None /\ writing' = None
          /\ written' = Append(written, writing) /\ sendCh' = sendCh
      BY <1>3, <2>2 DEF WriteMessage
    <3> QED
      BY <1>3, <3>1, RangeAppend DEF InHand
  <2>3. CASE WriteFails
    BY <2>3 DEF WriteFails, InHand
  <2> QED
    BY <2>1, <2>2, <2>3
<1>6. Sent' \subseteq Sent
  BY <1>4, <1>5 DEF Sent
<1> QED
  BY <1>1, <1>2, <1>6, MessagesFewer

LEMMA LineStep == Typed /\ Line /\ [Next]_vars => Line'
<1> SUFFICES ASSUME Typed, Line, [Next]_vars PROVE Line'
  OBVIOUS
<1>1. Typed' /\ Remains /\ Later /\ TypeOK /\ TypeOK'
  BY TypedStep, StepRemains, LaterRemains DEF Typed
<1>2. Batches' /\ NoMore'
  BY <1>1, BatchesStep, NoMoreStep DEF Line
<1>3. Pipeline' /\ Messages'
  <2>1. ASSUME NEW c \in Conns, NEW recorded \in BOOLEAN, StoreEvent(c, recorded)
        PROVE  Pipeline' /\ Messages'
    BY <1>1, <2>1, StoreLine DEF Line
  <2>2. ASSUME NEW c \in Conns, PurgeTake(c) \/ PurgeRestore(c) \/ SendEnd(c)
        PROVE  Pipeline' /\ Messages'
    BY <1>1, <2>2, TakeLine, RestoreLine, EndLine
  <2>3. ASSUME NEW s \in Sessions, TickFlush(s) PROVE Pipeline' /\ Messages'
    BY <1>1, <2>3, TickLine
  <2>4. CASE TakeMessage \/ WriteMessage \/ WriteFails
    BY <1>1, <2>4, WriterLine
  <2>5. ASSUME \/ \E c \in Conns :
                    \/ Dial(c) \/ ClientGone(c) \/ StoreFails(c) \/ Register(c)
                    \/ LockStore(c) \/ StopReading(c) \/ EndBatch(c) \/ PurgeStart(c)
                    \/ Unregister(c) \/ \E kind \in Kinds : ReadFrame(c, kind)
               \/ Tick \/ Connect \/ LinkBreaks \/ VerdictStep
               \/ \E s \in Sessions : ReceiveVerdict(s)
               \/ UNCHANGED vars
        PROVE  Pipeline' /\ Messages'
    <3>1. UNCHANGED <<sendCh, kept, writing, written>>
      BY <2>5 DEF Dial, ClientGone, StoreFails, Register, LockStore, StopReading, EndBatch,
        PurgeStart, Unregister, ReadFrame, Tick, Connect, LinkBreaks, VerdictStep,
        TakeVerdict, LookupSession, WriteControl, ReceiveVerdict, vars, purgeVars, linkVars
    <3>2. Sent' = Sent
      BY <3>1 DEF Sent, InHand
    <3>3. Messages'
      BY <1>1, <3>2, MessagesFewer DEF Line
    <3>4. Pipeline'
      BY <1>1, <3>1, PipelineKept DEF Line
    <3> QED
      BY <3>3, <3>4
  <2> QED
    BY <2>1, <2>2, <2>3, <2>4, <2>5 DEF Next, HandlerStep, TickerStep, LinkStep
<1> QED
  BY <1>2, <1>3 DEF Line

LEMMA InitLine == Init => Line
<1> SUFFICES ASSUME Init PROVE Line
  OBVIOUS
<1>1. /\ batches = [s \in Sessions |-> <<>>] /\ kept = [c \in Conns |-> <<>>]
      /\ sendCh = <<>> /\ written = <<>> /\ writing = None /\ named = {}
  BY DEF Init
<1> QED
  BY <1>1 DEF Line, Pipeline, Messages, Batches, NoMore, Sent, InHand, Ordered, Leads, Range

(***************************************************************************)
(* What the processor receives is in the order in which it was stored, but *)
(* for what a purge put back and for launches that code overtook: the      *)
(* messages written, the one in the writer's hands and the channel are one *)
(* ordered line, every new message belongs behind all of it, and what      *)
(* waits in a batch is younger than the launches that are on their way.    *)
(***************************************************************************)
THEOREM OrderHolds == Spec => []OrderUnlessRestored
<1>1. TypeOK /\ Line => OrderUnlessRestored
  BY DEF Line, Pipeline, Ordered, Before, OrderUnlessRestored, Kept
<1>2. Typed /\ Line => OrderUnlessRestored
  BY <1>1 DEF Typed
<1> QED
  BY <1>2, InitTyped, InitLine, TypedStep, LineStep, PTL DEF Spec

(***************************************************************************)
(* Nothing of a session with one connection follows its session_end: the   *)
(* handler had emptied the batch before it sent the end, so the ticker     *)
(* finds nothing to flush (NoMore), and nobody else stores for the session.*)
(***************************************************************************)
THEOREM EndComesLast == Spec => []EndIsLast
<1>1. Typed /\ Line => EndIsLast
  <2>1. SUFFICES ASSUME Typed, Line, NEW k \in DOMAIN written, NEW l \in DOMAIN written,
                        k < l, written[k].sess = written[l].sess,
                        written[k].type = "session_end", NeverReconnects(written[k].sess),
                        Kept(written[l])
                 PROVE  FALSE
    BY DEF EndIsLast
  <2>2. Before(written[k], written[l], restored, Again)
    BY <2>1 DEF Line, Pipeline, Ordered
  <2> QED
    BY <2>1, <2>2 DEF Before, Kept, Again
<1> QED
  BY <1>1, InitTyped, InitLine, TypedStep, LineStep, PTL DEF Spec
=============================================================================
