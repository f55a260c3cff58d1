--------------------------- MODULE HookClientProofs ---------------------------
(***************************************************************************)
(* Theorems about HookClient, for every value of its constants.            *)
(***************************************************************************)
EXTENDS HookClient, SequenceTheorems, TLAPS

(* Where the constructor's thread, the detached thread and the client are  *)
(* in relation to each other.                                              *)
Lifecycle ==
  /\ mainPc = "init" => threadPc = "none"
  /\ threadPc = "ended" <=> clientPc # "off"
  /\ threadPc # "ended" => ~started /\ ~late
  /\ mainPc = "running" => (started <=> clientPc # "off")
  /\ mainPc \in {"shutdown", "exited", "gone"} /\ ~late
       => clientPc \in {"off", "done"}

Kinds == {"process_info", "client_hello", "stats", "event"}
Connected == {"handshake", "drain", "stats", "pop", "write", "close"}

(* The connection at each control point, and what was written on it.       *)
Connection ==
  /\ conn # "none" <=> clientPc \in Connected
  /\ conn # "none" => dials >= 1
  /\ infoSent <=> sent # <<>>
  /\ \A k \in DOMAIN sent : sent[k].dial <= dials
  /\ clientPc = "handshake" => \A k \in DOMAIN sent : sent[k].dial < dials
  /\ conn = "up" /\ clientPc # "handshake"
       => sent # <<>> /\ sent[Len(sent)].dial = dials

(* Events are numbered without a gap in the ring and in the client's hands.*)
(* Written stands for the last event that was written or given up.         *)
Written == Len(popped) - Len(batch)
Numbered ==
  /\ \A i \in DOMAIN ring : ring[i] = Len(popped) + i
  /\ IF ringOn THEN Len(popped) + Len(ring) = made ELSE ring = <<>>
  /\ \A i \in DOMAIN batch : batch[i] = Written + i

(* Nothing happens before the constructor opens the ring.                  *)
Untouched ==
  mainPc = "init" => ~ringOn /\ ring = <<>> /\ made = 0 /\ popped = <<>>

(* What was written is behind what the client holds, and on a connection   *)
(* that is up nothing was given up after its first event.                  *)
Shipped ==
  /\ \A k \in Events : sent[k].event <= Written
  /\ conn = "up" =>
       \A k \in Events : sent[k].dial = dials =>
         \A e \in sent[k].event..Written : \E m \in Events : sent[m].event = e

-----------------------------------------------------------------------------
(* The state stays well typed, and the threads in step.                    *)
TypedLife == TypeOK /\ Lifecycle /\ Connection

Envelopes == [dial : 1..MaxDials, event : 0..MaxEvents, kind : Kinds]

LEMMA SentTyped ==
  ASSUME TypedLife
  PROVE  /\ sent \in Seq(Envelopes)
         /\ DOMAIN sent = 1..Len(sent) /\ Len(sent) \in Nat
         /\ \A k \in DOMAIN sent : /\ sent[k].dial \in 1..MaxDials
                                   /\ sent[k].event \in 0..MaxEvents
                                   /\ sent[k].kind \in Kinds
<1>1. sent \in Seq(Envelopes)
  BY DEF TypedLife, TypeOK, Envelopes, Kinds
<1>2. DOMAIN sent = 1..Len(sent) /\ Len(sent) \in Nat
  BY <1>1
<1>3. \A k \in DOMAIN sent : sent[k] \in Envelopes
  BY <1>1
<1> QED BY <1>1, <1>2, <1>3 DEF Envelopes

(* What a write leaves behind.                                             *)
LEMMA WriteEffect ==
  ASSUME TypedLife, NEW kind \in Kinds, NEW event \in 0..MaxEvents,
         NEW next, Write(kind, event, next), clientPc \in Connected
  PROVE  \/ /\ conn = "up" /\ clientPc' = next
            /\ Envelope(kind, event) \in Envelopes
            /\ sent' = Append(sent, Envelope(kind, event))
         \/ /\ conn = "broken" /\ clientPc' = "close" /\ sent' = sent
BY BoundsAssumption
   DEF TypedLife, TypeOK, Connection, Write, GoTo, Envelope, Envelopes

LEMMA InitTypedLife == Init => TypedLife
<1> SUFFICES ASSUME Init
             PROVE  TypedLife
  OBVIOUS
<1>1. TypeOK
  <2>1. Len(<<>>) = 0 /\ 0 <= Capacity
    BY BoundsAssumption
  <2>2. ring = <<>> /\ Len(ring) <= Capacity
    BY <2>1 DEF Init, Queue!Init
  <2>3. /\ ringOn = FALSE /\ popped = <<>> /\ made \in 0..MaxEvents
        /\ dials \in 0..MaxDials
    BY BoundsAssumption DEF Init, Queue!Init
  <2>4. <<>> \in Seq(1..MaxEvents) /\ sent \in Seq(Envelopes)
    BY EmptySeq DEF Init
  <2> QED BY <2>2, <2>3, <2>4 DEF Init, TypeOK, Envelopes, Kinds
<1>2. Lifecycle
  BY DEF Init, Lifecycle
<1>3. Connection
  BY DEF Init, Connection, Connected
<1> QED BY <1>1, <1>2, <1>3 DEF TypedLife

(* Steps of the main and the detached thread.                              *)
LEMMA MainTyped ==
  ASSUME TypedLife,
         \/ \E enabled, thread \in BOOLEAN : Construct(enabled, thread)
         \/ GoStart \/ MainStep \/ PushEvent \/ ConnBreaks \/ Terminate
  PROVE  TypedLife'
<1> USE DEF queueVars, mainVars, netVars, clientVars, Connected
<1>1. ASSUME NEW enabled \in BOOLEAN, NEW thread \in BOOLEAN,
             Construct(enabled, thread)
      PROVE  TypedLife'
  BY <1>1 DEF TypedLife, TypeOK, Lifecycle, Connection, Construct, Queue!Open
<1>2. CASE GoStart
  BY <1>2 DEF TypedLife, TypeOK, Lifecycle, Connection, GoStart, Alive
<1>3. CASE GoStop
  BY <1>3 DEF TypedLife, TypeOK, Lifecycle, Connection, GoStop
<1>4. CASE StopReturns
  BY <1>4 DEF TypedLife, TypeOK, Lifecycle, Connection, StopReturns
<1>5. CASE RingShutdown
  <2>1. TypeOK'
    <3>1. Len(<<>>) = 0 /\ 0 <= Capacity /\ <<>> \in Seq(1..MaxEvents)
      BY BoundsAssumption
    <3>2. /\ ringOn' \in BOOLEAN /\ popped' = popped
          /\ ring' = ring \/ ring' = <<>>
      BY <1>5 DEF TypedLife, TypeOK, RingShutdown, Queue!Close
    <3>3. ring' \in Seq(1..MaxEvents) /\ Len(ring') <= Capacity
      BY <3>1, <3>2 DEF TypedLife, TypeOK
    <3> QED BY <1>5, <3>2, <3>3 DEF TypedLife, TypeOK, RingShutdown
  <2>2. Lifecycle' /\ Connection'
    BY <1>5 DEF TypedLife, Lifecycle, Connection, RingShutdown
  <2> QED BY <2>1, <2>2 DEF TypedLife
<1>6. CASE ProcessEnds
  BY <1>6 DEF TypedLife, TypeOK, Lifecycle, Connection, ProcessEnds
<1>7. CASE PushEvent
  BY <1>7, BoundsAssumption
     DEF TypedLife, TypeOK, Lifecycle, Connection, PushEvent, Queue!Put
<1>8. CASE ConnBreaks
  BY <1>8 DEF TypedLife, TypeOK, Lifecycle, Connection, ConnBreaks
<1>9. CASE Terminate
  BY <1>9 DEF TypedLife, TypeOK, Lifecycle, Connection, Terminate, Alive
<1> QED
  BY <1>1, <1>2, <1>3, <1>4, <1>5, <1>6, <1>7, <1>8, <1>9 DEF MainStep

(* Whatever is written, the connection and the history stay consistent.    *)
LEMMA WriteKeeps ==
  ASSUME TypedLife, NEW kind \in Kinds, NEW event \in 0..MaxEvents,
         NEW next \in {"drain", "pop", "write"},
         Write(kind, event, next), clientPc \in Connected,
         infoSent' = (infoSent \/ conn = "up"),
         UNCHANGED <<mainVars, conn, dials>>
  PROVE  Lifecycle' /\ Connection' /\ sent' \in Seq(Envelopes)
<1> DEFINE v == Envelope(kind, event)
<1>0. v.dial = dials /\ sent \in Seq(Envelopes) /\ dials \in Nat
  BY SentTyped DEF Envelope, TypedLife, TypeOK
<1>1. \/ /\ conn = "up" /\ clientPc' = next
         /\ v \in Envelopes /\ sent' = Append(sent, v)
      \/ /\ conn = "broken" /\ clientPc' = "close" /\ sent' = sent
  BY WriteEffect
<1> HIDE DEF v
<1>2. sent' \in Seq(Envelopes)
  BY <1>0, <1>1
<1>3. Lifecycle'
  BY <1>1 DEF TypedLife, Lifecycle, Connected, mainVars
<1>4. Connection'
  <2>1. CASE conn = "broken"
    BY <1>1, <2>1 DEF TypedLife, Connection, Connected
  <2>2. CASE conn = "up"
    <3>1. /\ sent' # <<>>
          /\ Len(sent') = Len(sent) + 1 /\ sent'[Len(sent) + 1] = v
          /\ DOMAIN sent' = 1..(Len(sent) + 1)
          /\ \A k \in 1..Len(sent) : sent'[k] = sent[k]
      BY <1>0, <1>1, <2>2
    <3>2. \A k \in DOMAIN sent' : sent'[k].dial <= dials'
      BY <1>0, <3>1, SentTyped DEF TypedLife, Connection
    <3> QED
      BY <1>0, <1>1, <2>2, <3>1, <3>2 DEF TypedLife, Connection, Connected
  <2> QED BY <1>1, <2>1, <2>2
<1> QED BY <1>2, <1>3, <1>4

(* The two parts a batch cuts the ring into, and the step that cuts it.    *)
LEMMA BatchOfRing ==
  ASSUME TypedLife, NEW n \in 1..Len(ring)
  PROVE  /\ SubSeq(ring, 1, n) \in Seq(1..MaxEvents)
         /\ Len(SubSeq(ring, 1, n)) = n /\ SubSeq(ring, 1, n) # <<>>
         /\ \A i \in 1..n : SubSeq(ring, 1, n)[i] = ring[i]
         /\ SubSeq(ring, n + 1, Len(ring)) \in Seq(1..MaxEvents)
         /\ Len(SubSeq(ring, n + 1, Len(ring))) = Len(ring) - n
         /\ \A i \in 1..(Len(ring) - n) :
              SubSeq(ring, n + 1, Len(ring))[i] = ring[n + i]
<1>1. /\ ring \in Seq(1..MaxEvents) /\ Len(ring) \in Nat
      /\ \A i \in 1..Len(ring) : ring[i] \in 1..MaxEvents
  <2>1. ring \in Seq(1..MaxEvents)
    BY DEF TypedLife, TypeOK
  <2> QED BY <2>1, LenProperties, ElementOfSeq
<1>2. /\ SubSeq(ring, 1, n) \in Seq(1..MaxEvents)
      /\ Len(SubSeq(ring, 1, n)) = n
      /\ \A i \in 1..n : SubSeq(ring, 1, n)[i] = ring[i]
  BY <1>1, SubSeqProperties
<1>3. SubSeq(ring, 1, n) # <<>>
  BY <1>1, <1>2
<1>4. /\ SubSeq(ring, n + 1, Len(ring)) \in Seq(1..MaxEvents)
      /\ Len(SubSeq(ring, n + 1, Len(ring))) = Len(ring) - n
      /\ \A i \in 1..(Len(ring) - n) :
           SubSeq(ring, n + 1, Len(ring))[i] = ring[n + i]
  BY <1>1, SubSeqProperties
<1> QED BY <1>2, <1>3, <1>4

LEMMA PopEffect ==
  ASSUME TypedLife, Pop, ringOn, ring # <<>>
  PROVE  \E n \in 1..Len(ring) :
           /\ ring' = SubSeq(ring, n + 1, Len(ring))
           /\ popped' = popped \o SubSeq(ring, 1, n)
           /\ batch' = SubSeq(ring, 1, n)
           /\ clientPc' = "write" /\ ringOn' = ringOn
           /\ UNCHANGED <<made, mainVars, netVars>>
<1> DEFINE n == IF Len(ring) < MaxBatch THEN Len(ring) ELSE MaxBatch
<1>1. n \in 1..Len(ring) /\ n # 0
  BY BoundsAssumption DEF TypedLife, TypeOK
<1>2. /\ Queue!Take(n) /\ batch' = SubSeq(ring, 1, n) /\ clientPc' = "write"
      /\ UNCHANGED <<made, mainVars, netVars>>
  BY <1>1 DEF Pop, GoTo
<1> HIDE DEF n
<1> QED BY <1>1, <1>2 DEF Queue!Take

(* Steps of the client.                                                    *)
LEMMA ClientTyped ==
  ASSUME TypedLife, ClientStep
  PROVE  TypedLife'
<1> USE DEF queueVars, mainVars, netVars, At, GoTo, Alive
<1>1. CASE CheckStop
  BY <1>1 DEF TypedLife, TypeOK, Lifecycle, Connection, CheckStop, Connected
<1>2. CASE Dial
  <2>1. TypeOK'
    BY <1>2, BoundsAssumption DEF TypedLife, TypeOK, Dial
  <2>2. Lifecycle'
    BY <1>2 DEF TypedLife, Lifecycle, Dial
  <2>3. Connection'
    BY <1>2, BoundsAssumption, SentTyped, SMTT(30)
       DEF TypedLife, TypeOK, Connection, Connected, Dial
  <2> QED BY <2>1, <2>2, <2>3 DEF TypedLife
<1>3. CASE DialFails
  BY <1>3 DEF TypedLife, TypeOK, Lifecycle, Connection, DialFails, Connected
<1>4. CASE Handshake
  <2> DEFINE kind == IF infoSent THEN "client_hello" ELSE "process_info"
  <2>1. /\ Write(kind, 0, "drain") /\ clientPc = "handshake"
        /\ infoSent' = (infoSent \/ conn = "up")
        /\ UNCHANGED <<queueVars, made, mainVars, batch, conn, dials>>
    BY <1>4 DEF Handshake, InfoWritten
  <2>2. /\ clientPc \in Connected /\ kind \in Kinds /\ 0 \in 0..MaxEvents
        /\ clientPc' \in {"drain", "close"}
    BY <2>1, BoundsAssumption DEF Kinds, Connected, Write
  <2>3. Lifecycle' /\ Connection' /\ sent' \in Seq(Envelopes)
    BY <2>1, <2>2, WriteKeeps
  <2>4. TypeOK'
    BY <2>1, <2>2, <2>3 DEF TypedLife, TypeOK, Envelopes, Kinds
  <2> QED BY <2>3, <2>4 DEF TypedLife
<1>5. ASSUME NEW due \in BOOLEAN, DrainCheck(due)
      PROVE  TypedLife'
  BY <1>5 DEF TypedLife, TypeOK, Lifecycle, Connection, DrainCheck, Connected
<1>6. CASE WriteStats
  <2>1. /\ Write("stats", 0, "pop") /\ clientPc = "stats"
        /\ UNCHANGED <<queueVars, made, mainVars, batch, infoSent, conn, dials>>
    BY <1>6 DEF WriteStats
  <2>2. /\ clientPc \in Connected /\ "stats" \in Kinds /\ 0 \in 0..MaxEvents
        /\ clientPc' \in {"pop", "close"}
        /\ infoSent' = (infoSent \/ conn = "up")
    BY <2>1, BoundsAssumption
       DEF Kinds, Connected, Write, TypedLife, TypeOK, Connection
  <2>3. Lifecycle' /\ Connection' /\ sent' \in Seq(Envelopes)
    BY <2>1, <2>2, WriteKeeps
  <2>4. TypeOK'
    BY <2>1, <2>2, <2>3 DEF TypedLife, TypeOK, Envelopes, Kinds
  <2> QED BY <2>3, <2>4 DEF TypedLife
<1>7. CASE Pop
  <2>1. Lifecycle' /\ Connection'
    BY <1>7 DEF TypedLife, Lifecycle, Connection, Pop, Connected
  <2>2. TypeOK'
    <3>1. CASE ~ringOn \/ ring = <<>>
      <4>1. ring = <<>> => Len(ring) = 0 /\ 0 < MaxBatch
        BY BoundsAssumption
      <4>2. /\ UNCHANGED <<queueVars, batch, made, mainVars, netVars>>
            /\ clientPc' = "drain" /\ clientPc = "pop"
        BY <1>7, <3>1, <4>1 DEF Pop
      <4> QED BY <4>2 DEF TypedLife, TypeOK
    <3>2. CASE ringOn /\ ring # <<>>
      <4>1. PICK n \in 1..Len(ring) :
              /\ ring' = SubSeq(ring, n + 1, Len(ring))
              /\ popped' = popped \o SubSeq(ring, 1, n)
              /\ batch' = SubSeq(ring, 1, n)
              /\ clientPc' = "write" /\ ringOn' = ringOn
              /\ UNCHANGED <<made, mainVars, netVars>>
        BY <1>7, <3>2, PopEffect
      <4>2. /\ SubSeq(ring, 1, n) \in Seq(1..MaxEvents)
            /\ Len(SubSeq(ring, 1, n)) = n /\ SubSeq(ring, 1, n) # <<>>
            /\ SubSeq(ring, n + 1, Len(ring)) \in Seq(1..MaxEvents)
            /\ Len(SubSeq(ring, n + 1, Len(ring))) = Len(ring) - n
        BY BatchOfRing
      <4>3. Len(ring') <= Capacity
        BY <4>1, <4>2, BoundsAssumption DEF TypedLife, TypeOK
      <4>4. popped' \in Seq(1..MaxEvents)
        BY <4>1, <4>2 DEF TypedLife, TypeOK
      <4> QED BY <4>1, <4>2, <4>3, <4>4, ZenonT(60) DEF TypedLife, TypeOK
    <3> QED BY <3>1, <3>2 DEF TypedLife, TypeOK
  <2> QED BY <2>1, <2>2 DEF TypedLife
<1>8. CASE WriteEvent
  <2>1. /\ clientPc = "write" /\ batch \in Seq(1..MaxEvents) /\ batch # <<>>
        /\ Head(batch) \in 0..MaxEvents /\ Tail(batch) \in Seq(1..MaxEvents)
    <3>1. batch \in Seq(1..MaxEvents) /\ batch # <<>> /\ clientPc = "write"
      BY <1>8 DEF WriteEvent, TypedLife, TypeOK
    <3> QED BY <3>1, HeadTailProperties, BoundsAssumption
  <2> DEFINE next == IF batch' = <<>> THEN "drain" ELSE "write"
  <2>2. /\ Write("event", Head(batch), next)
        /\ batch' = IF conn = "up" THEN Tail(batch) ELSE <<>>
        /\ UNCHANGED <<queueVars, made, mainVars, infoSent, conn, dials>>
    BY <1>8 DEF WriteEvent, Remaining
  <2>3. /\ clientPc \in Connected /\ "event" \in Kinds
        /\ next \in {"drain", "pop", "write"}
        /\ infoSent' = (infoSent \/ conn = "up")
    BY <2>1, <2>2 DEF Kinds, Connected, TypedLife, TypeOK, Connection
  <2>4. Lifecycle' /\ Connection' /\ sent' \in Seq(Envelopes)
    <3> HIDE DEF next
    <3> QED BY <2>1, <2>2, <2>3, WriteKeeps
  <2>5. /\ batch' \in Seq(1..MaxEvents)
        /\ batch' # <<>> <=> clientPc' = "write"
        /\ clientPc' \in {"drain", "write", "close"}
    <3>1. CASE conn = "up"
      <4>1. batch' = Tail(batch) /\ clientPc' = next
        BY <2>2, <3>1 DEF Write, GoTo
      <4> QED BY <2>1, <4>1
    <3>2. CASE conn # "up"
      <4>1. batch' = <<>> /\ clientPc' = "close"
        BY <2>2, <3>2 DEF Write, GoTo
      <4> QED BY <4>1, EmptySeq
    <3> QED BY <3>1, <3>2
  <2>6. TypeOK'
    BY <2>2, <2>4, <2>5 DEF TypedLife, TypeOK, Envelopes, Kinds
  <2> QED BY <2>4, <2>6 DEF TypedLife
<1>9. CASE CloseConn
  BY <1>9 DEF TypedLife, TypeOK, Lifecycle, Connection, CloseConn, Connected
<1>10. CASE Backoff
  BY <1>10 DEF TypedLife, TypeOK, Lifecycle, Connection, Backoff, Connected
<1> QED
  BY <1>1, <1>2, <1>3, <1>4, <1>5, <1>6, <1>7, <1>8, <1>9, <1>10 DEF ClientStep

LEMMA NextTypedLife ==
  ASSUME TypedLife, [Next]_vars
  PROVE  TypedLife'
<1>1. CASE UNCHANGED vars
  BY <1>1 DEF TypedLife, TypeOK, Lifecycle, Connection, vars, queueVars,
              mainVars, netVars, clientVars
<1>2. CASE Next
  BY <1>2, MainTyped, ClientTyped DEF Next
<1> QED BY <1>1, <1>2

(***************************************************************************)
(* The client's state is well typed in every reachable state.              *)
(***************************************************************************)
THEOREM TypeCorrect == Spec => []TypeOK
<1>1. TypedLife => TypeOK
  BY DEF TypedLife
<1> QED BY <1>1, InitTypedLife, NextTypedLife, PTL DEF Spec

(***************************************************************************)
(* Once the destructor closes the ring, the client is at rest and holds    *)
(* nothing of it, unless the detached thread started it after sg_go_stop.  *)
(***************************************************************************)
THEOREM RestsAtShutdown == Spec => []StoppedBeforeShutdown
<1>1. TypedLife => StoppedBeforeShutdown
  BY DEF TypedLife, TypeOK, Lifecycle, StoppedBeforeShutdown
<1> QED BY <1>1, InitTypedLife, NextTypedLife, PTL DEF Spec

-----------------------------------------------------------------------------
(* A step that writes an envelope keeps the connections introduced: the    *)
(* first envelope of a connection is the one sendHandshake writes.         *)
LEMMA IntroductionKept ==
  ASSUME TypedLife, IntroducedFirst, [Next]_vars
  PROVE  IntroducedFirst'
<1>0. /\ sent \in Seq(Envelopes) /\ DOMAIN sent = 1..Len(sent)
      /\ Len(sent) \in Nat /\ dials \in Nat
  BY SentTyped DEF TypedLife, TypeOK
<1>1. CASE UNCHANGED sent
  BY <1>1 DEF IntroducedFirst
<1>2. ASSUME NEW kind \in Kinds, NEW event, sent' = Append(sent, Envelope(kind, event)),
             kind = "process_info" <=> sent = <<>>,
             kind \in {"process_info", "client_hello"}
               <=> sent = <<>> \/ sent[Len(sent)].dial # dials
      PROVE  IntroducedFirst'
  <2> DEFINE v == Envelope(kind, event)
             n == Len(sent)
  <2>0. v.kind = kind /\ v.dial = dials
    BY DEF Envelope
  <2> HIDE DEF v
  <2>1. /\ DOMAIN sent' = 1..(n + 1) /\ sent'[n + 1] = v
        /\ \A k \in 1..n : sent'[k] = sent[k]
    BY <1>0, <1>2 DEF v
  <2> SUFFICES ASSUME NEW k \in 1..(n + 1)
               PROVE  /\ sent'[k].kind = "process_info" <=> k = 1
                      /\ sent'[k].kind \in {"process_info", "client_hello"}
                           <=> (k = 1 \/ sent'[k - 1].dial # sent'[k].dial)
    BY <2>1 DEF IntroducedFirst
  <2>2. CASE k = n + 1
    <3>1. sent = <<>> <=> n = 0
      BY <1>0
    <3>2. CASE n = 0
      BY <1>2, <2>0, <2>1, <2>2, <3>1, <3>2
    <3>3. CASE n # 0
      <4>1. k - 1 = n /\ n \in 1..n /\ k # 1
        BY <1>0, <2>2, <3>3
      <4> QED BY <1>2, <2>0, <2>1, <2>2, <3>1, <3>3, <4>1
    <3> QED BY <3>2, <3>3
  <2>3. CASE k \in 1..n
    <3>1. k # 1 => k - 1 \in 1..n
      BY <1>0, <2>3
    <3> QED BY <1>0, <2>1, <2>3, <3>1 DEF IntroducedFirst
  <2> QED BY <1>0, <2>2, <2>3
<1>3. CASE Handshake
  <2> DEFINE kind == IF infoSent THEN "client_hello" ELSE "process_info"
  <2>1. Write(kind, 0, "drain") /\ clientPc = "handshake"
    BY <1>3 DEF Handshake, At
  <2>2. CASE conn = "up"
    <3>1. sent' = Append(sent, Envelope(kind, 0)) /\ kind \in Kinds
      BY <2>1, <2>2 DEF Write, Kinds
    <3>2. kind = "process_info" <=> sent = <<>>
      BY DEF TypedLife, Connection
    <3>3. sent = <<>> \/ sent[Len(sent)].dial # dials
      <4>1. \A k \in DOMAIN sent : sent[k].dial < dials
        BY <2>1 DEF TypedLife, Connection
      <4>2. sent # <<>> => Len(sent) \in DOMAIN sent
        BY <1>0
      <4>3. sent # <<>> => sent[Len(sent)].dial \in Nat
        BY <4>2, SentTyped
      <4> QED BY <4>1, <4>2, <4>3, <1>0
    <3> HIDE DEF kind
    <3> QED BY <1>2, <3>1, <3>2, <3>3 DEF kind
  <2>3. CASE conn # "up"
    BY <1>1, <2>1, <2>3 DEF Write
  <2> QED BY <2>2, <2>3
<1>4. ASSUME NEW kind \in {"stats", "event"}, NEW event, NEW next,
             Write(kind, event, next), clientPc \in {"stats", "write"}
      PROVE  IntroducedFirst'
  <2>1. CASE conn = "up"
    <3>1. sent # <<>> /\ sent[Len(sent)].dial = dials
      BY <1>4, <2>1 DEF TypedLife, Connection
    <3>2. sent' = Append(sent, Envelope(kind, event)) /\ kind \in Kinds
      BY <1>4, <2>1 DEF Write, Kinds
    <3> QED BY <1>2, <1>4, <3>1, <3>2
  <2>2. CASE conn # "up"
    BY <1>1, <1>4, <2>2 DEF Write
  <2> QED BY <2>1, <2>2
<1>5. CASE WriteStats
  BY <1>4, <1>5 DEF WriteStats, At
<1>6. CASE WriteEvent
  <2>1. clientPc = "write" /\ \E next : Write("event", Head(batch), next)
    BY <1>6 DEF WriteEvent, At
  <2> QED BY <1>4, <2>1
<1>7. CASE UNCHANGED vars
  BY <1>1, <1>7 DEF vars, clientVars, netVars
<1>8. CASE Next /\ ~Handshake /\ ~WriteStats /\ ~WriteEvent
  <2>1. UNCHANGED sent
    BY <1>8 DEF Next, MainStep, ClientStep, Construct, GoStart, GoStop,
                StopReturns, RingShutdown, ProcessEnds, PushEvent, CheckStop,
                Dial, DialFails, DrainCheck, Pop, CloseConn, Backoff,
                ConnBreaks, Terminate, clientVars, netVars
  <2> QED BY <1>1, <2>1
<1> QED BY <1>3, <1>5, <1>6, <1>7, <1>8

(***************************************************************************)
(* The first envelope of every connection introduces the session, and      *)
(* process_info is the first envelope of all, whatever connections broke.  *)
(***************************************************************************)
THEOREM Introduced == Spec => []IntroducedFirst
<1>1. Init => IntroducedFirst
  BY DEF Init, IntroducedFirst
<1> QED
  BY <1>1, InitTypedLife, NextTypedLife, IntroductionKept, PTL DEF Spec

-----------------------------------------------------------------------------
(* Lists the client's steps that leave ring, batch and history alone.      *)
LEMMA QuietSteps ==
  ASSUME Next, ~RingShutdown, ~PushEvent, ~Dial, ~Handshake, ~WriteStats,
         ~Pop, ~WriteEvent,
         \A enabled, thread \in BOOLEAN : ~Construct(enabled, thread)
  PROVE  /\ UNCHANGED <<ringOn, ring, popped, made, batch, dials, sent>>
         /\ conn' = "up" => conn = "up"
BY DEF Next, MainStep, ClientStep, GoStart, GoStop, StopReturns, ProcessEnds,
       CheckStop, DialFails, DrainCheck, CloseConn, Backoff, ConnBreaks,
       Terminate, queueVars, clientVars, netVars

LEMMA UntouchedKept ==
  ASSUME TypedLife, Untouched, [Next]_vars
  PROVE  Untouched'
<1> USE DEF Untouched, queueVars, mainVars, netVars, clientVars
<1>1. ASSUME mainPc' = "init"
      PROVE  /\ mainPc = "init" /\ clientPc = "off"
             /\ UNCHANGED vars \/ PushEvent \/ ConnBreaks
  BY <1>1 DEF TypedLife, Lifecycle, Next, MainStep, ClientStep, Construct, GoStart, GoStop,
              StopReturns, RingShutdown, ProcessEnds, CheckStop, Dial,
              DialFails, Handshake, DrainCheck, WriteStats, Pop, WriteEvent,
              CloseConn, Backoff, PushEvent, ConnBreaks, Terminate, At, vars
<1>2. CASE mainPc' # "init"
  BY <1>2
<1>3. CASE mainPc' = "init"
  BY <1>1, <1>3 DEF PushEvent, Queue!Put, ConnBreaks, vars
<1> QED BY <1>2, <1>3

(* Events keep their numbers on the way from the application to the client.*)
LEMMA NumberedKept ==
  ASSUME TypedLife, Untouched, Numbered, [Next]_vars
  PROVE  Numbered'
<1>0. /\ ring \in Seq(1..MaxEvents) /\ popped \in Seq(1..MaxEvents)
      /\ batch \in Seq(1..MaxEvents) /\ made \in Nat
      /\ Len(ring) \in Nat /\ Len(popped) \in Nat /\ Len(batch) \in Nat
      /\ ringOn \in BOOLEAN
  BY DEF TypedLife, TypeOK
<1>1. CASE UNCHANGED <<ringOn, ring, popped, made, batch>>
  BY <1>1 DEF Numbered, Written
<1>2. ASSUME NEW enabled \in BOOLEAN, NEW thread \in BOOLEAN,
             Construct(enabled, thread)
      PROVE  Numbered'
  <2>1. /\ made' = made /\ popped' = popped /\ ring' = ring /\ batch' = batch
        /\ ring = <<>> /\ made = 0 /\ popped = <<>>
    BY <1>2 DEF Untouched, Construct, Queue!Open, queueVars, clientVars
  <2>2. Len(popped) + Len(ring) = made /\ Written' = Written
    BY <2>1 DEF Written
  <2> QED BY <2>1, <2>2 DEF Numbered
<1>3. CASE RingShutdown
  <2>1. /\ made' = made /\ popped' = popped /\ batch' = batch
        /\ ringOn' = FALSE
        /\ ring' = <<>> \/ (~ringOn /\ ring' = ring)
    BY <1>0, <1>3 DEF RingShutdown, Queue!Close, queueVars, clientVars
  <2>2. ring' = <<>> /\ DOMAIN <<>> = {} /\ Written' = Written
    BY <2>1 DEF Numbered, Written
  <2> QED BY <2>1, <2>2 DEF Numbered
<1>4. CASE PushEvent
  <2>1. /\ ringOn /\ ringOn' = ringOn /\ ring' = Append(ring, made + 1)
        /\ made' = made + 1 /\ popped' = popped /\ batch' = batch
    BY <1>4 DEF PushEvent, Queue!Put, clientVars
  <2>2. /\ Len(ring') = Len(ring) + 1 /\ ring'[Len(ring) + 1] = made + 1
        /\ DOMAIN ring' = 1..(Len(ring) + 1)
        /\ \A i \in 1..Len(ring) : ring'[i] = ring[i]
    BY <1>0, <2>1
  <2>3. Len(popped) + Len(ring) = made
    BY <2>1 DEF Numbered
  <2>4. ASSUME NEW i \in DOMAIN ring'
        PROVE  ring'[i] = Len(popped) + i
    <3>1. CASE i = Len(ring) + 1
      <4>1. ring'[i] = made + 1 /\ made = Len(popped) + Len(ring)
        BY <2>2, <2>3, <3>1
      <4> QED BY <1>0, <3>1, <4>1
    <3>2. CASE i \in 1..Len(ring)
      <4>1. ring'[i] = ring[i] /\ i \in DOMAIN ring
        BY <1>0, <2>2, <3>2
      <4> QED BY <4>1 DEF Numbered
    <3> QED BY <1>0, <2>2, <3>1, <3>2
  <2>5. Len(popped') + Len(ring') = made' /\ Written' = Written
    <3>1. Len(popped') + Len(ring') = Len(popped) + (Len(ring) + 1)
      BY <2>1, <2>2
    <3> QED BY <1>0, <2>1, <2>3, <3>1 DEF Written
  <2>6. \A i \in DOMAIN batch : batch[i] = Written + i
    BY DEF Numbered
  <2> QED BY <2>1, <2>4, <2>5, <2>6 DEF Numbered
<1>5. CASE Pop
  <2>1. CASE ~ringOn \/ ring = <<>>
    <3>1. ring = <<>> => Len(ring) = 0 /\ 0 < MaxBatch
      BY BoundsAssumption
    <3> QED BY <1>1, <1>5, <2>1, <3>1 DEF Pop, queueVars
  <2>2. CASE ringOn /\ ring # <<>>
    <3>1. PICK n \in 1..Len(ring) :
            /\ ring' = SubSeq(ring, n + 1, Len(ring))
            /\ popped' = popped \o SubSeq(ring, 1, n)
            /\ batch' = SubSeq(ring, 1, n)
            /\ clientPc' = "write" /\ ringOn' = ringOn
            /\ UNCHANGED <<made, mainVars, netVars>>
      BY <1>5, <2>2, PopEffect
    <3>2. /\ batch' \in Seq(1..MaxEvents) /\ Len(batch') = n
          /\ \A i \in 1..n : batch'[i] = ring[i]
          /\ ring' \in Seq(1..MaxEvents) /\ Len(ring') = Len(ring) - n
          /\ \A i \in 1..(Len(ring) - n) : ring'[i] = ring[n + i]
      BY <3>1, BatchOfRing
    <3>3. Len(popped') = Len(popped) + n
      BY <1>0, <3>1, <3>2
    <3>4. ASSUME NEW i \in DOMAIN ring'
          PROVE  ring'[i] = Len(popped') + i
      <4>1. i \in 1..(Len(ring) - n) /\ n + i \in DOMAIN ring
        BY <1>0, <3>2
      <4>2. ring'[i] = Len(popped) + (n + i)
        BY <3>2, <4>1 DEF Numbered
      <4> QED BY <1>0, <3>3, <4>1, <4>2
    <3>5. ASSUME NEW i \in DOMAIN batch'
          PROVE  batch'[i] = Written' + i
      <4>1. i \in 1..n /\ i \in DOMAIN ring
        BY <1>0, <3>2
      <4>2. Written' = Len(popped)
        BY <1>0, <3>2, <3>3 DEF Written
      <4>3. batch'[i] = Len(popped) + i
        BY <3>2, <4>1 DEF Numbered
      <4> QED BY <4>2, <4>3
    <3>6. Len(popped') + Len(ring') = made'
      <4>1. Len(popped) + Len(ring) = made /\ made' = made
        BY <2>2, <3>1 DEF Numbered
      <4>2. Len(popped') + Len(ring') = (Len(popped) + n) + (Len(ring) - n)
        BY <3>2, <3>3
      <4>3. made' = (Len(popped) + n) + (Len(ring) - n)
        BY <1>0, <4>1
      <4> QED BY <4>2, <4>3
    <3> QED BY <2>2, <3>1, <3>4, <3>5, <3>6 DEF Numbered
  <2> QED BY <1>0, <2>1, <2>2
<1>6. CASE WriteEvent
  <2>1. /\ batch # <<>> /\ UNCHANGED <<ringOn, ring, popped, made>>
        /\ batch' = Tail(batch) \/ batch' = <<>>
    BY <1>6 DEF WriteEvent, Remaining, TypedLife, TypeOK, At, queueVars
  <2>2. CASE batch' = <<>>
    BY <2>1, <2>2 DEF Numbered, Written
  <2>3. CASE batch' = Tail(batch)
    <3>1. /\ Len(batch') = Len(batch) - 1 /\ batch' \in Seq(1..MaxEvents)
          /\ \A i \in 1..Len(batch') : batch'[i] = batch[i + 1]
      BY <1>0, <2>1, <2>3, HeadTailProperties
    <3>2. ASSUME NEW i \in DOMAIN batch'
          PROVE  batch'[i] = Written' + i
      <4>1. i \in 1..Len(batch') /\ i + 1 \in DOMAIN batch
        BY <1>0, <3>1
      <4> QED BY <1>0, <2>1, <3>1, <4>1, SMTT(30) DEF Numbered, Written
    <3> QED BY <2>1, <3>2 DEF Numbered
  <2> QED BY <2>1, <2>2, <2>3
<1>7. CASE Dial \/ Handshake \/ WriteStats
  BY <1>1, <1>7 DEF Dial, Handshake, WriteStats, queueVars
<1>8. CASE UNCHANGED vars
  BY <1>1, <1>8 DEF vars, queueVars, clientVars
<1> QED
  BY <1>1, <1>2, <1>3, <1>4, <1>5, <1>6, <1>7, <1>8, QuietSteps

Sequential == Shipped /\ WrittenOnceInOrder

(* Writing one event more keeps the history in order.                      *)
LEMMA SequentialKept ==
  ASSUME TypedLife, Numbered, Sequential, [Next]_vars
  PROVE  Sequential'
<1>0. /\ sent \in Seq(Envelopes) /\ DOMAIN sent = 1..Len(sent)
      /\ Len(sent) \in Nat /\ dials \in Nat
      /\ batch \in Seq(1..MaxEvents) /\ popped \in Seq(1..MaxEvents)
      /\ Len(batch) \in Nat /\ Len(popped) \in Nat /\ Written \in Int
      /\ \A k \in DOMAIN sent : sent[k].event \in Nat /\ sent[k].dial \in Nat
  BY SentTyped DEF TypedLife, TypeOK, Written
<1>1. CASE /\ UNCHANGED <<popped, batch, dials, sent>>
           /\ conn' = "up" => conn = "up"
  BY <1>1 DEF Sequential, Shipped, WrittenOnceInOrder, Events, Written
<1>2. ASSUME sent' = sent, dials' = dials, Written <= Written',
             Written' \in Int, conn' # "up"
      PROVE  Sequential'
  <2>1. Events' = Events /\ Events \subseteq DOMAIN sent
    BY <1>2 DEF Events
  <2> QED
    BY <1>0, <1>2, <2>1 DEF Sequential, Shipped, WrittenOnceInOrder
<1>3. CASE Dial
  <2>1. /\ sent' = sent /\ Written' = Written /\ dials' = dials + 1
        /\ Events' = Events /\ Events \subseteq DOMAIN sent
    BY <1>3 DEF Dial, Written, Events, queueVars
  <2>2. \A k \in DOMAIN sent : sent[k].dial <= dials
    BY DEF TypedLife, Connection
  <2>3. \A k \in Events : sent'[k].dial # dials'
    BY <1>0, <2>1, <2>2
  <2> QED
    BY <2>1, <2>3 DEF Sequential, Shipped, WrittenOnceInOrder
<1>4. ASSUME NEW kind \in Kinds \ {"event"}, NEW event \in 0..MaxEvents, NEW next,
             Write(kind, event, next), UNCHANGED <<popped, batch, dials, conn>>
      PROVE  Sequential'
  <2>1. CASE conn = "up"
    <3> DEFINE v == Envelope(kind, event)
    <3>1. sent' = Append(sent, v) /\ v.kind # "event"
      BY <1>4, <2>1 DEF Write, Envelope
    <3> HIDE DEF v
    <3>2. /\ DOMAIN sent' = 1..(Len(sent) + 1) /\ sent'[Len(sent) + 1] = v
          /\ \A k \in 1..Len(sent) : sent'[k] = sent[k]
      BY <1>0, <3>1
    <3>3. Events' = Events /\ \A k \in Events : sent'[k] = sent[k]
      BY <1>0, <3>1, <3>2 DEF Events
    <3> QED
      BY <1>4, <3>3 DEF Sequential, Shipped, WrittenOnceInOrder, Written
  <2>2. CASE conn # "up"
    BY <1>1, <1>4, <2>2 DEF Write
  <2> QED BY <2>1, <2>2
<1>5. CASE Handshake
  <2>1. /\ Write(IF infoSent THEN "client_hello" ELSE "process_info", 0, "drain")
        /\ UNCHANGED <<popped, batch, dials, conn>> /\ 0 \in 0..MaxEvents
    BY <1>5, BoundsAssumption DEF Handshake, queueVars
  <2>2. (IF infoSent THEN "client_hello" ELSE "process_info")
          \in Kinds \ {"event"}
    BY DEF Kinds
  <2> QED BY <1>4, <2>1, <2>2
<1>6. CASE WriteStats
  BY <1>4, <1>6, BoundsAssumption DEF WriteStats, queueVars, Kinds
<1>7. CASE Pop
  <2>1. CASE ~ringOn \/ ring = <<>>
    <3>1. ring = <<>> => Len(ring) = 0 /\ 0 < MaxBatch
      BY BoundsAssumption
    <3> QED BY <1>1, <1>7, <2>1, <3>1 DEF Pop, queueVars, netVars
  <2>2. CASE ringOn /\ ring # <<>>
    <3>1. PICK n \in 1..Len(ring) :
            /\ popped' = popped \o SubSeq(ring, 1, n)
            /\ batch' = SubSeq(ring, 1, n)
            /\ UNCHANGED netVars
      BY <1>7, <2>2, PopEffect
    <3>2. batch' \in Seq(1..MaxEvents) /\ Len(batch') = n /\ n \in Nat
      BY <3>1, BatchOfRing
    <3>3. Len(batch) = 0
      BY <1>7 DEF Pop, At, TypedLife, TypeOK
    <3>4. Written' = Written
      BY <1>0, <3>1, <3>2, <3>3 DEF Written
    <3> QED
      BY <3>1, <3>4
         DEF Sequential, Shipped, WrittenOnceInOrder, Events, netVars
  <2> QED BY <2>1, <2>2 DEF TypedLife, TypeOK
<1>8. CASE WriteEvent
  <2>1. /\ batch # <<>> /\ UNCHANGED <<popped, dials, conn>>
        /\ \E next : Write("event", Head(batch), next)
        /\ batch' = IF conn = "up" THEN Tail(batch) ELSE <<>>
    BY <1>8 DEF WriteEvent, Remaining, TypedLife, TypeOK, At, queueVars
  <2>2. CASE conn # "up"
    <3>1. sent' = sent /\ Written' = Len(popped)
      BY <2>1, <2>2 DEF Write, Written
    <3> QED BY <1>0, <1>2, <2>1, <2>2, <3>1 DEF Written
  <2>3. CASE conn = "up"
    <3> DEFINE v == Envelope("event", Head(batch))
               n == Len(sent)
    <3>1. /\ sent' = Append(sent, v) /\ v.kind = "event" /\ v.dial = dials
          /\ v.event = Head(batch) /\ batch' = Tail(batch)
      BY <2>1, <2>3 DEF Write, Envelope
    <3> HIDE DEF v
    <3>2. /\ DOMAIN sent' = 1..(n + 1) /\ sent'[n + 1] = v
          /\ \A k \in 1..n : sent'[k] = sent[k]
      BY <1>0, <3>1
    <3>3. /\ v.event = Written + 1 /\ Written' = Written + 1
      <4>1. Head(batch) = batch[1] /\ 1 \in DOMAIN batch
        BY <1>0, <2>1
      <4>2. Len(batch') = Len(batch) - 1
        BY <1>0, <2>1, <3>1, HeadTailProperties
      <4>3. batch[1] = Written + 1
        BY <4>1 DEF Numbered
      <4>4. Written' = Len(popped) - (Len(batch) - 1)
        BY <2>1, <4>2 DEF Written
      <4>5. Written = Len(popped) - Len(batch)
        BY DEF Written
      <4> QED BY <1>0, <3>1, <4>1, <4>3, <4>4, <4>5
    <3>4. /\ Events' = Events \cup {n + 1}
          /\ Events \subseteq 1..n
      BY <1>0, <3>1, <3>2 DEF Events
    <3>5. \A k \in Events : sent[k].event <= Written /\ sent[k].event \in Nat
      BY <1>0, <3>4 DEF Sequential, Shipped
    <3>6. \A k \in Events : sent[k].dial = dials =>
            \A e \in sent[k].event..Written : \E m \in Events : sent[m].event = e
      BY <2>3 DEF Sequential, Shipped
    <3>7. ASSUME NEW k \in Events', sent'[k].dial = dials,
                 NEW e \in sent'[k].event..Written'
          PROVE  \E m \in Events' : sent'[m].event = e
      <4>0. n + 1 \in Events' /\ sent'[n + 1].event = Written'
        BY <3>2, <3>3, <3>4
      <4>1. CASE e = Written'
        BY <4>0, <4>1
      <4>2. CASE e # Written'
        <5>1. k # n + 1
          BY <1>0, <3>3, <4>0, <4>2
        <5>2. k \in Events /\ sent'[k] = sent[k]
          BY <3>2, <3>4, <5>1
        <5>3. e \in sent[k].event..Written
          BY <1>0, <3>3, <3>5, <4>2, <5>2
        <5>4. PICK m \in Events : sent[m].event = e
          BY <3>6, <3>7, <5>2, <5>3
        <5> QED BY <3>2, <3>4, <5>4
      <4> QED BY <4>1, <4>2
    <3>8. Shipped'
      <4>1. \A k \in Events' : sent'[k].event <= Written'
        BY <1>0, <3>2, <3>3, <3>4, <3>5
      <4> QED BY <2>1, <3>7, <4>1 DEF Shipped
    <3>9. WrittenOnceInOrder'
      <4> SUFFICES ASSUME NEW k \in Events', NEW l \in Events', k < l
                   PROVE  /\ sent'[k].event < sent'[l].event
                          /\ sent'[k].dial = sent'[l].dial =>
                               \A e \in sent'[k].event..sent'[l].event :
                                 \E m \in Events' : sent'[m].event = e
        BY DEF WrittenOnceInOrder
      <4>0. k \in Events /\ sent'[k] = sent[k]
        BY <1>0, <3>2, <3>4
      <4>1. CASE l \in Events
        <5>1. sent'[l] = sent[l]
          BY <3>2, <3>4, <4>1
        <5> QED
          BY <3>2, <3>4, <4>0, <4>1, <5>1 DEF Sequential, WrittenOnceInOrder
      <4>2. CASE l = n + 1
        <5>1. sent'[l].event = Written' /\ sent'[l].dial = dials
          BY <3>1, <3>2, <3>3, <4>2
        <5> QED BY <1>0, <3>3, <3>5, <3>7, <4>0, <5>1
      <4> QED BY <3>4, <4>1, <4>2
    <3> QED BY <3>8, <3>9 DEF Sequential
  <2> QED BY <2>2, <2>3
<1>9. CASE RingShutdown \/ PushEvent
           \/ \E enabled, thread \in BOOLEAN : Construct(enabled, thread)
  <2>1. UNCHANGED <<popped, batch, dials, sent, conn>>
    BY <1>9 DEF RingShutdown, PushEvent, Construct, Queue!Close, Queue!Put,
                Queue!Open, queueVars, clientVars, netVars
  <2> QED BY <1>1, <2>1
<1>10. CASE UNCHANGED vars
  BY <1>1, <1>10 DEF vars, queueVars, clientVars, netVars
<1> QED
  BY <1>1, <1>3, <1>5, <1>6, <1>7, <1>8, <1>9, <1>10, QuietSteps

(***************************************************************************)
(* Each event is written at most once, in ring order, whatever connections *)
(* break, and on one connection nothing is left out between two events.    *)
(* The inductive invariant relates the history to what the client holds:   *)
(* events are numbered without a gap through ring, batch and connection.   *)
(***************************************************************************)
THEOREM OnceInOrder == Spec => []WrittenOnceInOrder
<1> DEFINE Inv == TypedLife /\ Untouched /\ Numbered /\ Sequential
<1>1. Init => Inv
  <2> SUFFICES ASSUME Init
               PROVE  Untouched /\ Numbered /\ Sequential
    BY InitTypedLife
  <2>1. /\ ring = <<>> /\ popped = <<>> /\ batch = <<>> /\ sent = <<>>
        /\ ringOn = FALSE /\ made = 0
    BY DEF Init, Queue!Init
  <2>2. Numbered /\ Untouched
    BY <2>1 DEF Numbered, Untouched
  <2>3. Events = {}
    BY <2>1 DEF Events
  <2> QED
    BY <2>2, <2>3 DEF Sequential, Shipped, WrittenOnceInOrder
<1>2. Inv /\ [Next]_vars => Inv'
  BY NextTypedLife, UntouchedKept, NumberedKept, SequentialKept
<1>3. Inv => WrittenOnceInOrder
  BY DEF Sequential
<1> QED BY <1>1, <1>2, <1>3, PTL DEF Spec
=============================================================================
