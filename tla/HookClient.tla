------------------------------ MODULE HookClient ------------------------------
(***************************************************************************)
(* The life of the telemetry client inside an application process: the     *)
(* library's constructor and destructor (collector/src/telemetry_bridge.cc)*)
(* and the Go client (collector/go/client/main.go), which connects to the  *)
(* collector, introduces the session, and ships what it pops from the ring.*)
(* The ring is EventQueue, which TelemetryRing implements.                 *)
(*                                                                         *)
(* A write succeeds once the local stack has taken it; a connection may    *)
(* break at any time.  A terminate command ends the process at once:       *)
(* os.Exit runs no destructor.                                             *)
(***************************************************************************)
EXTENDS Integers, Sequences, FiniteSets

CONSTANTS
  Capacity,    \* ring_capacity
  MaxBatch,    \* drain_batch_size
  MaxEvents,   \* bound: events the application makes
  MaxDials,    \* bound: connections that succeed
  MaxStats     \* bound: statistics written

ASSUME BoundsAssumption ==
  /\ Capacity \in Nat \ {0} /\ MaxBatch \in Nat \ {0}
  /\ MaxEvents \in Nat /\ MaxDials \in Nat /\ MaxStats \in Nat

VARIABLES
  ringOn, ring, popped,  \* the ring: open, events queued, events popped
  made,        \* events the application has pushed (bounded by MaxEvents)
  mainPc,      \* the thread that runs constructor and destructor
  threadPc,    \* the detached thread: "none", "created", "ended"
  started, stopClosed,   \* runtimeState.started, the stop channel
  clientPc,    \* control point of runClient, sendHandshake, drainLoop
  infoSent,    \* cfg.processInfoWasSent
  conn,        \* "none", "up", "broken"
  dials,       \* connections so far (bounded by MaxDials)
  batch,       \* events popped and not yet written
  sent,        \* history: envelopes written, with their connection
  late         \* history: the client was started after sg_go_stop

queueVars == <<ringOn, ring, popped>>
mainVars == <<mainPc, threadPc, started, stopClosed, late>>
netVars == <<infoSent, conn, dials, sent>>
clientVars == <<clientPc, batch, netVars>>
vars == <<queueVars, made, mainVars, clientVars>>

Queue == INSTANCE EventQueue WITH
  Items <- 1..MaxEvents, open <- ringOn, queue <- ring, taken <- popped

Init ==
  /\ Queue!Init
  /\ made = 0
  /\ mainPc = "init" /\ threadPc = "none"
  /\ started = FALSE /\ stopClosed = FALSE
  /\ clientPc = "off"
  /\ infoSent = FALSE
  /\ conn = "none" /\ dials = 0
  /\ batch = <<>>
  /\ sent = <<>>
  /\ late = FALSE

Alive == mainPc \notin {"gone", "killed"}

-----------------------------------------------------------------------------
(* telemetry_constructor: capture may be disabled or the ring's allocation *)
(* fail (~enabled), and the thread may not start.                             *)
Construct(enabled, thread) ==
  /\ mainPc = "init"
  /\ mainPc' = "running"
  /\ IF enabled THEN Queue!Open ELSE UNCHANGED queueVars
  /\ threadPc' = IF enabled /\ thread THEN "created" ELSE "none"
  /\ UNCHANGED <<made, started, stopClosed, late, clientVars>>

(* start_go_client and sg_go_start, at the pace of the detached thread.    *)
GoStart ==
  /\ Alive /\ threadPc = "created"
  /\ threadPc' = "ended"
  /\ started' = TRUE
  /\ clientPc' = "check"
  /\ late' = (mainPc # "running")
  /\ UNCHANGED <<queueVars, made, mainPc, stopClosed, batch, netVars>>

(* telemetry_destructor, up to the wait in sg_go_stop.                     *)
StopNoWait ==   \* faulty: closes the channel without waiting for the client
  /\ mainPc = "running"
  /\ mainPc' = "shutdown"
  /\ started' = FALSE
  /\ stopClosed' = started
  /\ UNCHANGED <<queueVars, made, threadPc, late, clientVars>>
GoStop ==
  /\ mainPc = "running"
  /\ mainPc' = IF started THEN "waiting" ELSE "shutdown"
  /\ started' = FALSE
  /\ stopClosed' = started
  /\ UNCHANGED <<queueVars, made, threadPc, late, clientVars>>

StopReturns ==
  /\ mainPc = "waiting" /\ clientPc = "done"
  /\ mainPc' = "shutdown"
  /\ UNCHANGED <<queueVars, made, threadPc, started, stopClosed, late,
                 clientVars>>

RingShutdown ==
  /\ mainPc = "shutdown"
  /\ mainPc' = "exited"
  /\ IF ringOn THEN Queue!Close ELSE UNCHANGED queueVars
  /\ UNCHANGED <<made, threadPc, started, stopClosed, late, clientVars>>

(* The destructors are done and the process ends with all its threads.     *)
ProcessEnds ==
  /\ mainPc = "exited"
  /\ mainPc' = "gone"
  /\ UNCHANGED <<queueVars, made, threadPc, started, stopClosed, late,
                 clientVars>>

(* A hooked driver call pushes an event.                                   *)
PushEvent ==
  /\ Alive /\ made < MaxEvents
  /\ Queue!Put(made + 1)
  /\ made' = made + 1
  /\ UNCHANGED <<mainVars, clientVars>>

-----------------------------------------------------------------------------
At(point) == Alive /\ clientPc = point
GoTo(point) == clientPc' = point

Envelope(kind, event) == [dial |-> dials, kind |-> kind, event |-> event]

(* writeEnvelope: what happens if it succeeds, and where it fails to.      *)
Write(kind, event, next) ==
  IF conn = "up"
  THEN sent' = Append(sent, Envelope(kind, event)) /\ GoTo(next)
  ELSE GoTo("close") /\ UNCHANGED sent

(* runClient: the top of its loop, the dial, the end of a connection.      *)
CheckStop ==
  /\ At("check")
  /\ GoTo(IF stopClosed THEN "done" ELSE "dial")
  /\ UNCHANGED <<queueVars, made, mainVars, batch, netVars>>

Dial ==
  /\ At("dial") /\ dials < MaxDials
  /\ conn' = "up" /\ dials' = dials + 1
  /\ GoTo("handshake")
  /\ UNCHANGED <<queueVars, made, mainVars, batch, infoSent, sent>>

DialFails ==
  /\ At("dial")
  /\ GoTo("backoff")
  /\ UNCHANGED <<queueVars, made, mainVars, batch, netVars>>

(* sendHandshake: process_info until it was written once, then a hello.    *)
InfoAttempted == TRUE             \* faulty: set before the write
InfoWritten == infoSent \/ conn = "up"

Handshake ==
  /\ At("handshake")
  /\ Write(IF infoSent THEN "client_hello" ELSE "process_info", 0, "drain")
  /\ infoSent' = InfoWritten
  /\ UNCHANGED <<queueVars, made, mainVars, batch, conn, dials>>

(* drainLoop: look at the stop channel, statistics when a second is over,  *)
(* then a batch, event by event.  An error loses the rest of the batch.    *)
NeverStops == FALSE               \* faulty: looks for the stop between dials
StopSeen == stopClosed

DrainCheck(statsDue) ==
  /\ At("drain")
  /\ statsDue => Cardinality({k \in DOMAIN sent : sent[k].kind = "stats"}) < MaxStats
  /\ GoTo(IF StopSeen THEN "close" ELSE IF statsDue THEN "stats" ELSE "pop")
  /\ UNCHANGED <<queueVars, made, mainVars, batch, netVars>>

WriteStats ==
  /\ At("stats")
  /\ Write("stats", 0, "pop")
  /\ UNCHANGED <<queueVars, made, mainVars, batch, infoSent, conn, dials>>

Pop ==
  LET n == IF Len(ring) < MaxBatch THEN Len(ring) ELSE MaxBatch IN
  /\ At("pop")
  /\ IF ~ringOn \/ n = 0
     THEN GoTo("drain") /\ UNCHANGED <<queueVars, batch>>
     ELSE /\ Queue!Take(n)
          /\ batch' = SubSeq(ring, 1, n)
          /\ GoTo("write")
  /\ UNCHANGED <<made, mainVars, netVars>>

SkipsOne == SubSeq(batch, 3, Len(batch))   \* faulty: the index moves twice
Remaining == Tail(batch)

WriteEvent ==
  /\ At("write")
  /\ batch' = IF conn = "up" THEN Remaining ELSE <<>>
  /\ Write("event", Head(batch), IF batch' = <<>> THEN "drain" ELSE "write")
  /\ UNCHANGED <<queueVars, made, mainVars, infoSent, conn, dials>>

CloseConn ==
  /\ At("close")
  /\ conn' = "none"
  /\ GoTo("backoff")
  /\ UNCHANGED <<queueVars, made, mainVars, batch, infoSent, dials, sent>>

(* sleepOrStop: the timer and the stop channel may both be ready.          *)
Backoff ==
  /\ At("backoff")
  /\ \/ GoTo("check")
     \/ stopClosed /\ GoTo("done")
  /\ UNCHANGED <<queueVars, made, mainVars, batch, netVars>>

(* The collector or the network closes the connection; controlLoop sees it *)
(* and closes this end.                                                    *)
ConnBreaks ==
  /\ Alive /\ conn = "up"
  /\ conn' = "broken"
  /\ UNCHANGED <<queueVars, made, mainVars, clientPc, batch, infoSent, dials,
                 sent>>

(* controlLoop reads a terminate command for this session.                 *)
Terminate ==
  /\ Alive /\ conn = "up" /\ clientPc # "handshake"
  /\ mainPc' = "killed"
  /\ UNCHANGED <<queueVars, made, threadPc, started, stopClosed, late,
                 clientVars>>

-----------------------------------------------------------------------------
MainStep == GoStop \/ StopReturns \/ RingShutdown \/ ProcessEnds

ClientStep ==
  \/ CheckStop \/ Dial \/ DialFails \/ Handshake
  \/ \E due \in BOOLEAN : DrainCheck(due)
  \/ WriteStats \/ Pop \/ WriteEvent \/ CloseConn \/ Backoff

Next ==
  \/ \E enabled, thread \in BOOLEAN : Construct(enabled, thread)
  \/ GoStart \/ MainStep \/ PushEvent \/ ClientStep \/ ConnBreaks \/ Terminate

Spec == Init /\ [][Next]_vars

(* The threads keep running and each write ends, one way or the other.     *)
FairSpec ==
  /\ Spec
  /\ WF_vars(StopReturns \/ RingShutdown)
  /\ WF_vars(ClientStep)

-----------------------------------------------------------------------------
(* The state stays well typed, and a batch is in hand exactly while the    *)
(* client writes one.                                                      *)
TypeOK ==
  /\ ringOn \in BOOLEAN
  /\ ring \in Seq(1..MaxEvents) /\ Len(ring) <= Capacity
  /\ popped \in Seq(1..MaxEvents)
  /\ made \in 0..MaxEvents
  /\ mainPc \in {"init", "running", "waiting", "shutdown", "exited", "gone",
                 "killed"}
  /\ threadPc \in {"none", "created", "ended"}
  /\ started \in BOOLEAN /\ stopClosed \in BOOLEAN
  /\ clientPc \in {"off", "check", "dial", "handshake", "drain", "stats",
                   "pop", "write", "close", "backoff", "done"}
  /\ infoSent \in BOOLEAN
  /\ conn \in {"none", "up", "broken"} /\ dials \in 0..MaxDials
  /\ batch \in Seq(1..MaxEvents) /\ (batch # <<>> <=> clientPc = "write")
  /\ sent \in Seq([dial : 1..MaxDials, event : 0..MaxEvents,
                   kind : {"process_info", "client_hello", "stats", "event"}])
  /\ late \in BOOLEAN

(***************************************************************************)
(* The collector knows the session before anything else: the first         *)
(* envelope of every connection introduces it, and process_info comes      *)
(* before all others, however many connections broke before it was out.    *)
(***************************************************************************)
IntroducedFirst ==
  \A k \in DOMAIN sent :
    /\ sent[k].kind = "process_info" <=> k = 1
    /\ sent[k].kind \in {"process_info", "client_hello"}
         <=> (k = 1 \/ sent[k - 1].dial # sent[k].dial)

(***************************************************************************)
(* Each event is written at most once, in ring order, whatever connections *)
(* break; and on one connection nothing is left out between two events:    *)
(* events are only lost where a connection ends.                           *)
(***************************************************************************)
Events == {k \in DOMAIN sent : sent[k].kind = "event"}
WrittenOnceInOrder ==
  \A k, l \in Events : k < l =>
    /\ sent[k].event < sent[l].event
    /\ sent[k].dial = sent[l].dial =>
         \A e \in sent[k].event..sent[l].event :
           \E m \in Events : sent[m].event = e

(***************************************************************************)
(* Once the destructor closes the ring the client is at rest, and has      *)
(* nothing of the ring in its hands, unless the detached thread started it *)
(* only after sg_go_stop had found nothing to stop.                        *)
(***************************************************************************)
StoppedBeforeShutdown ==
  mainPc \in {"shutdown", "exited", "gone"} /\ ~late
    => clientPc \in {"off", "done"} /\ batch = <<>>

(***************************************************************************)
(* The process can exit: sg_go_stop returns, whatever the client was doing *)
(* when it was called, provided that a write does not hang for ever.       *)
(***************************************************************************)
ExitCompletes ==
  (mainPc = "waiting") ~> (mainPc \in {"exited", "gone", "killed"})
=============================================================================
