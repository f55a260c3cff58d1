------------------------------ MODULE Collector ------------------------------
(***************************************************************************)
(* The collector (collector/go/cmd/sassguard-collector, main.go and        *)
(* online.go): one handler per hook connection stores what arrives and     *)
(* passes it on, launches through the batcher, into one bounded channel;   *)
(* one goroutine writes the channel to the processor and connects again    *)
(* when that fails; verdicts come back through another bounded channel.    *)
(*                                                                         *)
(* A region that holds c.mu or b.mu is one action when it cannot wait      *)
(* inside.  Storing a launch takes b.mu with c.mu held, and a flush of all *)
(* batches sends once per session with b.mu held: these two locks are      *)
(* visible, as pc "store" and as a set of sessions still to be flushed.    *)
(* Operations on a channel are single steps.  The clients' ends of the     *)
(* connections, the processor and the disk are external.                   *)
(***************************************************************************)
EXTENDS Integers, Sequences, FiniteSets, Functions

CONSTANTS
  Sessions,
  Conns,        \* hook connections
  Owner,        \* the session of each connection
  Kinds,        \* kinds of frames the clients send
  QueueSize,    \* capacity of sendCh
  VerdictSize,  \* capacity of verdictCh
  MaxBatch,     \* launch_batching.max_batch_count
  MaxUnsent,    \* launch_batching.max_unsent_per_session
  MaxFrames,    \* bound: frames the handlers read
  MaxVerdicts,  \* bound: verdicts the processor sends
  None

ASSUME OwnerAssumption == Owner \in [Conns -> Sessions]
ASSUME SizesAssumption ==
  /\ QueueSize \in Nat \ {0} /\ VerdictSize \in Nat \ {0}
  /\ MaxBatch \in Nat \ {0} /\ MaxUnsent \in Nat \ {0}
  /\ MaxFrames \in Nat /\ MaxVerdicts \in Nat
ASSUME KindsAssumption ==
  Kinds \subseteq {"process_info", "client_hello", "code", "launch", "stats"}

(* A message to the processor, and the numbers of the events it carries.   *)
Message == [type : {"process_info", "code", "stats", "launches", "session_end"},
            sess : Sessions, ids : Seq(Nat)]

ASSUME NoneAssumption == None \notin Sessions \cup Conns \cup Message

VARIABLES
  open,        \* connections whose client is at the other end
  connPc,      \* control point of each handler
  named,       \* connections whose handler knows its session
  frame,       \* kind of the frame a handler is storing
  frames,      \* frames read so far (bounded by MaxFrames)
  sessions,    \* c.sessions: the connection that controls go to
  infoStored,  \* sessions whose process.json exists
  batches,     \* b.batches
  flushing,    \* sessions the ticker has yet to flush, holding b.mu
  sendCh,      \* messages queued for the processor
  left, kept,  \* a purge: iterations left, messages to put back
  link,        \* the connection to the processor
  writing,     \* message runConn is writing
  verdictCh,   \* sessions that a queued verdict terminates
  handling, target,  \* the verdict handleVerdicts works on, its connection
  verdicts,    \* verdicts so far (bounded by MaxVerdicts)
  nextId,      \* number of the next event or session end
  lost,        \* history: events dropped with a log line
  restored,    \* history: events a purge took out and put back
  written,     \* history: messages written to the processor
  stale,       \* history: sessions that a late frame of a dead connection
               \* registered over a live one
  missed       \* history: sessions whose verdict missed a live client

connVars == <<open, connPc, named, frame, frames, sessions, infoStored, stale>>
batchVars == <<batches, flushing>>
purgeVars == <<left, kept, restored>>
linkVars == <<link, writing, written>>
verdictVars == <<verdictCh, handling, target, verdicts, missed>>
idVars == <<nextId, lost>>
vars == <<connVars, batchVars, sendCh, purgeVars, linkVars, verdictVars, idVars>>

Init ==
  /\ open = {}
  /\ connPc = [c \in Conns |-> "new"]
  /\ named = {}
  /\ frame = [c \in Conns |-> None]
  /\ frames = 0
  /\ sessions = [s \in Sessions |-> None]
  /\ infoStored = {}
  /\ batches = [s \in Sessions |-> <<>>]
  /\ flushing = {}
  /\ sendCh = <<>>
  /\ left = [c \in Conns |-> 0]
  /\ kept = [c \in Conns |-> <<>>]
  /\ link = "down" /\ writing = None
  /\ verdictCh = <<>> /\ handling = None /\ target = None
  /\ verdicts = 0
  /\ nextId = 1
  /\ lost = {} /\ restored = {}
  /\ written = <<>>
  /\ missed = {} /\ stale = {}

CMuFree == \A c \in Conns : connPc[c] # "store"
BMuFree == flushing = {}

-----------------------------------------------------------------------------
(* The client of a session dials when it has no connection, and may close  *)
(* or lose it at any time; frames it has written may still be unread.      *)
Dial(c) ==
  /\ connPc[c] = "new"
  /\ \A d \in open : Owner[d] # Owner[c]
  /\ open' = open \cup {c}
  /\ connPc' = [connPc EXCEPT ![c] = "read"]
  /\ UNCHANGED <<named, frame, frames, sessions, infoStored, stale, batchVars,
                 sendCh, purgeVars, linkVars, verdictVars, idVars>>

ClientGone(c) ==
  /\ c \in open
  /\ open' = open \ {c}
  /\ UNCHANGED <<connPc, named, frame, frames, sessions, infoStored, stale, batchVars,
                 sendCh, purgeVars, linkVars, verdictVars, idVars>>

(***************************************************************************)
(* The handler of a connection: handleConn.                                *)
(***************************************************************************)
ReadFrame(c, kind) ==
  /\ connPc[c] = "read" /\ frames < MaxFrames
  /\ frames' = frames + 1
  /\ frame' = [frame EXCEPT ![c] = kind]
  /\ connPc' = [connPc EXCEPT ![c] = "register"]
  /\ UNCHANGED <<open, named, sessions, infoStored, stale, batchVars, sendCh,
                 purgeVars, linkVars, verdictVars, idVars>>

KeepFirst(c) ==   \* faulty: a session keeps its first connection
  IF sessions[Owner[c]] = None THEN [sessions EXCEPT ![Owner[c]] = c] ELSE sessions
Registered(c) == [sessions EXCEPT ![Owner[c]] = c]

Register(c) ==
  LET s == Owner[c] IN
  /\ connPc[c] = "register" /\ CMuFree
  /\ named' = named \cup {c}
  /\ sessions' = Registered(c)
  /\ stale' = IF c \notin open /\ \E d \in open \cap named : Owner[d] = s
              THEN stale \cup {s} ELSE stale
  /\ connPc' = [connPc EXCEPT ![c] = "lock"]
  /\ UNCHANGED <<open, frame, frames, infoStored, batchVars, sendCh, purgeVars,
                 linkVars, verdictVars, idVars>>

LockStore(c) ==
  /\ connPc[c] = "lock" /\ CMuFree
  /\ connPc' = [connPc EXCEPT ![c] = "store"]
  /\ UNCHANGED <<open, named, frame, frames, sessions, infoStored, stale, batchVars,
                 sendCh, purgeVars, linkVars, verdictVars, idVars>>

(* onlineClient.send never waits: a message that does not fit is dropped.  *)
SendWaits(m) ==   \* faulty: a plain channel send
  /\ Len(sendCh) < QueueSize
  /\ sendCh' = Append(sendCh, m)
  /\ UNCHANGED lost
Send(m) ==
  IF Len(sendCh) < QueueSize
  THEN /\ sendCh' = Append(sendCh, m)
       /\ UNCHANGED lost
  ELSE /\ lost' = lost \cup Range(m.ids)
       /\ UNCHANGED sendCh

Launches(s, rows) == [type |-> "launches", sess |-> s, ids |-> rows]

(* flushLocked of a session with rows to send.                             *)
BatchKept(s) == batches   \* faulty: the rows stay and are sent again
BatchTaken(s) == [batches EXCEPT ![s] = <<>>]

FlushLocked(s, rows) ==
  /\ batches' = BatchTaken(s)
  /\ Send(Launches(s, rows))

(* launchBatcher.add                                                       *)
AddLaunch(s, id) ==
  LET rows == Append(batches[s], id) IN
  /\ BMuFree
  /\ IF Len(batches[s]) >= MaxUnsent
     THEN lost' = lost \cup {id} /\ UNCHANGED <<batches, sendCh>>
     ELSE IF Len(rows) >= MaxBatch
     THEN FlushLocked(s, rows)
     ELSE /\ batches' = [batches EXCEPT ![s] = rows]
          /\ UNCHANGED <<sendCh, lost>>

(* store: what is only written to a file leaves the rest alone; a code     *)
(* object, statistics and the first process_info are sent, a launch goes   *)
(* to the batcher.  The file that records the event is written last.       *)
StoredOnly(c) ==
  \/ frame[c] = "client_hello"
  \/ frame[c] = "process_info" /\ Owner[c] \in infoStored

StoreEvent(c, recorded) ==
  LET s == Owner[c] IN
  /\ connPc[c] = "store"
  /\ \/ /\ StoredOnly(c)
        /\ UNCHANGED <<infoStored, batches, sendCh, nextId, lost>>
     \/ /\ ~StoredOnly(c) /\ frame[c] # "launch"
        /\ frame[c] = "process_info" => recorded
        /\ Send([type |-> frame[c], sess |-> s, ids |-> <<nextId>>])
        /\ nextId' = nextId + 1
        /\ infoStored' = IF frame[c] = "process_info"
                         THEN infoStored \cup {s} ELSE infoStored
        /\ UNCHANGED batches
     \/ /\ frame[c] = "launch"
        /\ AddLaunch(s, nextId)
        /\ nextId' = nextId + 1
        /\ UNCHANGED infoStored
  /\ frame' = [frame EXCEPT ![c] = None]
  /\ connPc' = [connPc EXCEPT ![c] = IF recorded THEN "read" ELSE "endBatch"]
  /\ UNCHANGED <<open, named, frames, sessions, stale, flushing, purgeVars,
                 linkVars, verdictVars>>

(* The directory or the file of the payload cannot be written.             *)
StoreFails(c) ==
  /\ connPc[c] = "store"
  /\ frame' = [frame EXCEPT ![c] = None]
  /\ connPc' = [connPc EXCEPT ![c] = "endBatch"]
  /\ UNCHANGED <<open, named, frames, sessions, infoStored, stale, batchVars, sendCh,
                 purgeVars, linkVars, verdictVars, idVars>>

(* The read fails because the client is gone.                              *)
StopReading(c) ==
  /\ connPc[c] = "read" /\ c \notin open
  /\ connPc' = [connPc EXCEPT ![c] = IF c \in named THEN "endBatch" ELSE "closed"]
  /\ UNCHANGED <<open, named, frame, frames, sessions, infoStored, stale, batchVars,
                 sendCh, purgeVars, linkVars, verdictVars, idVars>>

(***************************************************************************)
(* The deferred clean-up: the batch is dropped, the session's messages are *)
(* taken out of the channel, session_end is sent, the connection leaves    *)
(* the table.                                                              *)
(***************************************************************************)
EndBatchKept(c) ==   \* faulty: the ticker still sends the last launches
  /\ connPc[c] = "endBatch" /\ BMuFree
  /\ connPc' = [connPc EXCEPT ![c] = "count"]
  /\ UNCHANGED <<open, named, frame, frames, sessions, infoStored, stale,
                 batchVars, sendCh, purgeVars, linkVars, verdictVars, idVars>>
EndBatch(c) ==
  LET s == Owner[c] IN
  /\ connPc[c] = "endBatch" /\ BMuFree
  /\ lost' = lost \cup Range(batches[s])
  /\ batches' = [batches EXCEPT ![s] = <<>>]
  /\ connPc' = [connPc EXCEPT ![c] = "count"]
  /\ UNCHANGED <<open, named, frame, frames, sessions, infoStored, stale,
                 flushing, sendCh, purgeVars, linkVars, verdictVars, nextId>>

(* dropQueuedSessionMessages takes as many messages as it counted first.   *)
PurgeStart(c) ==
  /\ connPc[c] = "count"
  /\ left' = [left EXCEPT ![c] = Len(sendCh)]
  /\ connPc' = [connPc EXCEPT ![c] = IF sendCh = <<>> THEN "end" ELSE "purge"]
  /\ UNCHANGED <<open, named, frame, frames, sessions, infoStored, stale, batchVars,
                 sendCh, kept, restored, linkVars, verdictVars, idVars>>

PurgeInPlace(c) ==   \* faulty: puts messages back at once, until none is left
  /\ connPc[c] = "purge"
  /\ IF sendCh = <<>>
     THEN connPc' = [connPc EXCEPT ![c] = "restore"] /\ UNCHANGED <<sendCh, lost>>
     ELSE /\ UNCHANGED connPc
          /\ IF Head(sendCh).sess = Owner[c]
             THEN /\ lost' = lost \cup Range(Head(sendCh).ids)
                  /\ sendCh' = Tail(sendCh)
             ELSE /\ sendCh' = Append(Tail(sendCh), Head(sendCh))
                  /\ UNCHANGED lost
  /\ UNCHANGED <<open, named, frame, frames, sessions, infoStored, stale,
                 batchVars, left, kept, restored, linkVars, verdictVars, nextId>>
PurgeTake(c) ==
  /\ connPc[c] = "purge"
  /\ IF sendCh = <<>>
     THEN /\ left' = [left EXCEPT ![c] = 0]
          /\ UNCHANGED <<sendCh, kept, lost>>
     ELSE /\ left' = [left EXCEPT ![c] = @ - 1]
          /\ sendCh' = Tail(sendCh)
          /\ IF Head(sendCh).sess = Owner[c]
             THEN lost' = lost \cup Range(Head(sendCh).ids) /\ UNCHANGED kept
             ELSE kept' = [kept EXCEPT ![c] = Append(@, Head(sendCh))]
                  /\ UNCHANGED lost
  /\ connPc' = [connPc EXCEPT ![c] = IF left'[c] = 0 THEN "restore" ELSE "purge"]
  /\ UNCHANGED <<open, named, frame, frames, sessions, infoStored, stale, batchVars,
                 restored, linkVars, verdictVars, nextId>>

PurgeRestore(c) ==
  LET m == Head(kept[c]) IN
  /\ connPc[c] = "restore"
  /\ IF kept[c] = <<>>
     THEN /\ connPc' = [connPc EXCEPT ![c] = "end"]
          /\ UNCHANGED <<sendCh, lost, kept, restored>>
     ELSE /\ Send(m)
          /\ restored' = restored \cup Range(m.ids)
          /\ kept' = [kept EXCEPT ![c] = Tail(@)]
          /\ UNCHANGED connPc
  /\ UNCHANGED <<open, named, frame, frames, sessions, infoStored, stale, batchVars,
                 left, linkVars, verdictVars, nextId>>

SendEnd(c) ==
  /\ connPc[c] = "end"
  /\ Send([type |-> "session_end", sess |-> Owner[c], ids |-> <<nextId>>])
  /\ nextId' = nextId + 1
  /\ connPc' = [connPc EXCEPT ![c] = "unregister"]
  /\ UNCHANGED <<open, named, frame, frames, sessions, infoStored, stale, batchVars,
                 purgeVars, linkVars, verdictVars>>

Unregister(c) ==
  LET s == Owner[c] IN
  /\ connPc[c] = "unregister" /\ CMuFree
  /\ sessions' = IF sessions[s] = c
                 THEN [sessions EXCEPT ![s] = None] ELSE sessions
  /\ open' = open \ {c}
  /\ connPc' = [connPc EXCEPT ![c] = "closed"]
  /\ UNCHANGED <<named, frame, frames, infoStored, stale, batchVars, sendCh,
                 purgeVars, linkVars, verdictVars, idVars>>

(***************************************************************************)
(* The batcher's ticker: flushAll, one session after the other.            *)
(***************************************************************************)
Tick ==
  /\ BMuFree
  /\ flushing' = {s \in Sessions : batches[s] # <<>>}
  /\ UNCHANGED <<connVars, batches, sendCh, purgeVars, linkVars, verdictVars,
                 idVars>>

TickFlush(s) ==
  /\ s \in flushing
  /\ FlushLocked(s, batches[s])
  /\ flushing' = flushing \ {s}
  /\ UNCHANGED <<connVars, purgeVars, linkVars, verdictVars, nextId>>

(***************************************************************************)
(* The goroutine of the online client: run and runConn.                    *)
(***************************************************************************)
Connect ==
  /\ link = "down"
  /\ link' = "up"
  /\ UNCHANGED <<connVars, batchVars, sendCh, purgeVars, writing, written,
                 verdictVars, idVars>>

TakeMessage ==
  /\ link = "up" /\ writing = None /\ sendCh # <<>>
  /\ writing' = Head(sendCh)
  /\ sendCh' = Tail(sendCh)
  /\ UNCHANGED <<connVars, batchVars, purgeVars, link, written, verdictVars,
                 idVars>>

WriteMessage ==
  /\ writing # None
  /\ written' = Append(written, writing)
  /\ writing' = None
  /\ UNCHANGED <<connVars, batchVars, sendCh, purgeVars, link, verdictVars,
                 idVars>>

(* The write fails or times out: its message is not sent again.            *)
WriteRetried ==   \* faulty: the message goes back to the end of the channel
  /\ writing # None /\ Len(sendCh) < QueueSize
  /\ sendCh' = Append(sendCh, writing)
  /\ writing' = None
  /\ link' = "down"
  /\ UNCHANGED <<connVars, batchVars, purgeVars, written, verdictVars, idVars>>
WriteFails ==
  /\ writing # None
  /\ lost' = lost \cup Range(writing.ids)
  /\ writing' = None
  /\ link' = "down"
  /\ UNCHANGED <<connVars, batchVars, sendCh, purgeVars, written, verdictVars,
                 nextId>>

(* readLoop reports an error between two writes.                           *)
LinkBreaks ==
  /\ link = "up" /\ writing = None
  /\ link' = "down"
  /\ UNCHANGED <<connVars, batchVars, sendCh, purgeVars, writing, written,
                 verdictVars, idVars>>

(***************************************************************************)
(* Terminating verdicts: readLoop, handleVerdicts and sendControl.         *)
(***************************************************************************)
ReceiveVerdict(s) ==
  /\ link = "up" /\ verdicts < MaxVerdicts
  /\ \E k \in DOMAIN written : written[k].sess = s /\ written[k].type = "launches"
  /\ verdicts' = verdicts + 1
  /\ verdictCh' = IF Len(verdictCh) < VerdictSize
                  THEN Append(verdictCh, s) ELSE verdictCh
  /\ UNCHANGED <<connVars, batchVars, sendCh, purgeVars, linkVars, handling,
                 target, missed, idVars>>

TakeVerdict ==
  /\ handling = None /\ verdictCh # <<>>
  /\ handling' = Head(verdictCh)
  /\ verdictCh' = Tail(verdictCh)
  /\ UNCHANGED <<connVars, batchVars, sendCh, purgeVars, linkVars, target,
                 verdicts, missed, idVars>>

(* The session's client is connected and its handler knows the session.    *)
Reachable(s) ==
  \E c \in open \cap named : Owner[c] = s /\ connPc[c] = "read"

LookupSession ==
  /\ handling # None /\ target = None /\ CMuFree
  /\ missed' = IF sessions[handling] \notin open /\ Reachable(handling)
               THEN missed \cup {handling} ELSE missed
  /\ IF sessions[handling] = None
     THEN handling' = None /\ UNCHANGED target
     ELSE target' = sessions[handling] /\ UNCHANGED handling
  /\ UNCHANGED <<connVars, batchVars, sendCh, purgeVars, linkVars, verdictCh,
                 verdicts, idVars>>

(* The write to the client is done, or fails because the connection broke. *)
WriteControl ==
  /\ target # None
  /\ handling' = None /\ target' = None
  /\ UNCHANGED <<connVars, batchVars, sendCh, purgeVars, linkVars, verdictCh,
                 verdicts, missed, idVars>>

-----------------------------------------------------------------------------
HandlerStep(c) ==
  \/ Register(c) \/ LockStore(c)
  \/ \E recorded \in BOOLEAN : StoreEvent(c, recorded)
  \/ StopReading(c) \/ EndBatch(c)
  \/ PurgeStart(c) \/ PurgeTake(c) \/ PurgeRestore(c)
  \/ SendEnd(c) \/ Unregister(c)

TickerStep == Tick \/ \E s \in Sessions : TickFlush(s)

LinkStep ==
  \/ Connect \/ TakeMessage \/ WriteMessage \/ WriteFails \/ LinkBreaks

VerdictStep == TakeVerdict \/ LookupSession \/ WriteControl

Next ==
  \/ \E c \in Conns :
       \/ Dial(c) \/ ClientGone(c) \/ StoreFails(c) \/ HandlerStep(c)
       \/ \E kind \in Kinds : ReadFrame(c, kind)
  \/ TickerStep \/ LinkStep \/ VerdictStep
  \/ \E s \in Sessions : ReceiveVerdict(s)

Spec == Init /\ [][Next]_vars

(* The handlers and the ticker keep running.  The processor may be absent  *)
(* or hang for ever, and nothing is assumed of the clients or the disk.    *)
FairSpec ==
  /\ Spec
  /\ \A c \in Conns : WF_vars(HandlerStep(c))
  /\ WF_vars(TickerStep)

-----------------------------------------------------------------------------
(* The state stays well typed; batches stay below the size that sends them *)
(* and the channels within their capacity.                                 *)
TypeOK ==
  /\ open \subseteq Conns /\ named \subseteq Conns
  /\ connPc \in [Conns -> {"new", "read", "register", "lock", "store",
                           "endBatch", "count", "purge", "restore", "end",
                           "unregister", "closed"}]
  /\ frame \in [Conns -> Kinds \cup {None}]
  /\ frames \in 0..MaxFrames
  /\ sessions \in [Sessions -> Conns \cup {None}]
  /\ infoStored \subseteq Sessions /\ flushing \subseteq Sessions
  /\ batches \in [Sessions -> Seq(Nat)]
  /\ \A s \in Sessions : Len(batches[s]) < MaxBatch
  /\ sendCh \in Seq(Message) /\ Len(sendCh) <= QueueSize
  /\ left \in [Conns -> 0..QueueSize]
  /\ kept \in [Conns -> Seq(Message)]
  /\ link \in {"down", "up"} /\ writing \in Message \cup {None}
  /\ verdictCh \in Seq(Sessions) /\ Len(verdictCh) <= VerdictSize
  /\ handling \in Sessions \cup {None} /\ target \in Conns \cup {None}
  /\ verdicts \in 0..MaxVerdicts
  /\ nextId \in Nat
  /\ lost \subseteq Nat /\ restored \subseteq Nat
  /\ written \in Seq(Message)
  /\ stale \subseteq Sessions /\ missed \subseteq Sessions

(***************************************************************************)
(* Every event the collector passed on is in exactly one place: in a batch,*)
(* in the channel, in the hands of a purge or of the writer, at the        *)
(* processor, or dropped with a log line.  So nothing is sent twice and    *)
(* nothing vanishes, although purges take messages of other sessions out   *)
(* of the channel and put them back while everybody keeps sending.         *)
(***************************************************************************)
InBatch(id) == {<<"batch", s>> : s \in {s \in Sessions : id \in Range(batches[s])}}
InQueue(id) ==
  {<<"queue", k>> : k \in {k \in DOMAIN sendCh : id \in Range(sendCh[k].ids)}}
InPurge(id) ==
  UNION {{<<"purge", c, k>> :
            k \in {k \in DOMAIN kept[c] : id \in Range(kept[c][k].ids)}} : c \in Conns}
InWriter(id) ==
  {<<"writer">> : x \in {x \in {writing} : x # None /\ id \in Range(x.ids)}}
InWritten(id) ==
  {<<"written", k>> : k \in {k \in DOMAIN written : id \in Range(written[k].ids)}}
InLost(id) == {<<"lost">> : x \in {x \in {id} : x \in lost}}
Places(id) ==
  InBatch(id) \cup InQueue(id) \cup InPurge(id) \cup InWriter(id)
    \cup InWritten(id) \cup InLost(id)
EventsAccounted == \A id \in 1..(nextId - 1) : Cardinality(Places(id)) = 1

(***************************************************************************)
(* The processor receives the messages of a session in the order in which  *)
(* their events were stored, except that code and the like may overtake    *)
(* launches that wait in the batch; so a launch never comes before the     *)
(* code it runs.  Only events that a purge of another session had put back *)
(* into the channel may be late.                                           *)
(***************************************************************************)
Increasing(m1, m2) ==
  \A a \in Range(m1.ids), b \in Range(m2.ids) : a < b
MayOvertake(m1, m2) ==
  m1.type \in {"process_info", "code", "stats"} /\ m2.type = "launches"
Kept(m) == Range(m.ids) \cap restored = {}
OrderUnlessRestored ==
  \A k, l \in DOMAIN written :
    /\ k < l /\ written[k].sess = written[l].sess
    /\ Kept(written[k]) /\ Kept(written[l])
    /\ written[k].type # "session_end"
    => \/ MayOvertake(written[k], written[l])
       \/ Increasing(written[k], written[l])

(***************************************************************************)
(* Nothing of a session that had a single connection reaches the processor *)
(* after its session_end, unless a purge of another session put it back.   *)
(***************************************************************************)
NeverReconnects(s) ==
  \A c, d \in Conns : /\ Owner[c] = s /\ connPc[c] # "new"
                       /\ Owner[d] = s /\ connPc[d] # "new" => c = d
EndIsLast ==
  \A k, l \in DOMAIN written :
    /\ k < l /\ written[k].sess = written[l].sess
    /\ written[k].type = "session_end"
    /\ NeverReconnects(written[k].sess)
    => ~Kept(written[l])

(***************************************************************************)
(* analysis/README.md:108: whatever happens to the processor, "the         *)
(* collector continues storing captures": a frame that was read is stored, *)
(* or the disk refuses it, although the processor hangs or is absent.      *)
(***************************************************************************)
StoringContinues ==
  \A c \in Conns : (frame[c] # None) ~> (frame[c] = None)

(***************************************************************************)
(* The clean-up of a connection ends, although it waits for both locks,    *)
(* works through a channel that others keep filling, and the processor may *)
(* never read from it.                                                     *)
(***************************************************************************)
CleanupEnds ==
  \A c \in Conns : (connPc[c] # "new" /\ c \notin open) ~> (connPc[c] = "closed")

(***************************************************************************)
(* So a processor that hangs or is absent holds up no connection: neither  *)
(* while its process lives, nor when it ends.                              *)
(***************************************************************************)
ProcessorNeverBlocks == StoringContinues /\ CleanupEnds

(***************************************************************************)
(* A verdict misses a client that is connected and has introduced itself   *)
(* only after a frame that an earlier connection of the client had left    *)
(* behind was handled after the new connection's first frame.              *)
(***************************************************************************)
VerdictFindsClientUnlessStale == missed \subseteq stale

(***************************************************************************)
(* paper/body.tex:225: grouping by stream "preserves CUDA launch order     *)
(* within a workload".  The launches of a session do not always reach the  *)
(* processor in the order in which the collector stored them.              *)
(***************************************************************************)
LaunchOrderPreserved ==
  \A k, l \in DOMAIN written :
    /\ k < l /\ written[k].sess = written[l].sess
    /\ written[k].type = "launches" /\ written[l].type = "launches"
    => Increasing(written[k], written[l])
=============================================================================
