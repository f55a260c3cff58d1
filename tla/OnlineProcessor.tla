--------------------------- MODULE OnlineProcessor ---------------------------
(***************************************************************************)
(* The online processor (online/sassguard_online/processor.py): reader     *)
(* threads, one per collector connection, the single event worker that     *)
(* handles frames in arrival order, the pool of inference workers, and the *)
(* per-session policy state they all update under one lock.                *)
(*                                                                         *)
(* Each region of the code that holds self.lock is one action, except the  *)
(* loop of _release_ordered_policy_verdicts_locked, whose iterations are   *)
(* actions taken while the lock is held (pc "release").  What a launch     *)
(* batch makes of the window scheduler is a number of finished windows     *)
(* (module L0Windows has the scheduler); what the classifier makes of a    *)
(* window is a score or a failure.                                         *)
(*                                                                         *)
(* The outbox list is kept as one queue per session: nothing in the code   *)
(* depends on how the verdicts of two sessions interleave in it.           *)
(***************************************************************************)
EXTENDS Integers, Sequences, FiniteSets, Functions, RollingPolicy

CONSTANTS
  Sessions,       \* client sessions
  Conns,          \* collector connections, each with its reader thread
  Workers,        \* threads of the inference executor
  EventWorker,    \* the one thread of the event executor
  Scores,         \* mining probabilities of a window, in percent
  None,           \* Python's None
  Unknown,        \* outcome of an inference that is not over
  MaxWindows,     \* bound: windows the scheduler emits per session
  BatchWindows,   \* bound: windows one launch batch completes
  MaxFrames       \* bound: frames the connections receive

ASSUME ThreadsAssumption == EventWorker \notin Workers
ASSUME ScoresAssumption ==
  Scores \subseteq Nat /\ None \notin Scores /\ Unknown \notin Scores \cup {None}
ASSUME BoundsAssumption ==
  /\ MaxWindows \in Nat /\ BatchWindows \in Nat /\ MaxFrames \in Nat

Threads == Workers \cup {EventWorker}
Windows == 0..(MaxWindows - 1)
Actions == {"log", "terminate"}
Verdict == [sess : Sessions, win : Nat, score : Scores, action : Actions]
Message == [type : {"launches", "session_end", "other"}, sess : Sessions]
FutureStates == {"none", "queued", "running", "done", "cancelled"}
Future  == [state : FutureStates, attached : BOOLEAN,
            outcome : Scores \cup {None}]
ControlPoints == {"idle", "launches", "submit", "attach", "check", "predict",
                  "finish", "release", "enqueue"}

VARIABLES
  inbox,       \* frames submitted to the event executor, not yet handled
  known,       \* sessions present in self.sessions
  active,      \* SessionState.active
  produced,    \* windows emitted so far by the session's scheduler
  todo,        \* windows of the current batch the event worker must submit
  fut,         \* the inference future of each window
  jobs,        \* queue of the inference executor
  pc, job,     \* control point of a thread, the window it works for
  resp,        \* ready_responses of a thread
  terminal,    \* emitted_terminal_verdict
  nextIndex,   \* next_policy_window_index
  pending,     \* pending_policy_verdicts (None: no entry)
  skipped,     \* skipped_policy_window_indices
  rolling,     \* rolling_mining_probabilities
  outbox,      \* verdicts queued for the collector
  connPc, held, frame,  \* reader threads: control point, verdict, frame
  frames,      \* frames received so far (bounded by MaxFrames)
  released,    \* history: verdicts in the order the policy released them
  sent         \* history: verdicts written to a connection

feedVars   == <<inbox, known, active, produced>>
policyVars == <<terminal, nextIndex, pending, skipped, rolling, released>>
threadVars == <<pc, job, resp>>
connVars   == <<connPc, held, frame, frames, sent>>
coreVars   == <<feedVars, todo, fut, jobs, threadVars, policyVars>>
vars == <<coreVars, outbox, connVars>>

LockFree == \A t \in Threads : pc[t] # "release"

Init ==
  /\ inbox = <<>>
  /\ known = {}
  /\ active = [s \in Sessions |-> TRUE]
  /\ produced = [s \in Sessions |-> 0]
  /\ todo = 0
  /\ fut = [s \in Sessions |-> [i \in Windows |->
              [state |-> "none", attached |-> FALSE, outcome |-> None]]]
  /\ jobs = <<>>
  /\ pc = [t \in Threads |-> "idle"]
  /\ job = [t \in Threads |-> None]
  /\ resp = [t \in Threads |-> <<>>]
  /\ terminal = [s \in Sessions |-> FALSE]
  /\ nextIndex = [s \in Sessions |-> 0]
  /\ pending = [s \in Sessions |-> [i \in Windows |-> None]]
  /\ skipped = [s \in Sessions |-> {}]
  /\ rolling = [s \in Sessions |-> <<>>]
  /\ outbox = [s \in Sessions |-> <<>>]
  /\ connPc = [c \in Conns |-> "new"]
  /\ held = [c \in Conns |-> None]
  /\ frame = [c \in Conns |-> None]
  /\ frames = 0
  /\ released = [s \in Sessions |-> <<>>]
  /\ sent = [s \in Sessions |-> <<>>]

-----------------------------------------------------------------------------
(* Session end, _mark_session_ended: the first call for a known session    *)
(* deactivates it, cancels the futures no worker has started and drops the *)
(* queued verdicts.                                                        *)
MarkEnded(s) ==
  IF s \in known /\ active[s]
  THEN /\ active' = [active EXCEPT ![s] = FALSE]
       /\ fut' = [fut EXCEPT ![s] = [i \in Windows |->
                    IF @[i].state = "queued"
                    THEN [@[i] EXCEPT !.state = "cancelled"]
                    ELSE @[i]]]
       /\ outbox' = [outbox EXCEPT ![s] = <<>>]
  ELSE UNCHANGED <<active, fut, outbox>>

(***************************************************************************)
(* Reader threads: _handle_conn and _drain_outbox.                         *)
(***************************************************************************)
Accept(c) ==
  /\ connPc[c] = "new"
  /\ connPc' = [connPc EXCEPT ![c] = "drain"]
  /\ UNCHANGED <<coreVars, outbox, held, frame, frames, sent>>

DrainPeek(c, s) ==
  /\ connPc[c] = "drain" /\ LockFree
  /\ outbox[s] # <<>>
  /\ held' = [held EXCEPT ![c] = Head(outbox[s])]
  /\ connPc' = [connPc EXCEPT ![c] = "send"]
  /\ UNCHANGED <<coreVars, outbox, frame, frames, sent>>

DrainDone(c) ==
  /\ connPc[c] = "drain" /\ LockFree
  /\ \A s \in Sessions : outbox[s] = <<>>
  /\ connPc' = [connPc EXCEPT ![c] = "recv"]
  /\ UNCHANGED <<coreVars, outbox, held, frame, frames, sent>>

(* send_frame succeeds, or raises because the collector closed the stream. *)
SendResponse(c) ==
  /\ connPc[c] = "send"
  /\ sent' = [sent EXCEPT ![held[c].sess] = Append(@, held[c])]
  /\ connPc' = [connPc EXCEPT ![c] = "pop"]
  /\ UNCHANGED <<coreVars, outbox, held, frame, frames>>

PopBlindly(q, v) == IF q # <<>> THEN Tail(q) ELSE q   \* faulty

(* The outbox without the verdict: pop(0), or remove of its first entry.   *)
PopOutbox(q, v) ==
  IF \E k \in DOMAIN q : q[k] = v
  THEN [k \in 1..(Len(q) - 1) |->
          IF \E j \in 1..k : q[j] = v THEN q[k + 1] ELSE q[k]]
  ELSE q

DrainPop(c) ==
  /\ connPc[c] = "pop" /\ LockFree
  /\ outbox' = [outbox EXCEPT ![held[c].sess] = PopOutbox(@, held[c])]
  /\ held' = [held EXCEPT ![c] = None]
  /\ connPc' = [connPc EXCEPT ![c] = "drain"]
  /\ UNCHANGED <<coreVars, frame, frames, sent>>

(* recv_frame returns a frame; a session_end is acted on at once.          *)
Receive(c, m) ==
  /\ connPc[c] = "recv" /\ frames < MaxFrames
  /\ frames' = frames + 1
  /\ frame' = [frame EXCEPT ![c] = m]
  /\ connPc' = [connPc EXCEPT ![c] =
                  IF m.type = "session_end" THEN "mark" ELSE "submit"]
  /\ UNCHANGED <<coreVars, outbox, held, sent>>

MarkEarly(c) ==
  /\ connPc[c] = "mark" /\ LockFree
  /\ MarkEnded(frame[c].sess)
  /\ connPc' = [connPc EXCEPT ![c] = "submit"]
  /\ UNCHANGED <<inbox, known, produced, todo, jobs, threadVars, policyVars,
                 held, frame, frames, sent>>

SubmitFrame(c) ==
  /\ connPc[c] = "submit"
  /\ inbox' = Append(inbox, frame[c])
  /\ frame' = [frame EXCEPT ![c] = None]
  /\ connPc' = [connPc EXCEPT ![c] = "drain"]
  /\ UNCHANGED <<known, active, produced, todo, fut, jobs, threadVars,
                 policyVars, outbox, held, frames, sent>>

(* The socket read times out and the loop starts over.                     *)
ReceiveTimeout(c) ==
  /\ connPc[c] = "recv"
  /\ connPc' = [connPc EXCEPT ![c] = "drain"]
  /\ UNCHANGED <<coreVars, outbox, held, frame, frames, sent>>

(* The collector is gone: the send or the read fails, the thread returns.  *)
Disconnect(c) ==
  /\ connPc[c] \in {"send", "recv"}
  /\ connPc' = [connPc EXCEPT ![c] = "closed"]
  /\ held' = [held EXCEPT ![c] = None]
  /\ UNCHANGED <<coreVars, outbox, frame, frames, sent>>

(***************************************************************************)
(* The event worker: handle_message and _handle_launches.                  *)
(***************************************************************************)
TakeFrame ==
  /\ pc[EventWorker] = "idle" /\ LockFree
  /\ inbox # <<>>
  /\ LET m == Head(inbox) IN
       \/ /\ m.type = "session_end"
          /\ MarkEnded(m.sess)
          /\ UNCHANGED <<known, threadVars>>
       \/ /\ m.type = "other"
          /\ known' = known \cup {m.sess}
          /\ UNCHANGED <<active, fut, outbox, threadVars>>
       \/ /\ m.type = "launches"
          /\ known' = known \cup {m.sess}
          /\ IF active[m.sess]
             THEN /\ pc' = [pc EXCEPT ![EventWorker] = "launches"]
                  /\ job' = [job EXCEPT ![EventWorker] = <<m.sess, 0>>]
             ELSE UNCHANGED <<pc, job>>
          /\ UNCHANGED <<active, fut, outbox, resp>>
  /\ inbox' = Tail(inbox)
  /\ UNCHANGED <<produced, todo, jobs, policyVars, connVars>>

(* The batch runs through the scheduler, which emits n windows.            *)
HandleLaunches(n) ==
  LET s == job[EventWorker][1] IN
  /\ pc[EventWorker] = "launches" /\ LockFree
  /\ produced[s] + n <= MaxWindows
  /\ IF active[s] /\ n > 0
     THEN /\ produced' = [produced EXCEPT ![s] = @ + n]
          /\ todo' = n
          /\ job' = [job EXCEPT ![EventWorker] = <<s, produced[s]>>]
          /\ pc' = [pc EXCEPT ![EventWorker] = "submit"]
     ELSE /\ pc' = [pc EXCEPT ![EventWorker] = "idle"]
          /\ job' = [job EXCEPT ![EventWorker] = None]
          /\ UNCHANGED <<produced, todo>>
  /\ UNCHANGED <<inbox, known, active, fut, jobs, resp, policyVars, outbox,
                 connVars>>

(* Where a thread goes when its callback is done: a worker takes another   *)
(* job, the event worker goes on to the next window of its batch.          *)
LeaveLate(t) ==   \* faulty: goes on after the last window of the batch
  /\ resp' = [resp EXCEPT ![t] = <<>>]
  /\ todo' = IF t = EventWorker THEN todo - 1 ELSE todo
  /\ pc' = [pc EXCEPT ![t] =
              IF t = EventWorker /\ todo >= 1 THEN "submit" ELSE "idle"]
  /\ UNCHANGED job
Leave(t) ==
  /\ resp' = [resp EXCEPT ![t] = <<>>]
  /\ IF t = EventWorker
     THEN /\ todo' = todo - 1
          /\ pc' = [pc EXCEPT ![t] = IF todo > 1 THEN "submit" ELSE "idle"]
          /\ job' = [job EXCEPT ![t] =
                       IF todo > 1 THEN <<@[1], @[2] + 1>> ELSE None]
     ELSE /\ pc' = [pc EXCEPT ![t] = "idle"]
          /\ job' = [job EXCEPT ![t] = None]
          /\ UNCHANGED todo

SubmitWindow ==
  LET s == job[EventWorker][1]
      i == job[EventWorker][2] IN
  /\ pc[EventWorker] = "submit" /\ LockFree
  /\ IF active[s] /\ ~terminal[s]
     THEN /\ fut' = [fut EXCEPT ![s][i].state = "queued"]
          /\ jobs' = Append(jobs, <<s, i>>)
          /\ pc' = [pc EXCEPT ![EventWorker] = "attach"]
          /\ UNCHANGED <<todo, job, resp>>
     ELSE /\ Leave(EventWorker)
          /\ UNCHANGED <<fut, jobs>>
  /\ UNCHANGED <<feedVars, policyVars, outbox, connVars>>

(* add_done_callback, outside the lock: a future that already finished     *)
(* runs the callback in the event worker itself.                           *)
AttachCallback ==
  LET s == job[EventWorker][1]
      i == job[EventWorker][2] IN
  /\ pc[EventWorker] = "attach"
  /\ IF fut[s][i].state \in {"done", "cancelled"}
     THEN /\ pc' = [pc EXCEPT ![EventWorker] = "finish"]
          /\ UNCHANGED <<fut, todo, job, resp>>
     ELSE /\ fut' = [fut EXCEPT ![s][i].attached = TRUE]
          /\ Leave(EventWorker)
  /\ UNCHANGED <<feedVars, jobs, policyVars, outbox, connVars>>

(***************************************************************************)
(* Inference workers: _run_l1_for_session and _run_l1.                     *)
(***************************************************************************)
StartJob(w) ==
  /\ pc[w] = "idle" /\ jobs # <<>>
  /\ LET s == Head(jobs)[1]
         i == Head(jobs)[2] IN
       IF fut[s][i].state = "cancelled"
       THEN UNCHANGED <<fut, pc, job>>
       ELSE /\ fut' = [fut EXCEPT ![s][i].state = "running"]
            /\ pc' = [pc EXCEPT ![w] = "check"]
            /\ job' = [job EXCEPT ![w] = Head(jobs)]
  /\ jobs' = Tail(jobs)
  /\ UNCHANGED <<feedVars, todo, resp, policyVars, outbox, connVars>>

(* The future of window i resolves; its callback runs in this thread if it *)
(* is already attached.                                                    *)
Resolve(w, out) ==
  LET s == job[w][1]
      i == job[w][2] IN
  /\ fut' = [fut EXCEPT ![s][i].state = "done", ![s][i].outcome = out]
  /\ IF fut[s][i].attached
     THEN /\ pc' = [pc EXCEPT ![w] = "finish"]
          /\ UNCHANGED job
     ELSE /\ pc' = [pc EXCEPT ![w] = "idle"]
          /\ job' = [job EXCEPT ![w] = None]
  /\ UNCHANGED resp

CheckActive(w) ==
  /\ pc[w] = "check" /\ LockFree
  /\ IF active[job[w][1]]
     THEN /\ pc' = [pc EXCEPT ![w] = "predict"]
          /\ UNCHANGED <<fut, job, resp>>
     ELSE Resolve(w, None)
  /\ UNCHANGED <<feedVars, todo, jobs, policyVars, outbox, connVars>>

(* Rendering and classification give a score, or fail and give None.       *)
Predict(w, out) ==
  /\ pc[w] = "predict"
  /\ Resolve(w, out)
  /\ UNCHANGED <<feedVars, todo, jobs, policyVars, outbox, connVars>>

(***************************************************************************)
(* _finish_l1 and _skip_policy_window, up to the release loop.             *)
(***************************************************************************)
AlwaysLive(s) == TRUE             \* faulty: a late result is accepted
SessionLive(s) == active[s]

SkipForgotten(s, i) == skipped[s] \* faulty: a failed window leaves a gap
WithSkipped(s, i) == skipped[s] \cup {i}

FinishL1(t) ==
  LET s == job[t][1]
      i == job[t][2]
      out == fut[s][i].outcome IN
  /\ pc[t] = "finish" /\ LockFree
  /\ IF ~SessionLive(s)
     THEN Leave(t) /\ UNCHANGED <<pending, skipped>>
     ELSE /\ IF out = None
             THEN /\ skipped' = [skipped EXCEPT ![s] = WithSkipped(s, i)]
                  /\ UNCHANGED pending
             ELSE /\ pending' = [pending EXCEPT ![s][i] = out]
                  /\ UNCHANGED skipped
          /\ pc' = [pc EXCEPT ![t] = "release"]
          /\ UNCHANGED <<job, resp, todo>>
  /\ UNCHANGED <<feedVars, fut, jobs, terminal, nextIndex, rolling, released,
                 outbox, connVars>>

(***************************************************************************)
(* _release_ordered_policy_verdicts_locked, one iteration per action.      *)
(***************************************************************************)
PendingAt(s, i) == IF i \in Windows THEN pending[s][i] ELSE None

SkipsAny(s) == skipped[s] # {}   \* faulty: any failed window is the next one
SkipsNext(s) == nextIndex[s] \in skipped[s]

ReleaseSkip(t) ==
  LET s == job[t][1] IN
  /\ pc[t] = "release"
  /\ SkipsNext(s)
  /\ skipped' = [skipped EXCEPT ![s] = @ \ {nextIndex[s]}]
  /\ nextIndex' = [nextIndex EXCEPT ![s] = @ + 1]
  /\ UNCHANGED <<feedVars, todo, fut, jobs, threadVars, terminal, pending,
                 rolling, released, outbox, connVars>>

NeverDiscards(s) == FALSE   \* faulty: verdicts go on after a termination
Discards(s) == terminal[s]

ReleaseDiscard(t) ==
  LET s == job[t][1] IN
  /\ pc[t] = "release"
  /\ ~SkipsNext(s)
  /\ PendingAt(s, nextIndex[s]) # None
  /\ Discards(s)
  /\ pending' = [pending EXCEPT ![s][nextIndex[s]] = None]
  /\ nextIndex' = [nextIndex EXCEPT ![s] = @ + 1]
  /\ UNCHANGED <<feedVars, todo, fut, jobs, threadVars, terminal, skipped,
                 rolling, released, outbox, connVars>>

(* _apply_online_verdict_policy on the next verdict, and its release.  A   *)
(* terminating verdict empties the waiting room and stops the loop.        *)
ReleaseVerdict(t) ==
  LET s == job[t][1]
      i == nextIndex[s]
      scores == Remember(rolling[s], PendingAt(s, i))
      stop == Suspicious(scores)
      v == [sess |-> s, win |-> i, score |-> PendingAt(s, i),
            action |-> IF stop THEN "terminate" ELSE "log"] IN
  /\ pc[t] = "release"
  /\ ~SkipsNext(s)
  /\ PendingAt(s, i) # None
  /\ ~Discards(s)
  /\ rolling' = [rolling EXCEPT ![s] = scores]
  /\ released' = [released EXCEPT ![s] = Append(@, v)]
  /\ resp' = [resp EXCEPT ![t] = Append(@, v)]
  /\ nextIndex' = [nextIndex EXCEPT ![s] = @ + 1]
  /\ terminal' = [terminal EXCEPT ![s] = stop]
  /\ IF stop
     THEN /\ pending' = [pending EXCEPT ![s] = [k \in Windows |-> None]]
          /\ skipped' = [skipped EXCEPT ![s] = {}]
          /\ pc' = [pc EXCEPT ![t] = "enqueue"]
     ELSE /\ pending' = [pending EXCEPT ![s][i] = None]
          /\ UNCHANGED <<skipped, pc>>
  /\ UNCHANGED <<feedVars, todo, fut, jobs, job, outbox, connVars>>

(* faulty: verdicts that only log are not queued                           *)
TerminateReady(t) == \E k \in DOMAIN resp[t] : resp[t][k].action = "terminate"
ResponsesReady(t) == resp[t] # <<>>

(* Nothing more is ready: the lock is released.                            *)
ReleaseStop(t) ==
  LET s == job[t][1] IN
  /\ pc[t] = "release"
  /\ ~SkipsNext(s)
  /\ PendingAt(s, nextIndex[s]) = None
  /\ IF ResponsesReady(t)
     THEN /\ pc' = [pc EXCEPT ![t] = "enqueue"]
          /\ UNCHANGED <<todo, job, resp>>
     ELSE Leave(t)
  /\ UNCHANGED <<feedVars, fut, jobs, policyVars, outbox, connVars>>

(* _enqueue_responses takes the lock again.                                *)
EnqueueResponses(t) ==
  /\ pc[t] = "enqueue" /\ LockFree
  /\ outbox' = [outbox EXCEPT ![job[t][1]] = @ \o resp[t]]
  /\ Leave(t)
  /\ UNCHANGED <<feedVars, fut, jobs, policyVars, connVars>>

-----------------------------------------------------------------------------
ReaderStep(c) ==
  \/ \E s \in Sessions : DrainPeek(c, s)
  \/ DrainDone(c) \/ SendResponse(c) \/ DrainPop(c)
  \/ MarkEarly(c) \/ SubmitFrame(c) \/ ReceiveTimeout(c)

Callback(t) ==
  \/ FinishL1(t)
  \/ ReleaseSkip(t) \/ ReleaseDiscard(t) \/ ReleaseVerdict(t) \/ ReleaseStop(t)
  \/ EnqueueResponses(t)

EventStep ==
  \/ TakeFrame
  \/ \E n \in 0..BatchWindows : HandleLaunches(n)
  \/ SubmitWindow \/ AttachCallback
  \/ Callback(EventWorker)

WorkerStep(w) ==
  \/ StartJob(w) \/ CheckActive(w)
  \/ \E out \in Scores \cup {None} : Predict(w, out)
  \/ Callback(w)

Next ==
  \/ \E c \in Conns :
       \/ Accept(c) \/ Disconnect(c) \/ ReaderStep(c)
       \/ \E m \in Message : Receive(c, m)
  \/ EventStep
  \/ \E w \in Workers : WorkerStep(w)

Spec == Init /\ [][Next]_vars

(***************************************************************************)
(* Every thread of the program keeps running; frames and disconnections    *)
(* are the collector's and are not assumed.  A reader whose socket is      *)
(* silent gets a timeout (transport.read_timeout_ms).                      *)
(***************************************************************************)
Fairness ==
  /\ \A c \in Conns : WF_vars(ReaderStep(c))
  /\ WF_vars(EventStep)
  /\ \A w \in Workers : WF_vars(WorkerStep(w))

FairSpec == Spec /\ Fairness

-----------------------------------------------------------------------------
(* Types of the state: what readers hold, what sessions have, what threads *)
(* are doing, and the state of the policy.                                 *)
ReadersType ==
  /\ inbox \in Seq(Message)
  /\ connPc \in [Conns -> {"new", "drain", "send", "pop", "recv", "mark",
                           "submit", "closed"}]
  /\ held \in [Conns -> Verdict \cup {None}]
  /\ frame \in [Conns -> Message \cup {None}]
  /\ frames \in 0..MaxFrames

SessionsType ==
  /\ known \subseteq Sessions
  /\ active \in [Sessions -> BOOLEAN]
  /\ produced \in [Sessions -> 0..MaxWindows]
  /\ outbox \in [Sessions -> Seq(Verdict)]
  /\ sent \in [Sessions -> Seq(Verdict)]

ThreadsType ==
  /\ todo \in 0..MaxWindows
  /\ fut \in [Sessions -> [Windows -> Future]]
  /\ jobs \in Seq(Sessions \X Windows)
  /\ pc \in [Threads -> ControlPoints]
  /\ job \in [Threads -> (Sessions \X Nat) \cup {None}]
  /\ resp \in [Threads -> Seq(Verdict)]

PolicyType ==
  /\ terminal \in [Sessions -> BOOLEAN]
  /\ nextIndex \in [Sessions -> Nat]
  /\ pending \in [Sessions -> [Windows -> Scores \cup {None}]]
  /\ skipped \in [Sessions -> SUBSET Windows]
  /\ rolling \in [Sessions -> Seq(Scores)]
  /\ released \in [Sessions -> Seq(Verdict)]

(* The state stays well typed.                                             *)
TypeOK == ReadersType /\ SessionsType /\ ThreadsType /\ PolicyType

(***************************************************************************)
(* Verdicts leave the policy in window order although workers finish out   *)
(* of order: a window is passed only when its inference is over, and the   *)
(* windows passed are exactly the ones released, the failed ones, and the  *)
(* ones after a terminating verdict.                                       *)
(***************************************************************************)
ReleasedInWindowOrder ==
  \A s \in Sessions :
    /\ \A k, l \in DOMAIN released[s] :
         k < l => released[s][k].win < released[s][l].win
    /\ \A k \in DOMAIN released[s] :
         /\ released[s][k].win < nextIndex[s]
         /\ released[s][k].score = fut[s][released[s][k].win].outcome
    /\ \A i \in Windows : i < nextIndex[s] =>
         /\ fut[s][i].state = "done"
         /\ \/ fut[s][i].outcome = None
            \/ terminal[s]
            \/ \E k \in DOMAIN released[s] : released[s][k].win = i

(***************************************************************************)
(* Each decision is the rolling policy applied to the scores released so   *)
(* far, so it depends on the windows and not on the order in which the     *)
(* workers finished them.                                                  *)
(***************************************************************************)
DecisionsFollowPolicy ==
  \A s \in Sessions : \A k \in DOMAIN released[s] :
    LET seen == LastScores(ScoresOf(SubSeq(released[s], 1, k))) IN
    (released[s][k].action = "terminate") <=> Suspicious(seen)

(* A terminating verdict is the last one a session's policy releases.      *)
TerminateOnce ==
  \A s \in Sessions : \A k \in DOMAIN released[s] :
    released[s][k].action = "terminate" => k = Len(released[s]) /\ terminal[s]

(***************************************************************************)
(* Once a session has ended its policy state is frozen, whatever futures   *)
(* were still running, and the session never becomes active again.         *)
(***************************************************************************)
EndedSessionFrozen ==
  [][\A s \in Sessions : ~active[s] =>
       /\ ~active'[s]
       /\ released'[s] = released[s]
       /\ rolling'[s] = rolling[s]
       /\ nextIndex'[s] = nextIndex[s]]_vars

(***************************************************************************)
(* A released verdict of a live session is never lost inside the processor:*)
(* it has been written to a connection, it is queued, or the thread that   *)
(* released it is about to queue it.  Several reader threads may pop.      *)
(***************************************************************************)
NoVerdictLost ==
  \A s \in Sessions : active[s] =>
    \A k \in DOMAIN released[s] :
      \/ released[s][k] \in Range(sent[s])
      \/ released[s][k] \in Range(outbox[s])
      \/ \E t \in Threads : released[s][k] \in Range(resp[t])

(***************************************************************************)
(* No gap stalls the policy: every window whose inference was submitted is *)
(* passed, unless the session ends or is terminated first.                 *)
(***************************************************************************)
WindowsResolve ==
  \A s \in Sessions : \A i \in Windows :
    (fut[s][i].state = "queued")
      ~> (nextIndex[s] > i \/ terminal[s] \/ ~active[s])

(***************************************************************************)
(* While a connection stays open, a verdict the policy released is written *)
(* to a connection, unless its session ends first.                         *)
(***************************************************************************)
VerdictsDelivered ==
  \A s \in Sessions : \A k \in 1..MaxWindows :
    (k \in DOMAIN released[s])
      ~> \/ k \in DOMAIN released[s] /\ released[s][k] \in Range(sent[s])
         \/ ~active[s]
         \/ \A c \in Conns : connPc[c] \in {"new", "closed"}

(***************************************************************************)
(* The processor implements VerdictStream: a future that resolves settles  *)
(* its window, a release emits a verdict, every other step stutters.       *)
(***************************************************************************)
Stream == INSTANCE VerdictStream WITH
  outcome  <- [s \in Sessions |-> [i \in Windows |->
                 IF fut[s][i].state = "done"
                 THEN fut[s][i].outcome ELSE Unknown]],
  verdicts <- released,
  ended    <- [s \in Sessions |-> ~active[s]]

ImplementsVerdictStream == Stream!Spec

(***************************************************************************)
(* analysis/README.md:110: when the client is gone the processor "drops    *)
(* unsent verdicts".  A verdict released before the session ended but      *)
(* queued after it stays in the outbox and is sent.                        *)
(***************************************************************************)
EndedSessionQueuesNothing ==
  \A s \in Sessions : ~active[s] => outbox[s] = <<>>

=============================================================================
