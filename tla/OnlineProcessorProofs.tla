------------------------ MODULE OnlineProcessorProofs ------------------------
(***************************************************************************)
(* Theorems about OnlineProcessor, for every value of its constants.       *)
(***************************************************************************)
EXTENDS OnlineProcessor, SequenceTheorems, TLAPS

(* What the control points say about the variables of their thread: which  *)
(* frame or verdict a reader holds, and which window a thread works for.   *)
ReaderControl ==
  \A c \in Conns :
    /\ connPc[c] \in {"mark", "submit"} => frame[c] \in Message
    /\ connPc[c] \in {"send", "pop"} => held[c] \in Verdict

Busy == {"submit", "attach", "check", "predict", "finish", "release",
         "enqueue"}

ThreadControl ==
  /\ \A t \in Threads :
       /\ pc[t] \in Busy => job[t] \in Sessions \X Windows
       /\ pc[t] = "launches" => job[t] \in Sessions \X Nat
  /\ \A w \in Workers : pc[w] \notin {"launches", "submit", "attach"}
  /\ pc[EventWorker] \notin {"check", "predict"}
  /\ pc[EventWorker] \in Busy =>
       /\ todo >= 1
       /\ job[EventWorker][2] + todo = produced[job[EventWorker][1]]

Typed == TypeOK /\ ReaderControl /\ ThreadControl

-----------------------------------------------------------------------------
(* Trimming keeps a sequence of scores a sequence of scores.               *)
LEMMA LastScoresType ==
  ASSUME NEW S, NEW q \in Seq(S)
  PROVE  LastScores(q) \in Seq(S)
<1>1. CASE Len(q) > RollingCount
  <2>1. SubSeq(q, Len(q) - RollingCount + 1, Len(q)) \in Seq(S)
    BY <1>1, PolicyAssumption, SubSeqProperties
  <2> QED BY <2>1, <1>1 DEF LastScores
<1>2. CASE ~(Len(q) > RollingCount)
  BY <1>2 DEF LastScores
<1> QED BY <1>1, <1>2

(* Replacing one future keeps the table of futures typed.                  *)
LEMMA FutureReplaced ==
  ASSUME NEW g \in [Sessions -> [Windows -> Future]],
         NEW s \in Sessions, NEW i \in Windows, NEW r \in Future
  PROVE  [g EXCEPT ![s][i] = r] \in [Sessions -> [Windows -> Future]]
OBVIOUS

(* So do the updates of a single field that the actions make.              *)
LEMMA FutureUpdated ==
  ASSUME ThreadsType, NEW s \in Sessions, NEW i \in Windows
  PROVE  /\ \A st \in FutureStates :
              /\ [fut EXCEPT ![s][i].state = st]
                   \in [Sessions -> [Windows -> Future]]
              /\ \A out \in Scores \cup {None} :
                   [fut EXCEPT ![s][i].state = st, ![s][i].outcome = out]
                     \in [Sessions -> [Windows -> Future]]
         /\ [fut EXCEPT ![s][i].attached = TRUE]
              \in [Sessions -> [Windows -> Future]]
<1>1. fut[s][i] \in Future /\ fut \in [Sessions -> [Windows -> Future]]
  BY DEF ThreadsType
<1>2. ASSUME NEW st \in FutureStates
      PROVE  [fut EXCEPT ![s][i].state = st]
               \in [Sessions -> [Windows -> Future]]
  <2>1. [fut[s][i] EXCEPT !.state = st] \in Future
    BY <1>1 DEF Future
  <2> QED BY <1>1, <2>1, FutureReplaced
<1>3. ASSUME NEW st \in FutureStates, NEW out \in Scores \cup {None}
      PROVE  [fut EXCEPT ![s][i].state = st, ![s][i].outcome = out]
               \in [Sessions -> [Windows -> Future]]
  <2> DEFINE g == [fut EXCEPT ![s][i].state = st]
  <2>1. g \in [Sessions -> [Windows -> Future]] /\ g[s][i] \in Future
    BY <1>2
  <2>2. [g[s][i] EXCEPT !.outcome = out] \in Future
    BY <2>1 DEF Future
  <2>3. [g EXCEPT ![s][i].outcome = out] \in [Sessions -> [Windows -> Future]]
    BY <2>1, <2>2, FutureReplaced
  <2> QED BY <2>3
<1>4. [fut EXCEPT ![s][i].attached = TRUE]
        \in [Sessions -> [Windows -> Future]]
  <2>1. [fut[s][i] EXCEPT !.attached = TRUE] \in Future
    BY <1>1 DEF Future
  <2> QED BY <1>1, <2>1, FutureReplaced
<1> QED BY <1>2, <1>3, <1>4

(* The initial state is well typed.                                        *)
LEMMA InitTyped == Init => Typed
BY ThreadsAssumption, ScoresAssumption, BoundsAssumption
   DEF Init, Typed, TypeOK, ReadersType, SessionsType, ThreadsType,
       PolicyType, ReaderControl, ThreadControl, Busy, ControlPoints,
       Threads, Windows, Future, FutureStates

-----------------------------------------------------------------------------
(* Ending a session keeps the three variables it touches typed.            *)
LEMMA MarkEndedTyped ==
  ASSUME TypeOK, NEW s \in Sessions, MarkEnded(s)
  PROVE  /\ active' \in [Sessions -> BOOLEAN]
         /\ fut' \in [Sessions -> [Windows -> Future]]
         /\ outbox' \in [Sessions -> Seq(Verdict)]
<1> USE DEF TypeOK, SessionsType, ThreadsType
<1>1. CASE s \in known /\ active[s]
  <2> DEFINE f(i) == IF fut[s][i].state = "queued"
                     THEN [fut[s][i] EXCEPT !.state = "cancelled"]
                     ELSE fut[s][i]
  <2>1. ASSUME NEW i \in Windows
        PROVE  f(i) \in Future
    <3>1. fut[s][i] \in Future
      OBVIOUS
    <3> QED BY <3>1 DEF Future, FutureStates
  <2>2. [i \in Windows |-> f(i)] \in [Windows -> Future]
    BY <2>1
  <2>3. fut' = [fut EXCEPT ![s] = [i \in Windows |-> f(i)]]
    BY <1>1 DEF MarkEnded
  <2>4. fut' \in [Sessions -> [Windows -> Future]]
    BY <2>2, <2>3
  <2>5. /\ active' = [active EXCEPT ![s] = FALSE]
        /\ outbox' = [outbox EXCEPT ![s] = <<>>]
    BY <1>1 DEF MarkEnded
  <2>6. active' \in [Sessions -> BOOLEAN] /\ outbox' \in [Sessions -> Seq(Verdict)]
    BY <2>5
  <2> QED BY <2>4, <2>6
<1>2. CASE ~(s \in known /\ active[s])
  BY <1>2 DEF MarkEnded
<1> QED BY <1>1, <1>2

(* The steps of a reader thread.                                           *)
LEMMA ReaderTyped ==
  ASSUME Typed, NEW c \in Conns,
         \/ Accept(c) \/ Disconnect(c) \/ ReaderStep(c)
         \/ \E m \in Message : Receive(c, m)
  PROVE  Typed'
<1> USE DEF Typed, TypeOK, coreVars, feedVars, threadVars, policyVars
<1>1. CASE Accept(c)
  BY <1>1 DEF Accept, ReadersType, SessionsType, ThreadsType, PolicyType,
              ReaderControl, ThreadControl
<1>2. CASE Disconnect(c)
  BY <1>2 DEF Disconnect, ReadersType, SessionsType, ThreadsType, PolicyType,
              ReaderControl, ThreadControl
<1>3. ASSUME NEW s \in Sessions, DrainPeek(c, s)
      PROVE  Typed'
  <2>1. Head(outbox[s]) \in Verdict
    BY <1>3, HeadTailProperties DEF DrainPeek, SessionsType
  <2> QED
    BY <1>3, <2>1 DEF DrainPeek, ReadersType, SessionsType, ThreadsType,
                      PolicyType, ReaderControl, ThreadControl
<1>4. CASE DrainDone(c)
  BY <1>4 DEF DrainDone, ReadersType, SessionsType, ThreadsType, PolicyType,
              ReaderControl, ThreadControl
<1>5. CASE SendResponse(c)
  <2>1. held[c] \in Verdict /\ held[c].sess \in Sessions
    BY <1>5 DEF SendResponse, ReaderControl, Verdict
  <2>2. sent' \in [Sessions -> Seq(Verdict)]
    BY <1>5, <2>1 DEF SendResponse, SessionsType
  <2> QED
    BY <1>5, <2>1, <2>2 DEF SendResponse, ReadersType, SessionsType,
            ThreadsType, PolicyType, ReaderControl, ThreadControl
<1>6. CASE DrainPop(c)
  <2>1. held[c] \in Verdict /\ held[c].sess \in Sessions
    BY <1>6 DEF DrainPop, ReaderControl, Verdict
  <2>2. PopOutbox(outbox[held[c].sess], held[c]) \in Seq(Verdict)
    <3> DEFINE q == outbox[held[c].sess]
               v == held[c]
               r == [k \in 1..(Len(q) - 1) |->
                       IF \E j \in 1..k : q[j] = v THEN q[k + 1] ELSE q[k]]
    <3>1. q \in Seq(Verdict)
      BY <2>1 DEF SessionsType
    <3>2. CASE \E k \in DOMAIN q : q[k] = v
      <4> HIDE DEF q, v
      <4>1. Len(q) \in Nat \ {0}
        BY <3>1, <3>2
      <4>2. ASSUME NEW k \in 1..(Len(q) - 1)
            PROVE  q[k] \in Verdict /\ q[k + 1] \in Verdict
        BY <3>1, <4>1
      <4>3. r \in Seq(Verdict)
        BY <4>1, <4>2
      <4> QED BY <4>3, <3>2 DEF PopOutbox, q, v
    <3>3. CASE ~ \E k \in DOMAIN q : q[k] = v
      BY <3>1, <3>3 DEF PopOutbox
    <3> QED BY <3>2, <3>3
  <2>3. outbox' \in [Sessions -> Seq(Verdict)]
    BY <1>6, <2>1, <2>2 DEF DrainPop, SessionsType
  <2> QED
    BY <1>6, <2>3 DEF DrainPop, ReadersType, SessionsType, ThreadsType,
                      PolicyType, ReaderControl, ThreadControl
<1>7. CASE MarkEarly(c)
  <2>1. frame[c] \in Message /\ frame[c].sess \in Sessions
    BY <1>7 DEF MarkEarly, ReaderControl, Message
  <2>2. /\ active' \in [Sessions -> BOOLEAN]
        /\ fut' \in [Sessions -> [Windows -> Future]]
        /\ outbox' \in [Sessions -> Seq(Verdict)]
    BY <1>7, <2>1, MarkEndedTyped DEF MarkEarly
  <2> QED
    BY <1>7, <2>1, <2>2 DEF MarkEarly, ReadersType, SessionsType, ThreadsType,
                            PolicyType, ReaderControl, ThreadControl
<1>8. CASE SubmitFrame(c)
  <2>1. inbox' \in Seq(Message)
    BY <1>8 DEF SubmitFrame, ReaderControl, ReadersType
  <2> QED
    BY <1>8, <2>1 DEF SubmitFrame, ReadersType, SessionsType, ThreadsType,
                      PolicyType, ReaderControl, ThreadControl
<1>9. CASE ReceiveTimeout(c)
  BY <1>9 DEF ReceiveTimeout, ReadersType, SessionsType, ThreadsType,
              PolicyType, ReaderControl, ThreadControl
<1>10. ASSUME NEW m \in Message, Receive(c, m)
       PROVE  Typed'
  <2>1. frames' \in 0..MaxFrames
    BY <1>10, BoundsAssumption DEF Receive, ReadersType
  <2> QED
    BY <1>10, <2>1 DEF Receive, ReadersType, SessionsType, ThreadsType,
                       PolicyType, ReaderControl, ThreadControl
<1> QED
  BY <1>1, <1>2, <1>3, <1>4, <1>5, <1>6, <1>7, <1>8, <1>9, <1>10
     DEF ReaderStep

-----------------------------------------------------------------------------
(* A thread that leaves a callback is idle or has another window to submit.*)
LEMMA LeaveTyped ==
  ASSUME Typed, NEW t \in Threads, pc[t] \in Busy, Leave(t),
         UNCHANGED produced
  PROVE  /\ todo' \in 0..MaxWindows
         /\ pc' \in [Threads -> ControlPoints]
         /\ job' \in [Threads -> (Sessions \X Nat) \cup {None}]
         /\ resp' \in [Threads -> Seq(Verdict)]
         /\ ThreadControl'
<1> USE DEF Typed, TypeOK, ThreadsType
<1>1. resp' \in [Threads -> Seq(Verdict)]
  BY DEF Leave
<1>2. CASE t = EventWorker
  <2>1. /\ todo \in 1..MaxWindows /\ job[t] \in Sessions \X Windows
        /\ job[t][2] + todo = produced[job[t][1]]
        /\ produced[job[t][1]] \in 0..MaxWindows
    BY <1>2 DEF ThreadControl, SessionsType
  <2> DEFINE next == IF todo > 1 THEN <<job[t][1], job[t][2] + 1>> ELSE None
             point == IF todo > 1 THEN "submit" ELSE "idle"
  <2>2. /\ todo' = todo - 1
        /\ pc' = [pc EXCEPT ![t] = point]
        /\ job' = [job EXCEPT ![t] = next]
    BY <1>2 DEF Leave
  <2>3. todo > 1 => next \in Sessions \X Windows /\ next \in Sessions \X Nat
    BY <2>1, BoundsAssumption DEF Windows
  <2>4. /\ job' \in [Threads -> (Sessions \X Nat) \cup {None}]
        /\ pc' \in [Threads -> ControlPoints]
        /\ pc'[t] = point /\ job'[t] = next
        /\ \A u \in Threads \ {t} : pc'[u] = pc[u] /\ job'[u] = job[u]
    BY <2>2, <2>3 DEF ControlPoints
  <2>5. todo' \in 0..MaxWindows
    BY <2>1, <2>2, BoundsAssumption
  <2>6. todo > 1 => /\ todo' >= 1
                    /\ next[2] + todo' = produced[next[1]]
    BY <2>1, <2>2, BoundsAssumption DEF Windows
  <2>7. ThreadControl'
    BY <1>2, <2>3, <2>4, <2>6, ThreadsAssumption
       DEF ThreadControl, Busy, Threads
  <2> QED BY <1>1, <2>4, <2>5, <2>7
<1>3. CASE t # EventWorker
  <2>1. /\ pc' = [pc EXCEPT ![t] = "idle"]
        /\ job' = [job EXCEPT ![t] = None]
        /\ todo' = todo
    BY <1>3 DEF Leave
  <2>2. ThreadControl'
    BY <1>3, <2>1 DEF ThreadControl, Busy, Threads
  <2> QED BY <1>1, <2>1, <2>2 DEF ControlPoints
<1> QED BY <1>2, <1>3

(* So does a thread that only moves on with the same window.               *)
LEMMA MoveTyped ==
  ASSUME Typed, NEW t \in Threads, pc[t] \in Busy,
         NEW p \in {"attach", "finish", "release", "enqueue", "predict"},
         p = "attach" => t = EventWorker,
         p = "predict" => t # EventWorker,
         pc' = [pc EXCEPT ![t] = p],
         UNCHANGED <<todo, job, produced>>
  PROVE  /\ pc' \in [Threads -> ControlPoints]
         /\ ThreadControl'
<1> USE DEF Typed, TypeOK, ThreadsType
<1>1. pc' \in [Threads -> ControlPoints]
  BY DEF ControlPoints
<1>2. ThreadControl'
  BY ThreadsAssumption DEF ThreadControl, Busy, Threads
<1> QED BY <1>1, <1>2

-----------------------------------------------------------------------------
(* Steps that leave the readers' variables alone keep their types.         *)
LEMMA ReadersUnchanged ==
  ASSUME Typed, UNCHANGED <<inbox, connPc, held, frame, frames>>
  PROVE  ReadersType' /\ ReaderControl'
BY DEF Typed, TypeOK, ReadersType, ReaderControl

(* The thread variables of a step that leaves a callback.                  *)
LEMMA LeaveThreadsTyped ==
  ASSUME Typed, NEW t \in Threads, pc[t] \in Busy, Leave(t),
         UNCHANGED <<produced, fut, jobs>>
  PROVE  ThreadsType' /\ ThreadControl'
BY LeaveTyped DEF Typed, TypeOK, ThreadsType

(* The thread variables of a step that moves on with the same window.      *)
LEMMA MoveThreadsTyped ==
  ASSUME Typed, NEW t \in Threads, pc[t] \in Busy,
         NEW p \in {"finish", "release", "enqueue"},
         pc' = [pc EXCEPT ![t] = p],
         resp' \in [Threads -> Seq(Verdict)],
         UNCHANGED <<todo, job, produced, fut, jobs>>
  PROVE  ThreadsType' /\ ThreadControl'
<1>1. pc' \in [Threads -> ControlPoints] /\ ThreadControl'
  BY MoveTyped
<1> QED BY <1>1 DEF Typed, TypeOK, ThreadsType

(* Replacing one waiting score keeps the table of waiting scores typed.    *)
LEMMA PendingReplaced ==
  ASSUME PolicyType, NEW s \in Sessions, NEW k \in Windows,
         NEW x \in Scores \cup {None}
  PROVE  [pending EXCEPT ![s][k] = x]
           \in [Sessions -> [Windows -> Scores \cup {None}]]
BY DEF PolicyType

(* The callback of a future, step by step.                                 *)
LEMMA CallbackTyped ==
  ASSUME Typed, NEW t \in Threads, Callback(t)
  PROVE  Typed'
<1> USE DEF feedVars, threadVars, policyVars, connVars
<1>0. /\ pc[t] \in {"finish", "release", "enqueue"}
      /\ pc[t] \in Busy
      /\ job[t] \in Sessions \X Windows
      /\ UNCHANGED <<inbox, connPc, held, frame, frames, known, active,
                     produced, sent, fut, jobs>>
  BY DEF Callback, FinishL1, ReleaseSkip, ReleaseDiscard, ReleaseVerdict,
         ReleaseStop, EnqueueResponses, Busy, Typed, ThreadControl
<1> DEFINE s == job[t][1]
<1>s. s \in Sessions /\ job[t][2] \in Windows
  BY <1>0
<1>r. ReadersType' /\ ReaderControl'
  BY <1>0, ReadersUnchanged
<1>o. outbox' \in [Sessions -> Seq(Verdict)] => SessionsType'
  BY <1>0 DEF Typed, TypeOK, SessionsType
<1>t. /\ TypeOK /\ ThreadsType /\ SessionsType /\ PolicyType /\ ThreadControl
  BY DEF Typed, TypeOK
<1> DEFINE i == nextIndex[s]
<1>1. CASE FinishL1(t)
  <2>1. SessionsType'
    BY <1>1, <1>o, <1>t DEF FinishL1, SessionsType
  <2>2. PolicyType'
    <3>1. fut[s][job[t][2]].outcome \in Scores \cup {None}
      BY <1>s, <1>t DEF ThreadsType, Future
    <3>2. pending' \in [Sessions -> [Windows -> Scores \cup {None}]]
      <4>1. \/ pending' = pending
            \/ pending' = [pending EXCEPT ![s][job[t][2]] =
                             fut[s][job[t][2]].outcome]
        BY <1>1 DEF FinishL1
      <4>2. [pending EXCEPT ![s][job[t][2]] = fut[s][job[t][2]].outcome]
              \in [Sessions -> [Windows -> Scores \cup {None}]]
        BY <3>1, <1>s, <1>t, PendingReplaced
      <4> QED BY <4>1, <4>2, <1>t DEF PolicyType
    <3>3. skipped' \in [Sessions -> SUBSET Windows]
      <4>1. \/ skipped' = skipped
            \/ skipped' = [skipped EXCEPT ![s] = WithSkipped(s, job[t][2])]
        BY <1>1 DEF FinishL1
      <4>2. WithSkipped(s, job[t][2]) \in SUBSET Windows
        BY <1>s, <1>t DEF PolicyType, WithSkipped
      <4> QED BY <4>1, <4>2, <1>s, <1>t DEF PolicyType
    <3> QED BY <1>1, <1>t, <3>2, <3>3 DEF FinishL1, PolicyType
  <2>3. ThreadsType' /\ ThreadControl'
    <3>1. CASE SessionLive(s)
      <4>1. /\ pc' = [pc EXCEPT ![t] = "release"]
            /\ UNCHANGED <<job, resp, todo>>
        BY <1>1, <3>1 DEF FinishL1
      <4> QED BY <4>1, <1>0, <1>t, MoveThreadsTyped DEF ThreadsType
    <3>2. CASE ~SessionLive(s)
      BY <1>1, <3>2, <1>0, LeaveThreadsTyped DEF FinishL1
    <3> QED BY <3>1, <3>2
  <2> QED BY <1>r, <2>1, <2>2, <2>3 DEF Typed, TypeOK
<1>2. CASE ReleaseSkip(t)
  <2>1. SessionsType'
    BY <1>2, <1>o, <1>t DEF ReleaseSkip, SessionsType
  <2>2. PolicyType'
    BY <1>2, <1>s, <1>t DEF ReleaseSkip, PolicyType
  <2>3. ThreadsType' /\ ThreadControl'
    BY <1>2, <1>0, <1>t DEF ReleaseSkip, ThreadsType, ThreadControl
  <2> QED BY <1>r, <2>1, <2>2, <2>3 DEF Typed, TypeOK
<1>3. CASE ReleaseDiscard(t)
  <2>1. SessionsType'
    BY <1>3, <1>o, <1>t DEF ReleaseDiscard, SessionsType
  <2>2. PolicyType'
    <3>1. i \in Windows
      BY <1>3 DEF ReleaseDiscard, PendingAt
    <3>2. pending' = [pending EXCEPT ![s][i] = None]
      BY <1>3 DEF ReleaseDiscard
    <3>3. pending' \in [Sessions -> [Windows -> Scores \cup {None}]]
      BY <3>1, <3>2, <1>s, <1>t, PendingReplaced
    <3> QED BY <1>3, <3>3, <1>s, <1>t DEF ReleaseDiscard, PolicyType
  <2>3. ThreadsType' /\ ThreadControl'
    BY <1>3, <1>0, <1>t DEF ReleaseDiscard, ThreadsType, ThreadControl
  <2> QED BY <1>r, <2>1, <2>2, <2>3 DEF Typed, TypeOK
<1>4. CASE ReleaseVerdict(t)
  <2> DEFINE x == PendingAt(s, i)
             q == Remember(rolling[s], x)
             stop == Suspicious(q)
             v == [sess |-> s, win |-> i, score |-> x,
                   action |-> IF stop THEN "terminate" ELSE "log"]
  <2>1. i \in Windows /\ i \in Nat /\ x \in Scores
    BY <1>4, <1>s, <1>t DEF ReleaseVerdict, PendingAt, PolicyType
  <2>2. q \in Seq(Scores)
    <3>1. Append(rolling[s], x) \in Seq(Scores)
      BY <2>1, <1>s, <1>t DEF PolicyType
    <3> QED BY <3>1, LastScoresType DEF Remember
  <2>3. v \in Verdict
    BY <2>1, <1>s DEF Verdict, Actions
  <2>4. stop \in BOOLEAN
    BY DEF Suspicious
  <2>5. /\ rolling' = [rolling EXCEPT ![s] = q]
        /\ released' = [released EXCEPT ![s] = Append(@, v)]
        /\ resp' = [resp EXCEPT ![t] = Append(@, v)]
        /\ nextIndex' = [nextIndex EXCEPT ![s] = @ + 1]
        /\ terminal' = [terminal EXCEPT ![s] = stop]
        /\ UNCHANGED <<todo, job, outbox>>
    BY <1>4 DEF ReleaseVerdict
  <2>6. SessionsType'
    BY <2>5, <1>o, <1>t DEF SessionsType
  <2>7. rolling' \in [Sessions -> Seq(Scores)]
    BY <2>2, <2>5, <1>s, <1>t DEF PolicyType
  <2>8. /\ released' \in [Sessions -> Seq(Verdict)]
        /\ resp' \in [Threads -> Seq(Verdict)]
    <3> HIDE DEF v
    <3>1. /\ Append(released[s], v) \in Seq(Verdict)
          /\ Append(resp[t], v) \in Seq(Verdict)
      BY <2>3, <1>s, <1>t DEF PolicyType, ThreadsType
    <3> QED BY <3>1, <2>5, <1>s, <1>t DEF PolicyType, ThreadsType
  <2>9. /\ terminal' \in [Sessions -> BOOLEAN]
        /\ nextIndex' \in [Sessions -> Nat]
    <3> HIDE DEF stop
    <3> QED BY <2>1, <2>4, <2>5, <1>s, <1>t DEF PolicyType
  <2>10. /\ pending' \in [Sessions -> [Windows -> Scores \cup {None}]]
         /\ skipped' \in [Sessions -> SUBSET Windows]
         /\ \/ pc' = [pc EXCEPT ![t] = "enqueue"]
            \/ pc' = pc
    <3>1. CASE stop
      <4>1. /\ pending' = [pending EXCEPT ![s] = [k \in Windows |-> None]]
            /\ skipped' = [skipped EXCEPT ![s] = {}]
            /\ pc' = [pc EXCEPT ![t] = "enqueue"]
        BY <1>4, <3>1 DEF ReleaseVerdict
      <4> QED BY <4>1, <1>t DEF PolicyType
    <3>2. CASE ~stop
      <4>1. /\ pending' = [pending EXCEPT ![s][i] = None]
            /\ UNCHANGED <<skipped, pc>>
        BY <1>4, <3>2 DEF ReleaseVerdict
      <4> QED BY <4>1, <1>t DEF PolicyType
    <3> QED BY <3>1, <3>2
  <2>11. PolicyType'
    BY <2>7, <2>8, <2>9, <2>10 DEF PolicyType
  <2>12. ThreadsType' /\ ThreadControl'
    <3>1. CASE pc' = [pc EXCEPT ![t] = "enqueue"]
      BY <3>1, <2>5, <2>8, <1>0, MoveThreadsTyped
    <3>2. CASE pc' = pc
      BY <3>2, <2>5, <2>8, <1>0, <1>t DEF ThreadsType, ThreadControl
    <3> QED BY <3>1, <3>2, <2>10
  <2> QED BY <1>r, <2>6, <2>11, <2>12 DEF Typed, TypeOK
<1>5. CASE ReleaseStop(t)
  <2>1. SessionsType'
    BY <1>5, <1>o, <1>t DEF ReleaseStop, SessionsType
  <2>2. PolicyType'
    BY <1>5, <1>t DEF ReleaseStop, PolicyType
  <2>3. ThreadsType' /\ ThreadControl'
    <3>1. CASE ResponsesReady(t)
      <4>1. /\ pc' = [pc EXCEPT ![t] = "enqueue"]
            /\ UNCHANGED <<todo, job, resp>>
        BY <1>5, <3>1 DEF ReleaseStop
      <4> QED BY <4>1, <1>0, <1>t, MoveThreadsTyped DEF ThreadsType
    <3>2. CASE ~ResponsesReady(t)
      BY <1>5, <3>2, <1>0, LeaveThreadsTyped DEF ReleaseStop
    <3> QED BY <3>1, <3>2
  <2> QED BY <1>r, <2>1, <2>2, <2>3 DEF Typed, TypeOK
<1>6. CASE EnqueueResponses(t)
  <2>1. SessionsType'
    <3>1. outbox[s] \o resp[t] \in Seq(Verdict)
      BY <1>s, <1>t DEF SessionsType, ThreadsType
    <3> QED
      BY <1>6, <3>1, <1>s, <1>o, <1>t DEF EnqueueResponses, SessionsType
  <2>2. PolicyType'
    BY <1>6, <1>t DEF EnqueueResponses, PolicyType
  <2>3. ThreadsType' /\ ThreadControl'
    BY <1>6, <1>0, LeaveThreadsTyped DEF EnqueueResponses
  <2> QED BY <1>r, <2>1, <2>2, <2>3 DEF Typed, TypeOK
<1> QED
  BY <1>1, <1>2, <1>3, <1>4, <1>5, <1>6 DEF Callback

(* The steps of the event worker.                                          *)
LEMMA EventTyped ==
  ASSUME Typed, EventStep
  PROVE  Typed'
<1> USE DEF feedVars, threadVars, policyVars, connVars
<1>t. /\ TypeOK /\ ReadersType /\ SessionsType /\ ThreadsType /\ PolicyType
      /\ ThreadControl /\ ReaderControl /\ EventWorker \in Threads
  BY DEF Typed, TypeOK, Threads
<1>1. CASE TakeFrame
  <2> DEFINE m == Head(inbox)
  <2>1. /\ m \in Message /\ m.sess \in Sessions
        /\ inbox' = Tail(inbox) /\ Tail(inbox) \in Seq(Message)
    <3>1. inbox \in Seq(Message) /\ inbox # <<>> /\ inbox' = Tail(inbox)
      BY <1>1, <1>t DEF TakeFrame, ReadersType
    <3>2. m \in Message /\ Tail(inbox) \in Seq(Message)
      BY <3>1, HeadTailProperties
    <3> QED BY <3>1, <3>2 DEF Message
  <2>2. ReadersType' /\ ReaderControl'
    BY <1>1, <2>1, <1>t DEF TakeFrame, ReadersType, ReaderControl
  <2>3. PolicyType'
    BY <1>1, <1>t DEF TakeFrame, PolicyType
  <2>4. SessionsType' /\ ThreadsType' /\ ThreadControl'
    <3>1. CASE m.type = "session_end"
      <4>1. MarkEnded(m.sess) /\ UNCHANGED <<known, pc, job, resp>>
        BY <1>1, <3>1 DEF TakeFrame
      <4>2. /\ active' \in [Sessions -> BOOLEAN]
            /\ fut' \in [Sessions -> [Windows -> Future]]
            /\ outbox' \in [Sessions -> Seq(Verdict)]
        BY <4>1, <2>1, <1>t, MarkEndedTyped
      <4> QED
        BY <1>1, <4>1, <4>2, <1>t
           DEF TakeFrame, SessionsType, ThreadsType, ThreadControl
    <3>2. CASE m.type # "session_end"
      <4>1. /\ known' = known \cup {m.sess}
            /\ UNCHANGED <<active, fut, outbox, resp, produced, todo, jobs,
                           sent>>
            /\ \/ UNCHANGED <<pc, job>>
               \/ /\ pc' = [pc EXCEPT ![EventWorker] = "launches"]
                  /\ job' = [job EXCEPT ![EventWorker] = <<m.sess, 0>>]
                  /\ pc[EventWorker] = "idle"
        BY <1>1, <3>2 DEF TakeFrame
      <4>2. SessionsType'
        BY <4>1, <2>1, <1>t DEF SessionsType
      <4>3. CASE UNCHANGED <<pc, job>>
        BY <4>1, <4>2, <4>3, <1>t DEF ThreadsType, ThreadControl
      <4>4. CASE /\ pc' = [pc EXCEPT ![EventWorker] = "launches"]
                 /\ job' = [job EXCEPT ![EventWorker] = <<m.sess, 0>>]
        <5>1. ThreadsType'
          BY <4>1, <4>4, <2>1, <1>t DEF ThreadsType, ControlPoints
        <5>2. ThreadControl'
          BY <4>1, <4>4, <2>1, <1>t, ThreadsAssumption
             DEF ThreadControl, ThreadsType, Busy, Threads
        <5> QED BY <4>2, <5>1, <5>2
      <4> QED BY <4>1, <4>3, <4>4
    <3> QED BY <3>1, <3>2
  <2> QED BY <2>2, <2>3, <2>4 DEF Typed, TypeOK
<1>2. ASSUME NEW n \in 0..BatchWindows, HandleLaunches(n)
      PROVE  Typed'
  <2> DEFINE s == job[EventWorker][1]
  <2>1. /\ pc[EventWorker] = "launches" /\ s \in Sessions
        /\ produced[s] \in 0..MaxWindows /\ produced[s] + n <= MaxWindows
        /\ n \in Nat
    BY <1>2, <1>t, BoundsAssumption
       DEF HandleLaunches, ThreadControl, SessionsType
  <2>2. ReadersType' /\ ReaderControl' /\ PolicyType'
    BY <1>2, <1>t DEF HandleLaunches, ReadersType, ReaderControl, PolicyType
  <2>3. CASE active[s] /\ n > 0
    <3>1. /\ produced' = [produced EXCEPT ![s] = @ + n]
          /\ todo' = n
          /\ job' = [job EXCEPT ![EventWorker] = <<s, produced[s]>>]
          /\ pc' = [pc EXCEPT ![EventWorker] = "submit"]
          /\ UNCHANGED <<known, active, outbox, sent, fut, jobs, resp>>
      BY <1>2, <2>3 DEF HandleLaunches
    <3>2. SessionsType'
      BY <2>1, <3>1, <1>t, BoundsAssumption DEF SessionsType
    <3>3. <<s, produced[s]>> \in Sessions \X Windows
      BY <2>1, <2>3, BoundsAssumption DEF Windows
    <3>4. <<s, produced[s]>> \in Sessions \X Nat
      BY <2>1
    <3>5. ThreadsType'
      <4>1. todo' \in 0..MaxWindows
        BY <2>1, <3>1, BoundsAssumption
      <4>2. job' \in [Threads -> (Sessions \X Nat) \cup {None}]
        BY <3>1, <3>4, <1>t DEF ThreadsType
      <4>3. pc' \in [Threads -> ControlPoints]
        BY <3>1, <1>t DEF ThreadsType, ControlPoints
      <4> QED BY <3>1, <4>1, <4>2, <4>3, <1>t DEF ThreadsType
    <3>6. ThreadControl'
      <4>1. /\ pc'[EventWorker] = "submit"
            /\ job'[EventWorker] = <<s, produced[s]>>
            /\ \A u \in Threads \ {EventWorker} :
                 pc'[u] = pc[u] /\ job'[u] = job[u]
            /\ produced'[s] = produced[s] + n
        BY <3>1, <2>1, <1>t DEF ThreadsType, SessionsType
      <4>2. job'[EventWorker][2] + todo' = produced'[job'[EventWorker][1]]
        BY <4>1, <3>1
      <4> QED
        BY <4>1, <4>2, <3>1, <3>3, <2>1, <2>3, <1>t, ThreadsAssumption
           DEF ThreadControl, Busy, Threads
    <3> QED BY <2>2, <3>2, <3>5, <3>6 DEF Typed, TypeOK
  <2>4. CASE ~(active[s] /\ n > 0)
    <3>1. /\ pc' = [pc EXCEPT ![EventWorker] = "idle"]
          /\ job' = [job EXCEPT ![EventWorker] = None]
          /\ UNCHANGED <<known, active, outbox, sent, fut, jobs, resp,
                         produced, todo>>
      BY <1>2, <2>4 DEF HandleLaunches
    <3>2. SessionsType'
      BY <3>1, <1>t DEF SessionsType
    <3>3. ThreadsType'
      BY <3>1, <1>t DEF ThreadsType, ControlPoints
    <3>4. ThreadControl'
      BY <3>1, <1>t, ThreadsAssumption
         DEF ThreadControl, ThreadsType, Busy, Threads
    <3> QED BY <2>2, <3>2, <3>3, <3>4 DEF Typed, TypeOK
  <2> QED BY <2>3, <2>4
<1>3. CASE SubmitWindow
  <2> DEFINE s == job[EventWorker][1]
             i == job[EventWorker][2]
  <2>1. /\ pc[EventWorker] \in Busy /\ s \in Sessions /\ i \in Windows
        /\ job[EventWorker] = <<s, i>>
    BY <1>3, <1>t DEF SubmitWindow, ThreadControl, Busy
  <2>2. ReadersType' /\ ReaderControl' /\ PolicyType' /\ SessionsType'
    BY <1>3, <1>t
       DEF SubmitWindow, ReadersType, ReaderControl, PolicyType, SessionsType
  <2>3. CASE active[s] /\ ~terminal[s]
    <3>1. /\ fut' = [fut EXCEPT ![s][i].state = "queued"]
          /\ jobs' = Append(jobs, <<s, i>>)
          /\ pc' = [pc EXCEPT ![EventWorker] = "attach"]
          /\ UNCHANGED <<todo, job, resp, produced>>
      BY <1>3, <2>3 DEF SubmitWindow
    <3>2. fut' \in [Sessions -> [Windows -> Future]]
      BY <3>1, <2>1, <1>t, FutureUpdated DEF FutureStates
    <3>3. jobs' \in Seq(Sessions \X Windows)
      BY <3>1, <2>1, <1>t DEF ThreadsType
    <3>4. pc' \in [Threads -> ControlPoints] /\ ThreadControl'
      BY <3>1, <2>1, <1>t, MoveTyped
    <3> QED
      BY <2>2, <3>1, <3>2, <3>3, <3>4, <1>t DEF Typed, TypeOK, ThreadsType
  <2>4. CASE ~(active[s] /\ ~terminal[s])
    <3>1. Leave(EventWorker) /\ UNCHANGED <<fut, jobs, produced>>
      BY <1>3, <2>4 DEF SubmitWindow
    <3> QED
      BY <3>1, <2>1, <2>2, <1>t, LeaveThreadsTyped DEF Typed, TypeOK
  <2> QED BY <2>3, <2>4
<1>4. CASE AttachCallback
  <2> DEFINE s == job[EventWorker][1]
             i == job[EventWorker][2]
  <2>1. pc[EventWorker] \in Busy /\ s \in Sessions /\ i \in Windows
    BY <1>4, <1>t DEF AttachCallback, ThreadControl, Busy
  <2>2. ReadersType' /\ ReaderControl' /\ PolicyType' /\ SessionsType'
    BY <1>4, <1>t
       DEF AttachCallback, ReadersType, ReaderControl, PolicyType, SessionsType
  <2>3. CASE fut[s][i].state \in {"done", "cancelled"}
    <3>1. /\ pc' = [pc EXCEPT ![EventWorker] = "finish"]
          /\ UNCHANGED <<fut, todo, job, resp, jobs, produced>>
      BY <1>4, <2>3 DEF AttachCallback
    <3> QED
      BY <3>1, <2>1, <2>2, <1>t, MoveThreadsTyped
         DEF Typed, TypeOK, ThreadsType
  <2>4. CASE fut[s][i].state \notin {"done", "cancelled"}
    <3>1. /\ fut' = [fut EXCEPT ![s][i].attached = TRUE]
          /\ Leave(EventWorker) /\ UNCHANGED <<jobs, produced>>
      BY <1>4, <2>4 DEF AttachCallback
    <3>2. fut' \in [Sessions -> [Windows -> Future]]
      BY <3>1, <2>1, <1>t, FutureUpdated
    <3>3. /\ todo' \in 0..MaxWindows
          /\ pc' \in [Threads -> ControlPoints]
          /\ job' \in [Threads -> (Sessions \X Nat) \cup {None}]
          /\ resp' \in [Threads -> Seq(Verdict)]
          /\ ThreadControl'
      BY <3>1, <2>1, <1>t, LeaveTyped
    <3> QED
      BY <2>2, <3>1, <3>2, <3>3, <1>t DEF Typed, TypeOK, ThreadsType
  <2> QED BY <2>3, <2>4
<1> QED
  BY <1>1, <1>2, <1>3, <1>4, <1>t, CallbackTyped DEF EventStep

(* The steps of an inference worker.                                       *)
LEMMA WorkerTyped ==
  ASSUME Typed, NEW w \in Workers, WorkerStep(w)
  PROVE  Typed'
<1> USE DEF feedVars, threadVars, policyVars, connVars
<1>t. /\ TypeOK /\ ReadersType /\ SessionsType /\ ThreadsType /\ PolicyType
      /\ ThreadControl /\ ReaderControl
      /\ w \in Threads /\ w # EventWorker
  BY ThreadsAssumption DEF Typed, TypeOK, Threads
<1>0. ASSUME UNCHANGED <<feedVars, policyVars, outbox, connVars>>
      PROVE  ReadersType' /\ ReaderControl' /\ PolicyType' /\ SessionsType'
  BY <1>0, <1>t DEF ReadersType, ReaderControl, PolicyType, SessionsType
<1>1. CASE StartJob(w)
  <2> DEFINE s == Head(jobs)[1]
             i == Head(jobs)[2]
  <2>1. /\ Head(jobs) \in Sessions \X Windows
        /\ Tail(jobs) \in Seq(Sessions \X Windows)
        /\ jobs' = Tail(jobs) /\ UNCHANGED <<todo, resp>>
        /\ pc[w] = "idle"
    <3>1. /\ jobs \in Seq(Sessions \X Windows) /\ jobs # <<>>
          /\ jobs' = Tail(jobs) /\ UNCHANGED <<todo, resp>>
          /\ pc[w] = "idle"
      BY <1>1, <1>t DEF StartJob, ThreadsType
    <3> QED BY <3>1, HeadTailProperties
  <2>2. ReadersType' /\ ReaderControl' /\ PolicyType' /\ SessionsType'
    BY <1>0, <1>1 DEF StartJob
  <2>3. CASE fut[s][i].state = "cancelled"
    <3>1. UNCHANGED <<fut, pc, job, produced>>
      BY <1>1, <2>3 DEF StartJob
    <3> QED
      BY <2>1, <2>2, <3>1, <1>t DEF Typed, TypeOK, ThreadsType, ThreadControl
  <2>4. CASE fut[s][i].state # "cancelled"
    <3>1. /\ fut' = [fut EXCEPT ![s][i].state = "running"]
          /\ pc' = [pc EXCEPT ![w] = "check"]
          /\ job' = [job EXCEPT ![w] = Head(jobs)]
          /\ UNCHANGED produced
      BY <1>1, <2>4 DEF StartJob
    <3>2. fut' \in [Sessions -> [Windows -> Future]]
      BY <3>1, <2>1, <1>t, FutureUpdated DEF FutureStates
    <3>3. Head(jobs) \in Sessions \X Nat
      BY <2>1, BoundsAssumption DEF Windows
    <3>4. ThreadsType'
      BY <2>1, <3>1, <3>2, <3>3, <1>t DEF ThreadsType, ControlPoints
    <3>5. ThreadControl'
      BY <2>1, <3>1, <1>t, ThreadsAssumption
         DEF ThreadControl, ThreadsType, Busy, Threads
    <3> QED BY <2>2, <3>4, <3>5 DEF Typed, TypeOK
  <2> QED BY <2>3, <2>4
<1>2. ASSUME NEW out \in Scores \cup {None}, Resolve(w, out),
             pc[w] \in {"check", "predict"},
             UNCHANGED <<feedVars, todo, jobs, policyVars, outbox, connVars>>
      PROVE  Typed'
  <2> DEFINE s == job[w][1]
             i == job[w][2]
  <2>1. s \in Sessions /\ i \in Windows /\ pc[w] \in Busy
    BY <1>2, <1>t DEF ThreadControl, Busy
  <2>2. ReadersType' /\ ReaderControl' /\ PolicyType' /\ SessionsType'
    BY <1>0, <1>2
  <2>3. fut' \in [Sessions -> [Windows -> Future]]
    <3>1. fut' = [fut EXCEPT ![s][i].state = "done", ![s][i].outcome = out]
      BY <1>2 DEF Resolve
    <3> QED BY <3>1, <2>1, <1>2, <1>t, FutureUpdated, ZenonT(60) DEF FutureStates
  <2>4. CASE fut[s][i].attached
    <3>1. /\ pc' = [pc EXCEPT ![w] = "finish"]
          /\ UNCHANGED <<todo, job, resp, produced, jobs>>
      BY <1>2, <2>4 DEF Resolve
    <3>2. pc' \in [Threads -> ControlPoints] /\ ThreadControl'
      BY <3>1, <2>1, <1>t, MoveTyped
    <3> QED
      BY <2>2, <2>3, <3>1, <3>2, <1>t DEF Typed, TypeOK, ThreadsType
  <2>5. CASE ~fut[s][i].attached
    <3>1. /\ pc' = [pc EXCEPT ![w] = "idle"]
          /\ job' = [job EXCEPT ![w] = None]
          /\ UNCHANGED <<todo, resp, produced, jobs>>
      BY <1>2, <2>5 DEF Resolve
    <3>2. ThreadsType'
      BY <2>3, <3>1, <1>t DEF ThreadsType, ControlPoints
    <3>3. ThreadControl'
      BY <3>1, <1>t, ThreadsAssumption
         DEF ThreadControl, ThreadsType, Busy, Threads
    <3> QED BY <2>2, <3>2, <3>3 DEF Typed, TypeOK
  <2> QED BY <2>4, <2>5
<1>3. CASE CheckActive(w)
  <2>1. CASE active[job[w][1]]
    <3>1. /\ pc' = [pc EXCEPT ![w] = "predict"] /\ pc[w] = "check"
          /\ UNCHANGED <<fut, job, resp, produced, todo, jobs>>
      BY <1>3, <2>1 DEF CheckActive
    <3>2. pc' \in [Threads -> ControlPoints] /\ ThreadControl'
      BY <3>1, <1>t, MoveTyped DEF Busy
    <3>3. ReadersType' /\ ReaderControl' /\ PolicyType' /\ SessionsType'
      BY <1>0, <1>3 DEF CheckActive
    <3> QED BY <3>1, <3>2, <3>3, <1>t DEF Typed, TypeOK, ThreadsType
  <2>2. CASE ~active[job[w][1]]
    BY <1>2, <1>3, <2>2 DEF CheckActive
  <2> QED BY <2>1, <2>2
<1>4. ASSUME NEW out \in Scores \cup {None}, Predict(w, out)
      PROVE  Typed'
  BY <1>2, <1>4 DEF Predict
<1> QED
  BY <1>1, <1>3, <1>4, <1>t, CallbackTyped DEF WorkerStep

(* Every step of the system keeps the state typed.                         *)
LEMMA NextTyped == Typed /\ [Next]_vars => Typed'
<1> SUFFICES ASSUME Typed, [Next]_vars
             PROVE  Typed'
  OBVIOUS
<1>1. CASE UNCHANGED vars
  BY <1>1 DEF Typed, TypeOK, ReadersType, SessionsType, ThreadsType,
              PolicyType, ReaderControl, ThreadControl, vars, coreVars,
              feedVars, threadVars, policyVars, connVars
<1>2. CASE Next
  BY <1>2, ReaderTyped, EventTyped, WorkerTyped DEF Next
<1> QED BY <1>1, <1>2

(***************************************************************************)
(* The state of the processor is well typed in every reachable state, for  *)
(* any number of sessions, connections, workers, scores and windows.  The  *)
(* inductive invariant adds what a control point says of its thread: which *)
(* window it works for, and how many windows of the batch are left.        *)
(***************************************************************************)
THEOREM TypeCorrect == Spec => []TypeOK
<1>1. Typed => TypeOK
  BY DEF Typed
<1> QED BY <1>1, InitTyped, NextTyped, PTL DEF Spec

-----------------------------------------------------------------------------
(* The loop of _release_ordered_policy_verdicts_locked works for a session *)
(* that is active: the lock it holds keeps the session from ending.        *)
LockedActive ==
  \A t \in Threads : pc[t] = "release" => active[job[t][1]]

LEMMA LockedActiveKept ==
  ASSUME Typed, LockedActive, [Next]_vars
  PROVE  LockedActive'
<1> USE DEF feedVars, threadVars, policyVars, connVars, coreVars
<1>t. pc \in [Threads -> ControlPoints] /\ EventWorker \in Threads
      /\ job \in [Threads -> (Sessions \X Nat) \cup {None}]
      /\ Workers \subseteq Threads
  BY DEF Typed, TypeOK, ThreadsType, Threads
<1>1. ASSUME LockFree, NEW s \in Sessions, MarkEnded(s), UNCHANGED <<pc, job>>
      PROVE  LockedActive'
  BY <1>1 DEF LockFree, LockedActive
<1>2. ASSUME UNCHANGED <<pc, job, active>>
      PROVE  LockedActive'
  BY <1>2 DEF LockedActive
<1>3. ASSUME NEW t \in Threads, UNCHANGED active,
             \A u \in Threads \ {t} : pc'[u] = pc[u] /\ job'[u] = job[u],
             pc'[t] = "release" => active[job'[t][1]]
      PROVE  LockedActive'
  BY <1>3 DEF LockedActive
<1>4. ASSUME NEW t \in Threads, Leave(t), UNCHANGED active
      PROVE  LockedActive'
  <2>1. /\ \A u \in Threads \ {t} : pc'[u] = pc[u] /\ job'[u] = job[u]
        /\ pc'[t] # "release"
    BY <1>4, <1>t DEF Leave
  <2> QED BY <1>3, <1>4, <2>1
<1>5. ASSUME NEW c \in Conns,
             \/ Accept(c) \/ Disconnect(c) \/ ReaderStep(c)
             \/ \E m \in Message : Receive(c, m)
      PROVE  LockedActive'
  <2>1. CASE MarkEarly(c)
    BY <1>1, <2>1 DEF MarkEarly, Typed, ReaderControl, Message
  <2>2. CASE ~MarkEarly(c)
    BY <1>2, <1>5, <2>2
       DEF Accept, Disconnect, ReaderStep, Receive, DrainPeek, DrainDone,
           SendResponse, DrainPop, SubmitFrame, ReceiveTimeout
  <2> QED BY <2>1, <2>2
<1>6. ASSUME NEW t \in Threads, Callback(t)
      PROVE  LockedActive'
  <2>1. CASE FinishL1(t)
    <3>1. CASE SessionLive(job[t][1])
      <4>1. /\ pc' = [pc EXCEPT ![t] = "release"] /\ UNCHANGED <<job, active>>
            /\ active[job[t][1]]
        BY <2>1, <3>1 DEF FinishL1, SessionLive
      <4> QED BY <4>1, <1>3, <1>t
    <3>2. CASE ~SessionLive(job[t][1])
      BY <2>1, <3>2, <1>4 DEF FinishL1
    <3> QED BY <3>1, <3>2
  <2>2. CASE ReleaseSkip(t) \/ ReleaseDiscard(t)
    BY <2>2, <1>2 DEF ReleaseSkip, ReleaseDiscard
  <2>3. CASE ReleaseVerdict(t)
    <3>1. /\ UNCHANGED <<job, active>>
          /\ pc' = pc \/ pc' = [pc EXCEPT ![t] = "enqueue"]
      BY <2>3 DEF ReleaseVerdict
    <3> QED BY <3>1, <1>2, <1>3, <1>t
  <2>4. CASE ReleaseStop(t)
    <3>1. /\ UNCHANGED active
          /\ \/ Leave(t)
             \/ pc' = [pc EXCEPT ![t] = "enqueue"] /\ UNCHANGED job
      BY <2>4 DEF ReleaseStop
    <3> QED BY <3>1, <1>3, <1>4, <1>t
  <2>5. CASE EnqueueResponses(t)
    BY <2>5, <1>4 DEF EnqueueResponses
  <2> QED BY <1>6, <2>1, <2>2, <2>3, <2>4, <2>5 DEF Callback
<1>7. CASE EventStep
  <2>1. CASE TakeFrame
    <3>1. CASE Head(inbox).type = "session_end"
      <4>1. Head(inbox) \in Message
        BY <2>1, HeadTailProperties
           DEF TakeFrame, Typed, TypeOK, ReadersType
      <4> QED BY <1>1, <2>1, <3>1, <4>1 DEF TakeFrame, Message
    <3>2. CASE Head(inbox).type # "session_end"
      <4>1. /\ UNCHANGED active
            /\ \/ UNCHANGED <<pc, job>>
               \/ /\ pc' = [pc EXCEPT ![EventWorker] = "launches"]
                  /\ job' = [job EXCEPT ![EventWorker] =
                               <<Head(inbox).sess, 0>>]
        BY <2>1, <3>2 DEF TakeFrame
      <4> QED BY <4>1, <1>2, <1>3, <1>t
    <3> QED BY <3>1, <3>2
  <2>2. ASSUME NEW n \in 0..BatchWindows, HandleLaunches(n)
        PROVE  LockedActive'
    <3>1. /\ UNCHANGED active
          /\ \A u \in Threads \ {EventWorker} :
               pc'[u] = pc[u] /\ job'[u] = job[u]
          /\ pc'[EventWorker] # "release"
      BY <2>2, <1>t DEF HandleLaunches
    <3> QED BY <3>1, <1>3, <1>t
  <2>3. CASE SubmitWindow \/ AttachCallback
    <3>1. /\ UNCHANGED active
          /\ \/ Leave(EventWorker)
             \/ pc' = [pc EXCEPT ![EventWorker] = "attach"] /\ UNCHANGED job
             \/ pc' = [pc EXCEPT ![EventWorker] = "finish"] /\ UNCHANGED job
      BY <2>3 DEF SubmitWindow, AttachCallback
    <3> QED BY <3>1, <1>3, <1>4, <1>t
  <2> QED BY <1>6, <1>7, <1>t, <2>1, <2>2, <2>3 DEF EventStep
<1>8. ASSUME NEW w \in Workers, WorkerStep(w)
      PROVE  LockedActive'
  <2>1. CASE Callback(w)
    BY <2>1, <1>6, <1>t
  <2>2. CASE ~Callback(w)
    <3>1. /\ UNCHANGED active
          /\ \A u \in Threads \ {w} : pc'[u] = pc[u] /\ job'[u] = job[u]
          /\ pc'[w] # "release"
      BY <1>8, <2>2, <1>t
         DEF WorkerStep, StartJob, CheckActive, Predict, Resolve
    <3> QED BY <3>1, <1>3, <1>t
  <2> QED BY <2>1, <2>2
<1> QED
  BY <1>2, <1>5, <1>7, <1>8 DEF Next, vars

(* The policy of a session moves only while a thread holds the lock for    *)
(* it, in its release loop.                                                *)
LEMMA PolicyMoves ==
  ASSUME Typed, [Next]_vars
  PROVE  \/ UNCHANGED <<terminal, nextIndex, rolling, released>>
         \/ \E t \in Threads :
              /\ ReleaseSkip(t) \/ ReleaseDiscard(t) \/ ReleaseVerdict(t)
              /\ pc[t] = "release" /\ job[t] \in Sessions \X Windows
<1> USE DEF feedVars, threadVars, policyVars, connVars, coreVars
<1>1. ASSUME NEW t \in Threads,
             ReleaseSkip(t) \/ ReleaseDiscard(t) \/ ReleaseVerdict(t)
      PROVE  pc[t] = "release" /\ job[t] \in Sessions \X Windows
  BY <1>1 DEF ReleaseSkip, ReleaseDiscard, ReleaseVerdict, Typed,
              ThreadControl, Busy
<1>2. ASSUME NEW t \in Threads, Callback(t)
      PROVE  \/ UNCHANGED <<terminal, nextIndex, rolling, released>>
             \/ ReleaseSkip(t) \/ ReleaseDiscard(t) \/ ReleaseVerdict(t)
  BY <1>2 DEF Callback, FinishL1, ReleaseStop, EnqueueResponses
<1>3. CASE UNCHANGED vars
  BY <1>3 DEF vars
<1>4. ASSUME NEW c \in Conns,
             \/ Accept(c) \/ Disconnect(c) \/ ReaderStep(c)
             \/ \E m \in Message : Receive(c, m)
      PROVE  UNCHANGED <<terminal, nextIndex, rolling, released>>
  BY <1>4 DEF Accept, Disconnect, ReaderStep, Receive, DrainPeek, DrainDone,
              SendResponse, DrainPop, SubmitFrame, ReceiveTimeout, MarkEarly
<1>5. CASE EventStep
  <2>1. EventWorker \in Threads
    BY DEF Threads
  <2>2. CASE Callback(EventWorker)
    BY <1>1, <1>2, <2>1, <2>2
  <2>3. CASE ~Callback(EventWorker)
    BY <1>5, <2>3 DEF EventStep, TakeFrame, HandleLaunches, SubmitWindow,
                      AttachCallback
  <2> QED BY <2>2, <2>3
<1>6. ASSUME NEW w \in Workers, WorkerStep(w)
      PROVE  \/ UNCHANGED <<terminal, nextIndex, rolling, released>>
             \/ \E t \in Threads :
                  ReleaseSkip(t) \/ ReleaseDiscard(t) \/ ReleaseVerdict(t)
  <2>1. w \in Threads
    BY DEF Threads
  <2>2. CASE Callback(w)
    BY <1>2, <2>1, <2>2
  <2>3. CASE ~Callback(w)
    BY <1>6, <2>3 DEF WorkerStep, StartJob, CheckActive, Predict
  <2> QED BY <2>2, <2>3
<1> QED
  BY <1>1, <1>3, <1>4, <1>5, <1>6 DEF Next

(* Sessions end, and are never active again.                               *)
LEMMA ActiveFalls ==
  ASSUME Typed, [Next]_vars, NEW s \in Sessions, ~active[s]
  PROVE  ~active'[s]
<1> USE DEF feedVars, threadVars, policyVars, connVars, coreVars
<1>1. ASSUME NEW r \in Sessions, MarkEnded(r)
      PROVE  ~active'[s]
  BY <1>1 DEF MarkEnded, Typed, TypeOK, SessionsType
<1>2. CASE UNCHANGED active
  BY <1>2
<1>3. ASSUME NEW t \in Threads, Callback(t)
      PROVE  UNCHANGED active
  BY <1>3 DEF Callback, FinishL1, ReleaseSkip, ReleaseDiscard, ReleaseVerdict,
              ReleaseStop, EnqueueResponses
<1>4. ASSUME NEW c \in Conns,
             \/ Accept(c) \/ Disconnect(c) \/ ReaderStep(c)
             \/ \E m \in Message : Receive(c, m)
      PROVE  ~active'[s]
  <2>1. CASE MarkEarly(c)
    BY <1>1, <2>1 DEF MarkEarly, Typed, ReaderControl, Message
  <2>2. CASE ~MarkEarly(c)
    BY <1>2, <1>4, <2>2
       DEF Accept, Disconnect, ReaderStep, Receive, DrainPeek, DrainDone,
           SendResponse, DrainPop, SubmitFrame, ReceiveTimeout
  <2> QED BY <2>1, <2>2
<1>5. CASE EventStep
  <2>1. CASE TakeFrame
    <3>1. Head(inbox) \in Message
      BY <2>1, HeadTailProperties DEF TakeFrame, Typed, TypeOK, ReadersType
    <3> QED BY <2>1, <3>1, <1>1 DEF TakeFrame, Message
  <2>2. CASE ~TakeFrame
    BY <1>3, <1>5, <2>2
       DEF EventStep, HandleLaunches, SubmitWindow, AttachCallback, Threads
  <2> QED BY <2>1, <2>2
<1>6. ASSUME NEW w \in Workers, WorkerStep(w)
      PROVE  UNCHANGED active
  BY <1>3, <1>6 DEF WorkerStep, StartJob, CheckActive, Predict, Threads
<1> QED BY <1>2, <1>4, <1>5, <1>6 DEF Next, vars

(***************************************************************************)
(* After _mark_session_ended the policy state of a session never changes:  *)
(* futures that were running when the client left release no verdict, for  *)
(* any number of workers and whatever point each of them had reached.      *)
(***************************************************************************)
THEOREM EndedFrozen == Spec => EndedSessionFrozen
<1> DEFINE Inv == Typed /\ LockedActive
           Frozen == \A s \in Sessions : ~active[s] =>
                       /\ ~active'[s]
                       /\ released'[s] = released[s]
                       /\ rolling'[s] = rolling[s]
                       /\ nextIndex'[s] = nextIndex[s]
<1>1. Init => Inv
  <2>1. Init => LockedActive
    BY DEF Init, LockedActive
  <2> QED BY <2>1, InitTyped
<1>2. Inv /\ [Next]_vars => Inv'
  BY NextTyped, LockedActiveKept
<1>3. Inv /\ [Next]_vars => [Frozen]_vars
  <2> SUFFICES ASSUME Inv, [Next]_vars, NEW s \in Sessions, ~active[s]
               PROVE  /\ ~active'[s]
                      /\ released'[s] = released[s]
                      /\ rolling'[s] = rolling[s]
                      /\ nextIndex'[s] = nextIndex[s]
    OBVIOUS
  <2>1. ~active'[s]
    BY ActiveFalls
  <2>2. ASSUME NEW t \in Threads, pc[t] = "release",
               job[t] \in Sessions \X Windows,
               ReleaseSkip(t) \/ ReleaseDiscard(t) \/ ReleaseVerdict(t)
        PROVE  /\ released'[s] = released[s]
               /\ rolling'[s] = rolling[s]
               /\ nextIndex'[s] = nextIndex[s]
    <3>1. job[t][1] # s
      BY <2>2 DEF LockedActive
    <3>2. PolicyType
      BY DEF Typed, TypeOK
    <3> QED
      BY <2>2, <3>1, <3>2 DEF ReleaseSkip, ReleaseDiscard, ReleaseVerdict,
                              PolicyType
  <2> QED BY <2>1, <2>2, PolicyMoves
<1> QED BY <1>1, <1>2, <1>3, PTL DEF Spec, EndedSessionFrozen

-----------------------------------------------------------------------------
(* The list the policy decides on is the end of what it has released.      *)
RollingMatches ==
  \A s \in Sessions : rolling[s] = LastScores(ScoresOf(released[s]))

(* The end of a longer list is the end of the end of the list, one longer. *)
LEMMA LastScoresAppend ==
  ASSUME NEW q \in Seq(Scores), NEW x \in Scores
  PROVE  LastScores(Append(LastScores(q), x)) = LastScores(Append(q, x))
<1> DEFINE n == Len(q)
           r == RollingCount
<1>0. n \in Nat /\ r \in Nat \ {0} /\ Len(Append(q, x)) = n + 1
  BY PolicyAssumption
<1>1. CASE n > r
  <2> DEFINE l == SubSeq(q, n - r + 1, n)
  <2>1. /\ l \in Seq(Scores) /\ Len(l) = r
        /\ \A k \in 1..r : l[k] = q[n - r + k]
    BY <1>0, <1>1, SubSeqProperties
  <2>2. LastScores(q) = l
    BY <1>1 DEF LastScores
  <2> DEFINE a == SubSeq(Append(l, x), 2, r + 1)
             b == SubSeq(Append(q, x), n - r + 2, n + 1)
  <2>3. LastScores(Append(l, x)) = a
    BY <1>0, <2>1 DEF LastScores
  <2>4. LastScores(Append(q, x)) = b
    BY <1>0, <1>1 DEF LastScores
  <2>5. a = b
    <3> HIDE DEF l
    <3>1. /\ Append(l, x) \in Seq(Scores) /\ Append(q, x) \in Seq(Scores)
          /\ Len(Append(l, x)) = r + 1
          /\ Append(l, x)[r + 1] = x /\ Append(q, x)[n + 1] = x
          /\ \A k \in 1..r : Append(l, x)[k] = l[k]
          /\ \A k \in 1..n : Append(q, x)[k] = q[k]
      BY <1>0, <2>1
    <3>2. /\ a \in Seq(Scores) /\ Len(a) = r
          /\ \A k \in 1..r : a[k] = Append(l, x)[k + 1]
      BY <1>0, <3>1, SubSeqProperties
    <3>3. /\ b \in Seq(Scores) /\ Len(b) = r
          /\ \A k \in 1..r : b[k] = Append(q, x)[n - r + 1 + k]
      <4> DEFINE p == Append(q, x)
                 m == n - r + 2
      <4>1. /\ m \in Int /\ n + 1 \in Int /\ (n + 1) - m + 1 = r
            /\ m <= n + 1 /\ \A k \in m..(n + 1) : k \in 1..Len(p)
        BY <1>0, <1>1
      <4>2. \A k \in m..(n + 1) : p[k] \in Scores
        BY <3>1, <4>1
      <4>3. /\ b \in Seq(Scores) /\ Len(b) = r
            /\ \A k \in 1..r : b[k] = p[m + k - 1]
        <5>1. b = SubSeq(p, m, n + 1)
          OBVIOUS
        <5> HIDE DEF p, m, b
        <5>2. /\ SubSeq(p, m, n + 1) \in Seq(Scores)
              /\ Len(SubSeq(p, m, n + 1)) = r
              /\ \A k \in 1..r : SubSeq(p, m, n + 1)[k] = p[m + k - 1]
          BY <4>1, <4>2, SubSeqProperties
        <5> QED BY <5>1, <5>2
      <4>4. \A k \in 1..r : m + k - 1 = n - r + 1 + k
        BY <1>0
      <4> QED BY <4>3, <4>4
    <3> HIDE DEF a, b
    <3>4. ASSUME NEW k \in 1..r
          PROVE  a[k] = b[k]
      <4>0. k \in Nat /\ k >= 1 /\ k <= r
        BY <1>0
      <4>1. CASE k = r
        <5>1. n - r + 1 + k = n + 1
          BY <1>0, <4>1
        <5> QED BY <5>1, <3>1, <3>2, <3>3, <4>1
      <4>2. CASE k < r
        <5>1. /\ k + 1 \in 1..r /\ n - r + 1 + k \in 1..n
              /\ n - r + (k + 1) = n - r + 1 + k
          BY <1>0, <1>1, <4>0, <4>2
        <5>2. a[k] = q[n - r + (k + 1)]
          BY <2>1, <3>1, <3>2, <5>1
        <5>3. b[k] = q[n - r + 1 + k]
          BY <3>1, <3>3, <5>1
        <5> QED BY <5>1, <5>2, <5>3
      <4> QED BY <1>0, <4>0, <4>1, <4>2
    <3> QED BY <3>2, <3>3, <3>4, SeqEqual
  <2> QED BY <2>2, <2>3, <2>4, <2>5
<1>2. CASE ~(n > r)
  BY <1>2 DEF LastScores
<1> QED BY <1>1, <1>2

(* What a released verdict adds to the history of its session.             *)
LEMMA ReleasedGrows ==
  ASSUME Typed, NEW t \in Threads, ReleaseVerdict(t),
         job[t] \in Sessions \X Windows
  PROVE  LET s == job[t][1]
             i == nextIndex[s]
             q == Remember(rolling[s], pending[s][i]) IN
         /\ i \in Windows /\ pending[s][i] \in Scores
         /\ ~terminal[s]
         /\ rolling' = [rolling EXCEPT ![s] = q]
         /\ terminal' = [terminal EXCEPT ![s] = Suspicious(q)]
         /\ \E v \in Verdict :
              /\ v.sess = s /\ v.win = i /\ v.score = pending[s][i]
              /\ v.action = IF Suspicious(q) THEN "terminate" ELSE "log"
              /\ released' = [released EXCEPT ![s] = Append(@, v)]
              /\ resp' = [resp EXCEPT ![t] = Append(@, v)]
<1> DEFINE s == job[t][1]
           i == nextIndex[s]
           x == pending[s][i]
           stop == Suspicious(Remember(rolling[s], x))
           v == [sess |-> s, win |-> i, score |-> x,
                 action |-> IF stop THEN "terminate" ELSE "log"]
<1>1. s \in Sessions /\ PolicyType
  BY DEF Typed, TypeOK
<1>2. PendingAt(s, i) = x /\ i \in Windows /\ x \in Scores
  BY <1>1 DEF ReleaseVerdict, PendingAt, PolicyType
<1>3. /\ ~terminal[s]
      /\ rolling' = [rolling EXCEPT ![s] = Remember(rolling[s], x)]
      /\ terminal' = [terminal EXCEPT ![s] = stop]
      /\ released' = [released EXCEPT ![s] = Append(@, v)]
      /\ resp' = [resp EXCEPT ![t] = Append(@, v)]
  BY <1>2 DEF ReleaseVerdict, Discards
<1>4. v \in Verdict
  BY <1>1, <1>2 DEF Verdict, Actions, Windows
<1> QED BY <1>2, <1>3, <1>4

LEMMA TerminateOnceKept ==
  ASSUME Typed, TerminateOnce, [Next]_vars
  PROVE  TerminateOnce'
<1>0. PolicyType
  BY DEF Typed, TypeOK
<1>1. CASE UNCHANGED <<terminal, released>>
  BY <1>1 DEF TerminateOnce
<1>2. ASSUME NEW t \in Threads, ReleaseSkip(t) \/ ReleaseDiscard(t)
      PROVE  TerminateOnce'
  BY <1>2 DEF ReleaseSkip, ReleaseDiscard, TerminateOnce
<1>3. ASSUME NEW t \in Threads, ReleaseVerdict(t),
             job[t] \in Sessions \X Windows
      PROVE  TerminateOnce'
  <2> DEFINE s == job[t][1]
  <2>1. s \in Sessions /\ ~terminal[s] /\ released[s] \in Seq(Verdict)
    BY <1>0, <1>3, ReleasedGrows DEF PolicyType
  <2>2. \A k \in DOMAIN released[s] : released[s][k].action # "terminate"
    BY <2>1 DEF TerminateOnce
  <2>3. PICK v \in Verdict, stop \in BOOLEAN :
          /\ v.action = "terminate" => stop
          /\ released' = [released EXCEPT ![s] = Append(@, v)]
          /\ terminal' = [terminal EXCEPT ![s] = stop]
    <3> DEFINE q == Remember(rolling[s], pending[s][nextIndex[s]])
    <3>1. Suspicious(q) \in BOOLEAN
      BY DEF Suspicious
    <3>2. PICK v \in Verdict :
            /\ v.action = IF Suspicious(q) THEN "terminate" ELSE "log"
            /\ released' = [released EXCEPT ![s] = Append(@, v)]
            /\ terminal' = [terminal EXCEPT ![s] = Suspicious(q)]
      BY <1>3, ReleasedGrows
    <3> HIDE DEF q
    <3> QED BY <3>1, <3>2
  <2>4. /\ released'[s] = Append(released[s], v) /\ terminal'[s] = stop
        /\ \A r \in Sessions \ {s} : /\ released'[r] = released[r]
                                     /\ terminal'[r] = terminal[r]
    BY <1>0, <2>1, <2>3 DEF PolicyType
  <2>5. \A k \in DOMAIN released'[s] :
          released'[s][k].action = "terminate"
            => k = Len(released'[s]) /\ terminal'[s]
    BY <2>1, <2>2, <2>3, <2>4
  <2> QED BY <2>4, <2>5 DEF TerminateOnce
<1> QED BY <1>1, <1>2, <1>3, PolicyMoves

(***************************************************************************)
(* The session's policy stops with its first terminating verdict: nothing  *)
(* is released after it, whatever windows are still being classified.      *)
(***************************************************************************)
THEOREM TerminatesOnce == Spec => []TerminateOnce
<1>1. Init => TerminateOnce
  BY DEF Init, TerminateOnce
<1> QED BY <1>1, TerminateOnceKept, InitTyped, NextTyped, PTL DEF Spec

Decided == RollingMatches /\ DecisionsFollowPolicy

LEMMA InitDecided == Init => Decided
<1>1. LastScores(ScoresOf(<<>>)) = <<>>
  <2>1. ScoresOf(<<>>) = <<>>
    BY DEF ScoresOf
  <2> QED BY <2>1, PolicyAssumption DEF LastScores
<1> QED BY <1>1 DEF Init, Decided, RollingMatches, DecisionsFollowPolicy

LEMMA DecidedKept ==
  ASSUME Typed, Decided, [Next]_vars
  PROVE  Decided'
<1>0. PolicyType
  BY DEF Typed, TypeOK
<1>1. CASE UNCHANGED <<rolling, released>>
  BY <1>1 DEF Decided, RollingMatches, DecisionsFollowPolicy
<1>2. ASSUME NEW t \in Threads, ReleaseSkip(t) \/ ReleaseDiscard(t)
      PROVE  Decided'
  <2>1. UNCHANGED <<rolling, released>>
    BY <1>2 DEF ReleaseSkip, ReleaseDiscard
  <2> QED BY <2>1, <1>1
<1>3. ASSUME NEW t \in Threads, ReleaseVerdict(t),
             job[t] \in Sessions \X Windows
      PROVE  Decided'
  <2> DEFINE s == job[t][1]
             x == pending[s][nextIndex[s]]
             old == released[s]
             q == Remember(rolling[s], x)
  <2>1. s \in Sessions /\ x \in Scores /\ old \in Seq(Verdict)
    BY <1>0, <1>3, ReleasedGrows DEF PolicyType
  <2>2. PICK v \in Verdict :
          /\ v.score = x
          /\ v.action = IF Suspicious(q) THEN "terminate" ELSE "log"
          /\ released' = [released EXCEPT ![s] = Append(@, v)]
          /\ rolling' = [rolling EXCEPT ![s] = q]
    BY <1>3, ReleasedGrows
  <2>3. /\ released'[s] = Append(old, v) /\ rolling'[s] = q
        /\ \A r \in Sessions \ {s} : /\ released'[r] = released[r]
                                     /\ rolling'[r] = rolling[r]
    BY <1>0, <2>1, <2>2 DEF PolicyType
  <2>4. /\ ScoresOf(old) \in Seq(Scores)
        /\ ScoresOf(Append(old, v)) = Append(ScoresOf(old), x)
    <3> HIDE DEF x, old
    <3>1. \A u \in Verdict : u.score \in Scores
      BY DEF Verdict
    <3>2. ScoresOf(old) \in Seq(Scores) /\ Len(ScoresOf(old)) = Len(old)
      BY <2>1, <3>1 DEF ScoresOf
    <3>3. /\ Append(old, v) \in Seq(Verdict)
          /\ Len(Append(old, v)) = Len(old) + 1
          /\ Append(old, v)[Len(old) + 1] = v
          /\ \A k \in 1..Len(old) : Append(old, v)[k] = old[k]
      BY <2>1
    <3>4. /\ ScoresOf(Append(old, v)) \in Seq(Scores)
          /\ Len(ScoresOf(Append(old, v))) = Len(old) + 1
      BY <3>1, <3>3 DEF ScoresOf
    <3>5. ASSUME NEW k \in 1..(Len(old) + 1)
          PROVE  ScoresOf(Append(old, v))[k] = Append(ScoresOf(old), x)[k]
      <4>1. ScoresOf(Append(old, v))[k] = Append(old, v)[k].score
        BY <3>3 DEF ScoresOf
      <4>2. CASE k = Len(old) + 1
        BY <4>1, <4>2, <3>2, <3>3, <2>1, <2>2
      <4>3. CASE k \in 1..Len(old)
        <5>1. ScoresOf(old)[k] = old[k].score
          BY <2>1, <4>3 DEF ScoresOf
        <5> QED BY <5>1, <4>1, <4>3, <3>2, <3>3, <2>1
      <4>4. Len(old) \in Nat
        BY <2>1
      <4>5. k = Len(old) + 1 \/ k \in 1..Len(old)
        BY <4>4
      <4> QED BY <4>2, <4>3, <4>5
    <3>6. /\ Append(ScoresOf(old), x) \in Seq(Scores)
          /\ Len(Append(ScoresOf(old), x)) = Len(old) + 1
      BY <3>2, <2>1
    <3> QED BY <3>2, <3>4, <3>5, <3>6, SeqEqual
  <2>5. q = LastScores(ScoresOf(Append(old, v)))
    <3>1. rolling[s] = LastScores(ScoresOf(old))
      BY <2>1 DEF Decided, RollingMatches
    <3> QED BY <3>1, <2>1, <2>4, LastScoresAppend DEF Remember
  <2>6. RollingMatches'
    BY <2>3, <2>5 DEF Decided, RollingMatches
  <2>7. ASSUME NEW k \in DOMAIN Append(old, v)
        PROVE  (Append(old, v)[k].action = "terminate") <=>
                 Suspicious(LastScores(ScoresOf(SubSeq(Append(old, v), 1, k))))
    <3> HIDE DEF q, old, x
    <3>1. CASE k = Len(old) + 1
      <4>1. /\ SubSeq(Append(old, v), 1, k) = Append(old, v)
            /\ Append(old, v)[k] = v
        BY <2>1, <3>1
      <4> QED BY <4>1, <2>2, <2>5
    <3>2. CASE k \in DOMAIN old
      <4>1. /\ SubSeq(Append(old, v), 1, k) = SubSeq(old, 1, k)
            /\ Append(old, v)[k] = old[k]
        BY <2>1, <3>2
      <4> QED BY <4>1, <2>1, <3>2 DEF Decided, DecisionsFollowPolicy, old
    <3> QED BY <2>1, <2>7, <3>1, <3>2
  <2>8. DecisionsFollowPolicy'
    <3> HIDE DEF s, q, old, x
    <3> SUFFICES ASSUME NEW r \in Sessions, NEW k \in DOMAIN released'[r]
                 PROVE  (released'[r][k].action = "terminate") <=>
                          Suspicious(LastScores(ScoresOf(
                            SubSeq(released'[r], 1, k))))
      BY DEF Decided, DecisionsFollowPolicy
    <3>1. CASE r = s
      BY <2>3, <2>7, <3>1
    <3>2. CASE r # s
      <4>1. released'[r] = released[r]
        BY <2>3, <3>2
      <4> QED BY <4>1 DEF Decided, DecisionsFollowPolicy
    <3> QED BY <3>1, <3>2
  <2> QED BY <2>6, <2>8 DEF Decided
<1> QED BY <1>1, <1>2, <1>3, PolicyMoves

(***************************************************************************)
(* Every decision is the rolling policy applied to the scores released up  *)
(* to it, so a session's decisions depend on its windows and not on the    *)
(* order in which the workers finished them.  The inductive invariant adds *)
(* that the rolling list is the end of what has been released.             *)
(***************************************************************************)
THEOREM PolicyFollowed == Spec => []DecisionsFollowPolicy
<1>1. Decided => DecisionsFollowPolicy
  BY DEF Decided
<1> QED BY <1>1, InitDecided, DecidedKept, InitTyped, NextTyped, PTL DEF Spec

-----------------------------------------------------------------------------
(* Verdicts on their way to the collector: a thread has some in hand only  *)
(* between their release and the outbox, all of the session it works for;  *)
(* a reader takes out of the outbox what it has sent.                      *)
InHand ==
  \A t \in Threads :
    /\ resp[t] # <<>> => pc[t] \in {"release", "enqueue"}
    /\ \A k \in DOMAIN resp[t] : resp[t][k].sess = job[t][1]

Popping ==
  \A c \in Conns :
    connPc[c] = "pop" => held[c] \in Range(sent[held[c].sess])

OwnVerdicts ==
  \A s \in Sessions : \A k \in DOMAIN released[s] : released[s][k].sess = s

OnTheWay == InHand /\ Popping /\ OwnVerdicts

(* Where a verdict of session s can be.                                    *)
Kept(s, v) ==
  \/ v \in Range(sent[s])
  \/ v \in Range(outbox[s])
  \/ \E t \in Threads : v \in Range(resp[t])

LEMMA RangeAppend ==
  ASSUME NEW S, NEW q \in Seq(S), NEW v \in S
  PROVE  Range(Append(q, v)) = Range(q) \cup {v}
<1> DEFINE n == Len(q)
<1>1. n \in Nat /\ DOMAIN q = 1..n
  BY LenProperties
<1>2. /\ DOMAIN Append(q, v) = 1..(n + 1) /\ Append(q, v)[n + 1] = v
      /\ \A k \in 1..n : Append(q, v)[k] = q[k]
  BY AppendProperties, LenProperties
<1> HIDE DEF n
<1>3. 1..(n + 1) = (1..n) \cup {n + 1}
  BY <1>1
<1> QED BY <1>1, <1>2, <1>3 DEF Range

LEMMA RangeConcat ==
  ASSUME NEW S, NEW q \in Seq(S), NEW r \in Seq(S), NEW u \in Range(q) \cup Range(r)
  PROVE  u \in Range(q \o r)
<1> DEFINE m == Len(q)
           n == Len(r)
           c == q \o r
<1>1. m \in Nat /\ DOMAIN q = 1..m /\ n \in Nat /\ DOMAIN r = 1..n
  BY LenProperties
<1>2. /\ DOMAIN c = 1..(m + n)
      /\ \A k \in 1..m : c[k] = q[k]
      /\ \A k \in 1..n : c[m + k] = r[k]
  <2>1. /\ c \in Seq(S) /\ Len(c) = m + n
        /\ \A i \in 1..(m + n) : c[i] = IF i <= m THEN q[i] ELSE r[i - m]
    BY ConcatProperties
  <2>2. DOMAIN c = 1..(m + n)
    BY <2>1, LenProperties
  <2> HIDE DEF c, m, n
  <2>3. \A k \in 1..m : k \in 1..(m + n) /\ k <= m
    BY <1>1
  <2>4. \A k \in 1..n : m + k \in 1..(m + n) /\ ~(m + k <= m) /\ (m + k) - m = k
    BY <1>1
  <2> QED BY <2>1, <2>2, <2>3, <2>4
<1> HIDE DEF c, m, n
<1>3. CASE u \in Range(q)
  <2>1. PICK k \in 1..m : u = q[k]
    BY <1>1, <1>3 DEF Range
  <2>2. k \in 1..(m + n)
    BY <1>1
  <2> QED BY <1>2, <2>1, <2>2 DEF Range, c
<1>4. CASE u \in Range(r)
  <2>1. PICK k \in 1..n : u = r[k]
    BY <1>1, <1>4 DEF Range
  <2>2. m + k \in 1..(m + n)
    BY <1>1
  <2> QED BY <1>2, <2>1, <2>2 DEF Range, c
<1> QED BY <1>3, <1>4

(* Popping a verdict leaves every other one in the outbox.                 *)
LEMMA PopLeavesOthers ==
  ASSUME NEW S, NEW q \in Seq(S), NEW v, NEW u \in Range(q), u # v
  PROVE  u \in Range(PopOutbox(q, v))
<1> DEFINE n == Len(q)
           p == [k \in 1..(n - 1) |->
                   IF \E j \in 1..k : q[j] = v THEN q[k + 1] ELSE q[k]]
<1>1. n \in Nat /\ DOMAIN q = 1..n
  BY LenProperties
<1>2. PICK m \in 1..n : u = q[m]
  BY <1>1 DEF Range
<1>3. CASE \A k \in DOMAIN q : q[k] # v
  BY <1>3 DEF PopOutbox
<1>4. CASE \E k \in DOMAIN q : q[k] = v
  <2>1. PopOutbox(q, v) = p
    BY <1>4 DEF PopOutbox
  <2>2. PICK l \in 1..n : q[l] = v
    BY <1>1, <1>4
  <2> HIDE DEF n
  <2>3. l # m /\ l \in Nat /\ m \in Nat
    BY <1>1, <1>2, <2>2
  <2>4. CASE \E j \in 1..m : q[j] = v
    <3>1. PICK j \in 1..m : q[j] = v
      BY <2>4
    <3>2. j # m
      BY <1>2, <3>1
    <3>3. /\ m - 1 \in 1..(n - 1) /\ j \in 1..(m - 1) /\ (m - 1) + 1 = m
      BY <1>1, <3>1, <3>2
    <3>4. p[m - 1] = u
      BY <1>2, <3>1, <3>3
    <3> QED BY <2>1, <3>3, <3>4 DEF Range
  <2>5. CASE ~ \E j \in 1..m : q[j] = v
    <3>1. m \in 1..(n - 1)
      <4>1. l \notin 1..m
        BY <2>2, <2>5
      <4> QED BY <1>1, <2>3, <4>1
    <3>2. p[m] = u
      BY <1>2, <2>5, <3>1
    <3> QED BY <2>1, <3>1, <3>2 DEF Range
  <2> QED BY <2>4, <2>5
<1> QED BY <1>3, <1>4

-----------------------------------------------------------------------------
LEMMA InHandKept ==
  ASSUME Typed, InHand, [Next]_vars
  PROVE  InHand'
<1> USE DEF feedVars, threadVars, policyVars, connVars, coreVars
<1>t. /\ pc \in [Threads -> ControlPoints]
      /\ job \in [Threads -> (Sessions \X Nat) \cup {None}]
      /\ resp \in [Threads -> Seq(Verdict)]
      /\ EventWorker \in Threads /\ Workers \subseteq Threads
  BY DEF Typed, TypeOK, ThreadsType, Threads
<1>1. ASSUME UNCHANGED <<pc, job, resp>>
      PROVE  InHand'
  BY <1>1 DEF InHand
<1>2. ASSUME NEW t \in Threads, resp'[t] = <<>>,
             \A u \in Threads \ {t} :
               pc'[u] = pc[u] /\ job'[u] = job[u] /\ resp'[u] = resp[u]
      PROVE  InHand'
  BY <1>2 DEF InHand
<1>3. ASSUME NEW t \in Threads, Leave(t)
      PROVE  InHand'
  <2>1. /\ resp'[t] = <<>>
        /\ \A u \in Threads \ {t} :
             pc'[u] = pc[u] /\ job'[u] = job[u] /\ resp'[u] = resp[u]
    BY <1>3, <1>t DEF Leave
  <2> QED BY <1>2, <2>1
<1>4. ASSUME NEW t \in Threads, resp' = resp, resp[t] = <<>>,
             \A u \in Threads \ {t} : pc'[u] = pc[u] /\ job'[u] = job[u]
      PROVE  InHand'
  BY <1>2, <1>4
<1>5. ASSUME NEW c \in Conns,
             \/ Accept(c) \/ Disconnect(c) \/ ReaderStep(c)
             \/ \E m \in Message : Receive(c, m)
      PROVE  InHand'
  <2>1. UNCHANGED <<pc, job, resp>>
    BY <1>5 DEF Accept, Disconnect, ReaderStep, Receive, DrainPeek, DrainDone,
                SendResponse, DrainPop, SubmitFrame, ReceiveTimeout, MarkEarly
  <2> QED BY <1>1, <2>1
<1>6. ASSUME NEW t \in Threads, Callback(t)
      PROVE  InHand'
  <2>1. CASE FinishL1(t)
    <3>1. resp[t] = <<>>
      BY <2>1 DEF FinishL1, InHand
    <3>2. \/ Leave(t)
          \/ /\ pc' = [pc EXCEPT ![t] = "release"]
             /\ UNCHANGED <<job, resp>>
      BY <2>1 DEF FinishL1
    <3> QED BY <1>t, <1>3, <1>4, <3>1, <3>2
  <2>2. CASE ReleaseSkip(t) \/ ReleaseDiscard(t)
    BY <1>1, <2>2 DEF ReleaseSkip, ReleaseDiscard
  <2>3. CASE ReleaseVerdict(t)
    <3>1. /\ UNCHANGED job /\ pc[t] = "release"
          /\ pc' = pc \/ pc' = [pc EXCEPT ![t] = "enqueue"]
      BY <2>3 DEF ReleaseVerdict
    <3>2. job[t] \in Sessions \X Windows
      BY <3>1 DEF Typed, ThreadControl, Busy
    <3>3. PICK v \in Verdict : /\ v.sess = job[t][1]
                               /\ resp' = [resp EXCEPT ![t] = Append(@, v)]
      BY <2>3, <3>2, ReleasedGrows
    <3>4. /\ pc'[t] \in {"release", "enqueue"}
          /\ resp'[t] = Append(resp[t], v) /\ resp[t] \in Seq(Verdict)
          /\ \A u \in Threads \ {t} :
               pc'[u] = pc[u] /\ job'[u] = job[u] /\ resp'[u] = resp[u]
      BY <1>t, <3>1, <3>3
    <3>5. \A k \in DOMAIN resp'[t] : resp'[t][k].sess = job[t][1]
      <4> SUFFICES ASSUME NEW k \in DOMAIN Append(resp[t], v)
                   PROVE  Append(resp[t], v)[k].sess = job[t][1]
        BY <3>4
      <4>1. Append(resp[t], v)[k] = v \/ \E j \in DOMAIN resp[t] :
              Append(resp[t], v)[k] = resp[t][j]
        <5>1. Append(resp[t], v)[k] \in Range(resp[t]) \cup {v}
          BY <3>4, RangeAppend DEF Range
        <5> QED BY <5>1 DEF Range
      <4> QED BY <3>3, <4>1 DEF InHand
    <3> QED BY <3>1, <3>4, <3>5, SMTT(30) DEF InHand
  <2>4. CASE ReleaseStop(t)
    <3>1. CASE Leave(t)
      BY <1>3, <3>1
    <3>2. CASE pc' = [pc EXCEPT ![t] = "enqueue"] /\ UNCHANGED <<job, resp>>
      BY <1>t, <3>2 DEF InHand
    <3> QED BY <2>4, <3>1, <3>2 DEF ReleaseStop
  <2>5. CASE EnqueueResponses(t)
    BY <2>5, <1>3 DEF EnqueueResponses
  <2> QED BY <1>6, <2>1, <2>2, <2>3, <2>4, <2>5 DEF Callback
<1>7. CASE EventStep
  <2>1. CASE TakeFrame
    <3>1. /\ resp' = resp /\ pc[EventWorker] = "idle"
          /\ \A u \in Threads \ {EventWorker} : pc'[u] = pc[u] /\ job'[u] = job[u]
      BY <2>1, <1>t DEF TakeFrame
    <3> QED BY <1>t, <1>4, <3>1 DEF InHand
  <2>2. ASSUME NEW n \in 0..BatchWindows, HandleLaunches(n)
        PROVE  InHand'
    <3>1. /\ resp' = resp /\ pc[EventWorker] = "launches"
          /\ \A u \in Threads \ {EventWorker} : pc'[u] = pc[u] /\ job'[u] = job[u]
      BY <2>2, <1>t DEF HandleLaunches
    <3> QED BY <1>t, <1>4, <3>1 DEF InHand
  <2>3. CASE SubmitWindow \/ AttachCallback
    <3>1. /\ pc[EventWorker] \in {"submit", "attach"}
          /\ \/ Leave(EventWorker)
             \/ /\ UNCHANGED <<job, resp>>
                /\ \A u \in Threads \ {EventWorker} : pc'[u] = pc[u]
      BY <2>3, <1>t DEF SubmitWindow, AttachCallback
    <3> QED BY <1>t, <1>3, <1>4, <3>1 DEF InHand
  <2> QED BY <1>6, <1>7, <1>t, <2>1, <2>2, <2>3 DEF EventStep
<1>8. ASSUME NEW w \in Workers, WorkerStep(w)
      PROVE  InHand'
  <2>1. CASE Callback(w)
    BY <2>1, <1>6, <1>t
  <2>2. CASE ~Callback(w)
    <3>1. /\ resp' = resp /\ pc[w] \in {"idle", "check", "predict"}
          /\ \A u \in Threads \ {w} : pc'[u] = pc[u] /\ job'[u] = job[u]
      BY <1>8, <2>2, <1>t
         DEF WorkerStep, StartJob, CheckActive, Predict, Resolve
    <3> QED BY <1>t, <1>4, <3>1 DEF InHand
  <2> QED BY <2>1, <2>2
<1>9. CASE UNCHANGED vars
  BY <1>1, <1>9 DEF vars
<1> QED BY <1>5, <1>7, <1>8, <1>9 DEF Next

(* What is written stays written; a reader pops what it has written.       *)
LEMMA SentKept ==
  ASSUME Typed, Popping, [Next]_vars
  PROVE  /\ \A s \in Sessions : Range(sent[s]) \subseteq Range(sent'[s])
         /\ Popping'
<1> USE DEF feedVars, threadVars, policyVars, connVars, coreVars
<1>t. /\ sent \in [Sessions -> Seq(Verdict)]
      /\ connPc \in [Conns -> {"new", "drain", "send", "pop", "recv", "mark",
                               "submit", "closed"}]
      /\ held \in [Conns -> Verdict \cup {None}]
      /\ \A c \in Conns : connPc[c] \in {"send", "pop"} =>
           held[c] \in Verdict /\ held[c].sess \in Sessions
  BY DEF Typed, TypeOK, SessionsType, ReadersType, ReaderControl, Verdict
<1>1. CASE UNCHANGED <<sent, connPc, held>>
  BY <1>1 DEF Popping
<1>2. ASSUME NEW c \in Conns, sent' = sent, connPc'[c] # "pop",
             \A d \in Conns \ {c} : connPc'[d] = connPc[d] /\ held'[d] = held[d]
      PROVE  /\ \A s \in Sessions : Range(sent[s]) \subseteq Range(sent'[s])
             /\ Popping'
  BY <1>2 DEF Popping
<1>3. ASSUME NEW c \in Conns, SendResponse(c)
      PROVE  /\ \A s \in Sessions : Range(sent[s]) \subseteq Range(sent'[s])
             /\ Popping'
  <2> DEFINE v == held[c]
  <2>1. /\ v \in Verdict /\ v.sess \in Sessions /\ held' = held
        /\ connPc' = [connPc EXCEPT ![c] = "pop"]
        /\ sent' = [sent EXCEPT ![v.sess] = Append(@, v)]
    BY <1>3, <1>t DEF SendResponse
  <2>2. Range(sent'[v.sess]) = Range(sent[v.sess]) \cup {v}
    <3>1. sent[v.sess] \in Seq(Verdict) /\ sent'[v.sess] = Append(sent[v.sess], v)
      BY <1>t, <2>1
    <3> QED BY <2>1, <3>1, RangeAppend
  <2>3. \A s \in Sessions : Range(sent[s]) \subseteq Range(sent'[s])
    <3> SUFFICES ASSUME NEW s \in Sessions
                 PROVE  Range(sent[s]) \subseteq Range(sent'[s])
      OBVIOUS
    <3>1. CASE s = v.sess
      BY <2>2, <3>1
    <3>2. CASE s # v.sess
      <4>1. sent'[s] = sent[s]
        BY <1>t, <2>1, <3>2
      <4> QED BY <4>1
    <3> QED BY <3>1, <3>2
  <2>4. Popping'
    <3> SUFFICES ASSUME NEW d \in Conns, connPc'[d] = "pop"
                 PROVE  held[d] \in Range(sent'[held[d].sess])
      BY <2>1 DEF Popping
    <3>1. CASE d = c
      BY <2>2, <3>1
    <3>2. CASE d # c
      <4>1. connPc[d] = "pop"
        BY <1>t, <2>1, <3>2
      <4>2. held[d].sess \in Sessions /\ held[d] \in Range(sent[held[d].sess])
        BY <1>t, <4>1 DEF Popping
      <4> QED BY <2>3, <4>2
    <3> QED BY <3>1, <3>2
  <2> QED BY <2>3, <2>4
<1>4. ASSUME NEW c \in Conns,
             \/ Accept(c) \/ Disconnect(c) \/ ReaderStep(c)
             \/ \E m \in Message : Receive(c, m)
      PROVE  /\ \A s \in Sessions : Range(sent[s]) \subseteq Range(sent'[s])
             /\ Popping'
  <2>1. CASE ~SendResponse(c)
    <3>1. /\ sent' = sent /\ connPc'[c] # "pop"
          /\ \A d \in Conns \ {c} : connPc'[d] = connPc[d] /\ held'[d] = held[d]
      BY <1>4, <2>1, <1>t
      DEF Accept, Disconnect, ReaderStep, Receive, DrainPeek, DrainDone,
          DrainPop, MarkEarly, SubmitFrame, ReceiveTimeout
    <3> QED BY <1>2, <3>1
  <2> QED BY <1>3, <2>1
<1>5. ASSUME NEW t \in Threads, Callback(t)
      PROVE  UNCHANGED <<sent, connPc, held>>
  BY <1>5 DEF Callback, FinishL1, ReleaseSkip, ReleaseDiscard, ReleaseVerdict,
              ReleaseStop, EnqueueResponses
<1>6. CASE EventStep
  <2>1. UNCHANGED <<sent, connPc, held>>
    BY <1>5, <1>6
    DEF EventStep, TakeFrame, HandleLaunches, SubmitWindow, AttachCallback, Threads
  <2> QED BY <1>1, <2>1
<1>7. ASSUME NEW w \in Workers, WorkerStep(w)
      PROVE  UNCHANGED <<sent, connPc, held>>
  BY <1>5, <1>7 DEF WorkerStep, StartJob, CheckActive, Predict, Threads
<1>8. CASE UNCHANGED vars
  BY <1>1, <1>8 DEF vars
<1> QED BY <1>1, <1>4, <1>6, <1>7, <1>8 DEF Next

LEMMA OwnVerdictsKept ==
  ASSUME Typed, OwnVerdicts, [Next]_vars
  PROVE  OwnVerdicts'
<1>1. CASE released' = released
  BY <1>1 DEF OwnVerdicts
<1>2. ASSUME NEW t \in Threads, job[t] \in Sessions \X Windows, ReleaseVerdict(t)
      PROVE  OwnVerdicts'
  <2> DEFINE s == job[t][1]
  <2>1. PICK v \in Verdict : /\ v.sess = s
                             /\ released' = [released EXCEPT ![s] = Append(@, v)]
    BY <1>2, ReleasedGrows
  <2>2. s \in Sessions /\ released \in [Sessions -> Seq(Verdict)]
    BY <1>2 DEF Typed, TypeOK, PolicyType
  <2> SUFFICES ASSUME NEW r \in Sessions, NEW k \in DOMAIN released'[r]
               PROVE  released'[r][k].sess = r
    BY DEF OwnVerdicts
  <2>3. CASE r = s
    <3>1. released'[r] = Append(released[r], v) /\ released[r] \in Seq(Verdict)
      BY <2>1, <2>2, <2>3
    <3>2. released'[r][k] \in Range(released[r]) \cup {v}
      BY <3>1, RangeAppend DEF Range
    <3> QED BY <2>1, <2>3, <3>2 DEF OwnVerdicts, Range
  <2>4. CASE r # s
    <3>1. released'[r] = released[r]
      BY <2>1, <2>2, <2>4
    <3> QED BY <3>1 DEF OwnVerdicts
  <2> QED BY <2>3, <2>4
<1>3. ASSUME NEW t \in Threads, ReleaseSkip(t) \/ ReleaseDiscard(t)
      PROVE  released' = released
  BY <1>3 DEF ReleaseSkip, ReleaseDiscard
<1> QED BY <1>1, <1>2, <1>3, PolicyMoves

(* No step of a live session's life loses a verdict of it.                 *)
LEMMA VerdictsTravel ==
  ASSUME Typed, OnTheWay, [Next]_vars, NEW s \in Sessions, active'[s],
         NEW v \in Verdict, v.sess = s, Kept(s, v)
  PROVE  Kept(s, v)'
<1> USE DEF feedVars, threadVars, policyVars, connVars, coreVars
<1>t. /\ outbox \in [Sessions -> Seq(Verdict)]
      /\ resp \in [Threads -> Seq(Verdict)]
      /\ active \in [Sessions -> BOOLEAN]
      /\ EventWorker \in Threads /\ Workers \subseteq Threads
  BY DEF Typed, TypeOK, SessionsType, ThreadsType, Threads
<1>s. Range(sent[s]) \subseteq Range(sent'[s])
  BY SentKept DEF OnTheWay
<1>1. ASSUME Range(outbox[s]) \subseteq Range(outbox'[s]),
             \A u \in Threads : Range(resp[u]) \subseteq Range(resp'[u])
      PROVE  Kept(s, v)'
  BY <1>s, <1>1 DEF Kept
<1>2. CASE UNCHANGED <<outbox, resp>>
  BY <1>1, <1>2
<1>3. ASSUME NEW r \in Sessions, MarkEnded(r), UNCHANGED resp
      PROVE  Kept(s, v)'
  <2>1. outbox'[s] = outbox[s]
    BY <1>3, <1>t DEF MarkEnded
  <2> QED BY <1>1, <1>3, <2>1
<1>4. ASSUME NEW t \in Threads, Leave(t), resp[t] = <<>>, UNCHANGED outbox
      PROVE  Kept(s, v)'
  <2>1. \A u \in Threads : resp'[u] = resp[u]
    BY <1>4, <1>t DEF Leave
  <2> QED BY <1>1, <1>4, <2>1
<1>5. ASSUME NEW c \in Conns,
             \/ Accept(c) \/ Disconnect(c) \/ ReaderStep(c)
             \/ \E m \in Message : Receive(c, m)
      PROVE  Kept(s, v)'
  <2>1. CASE MarkEarly(c)
    <3>1. frame[c].sess \in Sessions
      BY <2>1 DEF MarkEarly, Typed, ReaderControl, Message
    <3> QED BY <1>3, <2>1, <3>1 DEF MarkEarly
  <2>2. CASE DrainPop(c)
    <3> DEFINE u == held[c]
    <3>1. /\ u \in Verdict /\ u.sess \in Sessions /\ u \in Range(sent[u.sess])
          /\ resp' = resp
          /\ outbox' = [outbox EXCEPT ![u.sess] = PopOutbox(outbox[u.sess], u)]
      BY <2>2 DEF DrainPop, OnTheWay, Popping, Typed, ReaderControl, Verdict
    <3>2. CASE u = v
      BY <1>s, <3>1, <3>2 DEF Kept
    <3>3. CASE u # v /\ u.sess = s
      <4>1. outbox'[s] = PopOutbox(outbox[s], u)
        BY <1>t, <3>1, <3>3
      <4>2. outbox[s] \in Seq(Verdict)
        BY <1>t
      <4>3. v \in Range(outbox[s]) => v \in Range(outbox'[s])
        BY <3>3, <4>1, <4>2, PopLeavesOthers
      <4> QED BY <1>s, <3>1, <4>3 DEF Kept
    <3>4. CASE u.sess # s
      <4>1. outbox'[s] = outbox[s]
        BY <1>t, <3>1, <3>4
      <4> QED BY <1>1, <3>1, <4>1
    <3> QED BY <3>2, <3>3, <3>4
  <2>3. CASE ~MarkEarly(c) /\ ~DrainPop(c)
    <3>1. UNCHANGED <<outbox, resp>>
      BY <1>5, <2>3
      DEF Accept, Disconnect, ReaderStep, Receive, DrainPeek, DrainDone,
          SendResponse, SubmitFrame, ReceiveTimeout
    <3> QED BY <1>2, <3>1
  <2> QED BY <2>1, <2>2, <2>3
<1>6. ASSUME NEW t \in Threads, Callback(t)
      PROVE  Kept(s, v)'
  <2>1. CASE FinishL1(t)
    <3>1. resp[t] = <<>> /\ UNCHANGED outbox /\ (UNCHANGED resp \/ Leave(t))
      BY <2>1 DEF FinishL1, OnTheWay, InHand
    <3> QED BY <1>2, <1>4, <3>1
  <2>2. CASE ReleaseSkip(t) \/ ReleaseDiscard(t)
    BY <1>2, <2>2 DEF ReleaseSkip, ReleaseDiscard
  <2>3. CASE ReleaseVerdict(t)
    <3>1. pc[t] = "release" /\ outbox' = outbox
      BY <2>3 DEF ReleaseVerdict
    <3>2. job[t] \in Sessions \X Windows
      BY <3>1 DEF Typed, ThreadControl, Busy
    <3>3. PICK x \in Verdict : resp' = [resp EXCEPT ![t] = Append(@, x)]
      BY <2>3, <3>2, ReleasedGrows
    <3>4. Range(resp'[t]) = Range(resp[t]) \cup {x}
      <4>1. resp'[t] = Append(resp[t], x) /\ resp[t] \in Seq(Verdict)
        BY <1>t, <3>3
      <4> QED BY <4>1, RangeAppend
    <3>5. \A u \in Threads : u # t => resp'[u] = resp[u]
      BY <1>t, <3>3
    <3>6. \A u \in Threads : Range(resp[u]) \subseteq Range(resp'[u])
      BY <3>4, <3>5
    <3> QED BY <1>1, <3>1, <3>6
  <2>4. CASE ReleaseStop(t)
    <3>1. UNCHANGED outbox /\ (UNCHANGED resp \/ (resp[t] = <<>> /\ Leave(t)))
      BY <2>4 DEF ReleaseStop, ResponsesReady
    <3> QED BY <1>2, <1>4, <3>1
  <2>5. CASE EnqueueResponses(t)
    <3> DEFINE r == job[t][1]
    <3>1. /\ pc[t] = "enqueue" /\ Leave(t)
          /\ outbox' = [outbox EXCEPT ![r] = outbox[r] \o resp[t]]
      BY <2>5 DEF EnqueueResponses
    <3>2. r \in Sessions
      BY <3>1 DEF Typed, ThreadControl, Busy
    <3>3. \A u \in Threads : u # t => resp'[u] = resp[u]
      BY <1>t, <3>1 DEF Leave
    <3>4. v \in Range(resp[t]) => r = s
      BY DEF OnTheWay, InHand, Range
    <3>5. CASE r = s
      <4>1. outbox'[s] = outbox[s] \o resp[t]
        BY <1>t, <3>1, <3>2, <3>5
      <4>2. outbox[s] \in Seq(Verdict) /\ resp[t] \in Seq(Verdict)
        BY <1>t
      <4>3. v \in Range(outbox[s]) \cup Range(resp[t]) => v \in Range(outbox'[s])
        BY <4>1, <4>2, RangeConcat
      <4> QED BY <1>s, <3>3, <4>3 DEF Kept
    <3>6. CASE r # s
      <4>1. outbox'[s] = outbox[s]
        BY <1>t, <3>1, <3>2, <3>6
      <4> QED BY <1>s, <3>3, <3>4, <3>6, <4>1 DEF Kept
    <3> QED BY <3>5, <3>6
  <2> QED BY <1>6, <2>1, <2>2, <2>3, <2>4, <2>5 DEF Callback
<1>7. CASE EventStep
  <2>1. CASE TakeFrame
    <3>1. Head(inbox).sess \in Sessions
      <4>1. Head(inbox) \in Message
        BY <2>1, HeadTailProperties DEF TakeFrame, Typed, TypeOK, ReadersType
      <4> QED BY <4>1 DEF Message
    <3>2. /\ UNCHANGED resp
          /\ MarkEnded(Head(inbox).sess) \/ UNCHANGED outbox
      BY <2>1 DEF TakeFrame
    <3> QED BY <1>2, <1>3, <3>1, <3>2
  <2>2. ASSUME NEW n \in 0..BatchWindows, HandleLaunches(n)
        PROVE  Kept(s, v)'
    BY <1>2, <2>2 DEF HandleLaunches
  <2>3. CASE SubmitWindow \/ AttachCallback
    <3>1. /\ pc[EventWorker] \in {"submit", "attach"} /\ UNCHANGED outbox
          /\ Leave(EventWorker) \/ UNCHANGED resp
      BY <2>3 DEF SubmitWindow, AttachCallback
    <3>2. resp[EventWorker] = <<>>
      BY <1>t, <3>1 DEF OnTheWay, InHand
    <3> QED BY <1>2, <1>4, <1>t, <3>1, <3>2
  <2> QED BY <1>6, <1>7, <1>t, <2>1, <2>2, <2>3 DEF EventStep
<1>8. ASSUME NEW w \in Workers, WorkerStep(w)
      PROVE  Kept(s, v)'
  <2>1. CASE Callback(w)
    BY <2>1, <1>6, <1>t
  <2>2. CASE ~Callback(w)
    <3>1. UNCHANGED <<outbox, resp>>
      BY <1>8, <2>2 DEF WorkerStep, StartJob, CheckActive, Predict, Resolve
    <3> QED BY <1>2, <3>1
  <2> QED BY <2>1, <2>2
<1>9. CASE UNCHANGED vars
  BY <1>2, <1>9 DEF vars
<1> QED BY <1>5, <1>7, <1>8, <1>9 DEF Next

LEMMA NothingLost ==
  ASSUME Typed, OnTheWay, NoVerdictLost, [Next]_vars
  PROVE  NoVerdictLost'
<1> SUFFICES ASSUME NEW s \in Sessions, active'[s], NEW k \in DOMAIN released'[s],
                    NEW v \in Verdict, v = released'[s][k]
             PROVE  Kept(s, v)'
  <2>1. \A s \in Sessions : \A k \in DOMAIN released'[s] : released'[s][k] \in Verdict
    BY NextTyped, ElementOfSeq DEF Typed, TypeOK, PolicyType
  <2> QED BY <2>1 DEF NoVerdictLost, Kept
<1>1. active[s] /\ released \in [Sessions -> Seq(Verdict)]
  BY ActiveFalls DEF Typed, TypeOK, PolicyType
<1>2. CASE released'[s][k] \in Range(released[s])
  <2>1. PICK j \in DOMAIN released[s] : released'[s][k] = released[s][j]
    BY <1>2 DEF Range
  <2>2. v = released[s][j]
    BY <2>1
  <2>3. v.sess = s /\ Kept(s, v)
    BY <1>1, <2>2 DEF OnTheWay, OwnVerdicts, NoVerdictLost, Kept
  <2>4. Kept(s, v)'
    BY <2>3, VerdictsTravel
  <2> QED BY <2>4
<1>3. CASE released'[s][k] \notin Range(released[s])
  <2>1. released' # released
    BY <1>3 DEF Range
  <2>2. PICK t \in Threads : job[t] \in Sessions \X Windows /\ ReleaseVerdict(t)
    BY <2>1, PolicyMoves DEF ReleaseSkip, ReleaseDiscard
  <2>3. PICK x \in Verdict : /\ released' = [released EXCEPT ![job[t][1]] = Append(@, x)]
                             /\ resp' = [resp EXCEPT ![t] = Append(@, x)]
    BY <2>2, ReleasedGrows
  <2>4. v = x
    <3>1. released'[s] = released[s] \/ released'[s] = Append(released[s], x)
      BY <1>1, <2>2, <2>3
    <3>2. released[s] \in Seq(Verdict)
      BY <1>1
    <3>3. CASE released'[s] = Append(released[s], x)
      <4>1. released'[s][k] \in Range(released[s]) \cup {x}
        BY <3>2, <3>3, RangeAppend DEF Range
      <4> QED BY <1>3, <4>1
    <3>4. CASE released'[s] = released[s]
      BY <1>3, <3>4 DEF Range
    <3> QED BY <3>1, <3>3, <3>4
  <2>5. x \in Range(resp'[t])
    <3>1. resp'[t] = Append(resp[t], x) /\ resp[t] \in Seq(Verdict)
      BY <2>3 DEF Typed, TypeOK, ThreadsType
    <3> QED BY <3>1, RangeAppend
  <2> QED BY <2>4, <2>5 DEF Kept
<1> QED BY <1>2, <1>3

(***************************************************************************)
(* A verdict released for a session that is still live is written, queued  *)
(* or in the hand of the thread that released it, however many readers     *)
(* drain the outbox at once.                                               *)
(***************************************************************************)
THEOREM NoneLost == Spec => []NoVerdictLost
<1> DEFINE Inv == Typed /\ OnTheWay /\ NoVerdictLost
<1>1. Init => Inv
  BY InitTyped DEF Init, OnTheWay, InHand, Popping, OwnVerdicts, NoVerdictLost
<1>2. Inv /\ [Next]_vars => Inv'
  BY NextTyped, InHandKept, SentKept, OwnVerdictsKept, NothingLost DEF OnTheWay
<1> QED BY <1>1, <1>2, PTL DEF Spec

-----------------------------------------------------------------------------
(***************************************************************************)
(* The order of the verdicts: windows are released in order whatever the   *)
(* pace of the workers, and the threads implement the sequential           *)
(* VerdictStream.                                                          *)
(***************************************************************************)
(* The life of a window.  Windows a batch has not come to yet are fresh:   *)
(* those the scheduler has not emitted, and those behind the one the event *)
(* worker is busy with.                                                    *)
ToCome(s, i) ==
  \/ i >= produced[s]
  \/ /\ pc[EventWorker] \in Busy /\ s = job[EventWorker][1]
     /\ \/ i > job[EventWorker][2]
        \/ pc[EventWorker] = "submit" /\ i = job[EventWorker][2]

Fresh ==
  \A s \in Sessions, i \in Windows : ToCome(s, i) => fut[s][i].state = "none"

StateOf(work) == fut[work[1]][work[2]].state

(* A window waits at most once in the executor's queue, until a worker has *)
(* it; no two workers have the same one.                                   *)
Queued ==
  /\ \A k \in DOMAIN jobs : StateOf(jobs[k]) \in {"queued", "cancelled"}
  /\ \A k, l \in DOMAIN jobs : jobs[k] = jobs[l] => k = l

Running ==
  /\ \A w \in Workers :
       pc[w] \in {"check", "predict"} => StateOf(job[w]) = "running"
  /\ \A v, w \in Workers :
       /\ pc[v] \in {"check", "predict"} /\ pc[w] \in {"check", "predict"}
       /\ job[v] = job[w]
       => v = w

(* Only a session that has ended has cancelled windows; a callback runs    *)
(* for a window that is over.                                              *)
Over ==
  /\ \A s \in Sessions, i \in Windows :
       fut[s][i].state = "cancelled" => ~active[s]
  /\ \A t \in Threads :
       pc[t] = "finish" => StateOf(job[t]) \in {"done", "cancelled"}

(* What waits for its turn is the outcome of a window that is over.        *)
Waiting ==
  \A s \in Sessions, i \in Windows :
    /\ i \in skipped[s] => fut[s][i].state = "done" /\ fut[s][i].outcome = None
    /\ pending[s][i] # None =>
         fut[s][i].state = "done" /\ fut[s][i].outcome = pending[s][i]

Turn == \A s \in Sessions : nextIndex[s] <= MaxWindows

Lives == Fresh /\ Queued /\ Running /\ Over
Ordered == Waiting /\ Turn /\ ReleasedInWindowOrder

-----------------------------------------------------------------------------
SameStates ==
  \A s \in Sessions, i \in Windows :
    fut'[s][i].state = fut[s][i].state /\ fut'[s][i].outcome = fut[s][i].outcome

(* A window that is over stays as it is.                                   *)
DoneKept ==
  \A s \in Sessions, i \in Windows : fut[s][i].state = "done" =>
    fut'[s][i].state = "done" /\ fut'[s][i].outcome = fut[s][i].outcome

(* The parts of the state these invariants speak of.                       *)
LEMMA WorkTyped ==
  ASSUME Typed
  PROVE  /\ fut \in [Sessions -> [Windows -> Future]]
         /\ pc \in [Threads -> ControlPoints] /\ produced \in [Sessions -> Nat]
         /\ job \in [Threads -> (Sessions \X Nat) \cup {None}]
         /\ jobs \in Seq(Sessions \X Windows) /\ active \in [Sessions -> BOOLEAN]
         /\ \A k \in DOMAIN jobs : /\ jobs[k] \in Sessions \X Windows
                                   /\ jobs[k][1] \in Sessions /\ jobs[k][2] \in Windows
         /\ \A t \in Threads : pc[t] \in Busy =>
              /\ job[t] \in Sessions \X Windows
              /\ job[t][1] \in Sessions /\ job[t][2] \in Windows
         /\ EventWorker \in Threads /\ Workers \subseteq Threads
         /\ \A w \in Workers : w # EventWorker
         /\ \A w \in Workers : pc[w] \notin {"launches", "submit", "attach"}
         /\ pc[EventWorker] \notin {"check", "predict"}
         /\ pc[EventWorker] \in Busy =>
              /\ todo >= 1 /\ todo \in Nat /\ job[EventWorker][2] \in Nat
              /\ job[EventWorker][2] + todo = produced[job[EventWorker][1]]
         /\ Windows \subseteq Nat
<1>1. /\ fut \in [Sessions -> [Windows -> Future]]
      /\ pc \in [Threads -> ControlPoints]
      /\ job \in [Threads -> (Sessions \X Nat) \cup {None}]
      /\ jobs \in Seq(Sessions \X Windows) /\ active \in [Sessions -> BOOLEAN]
      /\ todo \in 0..MaxWindows /\ produced \in [Sessions -> 0..MaxWindows]
  BY DEF Typed, TypeOK, ThreadsType, SessionsType
<1>2. /\ \A k \in DOMAIN jobs : /\ jobs[k] \in Sessions \X Windows
                                /\ jobs[k][1] \in Sessions /\ jobs[k][2] \in Windows
  <2>1. \A k \in DOMAIN jobs : jobs[k] \in Sessions \X Windows
    BY <1>1, ElementOfSeq
  <2> QED BY <2>1
<1>3. /\ EventWorker \in Threads /\ Workers \subseteq Threads
      /\ \A w \in Workers : w # EventWorker
  BY ThreadsAssumption DEF Threads
<1>4. Windows \subseteq Nat
  BY BoundsAssumption DEF Windows
<1>5. /\ produced \in [Sessions -> Nat] /\ todo \in Nat
  <2>1. 0..MaxWindows \subseteq Nat
    BY BoundsAssumption
  <2> QED BY <1>1, <2>1
<1>6. \A t \in Threads : pc[t] \in Busy =>
        /\ job[t] \in Sessions \X Windows
        /\ job[t][1] \in Sessions /\ job[t][2] \in Windows
  BY DEF Typed, ThreadControl
<1> QED BY <1>1, <1>2, <1>3, <1>4, <1>5, <1>6 DEF Typed, ThreadControl

(* A thread that leaves a callback has the next window of its batch or     *)
(* none.                                                                   *)
LEMMA LeaveLives ==
  ASSUME Typed, Lives, NEW t \in Threads, pc[t] \in Busy \ {"check", "predict"},
         Leave(t), SameStates, UNCHANGED <<jobs, produced, active>>
  PROVE  Lives'
<1>t. /\ pc \in [Threads -> ControlPoints] /\ produced \in [Sessions -> Nat]
      /\ job \in [Threads -> (Sessions \X Nat) \cup {None}]
      /\ \A k \in DOMAIN jobs : jobs[k][1] \in Sessions /\ jobs[k][2] \in Windows
      /\ \A u \in Threads : pc[u] \in Busy =>
           job[u][1] \in Sessions /\ job[u][2] \in Windows
      /\ EventWorker \in Threads /\ Workers \subseteq Threads
      /\ Windows \subseteq Nat
  BY WorkTyped
<1>1. /\ pc'[t] \in {"submit", "idle"}
      /\ \A u \in Threads : u # t => pc'[u] = pc[u] /\ job'[u] = job[u]
      /\ pc'[t] = "submit" => t = EventWorker
  BY <1>t DEF Leave
<1>2. Fresh'
  <2> SUFFICES ASSUME NEW s \in Sessions, NEW i \in Windows, ToCome(s, i)'
               PROVE  ToCome(s, i)
    BY DEF SameStates, Lives, Fresh
  <2>1. CASE t = EventWorker
    <3>1. todo \in Nat /\ job[t] = <<job[t][1], job[t][2]>> /\ job[t][2] \in Nat
          /\ todo >= 1
      <4>1. job[t] \in Sessions \X Windows
        BY WorkTyped
      <4> QED BY <2>1, <4>1, WorkTyped
    <3>2. CASE todo > 1
      <4>1. pc'[t] = "submit" /\ job'[t] = <<job[t][1], job[t][2] + 1>>
        BY <1>t, <2>1, <3>2 DEF Leave
      <4>2. \/ i >= produced[s]
            \/ /\ s = job[t][1]
               /\ i > job[t][2] + 1 \/ i = job[t][2] + 1
        BY <2>1, <4>1 DEF ToCome
      <4>3. i > job[t][2] + 1 \/ i = job[t][2] + 1 => i > job[t][2]
        BY <1>t, <3>1
      <4> QED BY <2>1, <4>2, <4>3 DEF ToCome
    <3>3. CASE ~(todo > 1)
      <4>1. pc'[t] = "idle"
        BY <1>t, <2>1, <3>3 DEF Leave
      <4> QED BY <2>1, <4>1 DEF ToCome, Busy
    <3> QED BY <3>2, <3>3
  <2>2. CASE t # EventWorker
    BY <1>t, <1>1, <2>2 DEF ToCome
  <2> QED BY <2>1, <2>2
<1>3. Queued'
  BY <1>t DEF Lives, Queued, StateOf, SameStates
<1>4. Running'
  <2>1. \A w \in Workers : pc'[w] \in {"check", "predict"} =>
          /\ pc[w] \in {"check", "predict"} /\ job'[w] = job[w]
          /\ job[w][1] \in Sessions /\ job[w][2] \in Windows
    BY <1>t, <1>1 DEF Busy
  <2> QED BY <2>1 DEF Lives, Running, StateOf, SameStates
<1>5. Over'
  <2>1. \A u \in Threads : pc'[u] = "finish" =>
          /\ pc[u] = "finish" /\ job'[u] = job[u]
          /\ job[u][1] \in Sessions /\ job[u][2] \in Windows
    BY <1>t, <1>1 DEF Busy
  <2> QED BY <2>1, SMTT(30) DEF Lives, Over, StateOf, SameStates
<1> QED BY <1>2, <1>3, <1>4, <1>5 DEF Lives

(* A thread that moves on with its window, or waits for one.               *)
LEMMA MoveLives ==
  ASSUME Typed, Lives, NEW t \in Threads,
         NEW p \in {"launches", "finish", "release", "enqueue"},
         pc' = [pc EXCEPT ![t] = p], pc[t] \notin {"check", "predict", "submit"},
         \/ p # "launches" /\ pc[t] \in Busy /\ job' = job
         \/ p = "launches" /\ \A u \in Threads : u # t => job'[u] = job[u],
         p = "finish" => StateOf(job[t]) \in {"done", "cancelled"},
         UNCHANGED <<fut, jobs, produced, active>>
  PROVE  Lives'
<1>t. /\ pc \in [Threads -> ControlPoints]
      /\ EventWorker \in Threads /\ Workers \subseteq Threads
  BY WorkTyped
<1>1. /\ pc'[t] = p /\ \A u \in Threads : u # t => pc'[u] = pc[u] /\ job'[u] = job[u]
  BY <1>t
<1>2. Fresh'
  <2> SUFFICES ASSUME NEW s \in Sessions, NEW i \in Windows, ToCome(s, i)'
               PROVE  ToCome(s, i)
    BY DEF Lives, Fresh
  <2>1. CASE t = EventWorker
    BY <1>1, <2>1 DEF ToCome, Busy
  <2>2. CASE t # EventWorker
    BY <1>t, <1>1, <2>2 DEF ToCome
  <2> QED BY <2>1, <2>2
<1>3. Queued'
  BY DEF Lives, Queued, StateOf
<1>4. Running'
  <2>1. \A w \in Workers : pc'[w] \in {"check", "predict"} =>
          pc[w] \in {"check", "predict"} /\ job'[w] = job[w]
    BY <1>t, <1>1
  <2> QED BY <2>1 DEF Lives, Running, StateOf
<1>5. Over'
  <2>1. \A u \in Threads : pc'[u] = "finish" =>
          \/ pc[u] = "finish" /\ job'[u] = job[u]
          \/ u = t /\ p = "finish" /\ job' = job
    BY <1>1
  <2>2. ASSUME NEW u \in Threads, pc'[u] = "finish"
        PROVE  StateOf(job[u]) \in {"done", "cancelled"} /\ job'[u] = job[u]
    BY <2>1, <2>2 DEF Lives, Over
  <2>3. \A r \in Sessions, i \in Windows :
          fut'[r][i].state = "cancelled" => ~active'[r]
    BY DEF Lives, Over
  <2> QED BY <2>2, <2>3 DEF Over, StateOf
<1> QED BY <1>2, <1>3, <1>4, <1>5 DEF Lives

(* The end of a session cancels what is queued.                            *)
LEMMA EndLives ==
  ASSUME Typed, Lives, NEW s \in Sessions, MarkEnded(s),
         UNCHANGED <<jobs, produced, pc, job>>
  PROVE  Lives' /\ DoneKept
<1>t. /\ fut \in [Sessions -> [Windows -> Future]]
      /\ active \in [Sessions -> BOOLEAN]
      /\ \A k \in DOMAIN jobs : jobs[k][1] \in Sessions /\ jobs[k][2] \in Windows
      /\ \A u \in Threads : pc[u] \in Busy =>
           job[u][1] \in Sessions /\ job[u][2] \in Windows
      /\ Workers \subseteq Threads
  BY WorkTyped
<1>1. CASE ~(s \in known /\ active[s])
  BY <1>1 DEF MarkEnded, Lives, Fresh, Queued, Running, Over, StateOf, ToCome,
              DoneKept
<1>2. CASE s \in known /\ active[s]
  <2>1. /\ active' = [active EXCEPT ![s] = FALSE]
        /\ fut' = [fut EXCEPT ![s] = [i \in Windows |->
                     IF fut[s][i].state = "queued"
                     THEN [fut[s][i] EXCEPT !.state = "cancelled"]
                     ELSE fut[s][i]]]
    BY <1>2 DEF MarkEnded
  <2>2. \A r \in Sessions, i \in Windows :
          \/ fut'[r][i] = fut[r][i] /\ (r = s => fut[r][i].state # "queued")
          \/ r = s /\ fut[r][i].state = "queued" /\ fut'[r][i].state = "cancelled"
    <3> SUFFICES ASSUME NEW r \in Sessions, NEW i \in Windows
                 PROVE  \/ /\ fut'[r][i] = fut[r][i]
                           /\ r = s => fut[r][i].state # "queued"
                        \/ /\ r = s /\ fut[r][i].state = "queued"
                           /\ fut'[r][i].state = "cancelled"
      OBVIOUS
    <3>1. fut[s][i] \in Future
      BY <1>t
    <3>2. fut[s][i].state = "queued" =>
            [fut[s][i] EXCEPT !.state = "cancelled"].state = "cancelled"
      BY <3>1 DEF Future
    <3> QED BY <1>t, <2>1, <3>2
  <2>3. ~active'[s] /\ \A r \in Sessions : ~active[r] => ~active'[r]
    BY <1>t, <2>1
  <2>4. Fresh'
    BY <2>2 DEF Lives, Fresh, ToCome
  <2>5. Queued'
    BY <1>t, <2>2 DEF Lives, Queued, StateOf
  <2>6. Running'
    BY <1>t, <2>2 DEF Lives, Running, StateOf, Busy
  <2>7. Over'
    <3>1. \A r \in Sessions, i \in Windows :
            fut'[r][i].state = "cancelled" => ~active'[r]
      BY <2>2, <2>3 DEF Lives, Over
    <3>2. \A t \in Threads :
            pc[t] = "finish" => fut'[job[t][1]][job[t][2]].state \in {"done", "cancelled"}
      <4> SUFFICES ASSUME NEW t \in Threads, pc[t] = "finish"
                   PROVE  fut'[job[t][1]][job[t][2]].state \in {"done", "cancelled"}
        OBVIOUS
      <4>1. job[t][1] \in Sessions /\ job[t][2] \in Windows
        BY <1>t DEF Busy
      <4>2. fut[job[t][1]][job[t][2]].state \in {"done", "cancelled"}
        BY DEF Lives, Over, StateOf
      <4> QED BY <2>2, <4>1, <4>2
    <3>3. pc' = pc /\ job' = job
      OBVIOUS
    <3> QED BY <3>1, <3>2, <3>3 DEF Over, StateOf
  <2>8. DoneKept
    BY <2>2 DEF DoneKept
  <2> QED BY <2>4, <2>5, <2>6, <2>7, <2>8 DEF Lives
<1> QED BY <1>1, <1>2

LEMMA LaunchLives ==
  ASSUME Typed, Lives, NEW n \in 0..BatchWindows, HandleLaunches(n)
  PROVE  Lives' /\ DoneKept
<1> DEFINE s == job[EventWorker][1]
<1>0. /\ pc[EventWorker] = "launches" /\ UNCHANGED <<active, fut, jobs>>
  BY DEF HandleLaunches, connVars
<1>t. /\ pc \in [Threads -> ControlPoints] /\ produced \in [Sessions -> Nat]
      /\ job \in [Threads -> (Sessions \X Nat) \cup {None}]
      /\ EventWorker \in Threads /\ Workers \subseteq Threads
      /\ \A w \in Workers : w # EventWorker
      /\ Windows \subseteq Nat
  BY WorkTyped
<1>s. s \in Sessions
  BY <1>0, <1>t DEF Typed, ThreadControl
<1>d. DoneKept
  BY <1>0 DEF DoneKept
<1>1. \A t \in Threads : t # EventWorker => pc'[t] = pc[t] /\ job'[t] = job[t]
  BY <1>t DEF HandleLaunches
<1>2. /\ Queued' /\ Running' /\ Over'
  <2>1. Queued'
    BY <1>0 DEF Lives, Queued, StateOf
  <2>2. Running'
    BY <1>t, <1>0, <1>1 DEF Lives, Running, StateOf
  <2>3. Over'
    <3>1. pc'[EventWorker] \in {"idle", "submit"}
      BY <1>t DEF HandleLaunches
    <3> QED BY <1>0, <1>1, <3>1 DEF Lives, Over, StateOf
  <2> QED BY <2>1, <2>2, <2>3
<1>3. Fresh'
  <2> SUFFICES ASSUME NEW r \in Sessions, NEW i \in Windows, ToCome(r, i)'
               PROVE  i >= produced[r]
    BY <1>0 DEF Lives, Fresh, ToCome
  <2>1. CASE active[s] /\ n > 0
    <3>1. /\ produced' = [produced EXCEPT ![s] = @ + n]
          /\ pc'[EventWorker] = "submit" /\ job'[EventWorker] = <<s, produced[s]>>
      BY <1>t, <2>1 DEF HandleLaunches
    <3>2. \/ i >= produced'[r]
          \/ r = s /\ i >= produced[s]
      <4>1. i > produced[s] \/ i = produced[s] => i >= produced[s]
        BY <1>t, <1>s
      <4> QED BY <3>1, <4>1 DEF ToCome
    <3>3. i >= produced'[r] => i >= produced[r]
      <4>1. produced'[r] = IF r = s THEN produced[s] + n ELSE produced[r]
        BY <1>t, <1>s, <3>1
      <4>2. produced[r] \in Nat /\ produced[s] \in Nat /\ i \in Nat /\ n \in Nat
        BY <1>t, <1>s, BoundsAssumption
      <4> QED BY <4>1, <4>2
    <3> QED BY <3>2, <3>3
  <2>2. CASE ~(active[s] /\ n > 0)
    <3>1. produced' = produced /\ pc'[EventWorker] = "idle"
      BY <1>t, <2>2 DEF HandleLaunches
    <3> QED BY <3>1 DEF ToCome, Busy
  <2> QED BY <2>1, <2>2
<1> QED BY <1>2, <1>3, <1>d DEF Lives

LEMMA SubmitLives ==
  ASSUME Typed, Lives, SubmitWindow
  PROVE  Lives' /\ DoneKept
<1> DEFINE s == job[EventWorker][1]
           i == job[EventWorker][2]
<1>t. /\ pc \in [Threads -> ControlPoints] /\ produced \in [Sessions -> Nat]
      /\ EventWorker \in Threads /\ Workers \subseteq Threads
      /\ \A w \in Workers : w # EventWorker
      /\ \A k \in DOMAIN jobs : jobs[k][1] \in Sessions /\ jobs[k][2] \in Windows
      /\ \A t \in Threads : pc[t] \in Busy =>
           job[t][1] \in Sessions /\ job[t][2] \in Windows
      /\ jobs \in Seq(Sessions \X Windows)
      /\ Windows \subseteq Nat
  BY WorkTyped
<1>0. /\ pc[EventWorker] = "submit" /\ UNCHANGED <<active, produced>>
      /\ pc[EventWorker] \in Busy \ {"check", "predict"}
  BY DEF SubmitWindow, feedVars, Busy
<1>1. CASE active[s] /\ ~terminal[s]
  <2>1. /\ fut' = [fut EXCEPT ![s][i].state = "queued"]
        /\ jobs' = Append(jobs, <<s, i>>)
        /\ pc' = [pc EXCEPT ![EventWorker] = "attach"]
        /\ job' = job
    BY <1>1 DEF SubmitWindow
  <2>2. s \in Sessions /\ i \in Windows /\ i \in Nat
    BY <1>t, <1>0
  <2>a. job[EventWorker] = <<s, i>>
    <3>1. job[EventWorker] \in Sessions \X Windows
      BY <1>0, WorkTyped
    <3> QED BY <3>1
  <2>3. fut[s][i].state = "none"
    BY <1>0, <2>2 DEF Lives, Fresh, ToCome
  <2>4. /\ fut'[s][i].state = "queued"
        /\ \A r \in Sessions, j \in Windows :
             r # s \/ j # i => fut'[r][j] = fut[r][j]
    <3>1. fut \in [Sessions -> [Windows -> Future]] /\ fut[s][i] \in Future
      BY <2>2, WorkTyped
    <3>2. [fut[s][i] EXCEPT !.state = "queued"].state = "queued"
      BY <3>1 DEF Future
    <3> HIDE DEF s, i
    <3>3. \A r \in Sessions, j \in Windows :
            fut'[r][j] = IF r = s /\ j = i THEN [fut[s][i] EXCEPT !.state = "queued"]
                         ELSE fut[r][j]
      BY <2>1, <2>2, <3>1
    <3> QED BY <2>2, <3>2, <3>3
  <2>5. \A r \in Sessions, j \in Windows :
          fut[r][j].state # "none" => fut'[r][j] = fut[r][j]
    BY <2>3, <2>4
  <2>6. i < produced[s]
    <3>1. /\ i + todo = produced[s] /\ todo \in Nat /\ todo >= 1
      BY <1>0, <2>a, WorkTyped
    <3>2. produced[s] \in Nat
      BY <1>t, <2>2
    <3> QED BY <2>2, <3>1, <3>2
  <2>7. Fresh'
    <3> SUFFICES ASSUME NEW r \in Sessions, NEW j \in Windows, ToCome(r, j)'
                 PROVE  fut'[r][j].state = "none"
      BY DEF Fresh
    <3>1. j >= produced[r] \/ (r = s /\ j > i)
      BY <1>t, <1>0, <2>1 DEF ToCome
    <3>2. r # s \/ j # i
      <4>1. j \in Nat /\ produced[s] \in Nat
        BY <1>t, <2>2
      <4> QED BY <2>2, <2>6, <3>1, <4>1
    <3>3. ToCome(r, j)
      BY <1>0, <3>1 DEF ToCome
    <3> QED BY <2>4, <3>2, <3>3 DEF Lives, Fresh
  <2>8. Queued'
    <3>1. /\ DOMAIN jobs' = 1..(Len(jobs) + 1) /\ DOMAIN jobs = 1..Len(jobs)
          /\ \A k \in 1..Len(jobs) : jobs'[k] = jobs[k]
          /\ jobs'[Len(jobs) + 1] = <<s, i>> /\ Len(jobs) \in Nat
      <4>1. <<s, i>> \in Sessions \X Windows
        BY <2>2
      <4> HIDE DEF s, i
      <4> QED BY <1>t, <2>1, <4>1, AppendProperties, LenProperties
    <3>2. \A k \in 1..Len(jobs) :
            /\ StateOf(jobs[k])' \in {"queued", "cancelled"}
            /\ jobs'[k] # <<s, i>>
      <4> SUFFICES ASSUME NEW k \in 1..Len(jobs)
                   PROVE  /\ fut'[jobs[k][1]][jobs[k][2]].state \in {"queued", "cancelled"}
                          /\ jobs[k] # <<s, i>>
        BY <3>1 DEF StateOf
      <4>1. /\ jobs[k][1] \in Sessions /\ jobs[k][2] \in Windows
            /\ fut[jobs[k][1]][jobs[k][2]].state \in {"queued", "cancelled"}
        BY <1>t, <3>1 DEF Lives, Queued, StateOf
      <4> QED BY <2>3, <2>5, <4>1
    <3> DEFINE n == Len(jobs)
    <3>3. \A k \in DOMAIN jobs' : k \in 1..n \/ k = n + 1
      BY <3>1
    <3>4. \A k \in DOMAIN jobs' : fut'[jobs'[k][1]][jobs'[k][2]].state
                                    \in {"queued", "cancelled"}
      BY <2>4, <3>1, <3>2, <3>3 DEF StateOf
    <3>5. \A k, l \in DOMAIN jobs' : jobs'[k] = jobs'[l] => k = l
      <4>1. \A k, l \in 1..n : jobs[k] = jobs[l] => k = l
        BY <3>1 DEF Lives, Queued
      <4> QED BY <3>1, <3>2, <3>3, <4>1
    <3> QED BY <3>4, <3>5 DEF Queued, StateOf
  <2>9. Running'
    <3>1. \A w \in Workers : pc'[w] = pc[w]
      BY <1>t, <2>1
    <3>2. \A w \in Workers : pc[w] \in {"check", "predict"} =>
            fut'[job[w][1]][job[w][2]].state = "running"
      <4> SUFFICES ASSUME NEW w \in Workers, pc[w] \in {"check", "predict"}
                   PROVE  fut'[job[w][1]][job[w][2]].state = "running"
        OBVIOUS
      <4>1. /\ job[w][1] \in Sessions /\ job[w][2] \in Windows
            /\ fut[job[w][1]][job[w][2]].state = "running"
        BY <1>t DEF Lives, Running, StateOf, Busy
      <4> QED BY <2>5, <4>1
    <3> QED BY <2>1, <3>1, <3>2 DEF Lives, Running, StateOf
  <2>10. Over'
    <3>1. \A r \in Sessions, j \in Windows :
            fut'[r][j].state = "cancelled" => ~active[r]
      BY <2>4 DEF Lives, Over
    <3>2. \A t \in Threads : pc'[t] = "finish" =>
            fut'[job[t][1]][job[t][2]].state \in {"done", "cancelled"}
      <4> SUFFICES ASSUME NEW t \in Threads, pc'[t] = "finish"
                   PROVE  fut'[job[t][1]][job[t][2]].state \in {"done", "cancelled"}
        OBVIOUS
      <4>0. pc[t] = "finish"
        BY <1>t, <2>1
      <4>1. /\ job[t][1] \in Sessions /\ job[t][2] \in Windows
            /\ fut[job[t][1]][job[t][2]].state \in {"done", "cancelled"}
        BY <1>t, <4>0 DEF Lives, Over, StateOf, Busy
      <4> QED BY <2>5, <4>1
    <3> QED BY <1>0, <2>1, <3>1, <3>2 DEF Over, StateOf
  <2>11. DoneKept
    BY <2>5 DEF DoneKept
  <2> QED BY <2>7, <2>8, <2>9, <2>10, <2>11 DEF Lives
<1>2. CASE ~(active[s] /\ ~terminal[s])
  <2>1. Leave(EventWorker) /\ UNCHANGED <<fut, jobs>>
    BY <1>2 DEF SubmitWindow
  <2>2. SameStates /\ DoneKept
    BY <2>1 DEF SameStates, DoneKept
  <2> QED BY <1>t, <1>0, <2>1, <2>2, LeaveLives
<1> QED BY <1>1, <1>2

LEMMA AttachLives ==
  ASSUME Typed, Lives, AttachCallback
  PROVE  Lives' /\ DoneKept
<1> DEFINE s == job[EventWorker][1]
           i == job[EventWorker][2]
<1>0. /\ pc[EventWorker] = "attach" /\ UNCHANGED <<active, produced, jobs>>
      /\ pc[EventWorker] \in Busy \ {"check", "predict"}
      /\ EventWorker \in Threads /\ s \in Sessions /\ i \in Windows
      /\ fut \in [Sessions -> [Windows -> Future]]
  BY WorkTyped DEF AttachCallback, feedVars, Busy
<1>1. CASE fut[s][i].state \in {"done", "cancelled"}
  <2>1. pc' = [pc EXCEPT ![EventWorker] = "finish"] /\ UNCHANGED <<fut, todo, job, resp>>
    BY <1>1 DEF AttachCallback
  <2>2. DoneKept /\ StateOf(job[EventWorker]) \in {"done", "cancelled"}
    BY <1>1, <2>1 DEF DoneKept, StateOf
  <2> QED BY <1>0, <2>1, <2>2, MoveLives
<1>2. CASE ~(fut[s][i].state \in {"done", "cancelled"})
  <2>1. fut' = [fut EXCEPT ![s][i].attached = TRUE] /\ Leave(EventWorker)
    BY <1>2 DEF AttachCallback
  <2>2. fut[s][i] \in Future
    BY <1>0
  <2>3. /\ [fut[s][i] EXCEPT !.attached = TRUE].state = fut[s][i].state
        /\ [fut[s][i] EXCEPT !.attached = TRUE].outcome = fut[s][i].outcome
    BY <2>2 DEF Future
  <2>4. \A r \in Sessions, j \in Windows :
          fut'[r][j] = IF r = s /\ j = i THEN [fut[s][i] EXCEPT !.attached = TRUE]
                       ELSE fut[r][j]
    BY <1>0, <2>1
  <2>5. SameStates /\ DoneKept
    BY <2>3, <2>4, ZenonT(60) DEF SameStates, DoneKept
  <2> QED BY <1>0, <2>1, <2>5, LeaveLives
<1> QED BY <1>1, <1>2

LEMMA StartLives ==
  ASSUME Typed, Lives, NEW w \in Workers, StartJob(w)
  PROVE  Lives' /\ DoneKept
<1> DEFINE s == Head(jobs)[1]
           i == Head(jobs)[2]
           n == Len(jobs)
<1>t. /\ pc \in [Threads -> ControlPoints]
      /\ job \in [Threads -> (Sessions \X Nat) \cup {None}]
      /\ EventWorker \in Threads /\ Workers \subseteq Threads
      /\ w # EventWorker /\ w \in Threads
      /\ \A k \in DOMAIN jobs : jobs[k][1] \in Sessions /\ jobs[k][2] \in Windows
      /\ \A t \in Threads : pc[t] \in Busy =>
           job[t][1] \in Sessions /\ job[t][2] \in Windows
      /\ jobs \in Seq(Sessions \X Windows)
  BY WorkTyped
<1>0. /\ pc[w] = "idle" /\ jobs # <<>> /\ jobs' = Tail(jobs)
      /\ UNCHANGED <<active, produced>>
  BY DEF StartJob, feedVars
<1>1. /\ n \in Nat /\ n >= 1 /\ DOMAIN jobs = 1..n /\ Head(jobs) = jobs[1]
      /\ DOMAIN jobs' = 1..(n - 1)
      /\ \A k \in 1..(n - 1) : jobs'[k] = jobs[k + 1]
  <2>1. jobs' \in Seq(Sessions \X Windows) /\ Len(jobs') = n - 1
        /\ \A k \in 1..(n - 1) : jobs'[k] = jobs[k + 1]
    BY <1>t, <1>0, HeadTailProperties
  <2>2. n \in Nat \ {0}
    BY <1>t, <1>0, EmptySeq
  <2>3. Head(jobs) = jobs[1]
    BY <1>t, <1>0, HeadTailProperties
  <2>4. DOMAIN jobs = 1..n /\ DOMAIN jobs' = 1..Len(jobs')
    BY <1>t, <2>1, LenProperties
  <2> HIDE DEF n
  <2> QED BY <2>1, <2>2, <2>3, <2>4
<1>2. /\ 1 \in DOMAIN jobs /\ s \in Sessions /\ i \in Windows
      /\ fut[s][i].state \in {"queued", "cancelled"}
  <2>1. 1 \in DOMAIN jobs
    BY <1>1
  <2> QED BY <1>t, <1>1, <2>1 DEF Lives, Queued, StateOf
<1>3. /\ \A k \in DOMAIN jobs' : k + 1 \in DOMAIN jobs /\ jobs'[k] = jobs[k + 1]
                                 /\ k + 1 # 1
      /\ \A k, l \in DOMAIN jobs' : k + 1 = l + 1 => k = l
  BY <1>1
<1>4. CASE fut[s][i].state = "cancelled"
  <2>1. UNCHANGED <<fut, pc, job>>
    BY <1>4 DEF StartJob
  <2>2. Queued'
    <3>1. \A k \in DOMAIN jobs' : fut'[jobs'[k][1]][jobs'[k][2]].state
                                    \in {"queued", "cancelled"}
      BY <1>3, <2>1 DEF Lives, Queued, StateOf
    <3>2. \A k, l \in DOMAIN jobs' : jobs'[k] = jobs'[l] => k = l
      BY <1>3 DEF Lives, Queued
    <3> QED BY <3>1, <3>2 DEF Queued, StateOf
  <2>3. Fresh' /\ Running' /\ Over'
    BY <1>0, <2>1 DEF Lives, Fresh, ToCome, Running, Over, StateOf
  <2>4. DoneKept
    BY <2>1 DEF DoneKept
  <2> QED BY <2>2, <2>3, <2>4 DEF Lives
<1>5. CASE fut[s][i].state = "queued"
  <2>1. /\ fut' = [fut EXCEPT ![s][i].state = "running"]
        /\ pc' = [pc EXCEPT ![w] = "check"]
        /\ job' = [job EXCEPT ![w] = Head(jobs)]
    BY <1>5 DEF StartJob
  <2>2. /\ fut'[s][i].state = "running"
        /\ \A r \in Sessions, j \in Windows :
             r # s \/ j # i => fut'[r][j] = fut[r][j]
    <3>1. fut \in [Sessions -> [Windows -> Future]] /\ fut[s][i] \in Future
      BY <1>2, WorkTyped
    <3>2. [fut[s][i] EXCEPT !.state = "running"].state = "running"
      BY <3>1 DEF Future
    <3> HIDE DEF s, i
    <3>3. \A r \in Sessions, j \in Windows :
            fut'[r][j] = IF r = s /\ j = i THEN [fut[s][i] EXCEPT !.state = "running"]
                         ELSE fut[r][j]
      BY <2>1, <1>2, <3>1
    <3> QED BY <1>2, <3>2, <3>3
  <2>3. \A r \in Sessions, j \in Windows :
          fut[r][j].state # "queued" => fut'[r][j] = fut[r][j]
    BY <1>5, <2>2
  <2>4. /\ pc'[w] = "check" /\ job'[w] = Head(jobs)
        /\ \A t \in Threads : t # w => pc'[t] = pc[t] /\ job'[t] = job[t]
    BY <1>t, <2>1
  <2>5. Fresh'
    <3> SUFFICES ASSUME NEW r \in Sessions, NEW j \in Windows, ToCome(r, j)'
                 PROVE  fut'[r][j].state = "none"
      BY DEF Fresh
    <3>1. ToCome(r, j)
      BY <1>t, <1>0, <2>4 DEF ToCome
    <3>2. fut[r][j].state = "none"
      BY <3>1 DEF Lives, Fresh
    <3> QED BY <2>3, <3>2
  <2>6. Queued'
    <3>1. \A k \in DOMAIN jobs' : fut'[jobs'[k][1]][jobs'[k][2]].state
                                    \in {"queued", "cancelled"}
      <4> SUFFICES ASSUME NEW k \in DOMAIN jobs'
                   PROVE  fut'[jobs'[k][1]][jobs'[k][2]].state \in {"queued", "cancelled"}
        OBVIOUS
      <4>1. /\ k + 1 \in DOMAIN jobs /\ jobs'[k] = jobs[k + 1]
            /\ jobs[k + 1] # jobs[1]
        BY <1>2, <1>3 DEF Lives, Queued
      <4>2. /\ jobs[k + 1][1] \in Sessions /\ jobs[k + 1][2] \in Windows
            /\ fut[jobs[k + 1][1]][jobs[k + 1][2]].state \in {"queued", "cancelled"}
        BY <1>t, <4>1 DEF Lives, Queued, StateOf
      <4>3. jobs[k + 1] \in Sessions \X Windows /\ jobs[1] \in Sessions \X Windows
        BY <1>2, <4>1, WorkTyped
      <4>4. jobs[k + 1][1] # s \/ jobs[k + 1][2] # i
        BY <1>1, <4>1, <4>3
      <4> QED BY <2>2, <4>1, <4>2, <4>4
    <3>2. \A k, l \in DOMAIN jobs' : jobs'[k] = jobs'[l] => k = l
      BY <1>3 DEF Lives, Queued
    <3> QED BY <3>1, <3>2 DEF Queued, StateOf
  <2>7. Running'
    <3>1. \A v \in Workers : pc[v] \in {"check", "predict"} =>
            /\ fut'[job[v][1]][job[v][2]].state = "running" /\ job[v] # Head(jobs)
      <4> SUFFICES ASSUME NEW v \in Workers, pc[v] \in {"check", "predict"}
                   PROVE  /\ fut'[job[v][1]][job[v][2]].state = "running"
                          /\ job[v] # Head(jobs)
        OBVIOUS
      <4>1. /\ job[v][1] \in Sessions /\ job[v][2] \in Windows
            /\ fut[job[v][1]][job[v][2]].state = "running"
        BY <1>t DEF Lives, Running, StateOf, Busy
      <4> QED BY <1>5, <2>3, <4>1
    <3>2. \A v \in Workers : v # w => pc'[v] = pc[v] /\ job'[v] = job[v]
      BY <1>t, <2>4
    <3>3. \A v \in Workers : pc'[v] \in {"check", "predict"} =>
            fut'[job'[v][1]][job'[v][2]].state = "running"
      BY <2>2, <2>4, <3>1, <3>2
    <3>4. \A u, v \in Workers :
            /\ pc'[u] \in {"check", "predict"} /\ pc'[v] \in {"check", "predict"}
            /\ job'[u] = job'[v]
            => u = v
      BY <2>4, <3>1, <3>2 DEF Lives, Running
    <3> QED BY <3>3, <3>4 DEF Running, StateOf
  <2>8. Over'
    <3>1. \A r \in Sessions, j \in Windows :
            fut'[r][j].state = "cancelled" => ~active[r]
      BY <2>2 DEF Lives, Over
    <3>2. \A t \in Threads : pc'[t] = "finish" =>
            fut'[job'[t][1]][job'[t][2]].state \in {"done", "cancelled"}
      <4> SUFFICES ASSUME NEW t \in Threads, pc'[t] = "finish"
                   PROVE  fut'[job'[t][1]][job'[t][2]].state \in {"done", "cancelled"}
        OBVIOUS
      <4>0. pc[t] = "finish" /\ job'[t] = job[t]
        BY <2>4
      <4>1. /\ job[t][1] \in Sessions /\ job[t][2] \in Windows
            /\ fut[job[t][1]][job[t][2]].state \in {"done", "cancelled"}
        BY <1>t, <4>0 DEF Lives, Over, StateOf, Busy
      <4> QED BY <2>3, <4>0, <4>1
    <3> QED BY <1>0, <3>1, <3>2 DEF Over, StateOf
  <2>9. DoneKept
    BY <2>3 DEF DoneKept
  <2> QED BY <2>5, <2>6, <2>7, <2>8, <2>9 DEF Lives
<1> QED BY <1>2, <1>4, <1>5

LEMMA ResolveWrites ==
  ASSUME Typed, NEW w \in Workers, NEW out \in Scores \cup {None}, Resolve(w, out),
         job[w][1] \in Sessions, job[w][2] \in Windows
  PROVE  /\ fut'[job[w][1]][job[w][2]].state = "done"
         /\ fut'[job[w][1]][job[w][2]].outcome = out
         /\ \A r \in Sessions, j \in Windows :
              r # job[w][1] \/ j # job[w][2] => fut'[r][j] = fut[r][j]
<1> DEFINE s == job[w][1]
           i == job[w][2]
           g == [fut EXCEPT ![s][i].state = "done"]
           f == [fut[s][i] EXCEPT !.state = "done"]
           h == [f EXCEPT !.outcome = out]
<1>1. fut \in [Sessions -> [Windows -> Future]] /\ fut[s][i] \in Future
  BY WorkTyped
<1>2. f \in Future /\ f.state = "done"
  BY <1>1 DEF Future, FutureStates
<1>3. fut' = [g EXCEPT ![s][i].outcome = out]
  BY DEF Resolve
<1>4. s \in Sessions /\ i \in Windows
  OBVIOUS
<1> HIDE DEF s, i, f
<1>5. /\ g \in [Sessions -> [Windows -> Future]]
      /\ \A r \in Sessions, j \in Windows :
           g[r][j] = IF r = s /\ j = i THEN f ELSE fut[r][j]
  BY <1>1, <1>2, <1>4 DEF f
<1> HIDE DEF g
<1>6. \A r \in Sessions, j \in Windows :
        fut'[r][j] = IF r = s /\ j = i THEN h ELSE g[r][j]
  BY <1>3, <1>4, <1>5
<1>7. h.state = "done" /\ h.outcome = out
  BY <1>2 DEF Future
<1> HIDE DEF h
<1> QED BY <1>4, <1>5, <1>6, <1>7 DEF s, i

LEMMA ResolveLives ==
  ASSUME Typed, Lives, NEW w \in Workers, pc[w] \in {"check", "predict"},
         NEW out \in Scores \cup {None}, Resolve(w, out),
         UNCHANGED <<active, produced, jobs>>
  PROVE  Lives' /\ DoneKept
<1> DEFINE s == job[w][1]
           i == job[w][2]
<1>t. /\ pc \in [Threads -> ControlPoints]
      /\ job \in [Threads -> (Sessions \X Nat) \cup {None}]
      /\ EventWorker \in Threads /\ Workers \subseteq Threads
      /\ w # EventWorker /\ w \in Threads
      /\ \A k \in DOMAIN jobs : jobs[k][1] \in Sessions /\ jobs[k][2] \in Windows
      /\ \A t \in Threads : pc[t] \in Busy =>
           /\ job[t] \in Sessions \X Windows
           /\ job[t][1] \in Sessions /\ job[t][2] \in Windows
  BY WorkTyped
<1>1. /\ s \in Sessions /\ i \in Windows /\ fut[s][i].state = "running"
  BY <1>t DEF Lives, Running, StateOf, Busy
<1>2. /\ fut'[s][i].state = "done"
      /\ \A r \in Sessions, j \in Windows : r # s \/ j # i => fut'[r][j] = fut[r][j]
  BY <1>1, ResolveWrites
<1>3. \A r \in Sessions, j \in Windows :
        fut[r][j].state # "running" => fut'[r][j] = fut[r][j]
  BY <1>1, <1>2
<1>4. /\ \A t \in Threads : t # w => pc'[t] = pc[t] /\ job'[t] = job[t]
      /\ \/ pc'[w] = "finish" /\ job'[w] = job[w]
         \/ pc'[w] = "idle"
  BY <1>t DEF Resolve
<1>5. Fresh'
  <2> SUFFICES ASSUME NEW r \in Sessions, NEW j \in Windows, ToCome(r, j)'
               PROVE  fut'[r][j].state = "none"
    BY DEF Fresh
  <2>1. ToCome(r, j)
    BY <1>t, <1>4 DEF ToCome
  <2>2. fut[r][j].state = "none"
    BY <2>1 DEF Lives, Fresh
  <2> QED BY <1>3, <2>2
<1>6. Queued'
  <2>1. \A k \in DOMAIN jobs : fut'[jobs[k][1]][jobs[k][2]].state
                                 \in {"queued", "cancelled"}
    BY <1>t, <1>3 DEF Lives, Queued, StateOf
  <2> QED BY <2>1 DEF Lives, Queued, StateOf
<1>7. Running'
  <2>1. \A v \in Workers : pc'[v] \in {"check", "predict"} =>
          /\ v # w /\ pc[v] \in {"check", "predict"} /\ job'[v] = job[v]
          /\ job[v] # job[w]
    BY <1>t, <1>4 DEF Lives, Running
  <2>2. \A v \in Workers : pc'[v] \in {"check", "predict"} =>
          fut'[job[v][1]][job[v][2]].state = "running"
    <3> SUFFICES ASSUME NEW v \in Workers, pc'[v] \in {"check", "predict"}
                 PROVE  fut'[job[v][1]][job[v][2]].state = "running"
      OBVIOUS
    <3>1. pc[v] \in {"check", "predict"} /\ job[v] # job[w] /\ v \in Threads
      BY <1>t, <2>1
    <3>2. /\ job[v] \in Sessions \X Windows /\ job[w] \in Sessions \X Windows
          /\ job[v][1] \in Sessions /\ job[v][2] \in Windows
          /\ fut[job[v][1]][job[v][2]].state = "running"
      BY <1>t, <3>1 DEF Lives, Running, StateOf, Busy
    <3>3. job[v][1] # s \/ job[v][2] # i
      BY <3>1, <3>2
    <3> QED BY <1>2, <3>2, <3>3
  <2> QED BY <2>1, <2>2 DEF Lives, Running, StateOf
<1>8. Over'
  <2>1. \A r \in Sessions, j \in Windows :
          fut'[r][j].state = "cancelled" => ~active[r]
    BY <1>2 DEF Lives, Over
  <2>2. \A t \in Threads : pc'[t] = "finish" =>
          fut'[job'[t][1]][job'[t][2]].state \in {"done", "cancelled"}
    <3> SUFFICES ASSUME NEW t \in Threads, pc'[t] = "finish"
                 PROVE  fut'[job'[t][1]][job'[t][2]].state \in {"done", "cancelled"}
      OBVIOUS
    <3>1. CASE t = w
      BY <1>2, <1>4, <3>1
    <3>2. CASE t # w
      <4>0. pc[t] = "finish" /\ job'[t] = job[t]
        BY <1>4, <3>2
      <4>1. /\ job[t][1] \in Sessions /\ job[t][2] \in Windows
            /\ fut[job[t][1]][job[t][2]].state \in {"done", "cancelled"}
        BY <1>t, <4>0 DEF Lives, Over, StateOf, Busy
      <4> QED BY <1>3, <4>0, <4>1
    <3> QED BY <3>1, <3>2
  <2> QED BY <2>1, <2>2 DEF Over, StateOf
<1>9. DoneKept
  BY <1>3 DEF DoneKept
<1> QED BY <1>5, <1>6, <1>7, <1>8, <1>9 DEF Lives

LEMMA CallbackLives ==
  ASSUME Typed, Lives, NEW t \in Threads, Callback(t)
  PROVE  Lives' /\ DoneKept
<1>0. /\ pc[t] \in {"finish", "release", "enqueue"}
      /\ UNCHANGED <<produced, active, fut, jobs>>
  BY DEF Callback, FinishL1, ReleaseSkip, ReleaseDiscard, ReleaseVerdict,
         ReleaseStop, EnqueueResponses, feedVars
<1>1. pc[t] \in Busy \ {"check", "predict"}
  BY <1>0 DEF Busy
<1>2. SameStates /\ DoneKept
  BY <1>0 DEF SameStates, DoneKept
<1>3. CASE Leave(t)
  BY <1>0, <1>1, <1>2, <1>3, LeaveLives
<1>4. CASE UNCHANGED <<pc, job>>
  BY <1>0, <1>2, <1>4 DEF Lives, Fresh, ToCome, Queued, Running, Over, StateOf
<1>5. ASSUME NEW p \in {"release", "enqueue"}, pc' = [pc EXCEPT ![t] = p],
             job' = job
      PROVE  Lives' /\ DoneKept
  BY <1>0, <1>1, <1>2, <1>5, MoveLives
<1>6. CASE FinishL1(t)
  <2>1. Leave(t) \/ (pc' = [pc EXCEPT ![t] = "release"] /\ job' = job)
    BY <1>6 DEF FinishL1
  <2> QED BY <1>3, <1>5, <2>1
<1>7. CASE ReleaseSkip(t) \/ ReleaseDiscard(t)
  BY <1>4, <1>7 DEF ReleaseSkip, ReleaseDiscard, threadVars
<1>8. CASE ReleaseVerdict(t)
  <2>1. \/ UNCHANGED <<pc, job>>
        \/ pc' = [pc EXCEPT ![t] = "enqueue"] /\ job' = job
    BY <1>8 DEF ReleaseVerdict
  <2> QED BY <1>4, <1>5, <2>1
<1>9. CASE ReleaseStop(t)
  <2>1. \/ Leave(t)
        \/ pc' = [pc EXCEPT ![t] = "enqueue"] /\ job' = job
    BY <1>9 DEF ReleaseStop
  <2> QED BY <1>3, <1>5, <2>1
<1>10. CASE EnqueueResponses(t)
  BY <1>3, <1>10 DEF EnqueueResponses
<1> QED BY <1>6, <1>7, <1>8, <1>9, <1>10 DEF Callback

LEMMA NextLives ==
  ASSUME Typed, Lives, [Next]_vars
  PROVE  Lives' /\ DoneKept
<1> USE DEF feedVars, threadVars, policyVars, connVars, coreVars
<1>1. CASE UNCHANGED <<fut, jobs, produced, active, pc, job>>
  BY <1>1 DEF Lives, Fresh, ToCome, Queued, Running, Over, StateOf, DoneKept
<1>2. CASE UNCHANGED vars
  BY <1>1, <1>2 DEF vars
<1>3. ASSUME NEW c \in Conns,
             \/ Accept(c) \/ Disconnect(c) \/ ReaderStep(c)
             \/ \E m \in Message : Receive(c, m)
      PROVE  Lives' /\ DoneKept
  <2>1. CASE MarkEarly(c)
    <3>1. frame[c].sess \in Sessions
      BY <1>3, <2>1 DEF MarkEarly, Typed, ReaderControl, Message
    <3> QED BY <2>1, <3>1, EndLives DEF MarkEarly
  <2>2. CASE ~MarkEarly(c)
    <3>1. UNCHANGED <<fut, jobs, produced, active, pc, job>>
      BY <1>3, <2>2
      DEF Accept, Disconnect, ReaderStep, Receive, DrainPeek, DrainDone,
          SendResponse, DrainPop, SubmitFrame, ReceiveTimeout
    <3> QED BY <1>1, <3>1
  <2> QED BY <2>1, <2>2
<1>4. CASE TakeFrame
  <2> DEFINE m == Head(inbox)
  <2>0. /\ pc[EventWorker] = "idle" /\ inbox # <<>> /\ EventWorker \in Threads
        /\ UNCHANGED <<produced, jobs>>
    BY <1>4 DEF TakeFrame, Threads
  <2>1. m.sess \in Sessions
    <3>1. m \in Message
      BY <2>0, HeadTailProperties DEF Typed, TypeOK, ReadersType
    <3> QED BY <3>1 DEF Message
  <2>2. CASE m.type = "session_end"
    <3>1. MarkEnded(m.sess) /\ UNCHANGED <<pc, job>>
      BY <1>4, <2>2 DEF TakeFrame
    <3> QED BY <2>0, <2>1, <3>1, EndLives
  <2>3. CASE m.type # "session_end" /\ UNCHANGED <<pc, job>>
    <3>1. UNCHANGED <<fut, active>>
      BY <1>4, <2>3 DEF TakeFrame
    <3> QED BY <1>1, <2>0, <2>3, <3>1
  <2>4. CASE /\ UNCHANGED <<fut, active>>
             /\ pc' = [pc EXCEPT ![EventWorker] = "launches"]
             /\ job' = [job EXCEPT ![EventWorker] = <<m.sess, 0>>]
    <3>1. DoneKept
      BY <2>4 DEF DoneKept
    <3>2. \A u \in Threads : u # EventWorker => job'[u] = job[u]
      BY <2>4, WorkTyped
    <3> QED BY <2>0, <2>4, <3>1, <3>2, MoveLives
  <2>5. \/ m.type = "session_end"
        \/ m.type # "session_end" /\ UNCHANGED <<pc, job>>
        \/ /\ UNCHANGED <<fut, active>>
           /\ pc' = [pc EXCEPT ![EventWorker] = "launches"]
           /\ job' = [job EXCEPT ![EventWorker] = <<m.sess, 0>>]
    BY <1>4 DEF TakeFrame
  <2> QED BY <2>2, <2>3, <2>4, <2>5
<1>5. CASE EventStep
  <2>1. EventWorker \in Threads
    BY DEF Threads
  <2> QED
    BY <1>4, <1>5, <2>1, LaunchLives, SubmitLives, AttachLives, CallbackLives
    DEF EventStep
<1>6. ASSUME NEW w \in Workers, WorkerStep(w)
      PROVE  Lives' /\ DoneKept
  <2>0. w \in Threads /\ pc \in [Threads -> ControlPoints]
    BY WorkTyped
  <2>1. CASE StartJob(w)
    BY <2>1, StartLives
  <2>2. CASE CheckActive(w)
    <3>1. CASE Resolve(w, None)
      BY <2>2, <3>1, ResolveLives DEF CheckActive
    <3>2. CASE /\ pc' = [pc EXCEPT ![w] = "predict"]
               /\ UNCHANGED <<fut, job, resp>>
      <4>0. UNCHANGED <<jobs, produced, active>> /\ pc[w] = "check"
        BY <2>2 DEF CheckActive
      <4>1. /\ \A t \in Threads : t # w => pc'[t] = pc[t]
            /\ pc'[w] = "predict" /\ w # EventWorker
        BY <2>0, <3>2, WorkTyped
      <4>2. Fresh'
        BY <3>2, <4>0, <4>1, WorkTyped DEF Lives, Fresh, ToCome
      <4>3. Queued' /\ DoneKept
        BY <3>2, <4>0 DEF Lives, Queued, StateOf, DoneKept
      <4>4. Running'
        BY <3>2, <4>0, <4>1, WorkTyped DEF Lives, Running, StateOf
      <4>5. Over'
        BY <3>2, <4>0, <4>1 DEF Lives, Over, StateOf
      <4> QED BY <4>2, <4>3, <4>4, <4>5 DEF Lives
    <3> QED BY <2>2, <3>1, <3>2 DEF CheckActive
  <2>3. ASSUME NEW out \in Scores \cup {None}, Predict(w, out)
        PROVE  Lives' /\ DoneKept
    BY <2>3, ResolveLives DEF Predict
  <2>4. CASE Callback(w)
    BY <2>0, <2>4, CallbackLives
  <2> QED BY <1>6, <2>1, <2>2, <2>3, <2>4 DEF WorkerStep
<1> QED BY <1>2, <1>3, <1>5, <1>6 DEF Next

-----------------------------------------------------------------------------
(* Only callbacks touch the policy's waiting room.                         *)
LEMMA PolicyWork ==
  ASSUME Typed, [Next]_vars
  PROVE  \/ UNCHANGED <<terminal, nextIndex, pending, skipped, released>>
         \/ \E t \in Threads :
              /\ \/ FinishL1(t) \/ ReleaseSkip(t)
                 \/ ReleaseDiscard(t) \/ ReleaseVerdict(t)
              /\ job[t] \in Sessions \X Windows /\ UNCHANGED fut
<1> USE DEF feedVars, threadVars, policyVars, connVars, coreVars
<1> DEFINE Quiet == UNCHANGED <<terminal, nextIndex, pending, skipped, released>>
           Works(t) == /\ \/ FinishL1(t) \/ ReleaseSkip(t)
                          \/ ReleaseDiscard(t) \/ ReleaseVerdict(t)
                       /\ job[t] \in Sessions \X Windows /\ UNCHANGED fut
<1>1. ASSUME NEW t \in Threads, Callback(t)
      PROVE  Quiet \/ Works(t)
  <2>1. pc[t] \in {"finish", "release", "enqueue"} /\ UNCHANGED fut
    BY <1>1 DEF Callback, FinishL1, ReleaseSkip, ReleaseDiscard, ReleaseVerdict,
                ReleaseStop, EnqueueResponses
  <2>2. job[t] \in Sessions \X Windows
    BY <2>1 DEF Typed, ThreadControl, Busy
  <2>3. CASE ReleaseStop(t) \/ EnqueueResponses(t)
    BY <2>3 DEF ReleaseStop, EnqueueResponses
  <2> QED BY <1>1, <2>1, <2>2, <2>3 DEF Callback
<1>3. CASE UNCHANGED vars
  BY <1>3 DEF vars
<1>4. ASSUME NEW c \in Conns,
             \/ Accept(c) \/ Disconnect(c) \/ ReaderStep(c)
             \/ \E m \in Message : Receive(c, m)
      PROVE  Quiet
  BY <1>4 DEF Accept, Disconnect, ReaderStep, Receive, DrainPeek, DrainDone,
              SendResponse, DrainPop, SubmitFrame, ReceiveTimeout, MarkEarly
<1>5. CASE EventStep
  <2>1. EventWorker \in Threads
    BY DEF Threads
  <2>2. CASE Callback(EventWorker)
    BY <1>1, <2>1, <2>2
  <2>3. CASE ~Callback(EventWorker)
    BY <1>5, <2>3 DEF EventStep, TakeFrame, HandleLaunches, SubmitWindow,
                      AttachCallback
  <2> QED BY <2>2, <2>3
<1>6. ASSUME NEW w \in Workers, WorkerStep(w)
      PROVE  Quiet \/ \E t \in Threads : Works(t)
  <2>1. w \in Threads
    BY DEF Threads
  <2>2. CASE Callback(w)
    BY <1>1, <2>1, <2>2
  <2>3. CASE ~Callback(w)
    BY <1>6, <2>3 DEF WorkerStep, StartJob, CheckActive, Predict
  <2> QED BY <2>2, <2>3
<1> QED
  BY <1>3, <1>4, <1>5, <1>6 DEF Next

(* What the policy has passed is over, and stays so.                       *)
LEMMA PassedOver ==
  ASSUME Typed, Ordered, NEW s \in Sessions, NEW k \in DOMAIN released[s]
  PROVE  /\ released[s][k].win \in Windows /\ released[s][k].win < nextIndex[s]
         /\ fut[s][released[s][k].win].state = "done"
         /\ released[s][k].score = fut[s][released[s][k].win].outcome
<1>1. released[s][k] \in Verdict /\ nextIndex[s] \in Nat
  BY ElementOfSeq DEF Typed, TypeOK, PolicyType
<1>2. released[s][k].win \in Nat
  BY <1>1 DEF Verdict
<1>3. /\ released[s][k].win < nextIndex[s] /\ nextIndex[s] <= MaxWindows
      /\ released[s][k].score = fut[s][released[s][k].win].outcome
  BY DEF Ordered, Turn, ReleasedInWindowOrder
<1>4. released[s][k].win \in Windows
  BY <1>1, <1>2, <1>3, BoundsAssumption DEF Windows
<1> QED BY <1>3, <1>4 DEF Ordered, ReleasedInWindowOrder

(* The step a policy takes past the next window: it is over, and has a     *)
(* verdict unless it failed or the session is terminated.                  *)
PassesNext(s) ==
  LET n == nextIndex[s] IN
  /\ n \in Windows /\ fut[s][n].state = "done"
  /\ nextIndex' = [nextIndex EXCEPT ![s] = n + 1]
  /\ \A r \in Sessions, j \in Windows :
       /\ j \in skipped'[r] => j \in skipped[r]
       /\ pending'[r][j] \in {pending[r][j], None}
  /\ \/ /\ UNCHANGED <<terminal, released>>
        /\ \/ fut[s][n].outcome = None
           \/ terminal[s]
     \/ /\ ~terminal[s]
        /\ \A r \in Sessions : r # s => terminal'[r] = terminal[r]
        /\ \E v \in Verdict :
             /\ v.win = n /\ v.score = fut[s][n].outcome
             /\ released' = [released EXCEPT ![s] = Append(@, v)]

LEMMA ReleasePasses ==
  ASSUME Typed, Waiting, NEW t \in Threads, job[t] \in Sessions \X Windows,
         \/ ReleaseSkip(t) \/ ReleaseDiscard(t) \/ ReleaseVerdict(t)
  PROVE  PassesNext(job[t][1])
<1> DEFINE s == job[t][1]
           n == nextIndex[s]
<1>t. /\ s \in Sessions /\ n \in Nat
      /\ nextIndex \in [Sessions -> Nat] /\ terminal \in [Sessions -> BOOLEAN]
      /\ pending \in [Sessions -> [Windows -> Scores \cup {None}]]
      /\ skipped \in [Sessions -> SUBSET Windows]
  BY DEF Typed, TypeOK, PolicyType
<1>1. CASE ReleaseSkip(t)
  <2>1. /\ n \in skipped[s] /\ skipped' = [skipped EXCEPT ![s] = @ \ {n}]
        /\ nextIndex' = [nextIndex EXCEPT ![s] = n + 1]
        /\ UNCHANGED <<terminal, pending, released>>
    BY <1>1, <1>t DEF ReleaseSkip, SkipsNext
  <2>2. /\ n \in Windows /\ fut[s][n].state = "done" /\ fut[s][n].outcome = None
    BY <1>t, <2>1 DEF Waiting
  <2>3. \A r \in Sessions, j \in Windows :
          /\ j \in skipped'[r] => j \in skipped[r]
          /\ pending'[r][j] \in {pending[r][j], None}
    BY <1>t, <2>1
  <2> QED BY <2>1, <2>2, <2>3 DEF PassesNext
<1>2. CASE ReleaseDiscard(t)
  <2>1. /\ PendingAt(s, n) # None /\ terminal[s]
        /\ pending' = [pending EXCEPT ![s][n] = None]
        /\ nextIndex' = [nextIndex EXCEPT ![s] = n + 1]
        /\ UNCHANGED <<terminal, skipped, released>>
    BY <1>2, <1>t DEF ReleaseDiscard, Discards
  <2>2. n \in Windows /\ pending[s][n] # None
    BY <2>1 DEF PendingAt
  <2>3. fut[s][n].state = "done"
    BY <1>t, <2>2 DEF Waiting
  <2>4. \A r \in Sessions, j \in Windows :
          /\ j \in skipped'[r] => j \in skipped[r]
          /\ pending'[r][j] \in {pending[r][j], None}
    BY <1>t, <2>1
  <2> QED BY <2>1, <2>2, <2>3, <2>4 DEF PassesNext
<1>3. CASE ReleaseVerdict(t)
  <2>1. /\ n \in Windows /\ pending[s][n] \in Scores /\ ~terminal[s]
        /\ \A r \in Sessions : r # s => terminal'[r] = terminal[r]
        /\ \E v \in Verdict :
             /\ v.win = n /\ v.score = pending[s][n]
             /\ released' = [released EXCEPT ![s] = Append(@, v)]
    BY <1>3, <1>t, ReleasedGrows
  <2>2. pending[s][n] # None
    BY <2>1, ScoresAssumption
  <2>3. fut[s][n].state = "done" /\ fut[s][n].outcome = pending[s][n]
    BY <1>t, <2>1, <2>2 DEF Waiting
  <2>4. /\ nextIndex' = [nextIndex EXCEPT ![s] = n + 1]
        /\ \/ /\ pending' = [pending EXCEPT ![s] = [k \in Windows |-> None]]
              /\ skipped' = [skipped EXCEPT ![s] = {}]
           \/ /\ pending' = [pending EXCEPT ![s][n] = None]
              /\ skipped' = skipped
    BY <1>3 DEF ReleaseVerdict
  <2>5. \A r \in Sessions, j \in Windows :
          /\ j \in skipped'[r] => j \in skipped[r]
          /\ pending'[r][j] \in {pending[r][j], None}
    BY <1>t, <2>4
  <2> QED BY <2>1, <2>3, <2>4, <2>5 DEF PassesNext
<1> QED BY <1>1, <1>2, <1>3

LEMMA OrderedKept ==
  ASSUME Typed, LockedActive, Lives, Ordered, [Next]_vars
  PROVE  Ordered'
<1>t. /\ fut \in [Sessions -> [Windows -> Future]]
      /\ nextIndex \in [Sessions -> Nat] /\ terminal \in [Sessions -> BOOLEAN]
      /\ pending \in [Sessions -> [Windows -> Scores \cup {None}]]
      /\ skipped \in [Sessions -> SUBSET Windows]
      /\ released \in [Sessions -> Seq(Verdict)]
  BY DEF Typed, TypeOK, ThreadsType, PolicyType
<1>1. CASE UNCHANGED <<terminal, nextIndex, pending, skipped, released>>
  <2>1. DoneKept
    BY NextLives
  <2>2. Waiting'
    BY <1>1, <2>1 DEF Ordered, Waiting, DoneKept
  <2>3. \A s \in Sessions : \A k \in DOMAIN released[s] :
          released[s][k].score = fut'[s][released[s][k].win].outcome
    BY <2>1, PassedOver DEF DoneKept
  <2>4. \A s \in Sessions : \A i \in Windows : i < nextIndex[s] =>
          /\ fut'[s][i].state = "done"
          /\ \/ fut'[s][i].outcome = None
             \/ terminal[s]
             \/ \E k \in DOMAIN released[s] : released[s][k].win = i
    BY <2>1 DEF Ordered, ReleasedInWindowOrder, DoneKept
  <2>5. ReleasedInWindowOrder'
    BY <1>1, <2>3, <2>4 DEF Ordered, ReleasedInWindowOrder
  <2> QED BY <1>1, <2>2, <2>5 DEF Ordered, Turn
<1>2. ASSUME NEW t \in Threads, job[t] \in Sessions \X Windows, UNCHANGED fut,
             FinishL1(t)
      PROVE  Ordered'
  <2> DEFINE s == job[t][1]
             i == job[t][2]
             out == fut[s][i].outcome
  <2>1. s \in Sessions /\ i \in Windows /\ pc[t] = "finish"
    BY <1>2 DEF FinishL1
  <2>2. /\ UNCHANGED <<terminal, nextIndex, released>>
    BY <1>2 DEF FinishL1
  <2>3. CASE ~active[s]
    <3>1. UNCHANGED <<pending, skipped>>
      BY <1>2, <2>3 DEF FinishL1, SessionLive
    <3> QED BY <1>1, <2>2, <3>1
  <2>4. CASE active[s]
    <3>1. fut[s][i].state = "done"
      BY <2>1, <2>4 DEF Lives, Over, StateOf
    <3>2. \/ /\ out = None /\ pending' = pending
             /\ skipped' = [skipped EXCEPT ![s] = @ \cup {i}]
          \/ /\ skipped' = skipped
             /\ pending' = [pending EXCEPT ![s][i] = out]
      BY <1>2, <2>4 DEF FinishL1, SessionLive, WithSkipped
    <3>3. Waiting'
      <4> SUFFICES ASSUME NEW r \in Sessions, NEW j \in Windows
                   PROVE  /\ j \in skipped'[r] => /\ fut[r][j].state = "done"
                                                  /\ fut[r][j].outcome = None
                          /\ pending'[r][j] # None =>
                               /\ fut[r][j].state = "done"
                               /\ fut[r][j].outcome = pending'[r][j]
        BY <1>2 DEF Waiting
      <4>1. j \in skipped'[r] => j \in skipped[r] \/ (r = s /\ j = i /\ out = None)
        BY <1>t, <2>1, <3>2
      <4>2. \/ pending'[r][j] = pending[r][j]
            \/ r = s /\ j = i /\ pending'[r][j] = out
        BY <1>t, <2>1, <3>2
      <4> QED BY <3>1, <4>1, <4>2 DEF Ordered, Waiting
    <3>4. ReleasedInWindowOrder'
      BY <1>2, <2>2 DEF Ordered, ReleasedInWindowOrder
    <3> QED BY <2>2, <3>3, <3>4 DEF Ordered, Turn
  <2> QED BY <2>3, <2>4
<1>3. ASSUME NEW t \in Threads, job[t] \in Sessions \X Windows, UNCHANGED fut,
             PassesNext(job[t][1])
      PROVE  Ordered'
  <2> DEFINE s == job[t][1]
             n == nextIndex[s]
  <2>1. s \in Sessions /\ n \in Windows /\ n \in Nat /\ n < MaxWindows
    <3>1. s \in Sessions /\ n \in Windows
      BY <1>3 DEF PassesNext
    <3> QED BY <3>1, BoundsAssumption DEF Windows
  <2>2. /\ nextIndex'[s] = n + 1
        /\ \A r \in Sessions : r # s => nextIndex'[r] = nextIndex[r]
    BY <1>3, <1>t, <2>1 DEF PassesNext
  <2>3. Turn'
    <3> SUFFICES ASSUME NEW r \in Sessions PROVE nextIndex'[r] <= MaxWindows
      BY DEF Turn
    <3>1. CASE r = s
      <4>1. n + 1 <= MaxWindows
        BY <2>1, BoundsAssumption
      <4> QED BY <2>2, <3>1, <4>1
    <3>2. CASE r # s
      BY <2>2, <3>2 DEF Ordered, Turn
    <3> QED BY <3>1, <3>2
  <2>4. Waiting'
    <3>1. \A r \in Sessions : \A j \in Windows :
            /\ j \in skipped'[r] => j \in skipped[r]
            /\ pending'[r][j] \in {pending[r][j], None}
      BY <1>3 DEF PassesNext
    <3> QED BY <1>3, <3>1 DEF Ordered, Waiting
  <2>5. \/ /\ UNCHANGED <<terminal, released>>
           /\ fut[s][n].outcome = None \/ terminal[s]
        \/ /\ \E v \in Verdict :
                /\ v.win = n /\ v.score = fut[s][n].outcome
                /\ released' = [released EXCEPT ![s] = Append(@, v)]
           /\ ~terminal[s]
           /\ \A r \in Sessions : r # s => terminal'[r] = terminal[r]
    BY <1>3 DEF PassesNext
  <2>6. \A i \in Windows : i < n + 1 => i < n \/ i = n
    BY <2>1, BoundsAssumption DEF Windows
  <2>7. fut[s][n].state = "done"
    BY <1>3 DEF PassesNext
  <2> HIDE DEF s, n
  <2>z. n = nextIndex[s]
    BY DEF n
  <2>8. CASE /\ UNCHANGED <<terminal, released>>
             /\ fut[s][n].outcome = None \/ terminal[s]
    <3>1. \A r \in Sessions : \A k \in DOMAIN released[r] :
            released[r][k].win < nextIndex'[r]
      <4> SUFFICES ASSUME NEW r \in Sessions, NEW k \in DOMAIN released[r]
                   PROVE  released[r][k].win < nextIndex'[r]
        OBVIOUS
      <4>1. released[r][k].win \in Windows /\ released[r][k].win < nextIndex[r]
        BY PassedOver
      <4>2. released[r][k].win \in Nat
        BY <4>1, BoundsAssumption DEF Windows
      <4>3. CASE r = s
        <5>1. released[r][k].win < n /\ nextIndex'[r] = n + 1
          BY <2>2, <2>z, <4>1, <4>3
        <5> QED BY <2>1, <4>2, <5>1
      <4>4. CASE r # s
        BY <2>2, <4>1, <4>4
      <4> QED BY <4>3, <4>4
    <3>2. \A r \in Sessions : \A i \in Windows : i < nextIndex'[r] =>
            /\ fut[r][i].state = "done"
            /\ \/ fut[r][i].outcome = None
               \/ terminal[r]
               \/ \E k \in DOMAIN released[r] : released[r][k].win = i
      BY <2>2, <2>6, <2>7, <2>8, <2>z DEF Ordered, ReleasedInWindowOrder
    <3>3. ReleasedInWindowOrder'
      BY <1>3, <2>8, <3>1, <3>2 DEF Ordered, ReleasedInWindowOrder
    <3> QED BY <2>3, <2>4, <3>3 DEF Ordered
  <2>9. ASSUME NEW v \in Verdict, v.win = n, v.score = fut[s][n].outcome,
               released' = [released EXCEPT ![s] = Append(@, v)], ~terminal[s],
               \A r \in Sessions : r # s => terminal'[r] = terminal[r]
        PROVE  Ordered'
    <3> DEFINE old == released[s]
               m == Len(old)
    <3>1. /\ old \in Seq(Verdict) /\ m \in Nat /\ DOMAIN old = 1..m
          /\ released'[s] = Append(old, v)
          /\ \A r \in Sessions : r # s => released'[r] = released[r]
      BY <1>t, <2>1, <2>9, LenProperties
    <3>2. /\ DOMAIN released'[s] = 1..(m + 1) /\ released'[s][m + 1] = v
          /\ \A k \in 1..m : released'[s][k] = old[k]
      <4> HIDE DEF old
      <4>1. /\ Append(old, v) \in Seq(Verdict)
            /\ Len(Append(old, v)) = Len(old) + 1
            /\ \A i \in 1..Len(old) : Append(old, v)[i] = old[i]
            /\ Append(old, v)[Len(old) + 1] = v
        BY <3>1, AppendProperties
      <4> QED BY <3>1, <4>1, LenProperties
    <3>3. \A k \in 1..m : /\ old[k].win \in Nat /\ old[k].win < n
                          /\ old[k].score = fut[s][old[k].win].outcome
      <4> SUFFICES ASSUME NEW k \in 1..m
                   PROVE  /\ old[k].win \in Nat /\ old[k].win < n
                          /\ old[k].score = fut[s][old[k].win].outcome
        OBVIOUS
      <4>1. /\ old[k].win \in Windows /\ old[k].win < nextIndex[s]
            /\ old[k].score = fut[s][old[k].win].outcome
        BY <2>1, <3>1, PassedOver
      <4>2. old[k].win \in Nat
        BY <4>1, BoundsAssumption DEF Windows
      <4> QED BY <2>z, <4>1, <4>2
    <3>4. \A k \in DOMAIN released'[s] : k \in 1..m \/ k = m + 1
      BY <3>1, <3>2
    <3>5. \A k, l \in DOMAIN released'[s] :
            k < l => released'[s][k].win < released'[s][l].win
      <4> SUFFICES ASSUME NEW k \in DOMAIN released'[s], NEW l \in DOMAIN released'[s],
                          k < l
                   PROVE  released'[s][k].win < released'[s][l].win
        OBVIOUS
      <4>1. k \in 1..m /\ (l \in 1..m \/ l = m + 1)
        <5> HIDE DEF m
        <5> QED BY <3>1, <3>2
      <4>2. CASE l \in 1..m
        <5>1. old[k].win < old[l].win
          BY <2>1, <3>1, <4>1, <4>2 DEF Ordered, ReleasedInWindowOrder
        <5> QED BY <3>2, <4>1, <4>2, <5>1
      <4>3. CASE l = m + 1
        BY <2>9, <3>2, <3>3, <4>1, <4>3
      <4> QED BY <4>1, <4>2, <4>3
    <3>6. \A k \in DOMAIN released'[s] :
            /\ released'[s][k].win < n + 1
            /\ released'[s][k].score = fut[s][released'[s][k].win].outcome
      <4> SUFFICES ASSUME NEW k \in DOMAIN released'[s]
                   PROVE  /\ released'[s][k].win < n + 1
                          /\ released'[s][k].score = fut[s][released'[s][k].win].outcome
        OBVIOUS
      <4>1. CASE k \in 1..m
        <5>1. released'[s][k] = old[k]
          BY <3>2, <4>1
        <5>2. /\ old[k].win \in Nat /\ old[k].win < n
              /\ old[k].score = fut[s][old[k].win].outcome
          BY <3>3, <4>1
        <5>3. old[k].win < n + 1
          BY <2>1, <5>2
        <5> HIDE DEF old, m
        <5> QED BY <5>1, <5>2, <5>3
      <4>2. CASE k = m + 1
        <5>1. released'[s][k].win = n /\ released'[s][k].score = fut[s][n].outcome
          <6>1. released'[s][k] = v
            BY <3>2, <4>2
          <6> QED BY <2>9, <6>1
        <5>2. n < n + 1
          BY <2>1
        <5> QED BY <5>1, <5>2
      <4> QED BY <3>4, <4>1, <4>2
    <3>7. \A i \in Windows : i < n + 1 =>
            /\ fut[s][i].state = "done"
            /\ \/ fut[s][i].outcome = None
               \/ \E k \in DOMAIN released'[s] : released'[s][k].win = i
      <4> SUFFICES ASSUME NEW i \in Windows, i < n + 1
                   PROVE  /\ fut[s][i].state = "done"
                          /\ \/ fut[s][i].outcome = None
                             \/ \E k \in DOMAIN released'[s] : released'[s][k].win = i
        OBVIOUS
      <4>1. CASE i < n
        <5>1. /\ fut[s][i].state = "done"
              /\ \/ fut[s][i].outcome = None
                 \/ \E k \in DOMAIN old : old[k].win = i
          BY <2>1, <2>9, <2>z, <4>1 DEF Ordered, ReleasedInWindowOrder
        <5>2. \A k \in DOMAIN old : k \in DOMAIN released'[s] /\ released'[s][k] = old[k]
          <6> HIDE DEF m
          <6> QED BY <3>1, <3>2
        <5> QED BY <5>1, <5>2
      <4>2. CASE i = n
        <5>1. m + 1 \in DOMAIN released'[s]
          <6> HIDE DEF m
          <6> QED BY <3>1, <3>2
        <5> QED BY <2>7, <2>9, <3>2, <4>2, <5>1
      <4> QED BY <2>6, <4>1, <4>2
    <3> HIDE DEF old, m
    <3>8. ReleasedInWindowOrder'
      <4> SUFFICES ASSUME NEW r \in Sessions
                   PROVE  /\ \A k, l \in DOMAIN released'[r] :
                               k < l => released'[r][k].win < released'[r][l].win
                          /\ \A k \in DOMAIN released'[r] :
                               /\ released'[r][k].win < nextIndex'[r]
                               /\ released'[r][k].score
                                    = fut[r][released'[r][k].win].outcome
                          /\ \A i \in Windows : i < nextIndex'[r] =>
                               /\ fut[r][i].state = "done"
                               /\ \/ fut[r][i].outcome = None
                                  \/ terminal'[r]
                                  \/ \E k \in DOMAIN released'[r] :
                                       released'[r][k].win = i
        BY <1>3 DEF ReleasedInWindowOrder
      <4>1. CASE r = s
        BY <2>2, <3>5, <3>6, <3>7, <4>1
      <4>2. CASE r # s
        BY <2>2, <2>9, <3>1, <4>2 DEF Ordered, ReleasedInWindowOrder
      <4> QED BY <4>1, <4>2
    <3> QED BY <2>3, <2>4, <3>8 DEF Ordered
  <2> QED BY <2>5, <2>8, <2>9
<1> QED
  <2>1. CASE \E t \in Threads :
               /\ \/ FinishL1(t) \/ ReleaseSkip(t)
                  \/ ReleaseDiscard(t) \/ ReleaseVerdict(t)
               /\ job[t] \in Sessions \X Windows /\ UNCHANGED fut
    <3>1. PICK t \in Threads :
            /\ \/ FinishL1(t) \/ ReleaseSkip(t)
               \/ ReleaseDiscard(t) \/ ReleaseVerdict(t)
            /\ job[t] \in Sessions \X Windows /\ UNCHANGED fut
      BY <2>1
    <3>2. CASE FinishL1(t)
      BY <1>2, <3>1, <3>2
    <3>3. CASE \/ ReleaseSkip(t) \/ ReleaseDiscard(t) \/ ReleaseVerdict(t)
      <4>1. PassesNext(job[t][1])
        BY <3>1, <3>3, ReleasePasses DEF Ordered
      <4> QED BY <1>3, <3>1, <4>1
    <3> QED BY <3>1, <3>2, <3>3
  <2> QED BY <1>1, <2>1, PolicyWork

LEMMA InitOrdered == Init => Lives /\ Ordered
<1> SUFFICES ASSUME Init PROVE Lives /\ Ordered
  OBVIOUS
<1> USE DEF Init
<1>1. /\ pc = [t \in Threads |-> "idle"] /\ jobs = <<>>
      /\ released = [s \in Sessions |-> <<>>]
      /\ \A s \in Sessions, i \in Windows :
           fut[s][i].state = "none" /\ pending[s][i] = None
      /\ \A s \in Sessions : skipped[s] = {} /\ nextIndex[s] = 0
  OBVIOUS
<1>2. Fresh /\ Over /\ Running
  BY <1>1 DEF Fresh, Over, Running, Threads
<1>3. Queued
  BY <1>1 DEF Queued
<1>4. Waiting /\ Turn
  BY <1>1, BoundsAssumption DEF Waiting, Turn
<1>5. ReleasedInWindowOrder
  BY <1>1, BoundsAssumption DEF ReleasedInWindowOrder, Windows
<1> QED BY <1>2, <1>3, <1>4, <1>5 DEF Lives, Ordered

(* Whatever the workers' pace, a session's verdicts leave in window order, *)
(* none before the inference of its window is over, none left out.         *)
THEOREM WindowsInOrder == Spec => []ReleasedInWindowOrder
<1> DEFINE Inv == Typed /\ LockedActive /\ Lives /\ Ordered
<1>1. Init => Inv
  BY InitTyped, InitOrdered DEF Init, LockedActive
<1>2. Inv /\ [Next]_vars => Inv'
  BY NextTyped, LockedActiveKept, NextLives, OrderedKept
<1>3. Inv => ReleasedInWindowOrder
  BY DEF Ordered
<1> QED BY <1>1, <1>2, <1>3, PTL DEF Spec

-----------------------------------------------------------------------------
(* The stream's policy is the processor's.                                 *)
LEMMA StreamPolicy ==
  ASSUME NEW q, NEW x, NEW v
  PROVE  /\ Stream!LastScores(q) = LastScores(q)
         /\ Stream!ScoresOf(v) = ScoresOf(v)
         /\ Stream!Suspicious(q) <=> Suspicious(q)
<1>1. Stream!LastScores(q) = LastScores(q)
  BY DEF Stream!LastScores, LastScores
<1>2. Stream!ScoresOf(v) = ScoresOf(v)
  BY DEF Stream!ScoresOf, ScoresOf
<1>3. Stream!SumFunction(q) = SumFunction(q)
  BY DEF Stream!SumFunction, Stream!SumFunctionOnSet, Stream!FoldFunctionOnSet,
         Stream!MapThenFoldSet, SumFunction, SumFunctionOnSet,
         FoldFunctionOnSet, MapThenFoldSet
<1>4. Stream!Suspicious(q) <=> Suspicious(q)
  BY <1>3 DEF Stream!Suspicious, Suspicious
<1> QED BY <1>1, <1>2, <1>4

(* What the stream sees of a window.                                       *)
Seen(s, i) == IF fut[s][i].state = "done" THEN fut[s][i].outcome ELSE Unknown

SameSeen == \A s \in Sessions, i \in Windows : Seen(s, i)' = Seen(s, i)

(* What a step shows of itself in the stream: nothing, the end of a        *)
(* session, a verdict, or an inference that resolves.                      *)
StepShows ==
  \/ SameSeen /\ UNCHANGED <<active, released>>
  \/ /\ SameSeen /\ UNCHANGED released
     /\ \E s \in Sessions : active[s] /\ active' = [active EXCEPT ![s] = FALSE]
  \/ /\ SameSeen /\ UNCHANGED active
     /\ \E t \in Threads : ReleaseVerdict(t) /\ job[t] \in Sessions \X Windows
  \/ /\ UNCHANGED <<active, released>>
     /\ \E w \in Workers, out \in Scores \cup {None} :
          Resolve(w, out) /\ pc[w] \in {"check", "predict"}

LEMMA StepsShow ==
  ASSUME Typed, Lives, [Next]_vars
  PROVE  StepShows
<1> USE DEF feedVars, threadVars, policyVars, connVars, coreVars
<1> DEFINE NewlyDone == \E s \in Sessions, i \in Windows :
                          fut'[s][i].state = "done" /\ fut[s][i].state # "done"
<1>t. /\ fut \in [Sessions -> [Windows -> Future]]
      /\ active \in [Sessions -> BOOLEAN]
      /\ \A t \in Threads : pc[t] \in Busy =>
           job[t][1] \in Sessions /\ job[t][2] \in Windows
      /\ \A k \in DOMAIN jobs : jobs[k][1] \in Sessions /\ jobs[k][2] \in Windows
      /\ jobs \in Seq(Sessions \X Windows)
      /\ EventWorker \in Threads /\ Workers \subseteq Threads
  BY WorkTyped
<1>0. ~NewlyDone => SameSeen
  <2>1. DoneKept
    BY NextLives
  <2> QED BY <2>1 DEF DoneKept, Seen, SameSeen
<1>1. ASSUME NEW s \in Sessions, NEW i \in Windows, NEW f,
             f.state = "done" => fut[s][i].state = "done",
             fut' = [fut EXCEPT ![s][i] = f]
      PROVE  ~NewlyDone
  <2>1. \A r \in Sessions, j \in Windows :
          fut'[r][j] = IF r = s /\ j = i THEN f ELSE fut[r][j]
    BY <1>t, <1>1
  <2> QED BY <1>1, <2>1
<1>2. ASSUME UNCHANGED <<fut, active, released>>
      PROVE  StepShows
  BY <1>0, <1>2 DEF StepShows
<1>3. ASSUME NEW s \in Sessions, MarkEnded(s), UNCHANGED released
      PROVE  StepShows
  <2>1. CASE UNCHANGED <<fut, active>>
    BY <1>2, <1>3, <2>1
  <2>2. CASE /\ active[s] /\ active' = [active EXCEPT ![s] = FALSE]
             /\ fut' = [fut EXCEPT ![s] = [i \in Windows |->
                          IF fut[s][i].state = "queued"
                          THEN [fut[s][i] EXCEPT !.state = "cancelled"]
                          ELSE fut[s][i]]]
    <3>1. \A i \in Windows : [fut[s][i] EXCEPT !.state = "cancelled"].state # "done"
      <4>1. \A i \in Windows : fut[s][i] \in Future
        BY <1>t
      <4> QED BY <4>1 DEF Future
    <3> DEFINE g == [i \in Windows |->
                       IF fut[s][i].state = "queued"
                       THEN [fut[s][i] EXCEPT !.state = "cancelled"] ELSE fut[s][i]]
    <3>2. \A i \in Windows : g[i].state = "done" => fut[s][i].state = "done"
      BY <3>1
    <3>3. fut' = [fut EXCEPT ![s] = g]
      BY <2>2
    <3> HIDE DEF g
    <3>4. \A r \in Sessions : fut'[r] = IF r = s THEN g ELSE fut[r]
      BY <1>t, <3>3
    <3>5. ~NewlyDone
      BY <3>2, <3>4
    <3> QED BY <1>0, <1>3, <2>2, <3>5 DEF StepShows
  <2> QED BY <1>3, <2>1, <2>2 DEF MarkEnded
<1>4. ASSUME NEW c \in Conns,
             \/ Accept(c) \/ Disconnect(c) \/ ReaderStep(c)
             \/ \E m \in Message : Receive(c, m)
      PROVE  StepShows
  <2>1. CASE MarkEarly(c)
    <3>1. frame[c].sess \in Sessions
      BY <2>1 DEF MarkEarly, Typed, ReaderControl, Message
    <3> QED BY <1>3, <2>1, <3>1 DEF MarkEarly
  <2>2. CASE ~MarkEarly(c)
    <3>1. UNCHANGED <<fut, active, released>>
      BY <1>4, <2>2
      DEF Accept, Disconnect, ReaderStep, Receive, DrainPeek, DrainDone,
          SendResponse, DrainPop, SubmitFrame, ReceiveTimeout
    <3> QED BY <1>2, <3>1
  <2> QED BY <2>1, <2>2
<1>5. ASSUME NEW t \in Threads, Callback(t)
      PROVE  StepShows
  <2>1. CASE ReleaseVerdict(t)
    <3>1. UNCHANGED <<fut, active>> /\ pc[t] = "release"
      BY <2>1 DEF ReleaseVerdict
    <3>2. job[t] \in Sessions \X Windows
      BY <3>1 DEF Typed, ThreadControl, Busy
    <3> QED BY <1>0, <2>1, <3>1, <3>2 DEF StepShows
  <2>2. CASE ~ReleaseVerdict(t)
    <3>1. UNCHANGED <<fut, active, released>>
      BY <1>5, <2>2 DEF Callback, FinishL1, ReleaseSkip, ReleaseDiscard,
                        ReleaseStop, EnqueueResponses
    <3> QED BY <1>2, <3>1
  <2> QED BY <2>1, <2>2
<1>6. CASE TakeFrame
  <2>1. Head(inbox).sess \in Sessions
    <3>1. Head(inbox) \in Message
      BY <1>6, HeadTailProperties DEF TakeFrame, Typed, TypeOK, ReadersType
    <3> QED BY <3>1 DEF Message
  <2>2. /\ UNCHANGED released
        /\ MarkEnded(Head(inbox).sess) \/ UNCHANGED <<fut, active>>
    BY <1>6 DEF TakeFrame
  <2> QED BY <1>2, <1>3, <2>1, <2>2
<1>7. CASE SubmitWindow
  <2> DEFINE s == job[EventWorker][1]
             i == job[EventWorker][2]
  <2>1. s \in Sessions /\ i \in Windows /\ fut[s][i] \in Future
    BY <1>7, <1>t DEF SubmitWindow, Busy
  <2>2. /\ UNCHANGED <<active, released>>
        /\ \/ UNCHANGED fut
           \/ fut' = [fut EXCEPT ![s][i] = [fut[s][i] EXCEPT !.state = "queued"]]
    BY <1>7 DEF SubmitWindow
  <2>3. [fut[s][i] EXCEPT !.state = "queued"].state # "done"
    BY <2>1 DEF Future
  <2> QED BY <1>0, <1>1, <1>2, <2>1, <2>2, <2>3 DEF StepShows
<1>8. CASE AttachCallback
  <2> DEFINE s == job[EventWorker][1]
             i == job[EventWorker][2]
  <2>1. s \in Sessions /\ i \in Windows /\ fut[s][i] \in Future
    BY <1>8, <1>t DEF AttachCallback, Busy
  <2>2. /\ UNCHANGED <<active, released>>
        /\ \/ UNCHANGED fut
           \/ fut' = [fut EXCEPT ![s][i] = [fut[s][i] EXCEPT !.attached = TRUE]]
    BY <1>8 DEF AttachCallback
  <2>3. [fut[s][i] EXCEPT !.attached = TRUE].state = fut[s][i].state
    BY <2>1 DEF Future
  <2>4. CASE fut' = [fut EXCEPT ![s][i] = [fut[s][i] EXCEPT !.attached = TRUE]]
    <3> DEFINE f == [fut[s][i] EXCEPT !.attached = TRUE]
    <3>1. /\ f.state = "done" => fut[s][i].state = "done"
          /\ fut' = [fut EXCEPT ![s][i] = f]
      BY <2>3, <2>4
    <3> HIDE DEF s, i, f
    <3>2. ~NewlyDone
      BY <1>1, <2>1, <3>1
    <3> QED BY <1>0, <2>2, <3>2 DEF StepShows
  <2> QED BY <1>2, <2>2, <2>4
<1>9. ASSUME NEW w \in Workers, StartJob(w)
      PROVE  StepShows
  <2> DEFINE s == Head(jobs)[1]
             i == Head(jobs)[2]
  <2>1. s \in Sessions /\ i \in Windows /\ fut[s][i] \in Future
    <3>1. Head(jobs) \in Sessions \X Windows
      BY <1>9, <1>t, HeadTailProperties DEF StartJob
    <3> QED BY <1>t, <3>1
  <2>2. /\ UNCHANGED <<active, released>>
        /\ \/ UNCHANGED fut
           \/ fut' = [fut EXCEPT ![s][i] = [fut[s][i] EXCEPT !.state = "running"]]
    BY <1>9 DEF StartJob
  <2>3. [fut[s][i] EXCEPT !.state = "running"].state # "done"
    BY <2>1 DEF Future
  <2> QED BY <1>0, <1>1, <1>2, <2>1, <2>2, <2>3 DEF StepShows
<1>10. ASSUME NEW w \in Workers, WorkerStep(w)
       PROVE  StepShows
  <2>1. CASE CheckActive(w)
    <3>1. /\ UNCHANGED <<active, released>> /\ pc[w] = "check"
          /\ UNCHANGED fut \/ Resolve(w, None)
      BY <2>1 DEF CheckActive
    <3> QED BY <1>2, <3>1 DEF StepShows
  <2>2. ASSUME NEW out \in Scores \cup {None}, Predict(w, out)
        PROVE  StepShows
    BY <2>2 DEF Predict, StepShows
  <2> QED BY <1>5, <1>9, <1>10, <1>t, <2>1, <2>2 DEF WorkerStep
<1>11. CASE EventStep
  <2>1. ASSUME NEW n \in 0..BatchWindows, HandleLaunches(n)
        PROVE  StepShows
    BY <1>2, <2>1 DEF HandleLaunches
  <2> QED BY <1>5, <1>6, <1>7, <1>8, <1>11, <1>t, <2>1 DEF EventStep
<1>12. CASE UNCHANGED vars
  BY <1>2, <1>12 DEF vars
<1> QED BY <1>4, <1>10, <1>11, <1>12 DEF Next

-----------------------------------------------------------------------------
(* A release is an emission of the stream: the session is live, nothing    *)
(* was emitted for this window nor after a termination, and every window   *)
(* before it is accounted for.                                             *)
LEMMA ReleaseEmits ==
  ASSUME Typed, LockedActive, Ordered, TerminateOnce, Decided,
         NEW t \in Threads, ReleaseVerdict(t), job[t] \in Sessions \X Windows,
         SameSeen, UNCHANGED active
  PROVE  Stream!Next
<1> DEFINE s == job[t][1]
           i == nextIndex[s]
           x == pending[s][i]
           q == ScoresOf(released[s])
           v == [sess |-> s, win |-> i, score |-> x,
                 action |-> IF Suspicious(LastScores(Append(q, x)))
                            THEN "terminate" ELSE "log"]
           seen == [r \in Sessions |-> [j \in Windows |-> Seen(r, j)]]
           over == [r \in Sessions |-> ~active[r]]
<1>1. /\ s \in Sessions /\ i \in Windows /\ x \in Scores /\ ~terminal[s]
      /\ released \in [Sessions -> Seq(Verdict)] /\ active[s]
      /\ active \in [Sessions -> BOOLEAN]
  BY ReleasedGrows DEF Typed, TypeOK, PolicyType, SessionsType, ReleaseVerdict,
                       LockedActive
<1>2. fut[s][i].state = "done" /\ fut[s][i].outcome = x
  <2>1. x # None
    BY <1>1, ScoresAssumption
  <2> QED BY <1>1, <2>1 DEF Ordered, Waiting
<1>3. q \in Seq(Scores)
  <2>1. \A u \in Verdict : u.score \in Scores
    BY DEF Verdict
  <2> QED BY <1>1, <2>1, SMTT(30) DEF ScoresOf
<1>4. Remember(rolling[s], x) = LastScores(Append(q, x))
  <2>1. rolling[s] = LastScores(q)
    BY <1>1 DEF Decided, RollingMatches
  <2> QED BY <1>1, <1>3, <2>1, LastScoresAppend DEF Remember
<1>5. released' = [released EXCEPT ![s] = Append(@, v)]
  <2>1. PendingAt(s, i) = x
    BY <1>1 DEF PendingAt
  <2> QED BY <1>4, <2>1 DEF ReleaseVerdict
<1>6. ~Stream!Terminated(s)
  BY <1>1 DEF Stream!Terminated, TerminateOnce
<1>7. ~Stream!Emitted(s, i)
  <2>1. \A k \in DOMAIN released[s] : released[s][k].win # i
    <3> SUFFICES ASSUME NEW k \in DOMAIN released[s] PROVE released[s][k].win # i
      OBVIOUS
    <3>1. released[s][k].win \in Windows /\ released[s][k].win < nextIndex[s]
      BY <1>1, PassedOver
    <3>2. i \in Nat /\ released[s][k].win \in Nat
      BY <1>1, <3>1, BoundsAssumption DEF Windows
    <3> QED BY <3>1, <3>2
  <2> QED BY <2>1 DEF Stream!Emitted
<1>8. \A j \in Windows : j < i => Seen(s, j) = None \/ Stream!Emitted(s, j)
  BY <1>1 DEF Ordered, ReleasedInWindowOrder, Seen, Stream!Emitted
<1>9. seen[s][i] = x /\ \A j \in Windows : seen[s][j] = Seen(s, j)
  BY <1>1, <1>2 DEF Seen
<1>10. UNCHANGED <<seen, over>>
  BY DEF SameSeen
<1>11. v = [sess |-> s, win |-> i, score |-> seen[s][i],
            action |-> IF Stream!Suspicious(Stream!LastScores(
                            Append(Stream!ScoresOf(released[s]), seen[s][i])))
                       THEN "terminate" ELSE "log"]
  BY <1>9, StreamPolicy
<1>12. Stream!Emit(s, i)
  <2>1. ~over[s]
    BY <1>1
  <2> HIDE DEF s, i, x, q, v
  <2> QED BY <1>1, <1>5, <1>6, <1>7, <1>8, <1>9, <1>10, <1>11, <2>1
          DEF Stream!Emit, Seen
<1> QED BY <1>1, <1>12 DEF Stream!Next

LEMMA InitStreams == Init => Stream!Init
<1> SUFFICES ASSUME Init PROVE Stream!Init
  OBVIOUS
<1>1. \A s \in Sessions, i \in Windows : Seen(s, i) = Unknown
  BY DEF Init, Seen
<1>2. /\ released = [s \in Sessions |-> <<>>]
      /\ \A s \in Sessions : active[s]
  BY DEF Init
<1> QED BY <1>1, <1>2 DEF Stream!Init, Seen

(* An inference that resolves settles its window, once.                    *)
LEMMA ResolveSettles ==
  ASSUME Typed, Lives, NEW w \in Workers, NEW out \in Scores \cup {None},
         Resolve(w, out), pc[w] \in {"check", "predict"},
         UNCHANGED <<active, released>>
  PROVE  Stream!Next
<1> DEFINE seen == [r \in Sessions |-> [j \in Windows |-> Seen(r, j)]]
<1>1. PICK s \in Sessions, i \in Windows : s = job[w][1] /\ i = job[w][2]
  BY WorkTyped DEF Busy
<1>2. Seen(s, i) = Unknown
  BY <1>1 DEF Lives, Running, StateOf, Seen
<1>3. \A r \in Sessions, j \in Windows :
        Seen(r, j)' = IF r = s /\ j = i THEN out ELSE Seen(r, j)
  BY <1>1, ResolveWrites DEF Seen
<1>4. seen' = [seen EXCEPT ![s][i] = out]
  BY <1>3
<1>5. Stream!Settle(s, i, out)
  BY <1>2, <1>4 DEF Stream!Settle, Seen
<1> QED BY <1>5 DEF Stream!Next

(* What the stream does not see is a stuttering step.                      *)
LEMMA UnseenStutters ==
  ASSUME SameSeen, UNCHANGED <<active, released>>
  PROVE  UNCHANGED Stream!vars
BY DEF Stream!vars, SameSeen, Seen

LEMMA EndEnds ==
  ASSUME Typed, SameSeen, UNCHANGED released, NEW s \in Sessions, active[s],
         active' = [active EXCEPT ![s] = FALSE]
  PROVE  Stream!Next
<1> DEFINE seen == [r \in Sessions |-> [j \in Windows |-> Seen(r, j)]]
           over == [r \in Sessions |-> ~active[r]]
<1>1. active \in [Sessions -> BOOLEAN]
  BY DEF Typed, TypeOK, SessionsType
<1>2. over' = [over EXCEPT ![s] = TRUE] /\ ~over[s]
  BY <1>1
<1>3. UNCHANGED seen
  BY DEF SameSeen
<1>4. Stream!End(s)
  BY <1>2, <1>3 DEF Stream!End, Seen
<1> QED BY <1>4 DEF Stream!Next

(***************************************************************************)
(* The processor, whatever its threads do, is the sequential stream of     *)
(* VerdictStream: windows settle in any order, verdicts come out in window *)
(* order by the rolling policy, and every other step of the code shows     *)
(* nothing.                                                                *)
(***************************************************************************)
THEOREM ProcessorIsStream == Spec => ImplementsVerdictStream
<1> DEFINE Inv == /\ Typed /\ LockedActive /\ Lives /\ Ordered
                  /\ TerminateOnce /\ Decided
<1>1. Init => Inv
  BY InitTyped, InitOrdered, InitDecided DEF Init, LockedActive, TerminateOnce
<1>2. Inv /\ [Next]_vars => Inv'
  BY NextTyped, LockedActiveKept, NextLives, OrderedKept, TerminateOnceKept,
     DecidedKept
<1>3. Inv /\ [Next]_vars => [Stream!Next]_(Stream!vars)
  <2> SUFFICES ASSUME Inv, [Next]_vars
               PROVE  Stream!Next \/ UNCHANGED Stream!vars
    OBVIOUS
  <2>1. CASE SameSeen /\ UNCHANGED <<active, released>>
    BY <2>1, UnseenStutters
  <2>2. CASE /\ SameSeen /\ UNCHANGED released
             /\ \E s \in Sessions :
                  active[s] /\ active' = [active EXCEPT ![s] = FALSE]
    BY <2>2, EndEnds
  <2>3. CASE /\ SameSeen /\ UNCHANGED active
             /\ \E t \in Threads :
                  ReleaseVerdict(t) /\ job[t] \in Sessions \X Windows
    BY <2>3, ReleaseEmits
  <2>4. CASE /\ UNCHANGED <<active, released>>
             /\ \E w \in Workers, out \in Scores \cup {None} :
                  Resolve(w, out) /\ pc[w] \in {"check", "predict"}
    BY <2>4, ResolveSettles
  <2> QED BY <2>1, <2>2, <2>3, <2>4, StepsShow DEF StepShows
<1> QED
  BY <1>1, <1>2, <1>3, InitStreams, PTL
  DEF Spec, ImplementsVerdictStream, Stream!Spec
=============================================================================
