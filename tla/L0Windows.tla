------------------------------ MODULE L0Windows ------------------------------
(***************************************************************************)
(* The L0 window scheduler (analysis/sassguard_analysis/l0_windows.py):    *)
(* for each CUDA stream a queue of launches within a token budget; when a  *)
(* launch overflows it, the launches are a window, unless the bitwise gate *)
(* closes or a window of the same composition was emitted before.          *)
(*                                                                         *)
(* A launch stands for what ready_launch_attributes reads of it: kernel    *)
(* id, token cost and bitwise ratio (in percent).  Kernel ids are numbers: *)
(* only their order matters.  The costs of a kernel may differ from launch *)
(* to launch, as its directory is rewritten when its code is loaded again. *)
(***************************************************************************)
EXTENDS Integers, Sequences, FiniteSets

CONSTANTS
  Groups,       \* streams: values of _group_tuple
  Kernels,      \* kernel ids
  Launches,     \* launches a stream may make
  Budget,       \* window.content_token_budget
  UseGate,      \* trigger.use_bitwise_gate
  Threshold,    \* trigger.bitwise_integer_ratio_threshold
  MaxLaunches,  \* bound: calls of add_launch
  None

ASSUME KernelsAssumption == Kernels \subseteq Nat /\ None \notin Nat
ASSUME BudgetAssumption ==
  Budget \in Nat /\ MaxLaunches \in Nat /\ UseGate \in BOOLEAN /\ Threshold \in Nat

(* render_launch_fragment truncates a kernel to the budget of one window.  *)
ASSUME LaunchesAssumption ==
  Launches \subseteq [kernel : Kernels, cost : 1..Budget, ratio : 0..100]

VARIABLES
  created,      \* groups in the order of the states dict
  queue, cost, counts, ratios, seen, evicted, unready,  \* StreamState
  nextWindow,   \* next_window_index
  windows,      \* history: windows emitted
  arrivals,     \* history: ready launches of each stream
  calls         \* calls of add_launch so far (bounded by MaxLaunches)

streamVars == <<queue, cost, counts, ratios, evicted>>
vars == <<created, streamVars, seen, unready, nextWindow, windows, arrivals,
          calls>>

Init ==
  /\ created = <<>>
  /\ queue = [g \in Groups |-> <<>>]
  /\ cost = [g \in Groups |-> 0]
  /\ counts = [g \in Groups |-> [k \in Kernels |-> 0]]
  /\ ratios = [g \in Groups |-> [k \in Kernels |-> None]]
  /\ seen = [g \in Groups |-> {}]
  /\ evicted = [g \in Groups |-> 0]
  /\ unready = [g \in Groups |-> 0]
  /\ nextWindow = 0
  /\ windows = <<>>
  /\ arrivals = [g \in Groups |-> <<>>]
  /\ calls = 0

-----------------------------------------------------------------------------
Total(q) ==
  LET sum[n \in 0..Len(q)] == IF n = 0 THEN 0 ELSE sum[n - 1] + q[n].cost
  IN  sum[Len(q)]
Occurrences(q, k) == Cardinality({i \in DOMAIN q : q[i].kernel = k})
Drop(q, n) == SubSeq(q, n + 1, Len(q))

(* composition_signature: the kernels of a window, and the three most      *)
(* frequent ones, by decreasing count and then by id.                      *)
Rank(cnt, k) ==
  Cardinality({j \in Kernels : cnt[j] > cnt[k] \/ (cnt[j] = cnt[k] /\ j < k)})
Composition(cnt) ==
  LET present == {k \in Kernels : cnt[k] > 0} IN
  <<present, [r \in {r \in 1..3 : r <= Cardinality(present)} |->
                CHOOSE k \in present : Rank(cnt, k) = r - 1]>>

(* The gate is inclusive, and open when any kernel of the window opens it. *)
GateOpen(cnt, rat) ==
  UseGate => \E k \in Kernels : cnt[k] > 0 /\ rat[k] >= Threshold

(* _candidate_window for a stream with these counts and ratios.            *)
GateOnly(g, cnt, rat) == GateOpen(cnt, rat)   \* faulty: emits repetitions
NewKernels(g, cnt, rat) ==   \* faulty: compares the kernel sets alone
  GateOpen(cnt, rat) /\ \A c \in seen[g] : c[1] # Composition(cnt)[1]
Emits(g, cnt, rat) == GateOpen(cnt, rat) /\ Composition(cnt) \notin seen[g]

Window(id, g, q, trigger) ==
  [id |-> id, group |-> g, launches |-> q, trigger |-> trigger]

Reaches(c) == c >= Budget   \* faulty: a full window is taken for an overflow
Overflows(c) == c > Budget

(* _evict_to_budget: how many of the oldest launches leave.                *)
EvictCount(q, c) ==
  CHOOSE n \in 0..Len(q) :
    /\ n = Len(q) \/ c - Total(SubSeq(q, 1, n)) <= Budget
    /\ \A m \in 0..(n - 1) : c - Total(SubSeq(q, 1, m)) > Budget

(* Counts and ratios when the launches of q have left.                     *)
CountsKept(cnt, q) == cnt   \* faulty: evicted launches are still counted
CountsWithout(cnt, q) == [k \in Kernels |-> cnt[k] - Occurrences(q, k)]

StreamCreated(g) ==
  created' = IF \E i \in DOMAIN created : created[i] = g
             THEN created ELSE Append(created, g)

(* add_launch of a launch whose kernel is known.                           *)
AddLaunch(g, l) ==
  LET q   == Append(queue[g], l)
      c   == cost[g] + l.cost
      cnt == [counts[g] EXCEPT ![l.kernel] = @ + 1]
      rat == [ratios[g] EXCEPT ![l.kernel] = l.ratio]
      over == Overflows(c)
      emit == over /\ Emits(g, cnt, rat)
      n   == IF over THEN EvictCount(q, c) ELSE 0
      out == SubSeq(q, 1, n)
      left == CountsWithout(cnt, out) IN
  /\ calls < MaxLaunches /\ calls' = calls + 1
  /\ StreamCreated(g)
  /\ arrivals' = [arrivals EXCEPT ![g] = Append(@, l)]
  /\ queue' = [queue EXCEPT ![g] = Drop(q, n)]
  /\ cost' = [cost EXCEPT ![g] = c - Total(out)]
  /\ counts' = [counts EXCEPT ![g] = left]
  /\ ratios' = [ratios EXCEPT ![g] =
                  [k \in Kernels |-> IF left[k] > 0 THEN rat[k] ELSE None]]
  /\ evicted' = [evicted EXCEPT ![g] = @ + n]
  /\ IF emit
     THEN /\ seen' = [seen EXCEPT ![g] = @ \cup {Composition(cnt)}]
          /\ windows' = Append(windows,
                               Window(nextWindow, g, q, "token_budget_overflow"))
          /\ nextWindow' = nextWindow + 1
     ELSE UNCHANGED <<seen, windows, nextWindow>>
  /\ UNCHANGED unready

(* add_launch of a launch without kernel id, cost or ratio.                *)
AddUnready(g) ==
  /\ calls < MaxLaunches /\ calls' = calls + 1
  /\ StreamCreated(g)
  /\ unready' = [unready EXCEPT ![g] = @ + 1]
  /\ UNCHANGED <<streamVars, seen, nextWindow, windows, arrivals>>

(* flush: one more window for each stream that has a new composition, in   *)
(* the order in which the streams appeared; the queues stay as they are.   *)
Due(g) == queue[g] # <<>> /\ Emits(g, counts[g], ratios[g])
DueStreams ==
  LET upTo[n \in 0..Len(created)] ==
        IF n = 0 THEN <<>>
        ELSE IF Due(created[n]) THEN Append(upTo[n - 1], created[n])
        ELSE upTo[n - 1]
  IN  upTo[Len(created)]

Flush ==
  /\ windows' = windows \o [i \in DOMAIN DueStreams |->
       Window(nextWindow + i - 1, DueStreams[i], queue[DueStreams[i]],
              "offline_final_flush")]
  /\ nextWindow' = nextWindow + Len(DueStreams)
  /\ seen' = [g \in Groups |-> IF Due(g)
                               THEN seen[g] \cup {Composition(counts[g])}
                               ELSE seen[g]]
  /\ UNCHANGED <<created, streamVars, unready, arrivals, calls>>

Next ==
  \/ \E g \in Groups : AddUnready(g) \/ \E l \in Launches : AddLaunch(g, l)
  \/ Flush

Spec == Init /\ [][Next]_vars

-----------------------------------------------------------------------------
(* The state stays well typed.                                             *)
TypeOK ==
  /\ created \in Seq(Groups)
  /\ queue \in [Groups -> Seq(Launches)]
  /\ cost \in [Groups -> 0..Budget]
  /\ counts \in [Groups -> [Kernels -> Nat]]
  /\ ratios \in [Groups -> [Kernels -> (0..100) \cup {None}]]
  /\ \A g \in Groups : Cardinality(seen[g]) <= Len(windows)
  /\ evicted \in [Groups -> Nat] /\ unready \in [Groups -> Nat]
  /\ nextWindow \in Nat
  /\ \A i \in DOMAIN windows :
       windows[i].group \in Groups /\ windows[i].launches \in Seq(Launches)
  /\ arrivals \in [Groups -> Seq(Launches)]
  /\ calls \in 0..MaxLaunches

(***************************************************************************)
(* The scheduler keeps of each stream exactly the longest run of its last  *)
(* launches that fits the budget, however the launches of the streams      *)
(* interleave, and its running cost, counts and ratios, which are updated  *)
(* one launch at a time, are those of that run.                            *)
(***************************************************************************)
LongestSuffix(q) ==
  LET fits == {n \in 0..Len(q) : Total(Drop(q, n)) <= Budget}
      least == CHOOSE n \in fits : \A m \in fits : n <= m IN
  Drop(q, least)
CountsOf(q) == [k \in Kernels |-> Occurrences(q, k)]
LastRatios(q) ==
  [k \in Kernels |->
     LET at == {i \in DOMAIN q : q[i].kernel = k} IN
     IF at = {} THEN None
     ELSE q[CHOOSE i \in at : \A j \in at : j <= i].ratio]
KeepsLongestSuffix ==
  \A g \in Groups :
    /\ queue[g] = LongestSuffix(arrivals[g])
    /\ cost[g] = Total(queue[g])
    /\ counts[g] = CountsOf(queue[g])
    /\ ratios[g] = LastRatios(queue[g])
    /\ evicted[g] + Len(queue[g]) = Len(arrivals[g])

(***************************************************************************)
(* A composition is emitted at most once per stream, so the classifier     *)
(* never sees the same mixture of kernels of a stream twice.  The windows' *)
(* numbers are consecutive over all streams: the online processor releases *)
(* verdicts by these numbers and would wait for ever for a missing one.    *)
(***************************************************************************)
EachCompositionOnce ==
  /\ \A i, j \in DOMAIN windows :
       /\ i < j /\ windows[i].group = windows[j].group
       => Composition(CountsOf(windows[i].launches))
            # Composition(CountsOf(windows[j].launches))
  /\ \A i \in DOMAIN windows : windows[i].id = i - 1
  /\ nextWindow = Len(windows)

(***************************************************************************)
(* A window is a run of launches of one stream, without gaps and without   *)
(* launches of other streams.  One that an overflow emitted exceeds the    *)
(* budget by less than its last launch; one that flush emitted fits it.    *)
(***************************************************************************)
WindowsAreRuns ==
  \A i \in DOMAIN windows :
    LET w == windows[i]
        n == Len(w.launches) IN
    /\ n > 0
    /\ \E m \in 0..(Len(arrivals[w.group]) - n) :
         w.launches = SubSeq(arrivals[w.group], m + 1, m + n)
    /\ IF w.trigger = "token_budget_overflow"
       THEN /\ Total(w.launches) > Budget
            /\ Total(w.launches) - w.launches[n].cost <= Budget
       ELSE Total(w.launches) <= Budget

(***************************************************************************)
(* No new composition is missed: whenever a launch overflowed the budget   *)
(* of its stream and the launches then held passed the gate, a window of   *)
(* the stream shows their composition.                                     *)
(***************************************************************************)
NoCompositionMissed ==
  \A g \in Groups : \A n \in DOMAIN arrivals[g] :
    LET held == Append(LongestSuffix(SubSeq(arrivals[g], 1, n - 1)),
                       arrivals[g][n]) IN
    /\ Total(held) > Budget
    /\ GateOpen(CountsOf(held), LastRatios(held))
    => \E i \in DOMAIN windows :
         /\ windows[i].group = g
         /\ Composition(CountsOf(windows[i].launches))
              = Composition(CountsOf(held))

(***************************************************************************)
(* So what a stream did within the budget is what its windows show: each   *)
(* one is a run of its launches, and none with a new composition that      *)
(* passed the gate is missing.                                             *)
(***************************************************************************)
OverflowsShown == WindowsAreRuns /\ NoCompositionMissed
=============================================================================
