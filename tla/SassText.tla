------------------------------- MODULE SassText -------------------------------
(***************************************************************************)
(* What the classifier is shown of a kernel and of a window of launches    *)
(* (analysis/sassguard_analysis: normalize.py, sass_tokens.py,             *)
(* static_features.py and the rendering of workload_sass.py).              *)
(*                                                                         *)
(* A line of SASS is its number of tokens, the class of its opcode ("int"  *)
(* for the integer and bitwise ones, "nop", "label", "other") and whether  *)
(* a predicate guards it.  A kernel is its two listings, kernel.sass and   *)
(* main_loop.sass.  A launch names its kernel, or one that is not there.   *)
(***************************************************************************)
EXTENDS Integers, Sequences, FiniteSets, SequencesExt

CONSTANTS
  TokenBudget,    \* content_token_budget
  LoopBudget,     \* KERNEL_BODY_TOKEN_BUDGET
  ShortKernel,    \* short_kernel_threshold
  GateRatio,      \* bitwise_integer_ratio_threshold, in percent
  NoText          \* WorkloadSassError: nothing to show

Line == [cost : Nat \ {0}, op : {"int", "nop", "label", "other", "boundary"},
         guarded : BOOLEAN]

ASSUME TextAssumption ==
  /\ TokenBudget \in Nat \ {0} /\ ShortKernel \in Nat
  /\ LoopBudget = TokenBudget - 1
  /\ GateRatio \in 1..100
  /\ NoText \notin Seq(Line)

Boundary == [cost |-> 1, op |-> "boundary", guarded |-> FALSE]

TokenCount(lines) ==
  LET sum[n \in 0..Len(lines)] ==
        IF n = 0 THEN 0 ELSE sum[n - 1] + lines[n].cost
  IN  sum[Len(lines)]

(* truncate_lines_to_token_budget and, from the end, ..._from_front_...:   *)
(* lines are kept up to the first that does not fit.                       *)
FirstLines(lines, budget) ==
  LET fits == {n \in 0..Len(lines) : TokenCount(SubSeq(lines, 1, n)) <= budget}
  IN  SubSeq(lines, 1, CHOOSE n \in fits : \A m \in fits : m <= n)

LastLines(lines, budget) ==
  LET rest(n) == SubSeq(lines, n + 1, Len(lines))
      fits == {n \in 0..Len(lines) : TokenCount(rest(n)) <= budget}
  IN  rest(CHOOSE n \in fits : \A m \in fits : n <= m)

(* normalize_sass: labels, comments and NOPs go.                           *)
Normalized(lines) ==
  FlattenSeq([i \in DOMAIN lines |->
                IF lines[i].op \in {"label", "nop"} THEN <<>> ELSE <<lines[i]>>])

(* normalize_kernel_files cuts the main loop, never the kernel.            *)
NormalizedKernel(k) ==
  [kernel |-> Normalized(k.kernel),
   loop |-> FirstLines(Normalized(k.loop), LoopBudget)]

(* bitwise_integer_instruction_ratio, in percent.  Of a guarded            *)
(* instruction it reads the predicate: lstrip turns @PRED into RED.        *)
IntegerRatio(lines) ==
  IF lines = <<>> THEN 0
  ELSE (100 * Len(SelectSeq(lines, LAMBDA x : x.op = "int" /\ ~x.guarded)))
         \div Len(lines)

(* select_render_lines: a short kernel that fits, else its main loop.      *)
RenderLines(k) ==
  IF /\ Len(k.kernel) <= ShortKernel
     /\ TokenCount(k.kernel) <= TokenBudget - 1
  THEN k.kernel
  ELSE FirstLines(IF k.loop # <<>> THEN k.loop ELSE k.kernel, TokenBudget - 1)

(* render_launch_fragment                                                  *)
Fragment(kernel) ==
  LET k == NormalizedKernel(kernel)
      chosen == RenderLines(k)
      lines == Append(chosen, Boundary)
  IN  IF chosen = <<>> THEN NoText
      ELSE [lines |-> lines, cost |-> TokenCount(lines),
            ratio |-> IntegerRatio(chosen), shown |-> Len(chosen)]

(* render_workload_sass_fragments: launches of no known kernel are left    *)
(* out.                                                                    *)
Fragments(launches, kernels) ==
  LET of(l) == IF l \in DOMAIN kernels /\ Fragment(kernels[l]) # NoText
               THEN <<Fragment(kernels[l])>> ELSE <<>>
  IN  FlattenSeq([i \in DOMAIN launches |-> of(launches[i])])

AllLines(shown) == FlattenSeq([i \in DOMAIN shown |-> shown[i].lines])

(* Faulty: the newest launches of a window are cut.                        *)
ClipBack(lines) == FirstLines(lines, TokenBudget)

ClipFront(lines) ==
  IF TokenCount(lines) > TokenBudget THEN LastLines(lines, TokenBudget)
  ELSE lines

(* render_workload_sass of a window, clipped from the front.               *)
WindowText(launches, kernels) ==
  LET shown == Fragments(launches, kernels)
  IN  IF shown = <<>> THEN NoText ELSE ClipFront(AllLines(shown))

BelowGate(ratios) == \A i \in DOMAIN ratios : ratios[i] < GateRatio

(* prepare_l0_launches with the gate on: each kernel is measured once, and *)
(* nothing is scheduled if none passes.                                    *)
PreparedLaunches(launches, kernels) ==
  LET shown == Fragments(launches, kernels)
  IN  IF BelowGate([i \in DOMAIN shown |-> shown[i].ratio]) THEN <<>>
      ELSE [i \in DOMAIN shown |-> [cost |-> shown[i].cost,
                                    ratio |-> shown[i].ratio]]

-----------------------------------------------------------------------------
(* What the scheduler and the classifier are given fits: every prepared    *)
(* launch costs at least one and at most a window's tokens; the text of    *)
(* any window fits too, and however it was clipped it still shows the last *)
(* launch in full and as much before it as there is room for; and a        *)
(* capture is skipped by the gate only if no window of it could pass       *)
(* (render_launch_fragment, render_workload_sass, prepare_l0_launches).    *)
TextFits(text, ready, shown) ==
  LET all == AllLines(shown)
      left == Len(all) - Len(text)
  IN  /\ \A i \in DOMAIN ready : ready[i].cost \in 2..TokenBudget
      /\ ready = <<>> => \A i \in DOMAIN shown : shown[i].ratio < GateRatio
      /\ text = NoText <=> shown = <<>>
      /\ text # NoText =>
           /\ TokenCount(text) <= TokenBudget
           /\ IsSuffix(text, all)
           /\ IsSuffix(Last(shown).lines, text)
           /\ left > 0 => TokenCount(text) + all[left].cost > TokenBudget

RenderedTextFits(launches, kernels) ==
  TextFits(WindowText(launches, kernels), PreparedLaunches(launches, kernels),
           Fragments(launches, kernels))
=============================================================================
