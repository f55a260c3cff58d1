------------------------------- MODULE MainLoop -------------------------------
(***************************************************************************)
(* The control-flow graph of a kernel (analysis/sassguard_analysis/cfg.py) *)
(* and the part of the kernel that is rendered when the whole does not fit *)
(* (loop_extract.py): its heaviest loop, or a compute-heavy region.        *)
(*                                                                         *)
(* A line is [label |-> l] or an instruction [op, target, guarded].  Its   *)
(* opcode stands for its class: "int" IADD.., "logic" LOP3, "shift",       *)
(* "setp", "mem", "bra" BRA/JMP, "exit" EXIT/RET, "call", "nop", "other".  *)
(* Instructions count from 1, blocks, loops and regions are ranges         *)
(* <<first, last>> of them.  Scores are doubled to stay whole numbers.     *)
(***************************************************************************)
EXTENDS Integers, Sequences, FiniteSets, SequencesExt

CONSTANTS
  SmallKernel,  \* SMALL_KERNEL_THRESHOLD
  MinRegion,    \* MIN_REGION_INSTRUCTIONS
  TargetRegion, \* TARGET_REGION_INSTRUCTIONS
  MaxRegion,    \* MAX_REGION_INSTRUCTIONS
  NoTarget

ASSUME RegionAssumption ==
  /\ {SmallKernel, MinRegion, TargetRegion, MaxRegion} \subseteq Nat \ {0}
  /\ MinRegion <= TargetRegion /\ TargetRegion <= MaxRegion

UsefulOps == {"int", "logic", "shift", "setp", "mem"}
EndOps == {"bra", "exit", "call"}
NoiseOps == EndOps \cup {"nop"}
SassLine ==
  [label : STRING] \cup
  [op : UsefulOps \cup NoiseOps \cup {"other"}, target : STRING \cup {NoTarget},
   guarded : BOOLEAN]

-----------------------------------------------------------------------------
(* parse_kernel_lines: a label names the next instruction; one that comes  *)
(* twice names the last, one at the end names nothing.                     *)
IsLabel(line) == "label" \in DOMAIN line
Parse(lines) ==
  FlattenSeq([i \in DOMAIN lines |->
                IF IsLabel(lines[i]) THEN <<>> ELSE <<lines[i]>>])
Labels(lines) ==
  LET next(i) == 1 + Cardinality({j \in 1..i : ~IsLabel(lines[j])})
      at(l) == {i \in DOMAIN lines : /\ IsLabel(lines[i]) /\ lines[i].label = l
                                     /\ next(i) <= Len(Parse(lines))}
      all == {lines[i].label : i \in {j \in DOMAIN lines : IsLabel(lines[j])}}
  IN  [l \in {k \in all : at(k) # {}} |->
         next(CHOOSE i \in at(l) : \A j \in at(l) : j <= i)]

(* build_cfg                                                               *)
Leaders(code, at) ==
  {i \in DOMAIN code : \/ i = 1
                       \/ \E l \in DOMAIN at : at[l] = i
                       \/ i > 1 /\ code[i - 1].op \in EndOps}

Blocks(code, at) ==
  {b \in Leaders(code, at) \X DOMAIN code :
     /\ b[1] <= b[2]
     /\ b[2] = Len(code) \/ b[2] + 1 \in Leaders(code, at)
     /\ \A i \in (b[1] + 1)..b[2] : i \notin Leaders(code, at)}

Edges(code, at) ==
  LET last(b) == code[b[2]]
      jumps(b, c) == last(b).target \in DOMAIN at /\ at[last(b).target] = c[1]
  IN  {e \in Blocks(code, at) \X Blocks(code, at)
            \X {"branch", "call", "fallthrough"} :
         \/ e[3] = "branch" /\ last(e[1]).op = "bra" /\ jumps(e[1], e[2])
         \/ e[3] = "call" /\ last(e[1]).op = "call" /\ jumps(e[1], e[2])
         \/ /\ e[3] = "fallthrough" /\ e[2][1] = e[1][2] + 1
            /\ last(e[1]).op # "exit"
            /\ last(e[1]).op = "bra" => last(e[1]).guarded}

-----------------------------------------------------------------------------
Count(code, r, ops) == Cardinality({i \in r[1]..r[2] : code[i].op \in ops})
Size(r) == r[2] - r[1] + 1

ScoreLoop(code, r, backedges, depth) ==
  2 * Size(r) + 4 * Count(code, r, {"int"}) + 8 * Count(code, r, {"logic"})
    + 3 * Count(code, r, {"shift", "setp"}) + 2 * Count(code, r, {"mem"})
    + 4 * backedges + 2 * depth

ScoreRegion(code, r) ==
  ScoreLoop(code, r, 0, 0) - 11 * Count(code, r, NoiseOps)
                           - 4 * Count(code, r, EndOps)

(* Every instruction that names an earlier label closes a loop, whatever   *)
(* its opcode.                                                             *)
BackJumps(code, at) ==
  {i \in DOMAIN code : code[i].target \in DOMAIN at /\ at[code[i].target] < i}
LoopAt(code, at, i) == <<at[code[i].target], i>>

(* _apply_nesting_depth: loops around a loop, equal ranges included.       *)
Depth(code, at, i) ==
  Cardinality({j \in BackJumps(code, at) \ {i} :
                 i <= j /\ at[code[j].target] <= at[code[i].target]})

(* The highest score, the longest, then the first.                         *)
BetterLoop(code, at, j, i) ==
  LET score(k) == ScoreLoop(code, LoopAt(code, at, k), 1, Depth(code, at, k))
      size(k) == Size(LoopAt(code, at, k))
  IN  \/ score(j) > score(i)
      \/ score(j) = score(i) /\ size(j) > size(i)
      \/ score(j) = score(i) /\ size(j) = size(i) /\ j < i

MainLoop(code, at) ==
  LoopAt(code, at, CHOOSE i \in BackJumps(code, at) :
                     \A j \in BackJumps(code, at) : ~BetterLoop(code, at, j, i))

-----------------------------------------------------------------------------
(* Without a loop.  source_order_blocks: blocks, the oversized ones cut.   *)
Cut(block) ==
  LET to(i) == IF i + TargetRegion - 1 < block[2] THEN i + TargetRegion - 1
               ELSE block[2]
      froms == {i \in block[1]..block[2] : (i - block[1]) % TargetRegion = 0}
  IN  IF Size(block) <= MaxRegion THEN {block} ELSE {<<i, to(i)>> : i \in froms}

SourceBlocks(code, at) == UNION {Cut(b) : b \in Blocks(code, at)}

TrivialBlock(code, r) == \A i \in r[1]..r[2] : code[i].op \in NoiseOps

(* trim_trailing_noise                                                     *)
TrimNoise(code, r) ==
  LET kept == {i \in r[1]..r[2] : code[i].op \notin NoiseOps}
  IN  <<r[1], IF kept = {} THEN r[1] - 1
              ELSE CHOOSE i \in kept : \A j \in kept : j <= i>>

NontrivialRegion(code, r) ==
  LET useful == Count(code, r, UsefulOps)
  IN  Size(r) > 0 /\ useful >= 2 /\ 5 * useful >= Size(r)

(* Faulty: the bound is looked at before the block is added.               *)
GrowsLate(code, blocks, p, q) ==
  /\ p[1] <= q[1]
  /\ \A b \in blocks : p[1] <= b[1] /\ b[1] <= q[1] => ~TrivialBlock(code, b)
  /\ p # q => q[1] - p[1] <= MaxRegion

(* A region grows from block p to q until a trivial one or the bound.      *)
Grows(code, blocks, p, q) ==
  /\ p[1] <= q[1]
  /\ \A b \in blocks : p[1] <= b[1] /\ b[1] <= q[1] => ~TrivialBlock(code, b)
  /\ p # q => Size(<<p[1], q[2]>>) <= MaxRegion

RegionCandidates(code, at) ==
  LET blocks == SourceBlocks(code, at)
      grown == {e \in blocks \X blocks : Grows(code, blocks, e[1], e[2])}
  IN  {r \in {TrimNoise(code, <<e[1][1], e[2][2]>>) : e \in grown} :
         NontrivialRegion(code, r)}

(* select_best_region: score, density (at equal score), distance to the    *)
(* target size, size, then the earliest.                                   *)
AtMost(limit, code) == IF limit < Len(code) THEN limit ELSE Len(code)
BetterRegion(code, q, r) ==
  LET s(x) == ScoreRegion(code, x)
      thin(x) == s(x) * Size(x)
      d(x) == Size(x) - AtMost(TargetRegion, code)
      off(x) == IF d(x) < 0 THEN -d(x) ELSE d(x)
  IN  \/ s(q) > s(r)
      \/ /\ s(q) = s(r)
         /\ \/ thin(q) < thin(r)
            \/ /\ thin(q) = thin(r)
               /\ \/ off(q) < off(r)
                  \/ off(q) = off(r) /\ Size(q) > Size(r)
                  \/ off(q) = off(r) /\ Size(q) = Size(r) /\ q[1] < r[1]

BestRegion(code, candidates) ==
  LET long == {r \in candidates : Size(r) >= AtMost(MinRegion, code)}
      pool == IF long # {} THEN long ELSE candidates
  IN  CHOOSE r \in pool : \A q \in pool : ~BetterRegion(code, q, r)

Whole(code) == <<1, Len(code)>>

(* extract_main_loop: the range of instructions of main_loop.sass.         *)
ExtractMainLoop(lines) ==
  LET code == Parse(lines)
      at == Labels(lines)
      regions == RegionCandidates(code, at)
  IN  IF BackJumps(code, at) # {}
      THEN [kind |-> "loop", range |-> MainLoop(code, at)]
      ELSE IF Len(code) <= SmallKernel
      THEN [kind |-> "full_kernel_small", range |-> Whole(code)]
      ELSE IF regions # {}
      THEN [kind |-> "compute_region", range |-> BestRegion(code, regions)]
      ELSE [kind |-> "full_kernel", range |-> Whole(code)]

-----------------------------------------------------------------------------
(* Only branches and calls name an earlier label.                          *)
OnlyJumpsGoBack(lines) ==
  \A i \in BackJumps(Parse(lines), Labels(lines)) :
    Parse(lines)[i].op \in {"bra", "call"}

(* What is extracted agrees with the control-flow graph the same kernel is *)
(* given: a loop enters at the first instruction of a block and ends with  *)
(* the last of a block, from which the graph has an edge back to its       *)
(* entry; a region starts at a block, keeps to the bound, ends with        *)
(* neither a jump nor padding, and no region is preferred to a loop        *)
(* (build_cfg, extract_main_loop, compute_region_candidates).              *)
MainLoopFollowsGraph(lines, found) ==
  LET code == Parse(lines)
      at == Labels(lines)
      blocks == Blocks(code, at)
      r == found.range
      back == {e \in Edges(code, at) : e[3] # "fallthrough" /\ e[2][1] < e[1][2]}
  IN  /\ found.kind = "loop" <=> back # {}
      /\ found.kind = "loop" =>
           \E e \in back : e[1][2] = r[2] /\ e[2][1] = r[1]
      /\ found.kind = "compute_region" =>
           /\ Size(r) <= MaxRegion /\ code[r[2]].op \notin NoiseOps
           /\ \E i \in r[1]..r[2] : code[i].op \in UsefulOps
           /\ \E b \in blocks : \/ b[1] = r[1]
                                 \/ /\ b[1] < r[1] /\ r[1] <= b[2]
                                    /\ Size(b) > MaxRegion
=============================================================================
