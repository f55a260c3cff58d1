-------------------------------- MODULE MCParts --------------------------------
(***************************************************************************)
(* SeparateParts, for TLC: the inputs of bounded size.                     *)
(***************************************************************************)
EXTENDS SeparateParts, TLC

CONSTANTS f, g, h, x    \* names of kernels

-----------------------------------------------------------------------------
(* A kernel below the gate, one at it, and the latter loaded again as code *)
(* with another cost and below the gate.                                   *)
MixedLaunches ==
  {[kernel |-> 1, cost |-> 1, ratio |-> 60],
   [kernel |-> 2, cost |-> 2, ratio |-> 65],
   [kernel |-> 2, cost |-> 3, ratio |-> 0]}
StreamSymmetry == Permutations(Groups)

(* Up to five lines with two labels, for loops, calls and plain code.      *)
Instruction(op, target, guarded) ==
  [op |-> op, target |-> target, guarded |-> guarded]
SassLines ==
  {[label |-> "a"], [label |-> "b"],
   Instruction("int", NoTarget, FALSE), Instruction("other", NoTarget, FALSE),
   Instruction("bra", "a", TRUE), Instruction("bra", "b", FALSE),
   Instruction("call", "a", FALSE), Instruction("exit", NoTarget, FALSE)}
ShortListings == UNION {[1..n -> SassLines] : n \in 0..5}

(* Kernels of short and long lines with and without a main loop, two of    *)
(* them known, and a launch of a third, which is not.                      *)
TextLine(tokens, op, guarded) == [cost |-> tokens, op |-> op, guarded |-> guarded]
Add == TextLine(1, "int", FALSE)
LongAdd == TextLine(3, "int", FALSE)
GuardedMove == TextLine(2, "other", TRUE)
Label == TextLine(1, "label", FALSE)
KernelTexts ==
  {<<>>, <<Add>>, <<Label, GuardedMove>>, <<LongAdd, LongAdd>>,
   <<GuardedMove, Add, LongAdd>>, <<Label, LongAdd, GuardedMove>>}
KernelListings ==
  [kernel : KernelTexts, loop : {<<>>, <<LongAdd, GuardedMove, Add>>}]
TwoKernels == [{1, 2} -> KernelListings]
ShortLaunchLists == UNION {[1..n -> 1..3] : n \in 0..3}

(* Answers of the model to a chunk, in percent of the three labels; the    *)
(* texts of a capture have up to three chunks, or stand for no window.     *)
Probabilities ==
  {[id \in LabelIds |-> IF id = BenignId THEN b
                       ELSE IF id = MiningId THEN m ELSE 100 - b - m] :
     <<b, m>> \in {<<100, 0>>, <<40, 60>>, <<10, 90>>, <<45, 15>>}}
ChunkRows == UNION {[1..n -> Probabilities] : n \in 0..3}
ShortCaptures == UNION {[1..n -> ChunkRows] : n \in 1..2}

(* Samples at some of the seconds 0..7, out of order; of one process, or   *)
(* of one and of none, and one sample without a time; and of two devices,  *)
(* of which the first was sampled without a gap, or not.                   *)
Sample(time, gpu, process) == [time |-> time, gpu |-> gpu, pid |-> process]
ProcessSamples(times, q) ==
  LET s == SelectSeq(<<7, 5, 6, 4, 3, 0, 2, 1>>, LAMBDA t : t \in times)
      odd(i) == q = NoPid /\ i % 3 = 0
  IN  [i \in DOMAIN s |-> Sample(IF odd(i) /\ i = 3 THEN NoTime ELSE s[i], 1,
                                 IF odd(i) THEN 2 ELSE q)]
DeviceSamples(times) ==
  LET s == SelectSeq(<<9, 7, 5, 6, 4, 3, 0, 2, 1>>, LAMBDA t : t \in times)
  IN  [i \in DOMAIN s |-> Sample(s[i], IF s[i] < 7 THEN 1 ELSE 2, NoPid)]

SmallRuns ==
  {[process |-> ProcessSamples(times, q), device |-> DeviceSamples(all)] :
     times \in SUBSET (0..7), q \in {1, NoPid}, all \in {{}, 0..7, {2, 4, 9}}}

(* Captures of a mining and a benign program in two optimizations each,    *)
(* and of two more mining programs; the number of windows each gives.      *)
Captured(w, stem, label, opt) ==
  [workload |-> w, stem |-> stem, capture |-> w, label |-> label, opt |-> opt]
SomeCaptures ==
  LET pair(stem, label) == <<Captured(stem \o "_o2", stem, label, "O2"),
                             Captured(stem \o "_o3", stem, label, "O3")>>
      more == <<Captured("k_o2", "k", "mining", "O2"),
                Captured("l_o2", "l", "mining", "O2")>>
  IN  {pair("m", "mining"), pair("b", "benign") \o pair("m", "mining"),
       pair("b", "benign") \o more \o pair("m", "mining")}
UnevenCounts == {<<1, 1, 1, 1, 1, 1>>, <<2, 0, 1, 2, 1, 2>>}
UnevenRatios ==
  {[train |-> 70, val |-> 15, test |-> 15], [train |-> 34, val |-> 33, test |-> 33],
   [train |-> 98, val |-> 1, test |-> 1]}

(* f and g differ only in characters that a directory name cannot hold; x  *)
(* is a name no listing has.  Of the code objects launched from, 2 and 4   *)
(* are the same, and 6 is not in the capture.                              *)
DirectoryNames == f :> "f" @@ g :> "f" @@ h :> "h" @@ x :> "x"
SameNames == [n \in {f, g, h, x} |-> n]
PartsOfNames == {<<f, g>>}
FiveCodes ==
  [i \in 1..5 |-> [id |-> i, dump |-> <<"A", "B", "C", "B", "D">>[i]]]
Listing(names) == [i \in DOMAIN names |-> [name |-> names[i], size |-> i % 3]]
FourDumps ==
  [A |-> [format |-> "cubin", readers |-> {"cuobjdump"}, listing |-> Listing(<<f, g>>)],
   B |-> [format |-> "fatbin", readers |-> {"cuobjdump"}, listing |-> Listing(<<h, f, g>>)],
   C |-> [format |-> "ptx", readers |-> {"cuobjdump"}, listing |-> Listing(<<h>>)],
   D |-> [format |-> "cubin", readers |-> {"nvdisasm"}, listing |-> Listing(<<g, h, h>>)]]
Disassemblers == {{"nvdisasm", "cuobjdump"}, {"cuobjdump"}}
ShortKernelLaunches ==
  LET one == [name : {f, g, h, x}, code : 1..6]
  IN  UNION {[1..n -> one] : n \in 1..3}

(* Captures of one workload: the first two have names of their own, the    *)
(* others' ids begin alike.                                                *)
OneWorkload == [c \in 1..6 |-> "a"]
IdPrefixes == <<"p", "p", "q", "q", "q", "q">>
Outcomes == <<"windows", "broken", "windows", "quiet", "declared", "empty">>
CommandLines ==
  [skip : BOOLEAN, l0 : BOOLEAN, keep : {FALSE}, dry : {FALSE}] \cup
  {[skip |-> FALSE, l0 |-> TRUE, keep |-> TRUE, dry |-> FALSE],
   [skip |-> FALSE, l0 |-> TRUE, keep |-> FALSE, dry |-> TRUE]}
===============================================================================
