-------------------------------- MODULE Splits --------------------------------
(***************************************************************************)
(* Training, validation and test splits of a built dataset                 *)
(* (analysis/sassguard_analysis/splits.py, analysis/split_dataset.py).     *)
(*                                                                         *)
(* A workload directory is its manifest, [workload, stem, parent, capture, *)
(* label, opt], and windows: the rows of windows/manifests.jsonl, or Absent*)
(* for a directory with a workload.sass.  stem is the name without its     *)
(* optimization suffix (group_id_for_workload).  Ratios are in percent.    *)
(***************************************************************************)
EXTENDS Integers, Sequences, FiniteSets, SequencesExt

CONSTANTS
  SplitError,   \* raised
  Absent        \* a missing or empty field; a directory without windows

SplitNames == <<"train", "val", "test">>
SplitSet == {"train", "val", "test"}

ASSUME SplitAssumption ==
  /\ SplitError \notin Seq(SplitSet)
  /\ SplitError \notin [split : Seq(SplitSet), missing : SUBSET (SplitSet \X STRING)]

-----------------------------------------------------------------------------
(* Python's `a or b or ...`.                                               *)
FirstGiven(values) ==
  values[CHOOSE i \in DOMAIN values :
           values[i] # Absent /\ \A j \in 1..(i - 1) : values[j] = Absent]

(* What the dataset build makes of a capture of workload, stem, capture,   *)
(* label and opt: a manifest, and with L0 windows a row for each, or one   *)
(* that stands for none (_materialize_l0_window,                           *)
(* _materialize_no_l0_window_row).                                         *)
NoWindow == 0
BuiltWindow(c, id) ==
  [workload |-> <<c.workload, id>>, parent |-> c.workload,
   group |-> c.workload, label |-> c.label]

BuiltDirectory(c, l0, emitted) ==
  [workload |-> c.workload, stem |-> c.stem, parent |-> Absent,
   capture |-> c.capture, label |-> c.label, opt |-> c.opt,
   windows |-> CASE ~l0 -> Absent
                 [] l0 /\ emitted = 0 -> <<BuiltWindow(c, NoWindow)>>
                 [] OTHER -> [id \in 1..emitted |-> BuiltWindow(c, id)]]

(* load_window_records and record_from_manifest                            *)
WindowRecord(row, m) ==
  [workload |-> row.workload, stem |-> m.stem, label |-> row.label,
   opt |-> m.opt,
   group |-> FirstGiven(<<row.group, row.parent, m.capture, m.workload>>)]

PlainRecord(m) ==
  [workload |-> m.workload, stem |-> m.stem, label |-> m.label, opt |-> m.opt,
   group |-> FirstGiven(<<m.parent, m.capture, m.stem>>)]

(* load_workload_records, over the directories in order of name.           *)
LoadRecords(dirs) ==
  LET of(m) == IF m.windows = Absent THEN <<PlainRecord(m)>>
               ELSE [i \in DOMAIN m.windows |-> WindowRecord(m.windows[i], m)]
  IN  IF dirs = <<>> \/ \E i \in DOMAIN dirs : dirs[i].windows = <<>>
      THEN SplitError ELSE FlattenSeq([i \in DOMAIN dirs |-> of(dirs[i])])

-----------------------------------------------------------------------------
GroupsOf(records) == {records[i].group : i \in DOMAIN records}
InGroup(records, g) == {i \in DOMAIN records : records[i].group = g}
LabelsOf(records, g) == {records[i].label : i \in InGroup(records, g)}
AllLabels(records) == {records[i].label : i \in DOMAIN records}
GroupsOfLabel(records, l) ==
  {g \in GroupsOf(records) : LabelsOf(records, g) = {l}}

ValidRatios(ratios) ==
  /\ ratios["train"] + ratios["val"] + ratios["test"] = 100
  /\ \A s \in SplitSet : ratios[s] > 0

(* split_group_counts: whole shares, the remainder to the largest          *)
(* fractions, and then one group for each empty split, from the largest.   *)
WholeShares(n, ratios) == [s \in SplitSet |-> (n * ratios[s]) \div 100]
Place(s) == CHOOSE i \in 1..3 : SplitNames[i] = s
Ahead(n, ratios, s, t) ==
  LET a == (n * ratios[s]) % 100 IN
  LET b == (n * ratios[t]) % 100
  IN  \/ a > b
      \/ a = b /\ ratios[s] > ratios[t]
      \/ a = b /\ ratios[s] = ratios[t] /\ Place(s) < Place(t)
Shares(n, ratios) ==
  LET whole == WholeShares(n, ratios)
      rest == n - (whole["train"] + whole["val"] + whole["test"])
      rank(s) == Cardinality({t \in SplitSet : Ahead(n, ratios, t, s)})
  IN  [s \in SplitSet |-> whole[s] + (IF rank(s) < rest THEN 1 ELSE 0)]

Donor(counts) ==
  CHOOSE d \in SplitSet : \A t \in SplitSet :
    \/ counts[t] < counts[d]
    \/ counts[t] = counts[d] /\ Place(d) <= Place(t)
GiveOne(counts, s) ==
  IF counts[s] = 0 /\ counts[Donor(counts)] > 1
  THEN [counts EXCEPT ![Donor(counts)] = @ - 1, ![s] = @ + 1] ELSE counts

SplitGroupCounts(n, ratios) ==
  LET first == GiveOne(Shares(n, ratios), "train")
      second == GiveOne(first, "val")
  IN  IF n >= 3 THEN GiveOne(second, "test") ELSE Shares(n, ratios)

(* Faulty: windows are dealt out one by one.                               *)
DealRecords(records, groups, counts) ==
  [i \in DOMAIN records |->
     IF i <= counts["train"] THEN "train"
     ELSE IF i <= counts["train"] + counts["val"] THEN "val" ELSE "test"]

(* What rng.shuffle can make of the groups of each label.                  *)
Shuffles(records) ==
  LET of(l) == SetToSeqs(GroupsOfLabel(records, l))
  IN  {f \in [AllLabels(records) -> UNION {of(l) : l \in AllLabels(records)}] :
         \A l \in AllLabels(records) : f[l] \in of(l)}

(* The groups of a label, shuffled, are dealt out in three runs.           *)
DealGroups(records, groups, counts) ==
  LET at(i) == CHOOSE k \in DOMAIN groups : groups[k] = records[i].group
  IN  [i \in {j \in DOMAIN records : records[j].group \in ToSet(groups)} |->
         IF at(i) <= counts["train"] THEN "train"
         ELSE IF at(i) <= counts["train"] + counts["val"] THEN "val"
         ELSE "test"]

(* make_grouped_stratified_split, for one outcome of the shuffles: the     *)
(* split of each record.                                                   *)
GroupedSplit(records, shuffled, ratios) ==
  LET due(l) == SplitGroupCounts(Len(shuffled[l]), ratios)
      dealt(l) == DealGroups(records, shuffled[l], due(l))
  IN  IF \/ ~ValidRatios(ratios)
         \/ \E g \in GroupsOf(records) : Cardinality(LabelsOf(records, g)) # 1
      THEN SplitError
      ELSE [i \in DOMAIN records |-> dealt(records[i].label)[i]]

AllTest(records) == [i \in DOMAIN records |-> "test"]

(* validate_splits                                                         *)
Valid(records, split) ==
  /\ \A i, j \in DOMAIN records :
       /\ i # j => records[i].workload # records[j].workload
       /\ records[i].group = records[j].group => split[i] = split[j]

MissingLabels(records, split) ==
  {m \in SplitSet \X AllLabels(records) :
     \A i \in DOMAIN records : split[i] = m[1] => records[i].label # m[2]}

(* split_dataset.py's main                                                 *)
MakeSplits(dirs, shuffled, ratios, allTest) ==
  LET records == LoadRecords(dirs)
      split == IF allTest THEN AllTest(records)
               ELSE GroupedSplit(records, shuffled, ratios)
  IN  IF \/ records = SplitError \/ split = SplitError
         \/ ~Valid(records, split)
      THEN SplitError
      ELSE [split |-> split, missing |-> MissingLabels(records, split)]

-----------------------------------------------------------------------------
(* A dataset whose workloads have distinct names and whose groups have one *)
(* label each is always split, and every group stays whole; a label with   *)
(* three groups or more is in every file, whatever the ratios; and a       *)
(* label's groups are shared out within one of their ratio, unless a file  *)
(* had to be given its first (split_group_counts,                          *)
(* make_grouped_stratified_split, validate_splits).                        *)
Sound(records, ratios) ==
  /\ records # SplitError
  /\ Cardinality({records[i].workload : i \in DOMAIN records}) = Len(records)
  /\ \A g \in GroupsOf(records) : Cardinality(LabelsOf(records, g)) = 1
  /\ ValidRatios(ratios)

GroupsIn(records, split, s, l) ==
  {records[i].group : i \in {j \in DOMAIN records : /\ split[j] = s
                                                    /\ records[j].label = l}}

(* size is the number of groups of a label that each split was given of n. *)
SharedOut(size, n, ratios) ==
  LET whole == WholeShares(n, ratios)
  IN  /\ size["train"] + size["val"] + size["test"] = n
      /\ \A s \in SplitSet :
           /\ n >= 3 => size[s] >= 1
           /\ \/ size[s] - whole[s] \in {0, 1}
              \/ \E t \in SplitSet : whole[t] = 0 /\ size[t] = 1

SplitsKeepGroups(dirs, ratios, allTest, made) ==
  LET records == LoadRecords(dirs)
      size(l) == [s \in SplitSet |->
                    Cardinality(GroupsIn(records, made.split, s, l))]
      n(l) == Cardinality(GroupsOfLabel(records, l))
  IN  /\ Sound(records, ratios) => made # SplitError
      /\ made # SplitError => Valid(records, made.split)
      /\ made # SplitError /\ ~allTest =>
           \A l \in AllLabels(records) :
             /\ SharedOut(size(l), n(l), ratios)
             /\ n(l) >= 3 => \A s \in SplitSet : <<s, l>> \notin made.missing

(* analysis/README.md:75: "Classification splits are workload-level and    *)
(* grouped by optimization-pair stem, so _o2 and _o3 variants stay in the  *)
(* same split."                                                            *)
OptimizationPairsTogether(dirs, made) ==
  LET records == LoadRecords(dirs)
  IN  made # SplitError =>
        \A i, j \in DOMAIN records :
          records[i].stem = records[j].stem => made.split[i] = made.split[j]
=============================================================================
