----------------------------- MODULE SampleWindows -----------------------------
(***************************************************************************)
(* The features of the metric-based baselines: device and process samples  *)
(* of a run, grouped and cut into sliding windows                          *)
(* (baselines/gpu_metrics_collector/windowize.py).                         *)
(*                                                                         *)
(* A sample is [time, gpu, pid]: a whole number or NoTime, a device, and a *)
(* process or NoPid (device samples, and process samples without one).     *)
(* The statistics of a row are functions of the samples it is made from,   *)
(* so a row carries these.                                                 *)
(***************************************************************************)
EXTENDS Integers, Sequences, FiniteSets, SequencesExt

CONSTANTS
  WindowSec, StepSec, IntervalSec,   \* window_sec, step_sec, sampling_interval_s
  MinRatio,                          \* min_valid_sample_ratio, in percent
  NoTime, NoPid

ASSUME WindowAssumption ==
  /\ {WindowSec, StepSec, IntervalSec} \subseteq Nat \ {0}
  /\ MinRatio \in 1..100 /\ NoTime \notin Int

(* The samples with a timestamp, in order of time.                         *)
Timed(samples) ==
  SortSeq(SelectSeq(samples, LAMBDA x : x.time # NoTime),
          LAMBDA x, y : x.time < y.time)

(* enough_samples                                                          *)
EnoughForAll(n, duration) ==
  n >= 2 \/ (duration < IntervalSec /\ n >= 1)
Enough(n) ==
  LET whole == WindowSec \div IntervalSec
      expected == IF whole < 1 THEN 1 ELSE whole
  IN  100 * n >= expected * MinRatio

(* iter_windows.  A run no longer than a window is one window.             *)
StartsBefore(first, last) ==   \* faulty: the last full window is forgotten
  [k \in 1..((last - WindowSec - first) \div StepSec) |->
     first + (k - 1) * StepSec]
Starts(first, last) ==
  [k \in 1..((last - WindowSec - first) \div StepSec + 1) |->
     first + (k - 1) * StepSec]

IterWindows(samples) ==
  LET timed == Timed(samples)
      first == timed[1].time
      last  == timed[Len(timed)].time
      within(s) == SelectSeq(timed, LAMBDA x : s <= x.time
                                               /\ x.time <= s + WindowSec)
      starts == SelectSeq(Starts(first, last),
                          LAMBDA s : Enough(Len(within(s))))
  IN  IF timed = <<>> THEN <<>>
      ELSE IF last - first <= WindowSec
      THEN IF EnoughForAll(Len(timed), last - first) THEN <<timed>> ELSE <<>>
      ELSE [k \in DOMAIN starts |-> within(starts[k])]

-----------------------------------------------------------------------------
DeviceKey(x) == <<x.gpu>>
ProcessKey(x) == <<x.gpu, x.pid>>
Group(samples, Key(_), k) == SelectSeq(samples, LAMBDA x : Key(x) = k)
Keys(samples, Key(_)) == {Key(samples[i]) : i \in DOMAIN samples}

(* The rows of each group, numbered from 0.                                *)
WindowRows(samples, Key(_)) ==
  UNION {LET w == IterWindows(Group(samples, Key, k))
         IN  {[key |-> k, index |-> i - 1, samples |-> w[i]] :
                i \in DOMAIN w} : k \in Keys(samples, Key)}

WithPid(process) == SelectSeq(process, LAMBDA x : x.pid # NoPid)

PottPoints(device) ==
  UNION {LET timed == Timed(Group(device, DeviceKey, k))
         IN  {[key |-> k, index |-> i - 1, sample |-> timed[i]] :
                i \in DOMAIN timed} : k \in Keys(device, DeviceKey)}
PottWindows(device) == WindowRows(device, DeviceKey)
TananaWindows(process) == WindowRows(WithPid(process), ProcessKey)

(* hybrid_windows: the device samples of a process window's time.          *)
DeviceSamplesOf(window, device) ==
  LET timed == Timed(device)
      times == {window.samples[i].time : i \in DOMAIN window.samples}
  IN  SelectSeq(timed, LAMBDA x :
        /\ x.gpu = window.key[1]
        /\ \E s, e \in times : s <= x.time /\ x.time <= e)
HybridWindows(process, device) ==
  {[key |-> w.key, index |-> w.index, samples |-> w.samples,
    devices |-> DeviceSamplesOf(w, device)] : w \in TananaWindows(process)}

(* build_features of one run that was not skipped.                         *)
BuildFeatures(process, device) ==
  [points |-> PottPoints(device), pott |-> PottWindows(device),
   tanana |-> TananaWindows(process),
   hybrid |-> IF process = <<>> \/ device = <<>> THEN {}
              ELSE HybridWindows(process, device)]

-----------------------------------------------------------------------------
(* Windows are runs of one group's samples: all of the group between the   *)
(* first and the last of them, spread over at most a window's length.      *)
(* A group sampled without a gap loses less than a step, at its end.  And  *)
(* a hybrid row is the row Tanana's baseline has of the same process at    *)
(* the same index, so that the feature files can be compared row by row    *)
(* (iter_windows, pott_windows, tanana_windows, hybrid_windows).           *)
RunsOfSamples(rows, samples, Key(_)) ==
  \A row \in rows :
    LET group == Timed(Group(samples, Key, row.key))
        from == row.samples[1].time
        to == Last(row.samples).time
    IN  /\ row.samples = SelectSeq(group, LAMBDA x : from <= x.time
                                                    /\ x.time <= to)
        /\ to - from <= WindowSec

TailOnlyLost(rows, samples, Key(_)) ==
  \A k \in Keys(samples, Key) :
    LET group == Timed(Group(samples, Key, k))
        gapless == \A i \in 2..Len(group) :
                     group[i].time - group[i - 1].time <= IntervalSec
    IN  Len(group) >= 2 /\ gapless =>
          \A i \in DOMAIN group :
            group[i].time + StepSec <= Last(group).time =>
              \E row \in rows : row.key = k
                                /\ \E j \in DOMAIN row.samples :
                                     row.samples[j] = group[i]

WindowsFollowSamples(process, device, out) ==
  /\ RunsOfSamples(out.pott, device, DeviceKey)
  /\ RunsOfSamples(out.tanana, WithPid(process), ProcessKey)
  /\ TailOnlyLost(out.pott, device, DeviceKey)
  /\ TailOnlyLost(out.tanana, WithPid(process), ProcessKey)
  /\ out.hybrid # {} =>
       {[key |-> h.key, index |-> h.index, samples |-> h.samples] :
          h \in out.hybrid} = out.tanana
  /\ \A h \in out.hybrid : \A i \in DOMAIN h.devices :
       [key |-> <<h.devices[i].gpu>>, time |-> h.devices[i].time] \in
         {[key |-> p.key, time |-> p.sample.time] : p \in out.points}
=============================================================================
