---------------------------- MODULE RollingPolicy ----------------------------
(***************************************************************************)
(* The rolling_mean_and_max verdict policy of the online processor: the    *)
(* mining probabilities of the last RollingCount windows are suspicious    *)
(* when their mean and their maximum both reach a threshold.  Scores are   *)
(* percentages, so that the mean is compared without division.             *)
(***************************************************************************)
EXTENDS Integers, Sequences, Functions

CONSTANTS
  RollingCount,   \* verdict.rolling_window_count
  MeanThreshold,  \* verdict.rolling_mean_mining_probability_threshold
  MaxThreshold    \* verdict.rolling_max_mining_probability_threshold

ASSUME PolicyAssumption ==
  RollingCount \in Nat \ {0} /\ MeanThreshold \in Nat /\ MaxThreshold \in Nat

(* The last RollingCount elements of a sequence.                           *)
LastScores(q) ==
  IF Len(q) > RollingCount
  THEN SubSeq(q, Len(q) - RollingCount + 1, Len(q))
  ELSE q

(* The list after one more window; the oldest scores are deleted.          *)
RememberAll(q, x) == Append(q, x)   \* faulty: never trims
Remember(q, x) == LastScores(Append(q, x))

(* rolling_mean_and_max_decision, both thresholds inclusive.               *)
Suspicious(q) ==
  /\ q # <<>>
  /\ SumFunction(q) >= MeanThreshold * Len(q)
  /\ \E k \in DOMAIN q : q[k] >= MaxThreshold

ScoresOf(verdicts) == [k \in DOMAIN verdicts |-> verdicts[k].score]
=============================================================================
