------------------------------ MODULE Classifier ------------------------------
(***************************************************************************)
(* From a text's tokens to a verdict, twice: in the online processor       *)
(* (L1Classifier.predict, _aggregate) and in the training and evaluation   *)
(* package (train/modernbert/data.py, metrics.py).                         *)
(*                                                                         *)
(* A text is its number of tokens; a chunk is the range <<first, last>> of *)
(* tokens it holds.  The model's answer to a chunk is a function from      *)
(* label ids to probabilities in percent.                                  *)
(***************************************************************************)
EXTENDS Integers, Sequences, FiniteSets, SequencesExt

CONSTANTS
  LabelIds,       \* 0..n-1
  MiningId,       \* label id of "mining" or "mining_like"
  BenignId,       \* label id of "benign", else the first that is not mining
  TopK,           \* top_k, DEFAULT_SUSPICIOUS_TOP_K
  MaxThreshold,   \* max_p_mining_threshold, DEFAULT_SUSPICIOUS_MAX_THRESHOLD
  TopKThreshold,  \* topk_mean_p_mining_threshold
  MeanThreshold,  \* mean_mining_probability_threshold
  Error

ASSUME LabelsAssumption ==
  /\ LabelIds \subseteq Nat /\ IsFiniteSet(LabelIds)
  /\ MiningId \in LabelIds /\ BenignId \in LabelIds \ {MiningId}
  /\ TopK \in Int
  /\ {MaxThreshold, TopKThreshold, MeanThreshold} \subseteq Nat \ {0}

-----------------------------------------------------------------------------
(* _chunk_count                                                            *)
ChunkCountFloor(n, window, stride) ==   \* faulty: the last rest is forgotten
  IF n <= window THEN 1 ELSE ((n - window) \div (window - stride)) + 1
ChunkCount(n, window, stride) ==
  IF n <= window THEN 1 ELSE ((n - window - 1) \div (window - stride)) + 2

(* chunk_token_ids, and _chunk_token_ids_limited up to the limit: chunks   *)
(* start a step apart until one reaches the end.                           *)
Chunks(n, window, stride) ==
  LET from(k) == (k - 1) * (window - stride) + 1
      last == CHOOSE k \in 1..(n + 1) :
                /\ from(k) + window - 1 >= n
                /\ \A j \in 1..(k - 1) : from(j) + window - 1 < n
      to(k) == IF k = last THEN n ELSE from(k) + window - 1
  IN  [k \in 1..last |-> <<from(k), to(k)>>]

ChunksLimited(n, window, stride, limit) ==
  LET all == Chunks(n, window, stride)
  IN  SubSeq(all, 1, IF limit < Len(all) THEN limit ELSE Len(all))

(* predict: with a limit of one chunk a longer text is refused.            *)
OnlineChunks(n, window, stride, limit) ==
  IF limit = 1 /\ ChunkCount(n, window, stride) > 1 THEN Error
  ELSE ChunksLimited(n, window, stride, limit)

-----------------------------------------------------------------------------
Sum(values) ==
  LET sum[i \in 0..Len(values)] ==
        IF i = 0 THEN 0 ELSE sum[i - 1] + values[i]
  IN  sum[Len(values)]
Column(rows, id) == [i \in DOMAIN rows |-> rows[i][id]]
Sums(rows) == [id \in LabelIds |-> Sum(Column(rows, id))]

(* max over the label ids: the first of the greatest.                      *)
Likeliest(sums, ids) ==
  CHOOSE id \in ids : \A j \in ids : \/ sums[j] < sums[id]
                                     \/ sums[j] = sums[id] /\ id <= j

Descending(values) == SortSeq(values, >)
Top(values, k) == SubSeq(Descending(values), 1, k)
AtLeastOne(n) == IF n < 1 THEN 1 ELSE n
TopRows(k, rows) ==
  IF AtLeastOne(k) < Len(rows) THEN AtLeastOne(k) ELSE Len(rows)

(* _aggregate: the online verdict on a text.                               *)
Aggregate(rows) ==
  LET pred   == Likeliest(Sums(rows), LabelIds)
      values == Column(rows, MiningId)
      k      == TopRows(TopK, rows)
  IN  IF rows = <<>> THEN Error
      ELSE [pred |-> pred,
            suspicious |-> \/ pred = MiningId
                           \/ Descending(values)[1] >= MaxThreshold
                           \/ Sum(Top(values, k)) >= k * TopKThreshold]

-----------------------------------------------------------------------------
(* aggregate_chunk_probabilities: a text's prediction, and for each label  *)
(* the maximum and the sum of its top k; means are kept as sums.           *)
Pooled(rows) ==
  LET k == TopRows(TopK, rows)
  IN  [chunks |-> Len(rows), sums |-> Sums(rows),
       pred |-> Likeliest(Sums(rows), LabelIds),
       best |-> [id \in LabelIds |-> Descending(Column(rows, id))[1]],
       top |-> [id \in LabelIds |-> Sum(Top(Column(rows, id), k))]]

(* add_no_l0_window_predictions: a capture without a window is benign.     *)
NoWindowPrediction ==
  [chunks |-> 0, sums |-> [id \in LabelIds |-> IF id = BenignId THEN 100 ELSE 0],
   pred |-> BenignId,
   best |-> [id \in LabelIds |-> IF id = BenignId THEN 100 ELSE 0],
   top |-> [id \in LabelIds |-> IF id = BenignId THEN 100 ELSE 0]]

(* suspicious_prediction_fields                                            *)
Suspicious(p) ==
  \/ p.pred = MiningId
  \/ p.best[MiningId] >= MaxThreshold
  \/ p.top[MiningId] >= TopKThreshold *
       (IF AtLeastOne(TopK) < AtLeastOne(p.chunks) THEN AtLeastOne(TopK)
        ELSE AtLeastOne(p.chunks))

Prediction(rows) == IF rows = <<>> THEN NoWindowPrediction ELSE Pooled(rows)

(* aggregate_group_predictions of one capture: texts is the probabilities  *)
(* of its windows, one of them <<>> if it stands for no window.  The means *)
(* of the windows are multiples of 1 / Scale.                              *)
Scale == 6
MeanSums(texts) ==
  [id \in LabelIds |->
     Sum([i \in DOMAIN texts |->
            (Scale * Prediction(texts[i]).sums[id])
              \div AtLeastOne(Prediction(texts[i]).chunks)])]

GroupPrediction(texts, policy) ==
  LET means == MeanSums(texts)
      suspicious ==
        IF policy = "mean_mining_probability"
        THEN means[MiningId] >= MeanThreshold * Scale * Len(texts)
        ELSE \E i \in DOMAIN texts : Suspicious(Prediction(texts[i]))
  IN  [suspicious |-> suspicious,
       pred |-> IF suspicious THEN MiningId
                ELSE Likeliest(means, LabelIds \ {MiningId})]

-----------------------------------------------------------------------------
(* The classifier is trained and run on the same pieces of a text: the     *)
(* count the processor computes is the number of chunks training makes,    *)
(* which cover the text without a gap, overlap by the stride, fit the      *)
(* window, and each show something new; and a text that is not refused is  *)
(* shown in full unless the limit says otherwise (_chunk_count,            *)
(* _chunk_token_ids_limited, chunk_token_ids).                             *)
ChunksAgree(n, window, stride) ==
  LET chunks == Chunks(n, window, stride)
  IN  /\ ChunkCount(n, window, stride) = Len(chunks)
      /\ chunks[1][1] = 1 /\ Last(chunks)[2] = n
      /\ \A k \in DOMAIN chunks : chunks[k][2] - chunks[k][1] < window
      /\ \A k \in 2..Len(chunks) :
           /\ chunks[k - 1][2] - chunks[k][1] + 1 = stride
           /\ chunks[k][2] > chunks[k - 1][2]
      /\ LET one == OnlineChunks(n, window, stride, 1)
         IN  one # Error => one = <<<<1, n>>>>

(* The evaluation judges as the processor does: with the default           *)
(* thresholds a text is suspicious offline exactly if it is online, with   *)
(* the same label; a capture is flagged if some window of it would be, and *)
(* one without windows never is (_aggregate, suspicious_prediction_fields, *)
(* aggregate_group_predictions).                                           *)
VerdictsAgree(texts) ==
  LET judged == {i \in DOMAIN texts : texts[i] # <<>>}
      flagged == {i \in judged : Aggregate(texts[i]).suspicious}
      any == GroupPrediction(texts, "any_window_suspicious")
      mean == GroupPrediction(texts, "mean_mining_probability")
  IN  /\ \A i \in judged :
           /\ Suspicious(Prediction(texts[i])) <=> i \in flagged
           /\ Prediction(texts[i]).pred = Aggregate(texts[i]).pred
      /\ any.suspicious <=> flagged # {}
      /\ any.suspicious <=> any.pred = MiningId
      /\ (judged = {}) => ~mean.suspicious
=============================================================================
