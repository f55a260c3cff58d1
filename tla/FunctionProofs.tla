---------------------------- MODULE FunctionProofs ----------------------------
(***************************************************************************)
(* Proofs about the offline programs that keep no state, for any input:    *)
(* the chunks and the verdicts (Classifier), the rendered texts            *)
(* (SassText), the dataset splits (Splits) and the main loops (MainLoop);  *)
(* and what follows for the behaviours of SeparateParts.                   *)
(***************************************************************************)
EXTENDS OfflineProofs

(***************************************************************************)
(* The chunks of a text.                                                   *)
(***************************************************************************)
LEMMA Division ==
  ASSUME NEW a \in Nat, NEW d \in Nat \ {0}
  PROVE  /\ a \div d \in Nat
         /\ (a \div d) * d <= a /\ a < (a \div d + 1) * d
OBVIOUS

LEMMA Products ==
  ASSUME NEW a \in Nat, NEW b \in Nat, a <= b, NEW d \in Nat
  PROVE  a * d \in Nat /\ b * d \in Nat /\ a * d <= b * d
OBVIOUS

LEMMA Distributes ==
  ASSUME NEW a \in Int, NEW d \in Int
  PROVE (a + 1) * d = a * d + d
OBVIOUS

(* Where the chunks of a text start and how many there are.                *)
Start(k, window, stride) == (k - 1) * (window - stride) + 1

LEMMA StartsAre ==
  ASSUME NEW window \in Nat \ {0}, NEW stride \in 0..(window - 1), NEW k \in Nat \ {0}
  PROVE  /\ Start(1, window, stride) = 1
         /\ Start(k, window, stride) \in Nat \ {0}
         /\ Start(k + 1, window, stride) = Start(k, window, stride) + window - stride
<1> DEFINE d == window - stride
<1>1. d \in Nat \ {0} /\ k - 1 \in Nat  OBVIOUS
<1>2. (k - 1) * d \in Nat  BY <1>1, Products
<1>3. ((k - 1) + 1) * d = (k - 1) * d + d  BY <1>1, Distributes
<1>4. 0 * d = 0  BY <1>1
<1>5. (k + 1) - 1 = (k - 1) + 1 /\ 1 - 1 = 0  OBVIOUS
<1> HIDE DEF d
<1>6. /\ Start(k, window, stride) = (k - 1) * d + 1
      /\ Start(k + 1, window, stride) = ((k + 1) - 1) * d + 1
      /\ Start(1, window, stride) = (1 - 1) * d + 1
  BY DEF Start, d
<1>7. Start(k + 1, window, stride) = ((k - 1) + 1) * d + 1  BY <1>5, <1>6
<1>8. Start(1, window, stride) = 0 * d + 1  BY <1>5, <1>6
<1>9. window - stride = d  BY DEF d
<1> QED  BY <1>1, <1>2, <1>3, <1>4, <1>6, <1>7, <1>8, <1>9

LEMMA LastChunk ==
  ASSUME NEW n \in Nat, NEW window \in Nat \ {0}, NEW stride \in 0..(window - 1)
  PROVE  LET m == ChunkCount(n, window, stride)
         IN  /\ m \in 1..(n + 1)
             /\ Start(m, window, stride) + window - 1 >= n
             /\ \A j \in 1..(m - 1) : Start(j, window, stride) + window - 1 < n
<1> DEFINE d == window - stride
           m == ChunkCount(n, window, stride)
<1> SUFFICES /\ m \in 1..(n + 1)
             /\ Start(m, window, stride) + window - 1 >= n
             /\ \A j \in 1..(m - 1) : Start(j, window, stride) + window - 1 < n
  OBVIOUS
<1>1. d \in Nat \ {0}  OBVIOUS
<1>2. CASE n <= window
  <2>1. m = 1  BY <1>2 DEF ChunkCount
  <2>2. Start(1, window, stride) = 1  BY StartsAre
  <2> HIDE DEF m
  <2> QED  BY <1>2, <2>1, <2>2
<1>3. CASE n > window
  <2> DEFINE a == n - window - 1
             q == a \div d
  <2>1. a \in Nat  BY <1>3
  <2>2. q \in Nat /\ q * d <= a /\ a < (q + 1) * d  BY <1>1, <2>1, Division
  <2>3. m = q + 2  BY <1>3 DEF ChunkCount
  <2>4. n = a + window + 1  OBVIOUS
  <2> HIDE DEF a, q, m, d
  <2>5. q <= a
    <3>1. q * 1 <= q * d
      <4>1. 1 * q <= d * q  BY <1>1, <2>2, Products
      <4> QED  BY <4>1, <1>1, <2>2
    <3> QED  BY <3>1, <2>2, <2>1, <1>1
  <2>6. m \in 1..(n + 1)  BY <2>1, <2>2, <2>3, <2>4, <2>5
  <2>7. Start(m, window, stride) = (q + 1) * d + 1
    <3>1. m - 1 = q + 1  BY <2>2, <2>3
    <3> QED  BY <3>1 DEF Start, d
  <2>8. (q + 1) * d \in Nat  BY <1>1, <2>2, Products
  <2>9. Start(m, window, stride) + window - 1 >= n
    BY <2>1, <2>2, <2>4, <2>7, <2>8
  <2>10. ASSUME NEW j \in 1..(m - 1)
         PROVE  Start(j, window, stride) + window - 1 < n
    <3>1. j - 1 \in Nat /\ j - 1 <= q  BY <2>2, <2>3
    <3>2. (j - 1) * d \in Nat /\ q * d \in Nat /\ (j - 1) * d <= q * d
      BY <1>1, <2>2, <3>1, Products
    <3>3. Start(j, window, stride) = (j - 1) * d + 1  BY DEF Start, d
    <3> QED  BY <2>1, <2>2, <2>4, <3>2, <3>3
  <2> QED  BY <2>6, <2>9, <2>10
<1> HIDE DEF m, d
<1>4. n <= window \/ n > window  OBVIOUS
<1> QED  BY <1>2, <1>3, <1>4

(* The chunks one by one.                                                  *)
LEMMA ChunksAre ==
  ASSUME NEW n \in Nat \ {0}, NEW window \in Nat \ {0}, NEW stride \in 0..(window - 1)
  PROVE  LET m == ChunkCount(n, window, stride)
             start(k) == Start(k, window, stride)
         IN  Chunks(n, window, stride) =
               [k \in 1..m |-> <<start(k), IF k = m THEN n
                                          ELSE start(k) + window - 1>>]
<1> DEFINE m == ChunkCount(n, window, stride)
           start(k) == Start(k, window, stride)
           ReachesEnd(k) == /\ start(k) + window - 1 >= n
                            /\ \A j \in 1..(k - 1) : start(j) + window - 1 < n
           last == CHOOSE k \in 1..(n + 1) : ReachesEnd(k)
           to(k) == IF k = last THEN n ELSE start(k) + window - 1
<1>1. Chunks(n, window, stride) = [k \in 1..last |-> <<start(k), to(k)>>]
  BY DEF Chunks, Start
<1>2. m \in 1..(n + 1) /\ ReachesEnd(m)  BY LastChunk
<1>3. ASSUME NEW k \in 1..(n + 1), ReachesEnd(k) PROVE k = m
  <2>1. CASE k < m
    <3>1. k \in 1..(m - 1)  BY <1>2, <2>1
    <3>2. start(k) + window - 1 < n  BY <1>2, <3>1
    <3>3. start(k) \in Nat  BY StartsAre
    <3> HIDE DEF start, m
    <3> QED  BY <1>3, <3>2, <3>3
  <2>2. CASE m < k
    <3>1. m \in 1..(k - 1)  BY <1>2, <2>2
    <3>2. start(m) + window - 1 < n  BY <1>3, <3>1
    <3>3. start(m) \in Nat  BY <1>2, StartsAre
    <3> HIDE DEF start, m
    <3> QED  BY <1>2, <3>2, <3>3
  <2> QED  BY <1>2, <2>1, <2>2
<1>4. last \in 1..(n + 1) /\ ReachesEnd(last)
  <2> HIDE DEF ReachesEnd, m
  <2> QED  BY <1>2
<1>5. last = m  BY <1>3, <1>4
<1> HIDE DEF last, m, start
<1> QED  BY <1>1, <1>5 DEF m, start

(* For every length, window and stride the two programs cut a text alike   *)
(* (_chunk_count, _chunk_token_ids_limited, chunk_token_ids).              *)
THEOREM ChunksAlwaysAgree ==
  \A n \in Nat \ {0}, window \in Nat \ {0} : \A stride \in 0..(window - 1) :
    ChunksAgree(n, window, stride)
<1> SUFFICES ASSUME NEW n \in Nat \ {0}, NEW window \in Nat \ {0},
                    NEW stride \in 0..(window - 1)
             PROVE  ChunksAgree(n, window, stride)
  OBVIOUS
<1> DEFINE chunks == Chunks(n, window, stride)
           m == ChunkCount(n, window, stride)
           start(k) == Start(k, window, stride)
           end(k) == IF k = m THEN n ELSE start(k) + window - 1
           one == OnlineChunks(n, window, stride, 1)
<1>1. /\ m \in 1..(n + 1) /\ start(m) + window - 1 >= n
      /\ \A j \in 1..(m - 1) : start(j) + window - 1 < n
  BY LastChunk
<1>2. chunks = [k \in 1..m |-> <<start(k), end(k)>>]  BY ChunksAre
<1>3. start(1) = 1 /\ \A k \in 1..m : start(k) \in Nat \ {0}
  <2>1. \A k \in 1..m : k \in Nat \ {0}  BY <1>1
  <2> HIDE DEF m
  <2> QED  BY <1>1, <2>1, StartsAre
<1>4. \A k \in 2..m : start(k) = start(k - 1) + window - stride
  <2> SUFFICES ASSUME NEW k \in 2..m
               PROVE  start(k) = start(k - 1) + window - stride
    OBVIOUS
  <2>1. k - 1 \in Nat \ {0} /\ (k - 1) + 1 = k  BY <1>1
  <2>2. start((k - 1) + 1) = start(k - 1) + window - stride  BY <2>1, StartsAre
  <2> HIDE DEF start
  <2> QED  BY <2>1, <2>2
<1> HIDE DEF m, start, chunks
<1>5. chunks \in Seq(Int \X Int) /\ Len(chunks) = m
      /\ \A k \in 1..m : chunks[k][1] = start(k) /\ chunks[k][2] = end(k)
  <2>1. ASSUME NEW k \in 1..m PROVE <<start(k), end(k)>> \in Int \X Int
    BY <1>1, <1>3
  <2>2. chunks \in [1..m -> Int \X Int]
    <3> HIDE DEF end
    <3> QED  BY <1>2, <2>1
  <2> QED  BY <1>1, <1>2, <2>2
<1>6. chunks[1][1] = 1 /\ Last(chunks)[2] = n
  BY <1>1, <1>3, <1>5 DEF Last
<1>7. ASSUME NEW k \in 1..m PROVE chunks[k][2] - chunks[k][1] < window
  <2>1. start(k) \in Nat /\ chunks[k][1] = start(k)  BY <1>3, <1>5
  <2>2. CASE k = m
    <3>1. chunks[k][2] = n  BY <1>5, <2>2
    <3>2. start(k) + window - 1 >= n  BY <1>1, <2>2
    <3> QED  BY <2>1, <3>1, <3>2
  <2>3. CASE k # m
    <3>1. chunks[k][2] = start(k) + window - 1  BY <1>5, <2>3
    <3> QED  BY <2>1, <3>1
  <2> QED  BY <2>2, <2>3
<1>8. ASSUME NEW k \in 2..m
      PROVE  /\ chunks[k - 1][2] - chunks[k][1] + 1 = stride
             /\ chunks[k][2] > chunks[k - 1][2]
  <2>1. k \in 1..m /\ k - 1 \in 1..m /\ k - 1 # m /\ k - 1 \in 1..(m - 1)
    BY <1>1
  <2>2. chunks[k - 1][2] = start(k - 1) + window - 1  BY <1>5, <2>1
  <2>3. chunks[k][1] = start(k - 1) + window - stride
    BY <1>4, <1>5, <2>1
  <2>4. start(k - 1) \in Nat  BY <1>3, <2>1
  <2>5. chunks[k][2] = IF k = m THEN n ELSE start(k - 1) + window - stride + window - 1
    BY <1>4, <1>5, <2>1
  <2>6. start(k - 1) + window - 1 < n  BY <1>1, <2>1
  <2> QED  BY <2>2, <2>3, <2>4, <2>5, <2>6
<1>9. one # Error => one = <<<<1, n>>>>
  <2> SUFFICES ASSUME one # Error PROVE one = <<<<1, n>>>>
    OBVIOUS
  <2>1. ~(m > 1)  BY DEF OnlineChunks, m
  <2>2. m = 1  BY <1>1, <2>1
  <2>3. one = SubSeq(chunks, 1, 1)
    <3>1. one = ChunksLimited(n, window, stride, 1)  BY <2>1 DEF OnlineChunks, m
    <3> QED  BY <1>5, <2>2, <3>1 DEF ChunksLimited, chunks
  <2>4. chunks[1] = <<1, n>>
    <3>1. chunks[1] = <<start(1), n>>  BY <1>2, <2>2
    <3> QED  BY <1>3, <3>1
  <2>5. SubSeq(chunks, 1, 1) = <<chunks[1]>>
    <3>1. chunks \in Seq(Int \X Int) /\ Len(chunks) = 1  BY <1>5, <2>2
    <3>2. chunks = SubSeq(chunks, 1, Len(chunks))  BY <3>1
    <3>3. chunks = <<chunks[1]>>  BY <3>1
    <3> QED  BY <3>1, <3>2, <3>3
  <2> HIDE DEF one
  <2> QED  BY <2>3, <2>4, <2>5
<1> QED
  <2>1. DOMAIN chunks = 1..m  BY <1>5
  <2> QED  BY <1>5, <1>6, <1>7, <1>8, <1>9, <2>1 DEF ChunksAgree, chunks, m

(***************************************************************************)
(* The verdicts on a text and on a capture.                                *)
(***************************************************************************)
(* A function of the numbers up to n is a sequence of that length.         *)
LEMMA IsSequence ==
  ASSUME NEW n \in Nat, NEW T, NEW g \in [1..n -> T]
  PROVE  g \in Seq(T) /\ Len(g) = n
OBVIOUS

(* Sums of natural numbers.                                                *)
LEMMA SumSteps ==
  ASSUME NEW values \in Seq(Nat)
  PROVE  \E s \in [0..Len(values) -> Nat] :
           /\ s[0] = 0 /\ Sum(values) = s[Len(values)]
           /\ \A i \in 1..Len(values) : s[i] = s[i - 1] + values[i]
<1> DEFINE body(f) == [i \in 0..Len(values) |->
                         IF i = 0 THEN 0 ELSE f[i - 1] + values[i]]
           sum == CHOOSE f : f = body(f)
<1>1. PICK n \in Nat : n = Len(values)  OBVIOUS
<1> DEFINE next == [e \in (1..n) \X Nat |-> e[2] + values[e[1]]]
<1>2. next \in [(1..n) \X Nat -> Nat]
  <2> SUFFICES ASSUME NEW i \in 1..n, NEW x \in Nat PROVE x + values[i] \in Nat
    OBVIOUS
  <2> QED  BY <1>1
<1>3. \A i \in 1..n, x \in Nat : next[<<i, x>>] = x + values[i]
  OBVIOUS
<1> HIDE DEF next
<1>4. \E f : Iterates(n, Nat, 0, next, f)
  <2>1. 0 \in Nat  OBVIOUS
  <2> QED  BY <1>2, <2>1, Recursion
<1>5. PICK f : Iterates(n, Nat, 0, next, f)
  BY <1>4
<1>6. f \in [0..n -> Nat] /\ f[0] = 0
      /\ \A i \in 1..n : f[i] = next[<<i, f[i - 1]>>]
  BY <1>5 DEF Iterates
<1>7. f = body(f)
  <2>1. ASSUME NEW i \in 1..n PROVE f[i] = f[i - 1] + values[i]
    <3>1. f[i - 1] \in Nat  BY <1>6
    <3>2. next[<<i, f[i - 1]>>] = f[i - 1] + values[i]  BY <1>3, <3>1
    <3> QED  BY <1>6, <3>2
  <2> QED  BY <1>1, <1>6, <2>1
<1>8. sum = body(sum)  BY <1>7
<1>9. Sum(values) = sum[n]  BY <1>1 DEF Sum
<1> HIDE DEF sum
<1>10. sum[0] = 0  BY <1>1, <1>8
<1>11. ASSUME NEW i \in 1..n PROVE sum[i] = sum[i - 1] + values[i]
  <2>1. sum[i] = body(sum)[i]  BY <1>8
  <2>2. body(sum)[i] = sum[i - 1] + values[i]  BY <1>1
  <2> QED  BY <2>1, <2>2
<1> DEFINE S == {i \in 0..n : sum[i] \in Nat}
<1>12. 0 \in S  BY <1>10
<1>13. ASSUME NEW i \in 1..n, i - 1 \in S PROVE i \in S
  <2>1. values[i] \in Nat  BY <1>1
  <2> QED  BY <1>11, <1>13, <2>1
<1> HIDE DEF S
<1>14. \A i \in 0..n : i \in S  BY <1>12, <1>13, Induction
<1>15. sum \in [0..n -> Nat]
  <2>1. sum = [i \in 0..n |-> sum[i]]  BY <1>1, <1>8
  <2>2. \A i \in 0..n : sum[i] \in Nat  BY <1>14 DEF S
  <2> QED  BY <2>1, <2>2
<1> QED  BY <1>1, <1>9, <1>10, <1>11, <1>15

LEMMA SumNat ==
  ASSUME NEW values \in Seq(Nat)
  PROVE  Sum(values) \in Nat
BY SumSteps

LEMMA SumZero ==
  ASSUME NEW values \in Seq(Nat), \A i \in 1..Len(values) : values[i] = 0
  PROVE  Sum(values) = 0
<1>1. PICK n \in Nat : n = Len(values)  OBVIOUS
<1>2. PICK s \in [0..n -> Nat] :
        /\ s[0] = 0 /\ Sum(values) = s[n]
        /\ \A i \in 1..n : s[i] = s[i - 1] + values[i]
  BY <1>1, SumSteps
<1> DEFINE S == {i \in 0..n : s[i] = 0}
<1>3. 0 \in S  BY <1>2
<1>4. \A i \in 1..n : i - 1 \in S => i \in S  BY <1>1, <1>2
<1> HIDE DEF S
<1>5. \A i \in 0..n : i \in S  BY <1>3, <1>4, Induction
<1> QED  BY <1>2, <1>5 DEF S

(* Among finitely many labels one is the first of the likeliest.           *)
IsLikeliest(sums, ids, id) ==
  \A j \in ids : sums[j] < sums[id] \/ (sums[j] = sums[id] /\ id <= j)

LEMMA LikeliestExists ==
  ASSUME NEW ids, IsFiniteSet(ids), ids # {}, ids \subseteq Nat,
         NEW sums, \A id \in ids : sums[id] \in Nat
  PROVE  /\ Likeliest(sums, ids) \in ids
         /\ IsLikeliest(sums, ids, Likeliest(sums, ids))
<1> DEFINE n == Cardinality(ids)
           S == {k \in 0..n : \A T \in SUBSET ids :
                   T # {} /\ Cardinality(T) = k =>
                     \E id \in T : IsLikeliest(sums, T, id)}
<1>1. n \in Nat  BY FS_CardinalityType
<1>2. \A T \in SUBSET ids : IsFiniteSet(T) /\ Cardinality(T) \in Nat
  BY FS_Subset, FS_CardinalityType
<1>3. 0 \in S
  <2>1. \A T \in SUBSET ids : Cardinality(T) = 0 => T = {}
    BY <1>2, FS_EmptySet
  <2>2. 0 \in 0..n  BY <1>1
  <2> HIDE DEF n
  <2> QED  BY <2>1, <2>2
<1>4. \A k \in 1..n : k - 1 \in S => k \in S
  <2> HIDE DEF n
  <2> SUFFICES ASSUME NEW k \in 1..n, k - 1 \in S PROVE k \in S
    <3> HIDE DEF S
    <3> QED  OBVIOUS
  <2> SUFFICES ASSUME NEW T \in SUBSET ids, T # {}, Cardinality(T) = k
               PROVE  \E id \in T : IsLikeliest(sums, T, id)
    BY <1>1
  <2>1. PICK x \in T : TRUE  OBVIOUS
  <2> DEFINE R == T \ {x}
  <2>2. Cardinality(R) = k - 1 /\ R \in SUBSET ids
    BY <1>2, <2>1, FS_RemoveElement
  <2>3. CASE R = {}
    <3>1. T = {x}  BY <2>1, <2>3
    <3>2. sums[x] \in Nat /\ x \in Nat  BY <2>1
    <3> QED  BY <3>1, <3>2 DEF IsLikeliest
  <2>4. CASE R # {}
    <3>1. PICK y \in R : IsLikeliest(sums, R, y)
      <4> HIDE DEF R, n
      <4> QED  BY <2>2, <2>4
    <3>2. /\ sums[x] \in Nat /\ x \in Nat /\ sums[y] \in Nat /\ y \in Nat
          /\ \A j \in R : sums[j] \in Nat /\ j \in Nat
      BY <2>1, <2>2, <3>1
    <3>3. T = R \cup {x}  BY <2>1
    <3> HIDE DEF R
    <3>4. CASE sums[y] < sums[x] \/ (sums[y] = sums[x] /\ x <= y)
      <4>1. IsLikeliest(sums, T, x)  BY <3>1, <3>2, <3>3, <3>4 DEF IsLikeliest
      <4> QED  BY <4>1
    <3>5. CASE ~(sums[y] < sums[x] \/ (sums[y] = sums[x] /\ x <= y))
      <4>1. IsLikeliest(sums, T, y)  BY <3>1, <3>2, <3>3, <3>5 DEF IsLikeliest
      <4> QED  BY <3>3, <4>1
    <3> QED  BY <3>4, <3>5
  <2> QED  BY <2>3, <2>4
<1> HIDE DEF S
<1>5. n \in S
  <2>1. \A k \in 0..n : k \in S
    <3> HIDE DEF n
    <3> QED  BY <1>1, <1>3, <1>4, Induction
  <2> QED  BY <1>1, <2>1
<1>6. \E id \in ids : IsLikeliest(sums, ids, id)  BY <1>5 DEF S
<1> QED  BY <1>6 DEF Likeliest, IsLikeliest

-----------------------------------------------------------------------------
(* The answers of the model to the chunks of a text.                       *)
Percents == [LabelIds -> 0..100]

LEMMA ColumnTyped ==
  ASSUME NEW rows \in Seq(Percents), NEW id \in LabelIds
  PROVE  Column(rows, id) \in Seq(Nat)
<1>1. PICK n \in Nat : n = Len(rows) /\ DOMAIN rows = 1..n  OBVIOUS
<1>2. ASSUME NEW i \in 1..n PROVE rows[i][id] \in Nat
  <2>1. rows[i] \in Percents  BY <1>1
  <2>2. PICK p \in 0..100 : p = rows[i][id]  BY <2>1 DEF Percents
  <2>3. p \in Nat  OBVIOUS
  <2> QED  BY <2>2, <2>3
<1>3. Column(rows, id) = [i \in 1..n |-> rows[i][id]]
  <2>1. Column(rows, id) = [i \in DOMAIN rows |-> rows[i][id]]  BY DEF Column
  <2> QED  BY <1>1, <2>1
<1>4. Column(rows, id) \in [1..n -> Nat]  BY <1>2, <1>3
<1> QED  BY <1>4

LEMMA SumsTyped ==
  ASSUME NEW rows \in Seq(Percents), NEW id \in LabelIds
  PROVE  Sums(rows)[id] \in Nat
BY ColumnTyped, SumNat DEF Sums

LEMMA PredictionTyped ==
  ASSUME NEW rows \in Seq(Percents)
  PROVE  /\ AtLeastOne(Prediction(rows).chunks) \in Nat \ {0}
         /\ \A id \in LabelIds : Prediction(rows).sums[id] \in Nat
<1>1. CASE rows = <<>>
  BY <1>1, LabelsAssumption DEF Prediction, NoWindowPrediction, AtLeastOne
<1>2. CASE rows # <<>>
  <2>1. Prediction(rows).chunks = Len(rows) /\ Prediction(rows).sums = Sums(rows)
    BY <1>2 DEF Prediction, Pooled
  <2> QED  BY <2>1, SumsTyped DEF AtLeastOne
<1> QED  BY <1>1, <1>2

(* A text is judged alike.                                                 *)
LEMMA TextJudgedAlike ==
  ASSUME NEW rows \in Seq(Percents), rows # <<>>
  PROVE  /\ Suspicious(Prediction(rows)) <=> Aggregate(rows).suspicious
         /\ Prediction(rows).pred = Aggregate(rows).pred
<1> DEFINE k == TopRows(TopK, rows)
           p == Prediction(rows)
           values == Column(rows, MiningId)
<1>1. PICK n \in Nat : n = Len(rows) /\ n >= 1  OBVIOUS
<1>2. /\ p.chunks = n /\ p.pred = Likeliest(Sums(rows), LabelIds)
      /\ p.best[MiningId] = Descending(values)[1]
      /\ p.top[MiningId] = Sum(Top(values, k))
  BY <1>1, LabelsAssumption DEF Prediction, Pooled
<1>3. k \in Nat /\ k = IF AtLeastOne(TopK) < AtLeastOne(n) THEN AtLeastOne(TopK)
                       ELSE AtLeastOne(n)
  BY <1>1, LabelsAssumption DEF TopRows, AtLeastOne
<1>4. /\ Aggregate(rows).pred = Likeliest(Sums(rows), LabelIds)
      /\ Aggregate(rows).suspicious =
           (\/ Likeliest(Sums(rows), LabelIds) = MiningId
            \/ Descending(values)[1] >= MaxThreshold
            \/ Sum(Top(values, k)) >= k * TopKThreshold)
  BY DEF Aggregate
<1>5. Suspicious(p) =
           (\/ p.pred = MiningId
            \/ p.best[MiningId] >= MaxThreshold
            \/ p.top[MiningId] >= TopKThreshold * k)
  BY <1>2, <1>3 DEF Suspicious
<1>6. TopKThreshold * k = k * TopKThreshold  BY <1>3, LabelsAssumption
<1> HIDE DEF p, k, values
<1> QED  BY <1>2, <1>4, <1>5, <1>6 DEF p

(* No window, no suspicion.                                                *)
LEMMA NoWindowNotSuspicious == ~Suspicious(Prediction(<<>>))
<1> DEFINE p == NoWindowPrediction
<1>1. Prediction(<<>>) = p  BY DEF Prediction
<1>2. /\ p.pred = BenignId /\ p.chunks = 0
      /\ p.best[MiningId] = 0 /\ p.top[MiningId] = 0
  BY LabelsAssumption DEF NoWindowPrediction
<1> DEFINE k == IF AtLeastOne(TopK) < AtLeastOne(p.chunks) THEN AtLeastOne(TopK)
                ELSE AtLeastOne(p.chunks)
<1>3. k = 1
  BY <1>2, LabelsAssumption DEF AtLeastOne
<1>4. Suspicious(p) = (\/ p.pred = MiningId \/ p.best[MiningId] >= MaxThreshold
                       \/ p.top[MiningId] >= TopKThreshold * k)
  BY DEF Suspicious
<1>5. TopKThreshold * 1 = TopKThreshold  BY LabelsAssumption
<1> HIDE DEF p, k
<1>6. ~(p.top[MiningId] >= TopKThreshold * k)
  BY <1>2, <1>3, <1>5, LabelsAssumption
<1>7. p.pred # MiningId /\ ~(p.best[MiningId] >= MaxThreshold)
  BY <1>2, LabelsAssumption
<1> QED  BY <1>1, <1>4, <1>6, <1>7

LEMMA MeansTyped ==
  ASSUME NEW texts \in Seq(Seq(Percents))
  PROVE  \A id \in LabelIds : MeanSums(texts)[id] \in Nat
<1> SUFFICES ASSUME NEW id \in LabelIds PROVE MeanSums(texts)[id] \in Nat
  OBVIOUS
<1>1. PICK n \in Nat : n = Len(texts) /\ DOMAIN texts = 1..n  OBVIOUS
<1> DEFINE mean(i) == (Scale * Prediction(texts[i]).sums[id])
                        \div AtLeastOne(Prediction(texts[i]).chunks)
           means == [i \in DOMAIN texts |-> mean(i)]
<1>2. ASSUME NEW i \in 1..n PROVE mean(i) \in Nat
  <2>1. texts[i] \in Seq(Percents)  BY <1>1
  <2>2. PICK s \in Nat : s = Prediction(texts[i]).sums[id]
    BY <2>1, PredictionTyped
  <2>3. PICK c \in Nat \ {0} : c = AtLeastOne(Prediction(texts[i]).chunks)
    BY <2>1, PredictionTyped
  <2>4. (6 * s) \div c \in Nat  OBVIOUS
  <2> QED  BY <2>2, <2>3, <2>4 DEF Scale
<1>3. means \in Seq(Nat)
  <2>1. means \in [1..n -> Nat]
    <3> HIDE DEF mean
    <3> QED  BY <1>1, <1>2
  <2> QED  BY <2>1
<1>4. MeanSums(texts)[id] = Sum(means)  BY DEF MeanSums
<1> HIDE DEF means
<1> QED  BY <1>3, <1>4, SumNat

(* For all thresholds and all answers of the model the evaluation judges a *)
(* capture as the processor judges its windows (_aggregate,                *)
(* suspicious_prediction_fields, aggregate_group_predictions).             *)
THEOREM VerdictsAlwaysAgree ==
  \A texts \in Seq(Seq([LabelIds -> 0..100])) :
    texts # <<>> => VerdictsAgree(texts)
<1> SUFFICES ASSUME NEW texts \in Seq(Seq(Percents)), texts # <<>>
             PROVE  VerdictsAgree(texts)
  BY DEF Percents
<1> DEFINE judged == {i \in DOMAIN texts : texts[i] # <<>>}
           flagged == {i \in judged : Aggregate(texts[i]).suspicious}
           any == GroupPrediction(texts, "any_window_suspicious")
           mean == GroupPrediction(texts, "mean_mining_probability")
           means == MeanSums(texts)
<1>1. \A i \in DOMAIN texts : texts[i] \in Seq(Percents)  OBVIOUS
<1>2. ASSUME NEW i \in judged
      PROVE  /\ Suspicious(Prediction(texts[i])) <=> i \in flagged
             /\ Prediction(texts[i]).pred = Aggregate(texts[i]).pred
  BY <1>1, TextJudgedAlike
<1>3. any.suspicious <=> \E i \in DOMAIN texts : Suspicious(Prediction(texts[i]))
  BY DEF GroupPrediction
<1>4. any.suspicious <=> flagged # {}
  <2>1. \A i \in DOMAIN texts : Suspicious(Prediction(texts[i])) => i \in judged
    BY NoWindowNotSuspicious
  <2>2. flagged \subseteq judged /\ judged \subseteq DOMAIN texts  OBVIOUS
  <2> HIDE DEF flagged, judged, any
  <2> QED  BY <1>2, <1>3, <2>1, <2>2
<1>5. any.suspicious <=> any.pred = MiningId
  <2> DEFINE ids == LabelIds \ {MiningId}
  <2>1. Likeliest(means, ids) \in ids
    <3>1. /\ IsFiniteSet(ids) /\ ids # {} /\ ids \subseteq Nat
          /\ \A id \in ids : means[id] \in Nat
      BY LabelsAssumption, FS_Subset, MeansTyped
    <3> HIDE DEF ids, means
    <3> QED  BY <3>1, LikeliestExists
  <2>2. any.pred = IF any.suspicious THEN MiningId ELSE Likeliest(means, ids)
    BY DEF GroupPrediction
  <2> HIDE DEF any, means
  <2> QED  BY <2>1, <2>2
<1>6. ASSUME judged = {} PROVE ~mean.suspicious
  <2>1. mean.suspicious =
          (means[MiningId] >= MeanThreshold * Scale * Len(texts))
    BY DEF GroupPrediction
  <2>2. PICK n \in Nat : n = Len(texts) /\ n >= 1 /\ DOMAIN texts = 1..n
    OBVIOUS
  <2>3. means[MiningId] = 0
    <3> DEFINE zeros == [i \in DOMAIN texts |->
                 (Scale * Prediction(texts[i]).sums[MiningId])
                   \div AtLeastOne(Prediction(texts[i]).chunks)]
    <3>1. ASSUME NEW i \in 1..n PROVE zeros[i] = 0
      <4>1. texts[i] = <<>>  BY <1>6, <2>2
      <4>2. Prediction(texts[i]).sums[MiningId] = 0
            /\ Prediction(texts[i]).chunks = 0
        BY <4>1, LabelsAssumption DEF Prediction, NoWindowPrediction
      <4>3. zeros[i] = (6 * 0) \div 1
        BY <2>2, <4>2 DEF Scale, AtLeastOne
      <4> QED  BY <4>3
    <3>2. zeros \in Seq(Nat) /\ Len(zeros) = n
      <4>1. zeros \in [1..n -> Nat]  BY <2>2, <3>1
      <4> HIDE DEF zeros
      <4> QED  BY <2>2, <4>1, IsSequence
    <3>3. means[MiningId] = Sum(zeros)
      <4>1. MiningId \in LabelIds  BY LabelsAssumption
      <4> QED  BY <4>1 DEF MeanSums
    <3> HIDE DEF zeros
    <3> QED  BY <3>1, <3>2, <3>3, SumZero
  <2>4. MeanThreshold * Scale * Len(texts) \in Nat \ {0}
    <3>1. PICK m \in Nat \ {0} : m = MeanThreshold * 6  BY LabelsAssumption
    <3>2. m * n \in Nat \ {0}  BY <2>2, <3>1
    <3> QED  BY <2>2, <3>1, <3>2 DEF Scale
  <2>5. ~(0 >= MeanThreshold * Scale * Len(texts))  BY <2>4
  <2>6. mean.suspicious => 0 >= MeanThreshold * Scale * Len(texts)
    BY <2>1, <2>3
  <2> QED  BY <2>5, <2>6
<1>7. VerdictsAgree(texts) =
        (/\ \A i \in judged :
              /\ Suspicious(Prediction(texts[i])) <=> i \in flagged
              /\ Prediction(texts[i]).pred = Aggregate(texts[i]).pred
         /\ any.suspicious <=> flagged # {}
         /\ any.suspicious <=> any.pred = MiningId
         /\ (judged = {}) => ~mean.suspicious)
  BY DEF VerdictsAgree
<1> HIDE DEF judged, flagged, any, mean
<1> QED  BY <1>2, <1>4, <1>5, <1>6, <1>7

(***************************************************************************)
(* The text of a window.                                                   *)
(***************************************************************************)
(* Token counts are totals of costs.                                       *)
LEMMA TokensAreTotal == \A q : TokenCount(q) = Total(q)
BY DEF TokenCount, Total

LEMMA LinesCosted == Costed(Line)
BY DEF Costed, Line

LEMMA TokensNat ==
  ASSUME NEW q \in Seq(Line)
  PROVE  TokenCount(q) \in Nat
BY TokensAreTotal, LinesCosted, TotalNat

LEMMA TokensEmpty == TokenCount(<<>>) = 0
BY TokensAreTotal, TotalEmpty

LEMMA TokensAppend ==
  ASSUME NEW q \in Seq(Line), NEW l \in Line
  PROVE  TokenCount(Append(q, l)) = TokenCount(q) + l.cost
BY TokensAreTotal, LinesCosted, TotalAppend

(* What a sequence costs from its n-th line on.                            *)
LEMMA TokensDropOne ==
  ASSUME NEW q \in Seq(Line), NEW n \in 1..Len(q)
  PROVE  TokenCount(Drop(q, n - 1)) = q[n].cost + TokenCount(Drop(q, n))
<1> DEFINE a == SubSeq(q, 1, n - 1)
           b == SubSeq(q, 1, n)
<1>1. n \in 0..Len(q) /\ n - 1 \in 0..Len(q) /\ q[n] \in Line
  OBVIOUS
<1>2. /\ a \in Seq(Line) /\ Len(a) = n - 1 /\ (\A i \in 1..(n - 1) : a[i] = q[i])
      /\ b \in Seq(Line) /\ Len(b) = n /\ (\A i \in 1..n : b[i] = q[i])
  BY <1>1, FirstsAre
<1> HIDE DEF a, b
<1>3. b = Append(a, q[n])
  <2>1. PICK c \in Seq(Line) : c = Append(a, q[n])  BY <1>1, <1>2
  <2>2. Len(c) = n /\ (\A i \in 1..(n - 1) : c[i] = a[i]) /\ c[n] = q[n]
    BY <1>1, <1>2, <2>1
  <2>3. \A i \in 1..Len(b) : b[i] = c[i]  BY <1>2, <2>2
  <2> QED  BY <1>2, <2>1, <2>2, <2>3, SameSequence
<1>4. Total(b) = Total(a) + q[n].cost
  BY <1>1, <1>2, <1>3, LinesCosted, TotalAppend
<1>5. /\ Total(q) - Total(b) = Total(Drop(q, n))
      /\ Total(q) - Total(a) = Total(Drop(q, n - 1))
  BY <1>1, LinesCosted, TotalDrop DEF a, b
<1>6. Total(q) \in Nat /\ Total(a) \in Nat /\ Total(b) \in Nat /\ q[n].cost \in Nat
  BY <1>1, <1>2, LinesCosted, TotalNat DEF Costed
<1> QED  BY <1>4, <1>5, <1>6, TokensAreTotal

LEMMA TokensPositive ==
  ASSUME NEW q \in Seq(Line), q # <<>>
  PROVE  TokenCount(q) \in Nat \ {0}
<1>1. 1 \in 1..Len(q) /\ q[1] \in Line  OBVIOUS
<1>2. Drop(q, 1) \in Seq(Line)  BY <1>1, DropIs
<1>3. TokenCount(Drop(q, 1 - 1)) = q[1].cost + TokenCount(Drop(q, 1))
  BY <1>1, TokensDropOne
<1>4. Drop(q, 1 - 1) = q
  <2>1. 1 - 1 = 0  OBVIOUS
  <2> QED  BY <2>1, DropNone
<1>5. q[1].cost \in Nat \ {0}  BY <1>1 DEF Line
<1> QED  BY <1>2, <1>3, <1>4, <1>5, TokensNat

-----------------------------------------------------------------------------
(* The two truncations.                                                    *)
LEMMA FirstLinesFit ==
  ASSUME NEW q \in Seq(Line), NEW budget \in Nat
  PROVE  /\ FirstLines(q, budget) \in Seq(Line)
         /\ TokenCount(FirstLines(q, budget)) <= budget
<1> DEFINE fits == {n \in 0..Len(q) : TokenCount(SubSeq(q, 1, n)) <= budget}
           chosen == CHOOSE n \in fits : \A m \in fits : m <= n
<1>1. 0 \in fits
  <2>1. SubSeq(q, 1, 0) = <<>>  OBVIOUS
  <2>2. TokenCount(SubSeq(q, 1, 0)) <= budget
    <3>1. TokenCount(SubSeq(q, 1, 0)) = 0  BY <2>1, TokensEmpty
    <3>2. 0 <= budget  OBVIOUS
    <3> QED  BY <3>1, <3>2
  <2>3. 0 \in 0..Len(q)  OBVIOUS
  <2> QED  BY <2>2, <2>3
<1>2. PICK n \in Nat : n = Len(q)  OBVIOUS
<1>3. \E i \in fits : \A j \in fits : j <= i
  <2> DEFINE above == {i + 1 : i \in fits}
  <2>1. above \subseteq 1..(n + 1) /\ above # {}  BY <1>1, <1>2
  <2>2. n + 1 \in Nat  OBVIOUS
  <2>3. PICK i \in above : \A j \in above : j <= i
    <3> HIDE DEF above
    <3> QED  BY <2>1, <2>2, LastOf
  <2>4. PICK e \in fits : i = e + 1  OBVIOUS
  <2>5. ASSUME NEW j \in fits PROVE j <= e
    <3>1. j \in Nat /\ e \in Nat /\ j + 1 \in above  OBVIOUS
    <3> HIDE DEF above, fits
    <3>2. j + 1 <= e + 1  BY <2>3, <2>4, <3>1
    <3> QED  BY <3>1, <3>2
  <2> HIDE DEF fits
  <2> QED  BY <2>5
<1>4. chosen \in fits
  <2> HIDE DEF fits
  <2> QED  BY <1>3
<1>5. FirstLines(q, budget) = SubSeq(q, 1, chosen)  BY DEF FirstLines
<1> HIDE DEF chosen
<1>6. chosen \in 0..Len(q) /\ TokenCount(SubSeq(q, 1, chosen)) <= budget
  BY <1>4
<1> QED  BY <1>5, <1>6, FirstsAre

LEMMA LastLinesFit ==
  ASSUME NEW q \in Seq(Line), NEW budget \in Nat
  PROVE  \E n \in 0..Len(q) :
           /\ LastLines(q, budget) = Drop(q, n)
           /\ TokenCount(Drop(q, n)) <= budget
           /\ \A m \in 0..Len(q) : TokenCount(Drop(q, m)) <= budget => n <= m
<1> DEFINE fits == {n \in 0..Len(q) : TokenCount(Drop(q, n)) <= budget}
           chosen == CHOOSE n \in fits : \A m \in fits : n <= m
<1>1. Len(q) \in fits
  <2>1. PICK n \in Nat : n = Len(q)  OBVIOUS
  <2>2. n \in 0..Len(q) /\ Len(Drop(q, n)) = 0 /\ Drop(q, n) \in Seq(Line)
    BY <2>1, DropIs
  <2>3. Drop(q, n) = <<>>  BY <2>2
  <2> QED  BY <2>1, <2>2, <2>3, TokensEmpty
<1>2. \E n \in fits : \A m \in fits : n <= m
  <2>1. fits \subseteq Nat /\ fits # {}  BY <1>1
  <2> HIDE DEF fits
  <2> QED  BY <2>1, FirstOf
<1>3. chosen \in fits /\ \A m \in fits : chosen <= m
  <2> HIDE DEF fits
  <2> QED  BY <1>2
<1>4. LastLines(q, budget) = Drop(q, chosen)  BY DEF LastLines, Drop
<1> HIDE DEF chosen
<1> QED  BY <1>3, <1>4

-----------------------------------------------------------------------------
(* Sequences of sequences.                                                 *)
LEMMA FlattenIs ==
  ASSUME NEW T, NEW seqs \in Seq(Seq(T))
  PROVE  /\ FlattenSeq(seqs) \in Seq(T)
         /\ seqs # <<>> =>
              \E u \in Seq(T) : FlattenSeq(seqs) = u \o seqs[Len(seqs)]
<1>1. CASE seqs = <<>>
  <2>1. FlattenSeq(seqs) = <<>>  BY <1>1 DEF FlattenSeq
  <2>2. <<>> \in Seq(T)  OBVIOUS
  <2> QED  BY <1>1, <2>1, <2>2
<1>2. CASE seqs # <<>>
  <2> DEFINE body(f) == [i \in 1..Len(seqs) |->
                           IF i = 1 THEN seqs[i] ELSE f[i - 1] \o seqs[i]]
             flatten == CHOOSE f : f = body(f)
  <2>1. PICK n \in Nat : n = Len(seqs) /\ n >= 1  BY <1>2
  <2>2. \A i \in 1..n : seqs[i] \in Seq(T)  BY <2>1
  <2> DEFINE next == [e \in (1..n) \X Seq(T) |->
                        IF e[1] = 1 THEN seqs[1] ELSE e[2] \o seqs[e[1]]]
  <2>3. next \in [(1..n) \X Seq(T) -> Seq(T)]
    <3>1. ASSUME NEW i \in 1..n, NEW x \in Seq(T)
          PROVE  (IF i = 1 THEN seqs[1] ELSE x \o seqs[i]) \in Seq(T)
      <4>1. seqs[i] \in Seq(T) /\ seqs[1] \in Seq(T)  BY <2>1, <2>2
      <4>2. x \o seqs[i] \in Seq(T)  BY <4>1
      <4> QED  BY <4>1, <4>2
    <3> QED  BY <3>1
  <2>4. \A i \in 1..n, x \in Seq(T) :
          next[<<i, x>>] = IF i = 1 THEN seqs[1] ELSE x \o seqs[i]
    OBVIOUS
  <2> HIDE DEF next
  <2>5. \E f : Iterates(n, Seq(T), <<>>, next, f)
    <3>1. <<>> \in Seq(T)  OBVIOUS
    <3> QED  BY <2>3, <3>1, Recursion
  <2>6. PICK f : Iterates(n, Seq(T), <<>>, next, f)  BY <2>5
  <2>7. f \in [0..n -> Seq(T)] /\ \A i \in 1..n : f[i] = next[<<i, f[i - 1]>>]
    BY <2>6 DEF Iterates
  <2> DEFINE g == [i \in 1..n |-> f[i]]
  <2>8. g = body(g)
    <3>1. ASSUME NEW i \in 1..n
          PROVE  f[i] = IF i = 1 THEN seqs[i] ELSE g[i - 1] \o seqs[i]
      <4>1. f[i - 1] \in Seq(T)  BY <2>7
      <4>2. f[i] = IF i = 1 THEN seqs[1] ELSE f[i - 1] \o seqs[i]
        BY <2>4, <2>7, <4>1
      <4>3. i # 1 => g[i - 1] = f[i - 1]  OBVIOUS
      <4> QED  BY <4>2, <4>3
    <3>2. body(g) = [i \in 1..n |-> IF i = 1 THEN seqs[i] ELSE g[i - 1] \o seqs[i]]
      BY <2>1
    <3> QED  BY <3>1, <3>2
  <2>9. flatten = body(flatten)
    <3> HIDE DEF g
    <3> QED  BY <2>8
  <2>10. FlattenSeq(seqs) = flatten[n]  BY <2>1 DEF FlattenSeq
  <2> HIDE DEF flatten
  <2>11. ASSUME NEW i \in 1..n
         PROVE  flatten[i] = IF i = 1 THEN seqs[i] ELSE flatten[i - 1] \o seqs[i]
    <3>1. flatten[i] = body(flatten)[i]  BY <2>9
    <3>2. body(flatten)[i] = IF i = 1 THEN seqs[i] ELSE flatten[i - 1] \o seqs[i]
      BY <2>1
    <3> QED  BY <3>1, <3>2
  <2> DEFINE S == {i \in 0..n : i = 0 \/ flatten[i] \in Seq(T)}
  <2>12. 0 \in S  OBVIOUS
  <2>13. ASSUME NEW i \in 1..n, i - 1 \in S PROVE i \in S
    <3>1. seqs[i] \in Seq(T)  BY <2>2
    <3>2. CASE i = 1
      BY <2>11, <3>1, <3>2
    <3>3. CASE i # 1
      <4>1. flatten[i - 1] \in Seq(T)  BY <2>13, <3>3
      <4>2. flatten[i - 1] \o seqs[i] \in Seq(T)  BY <3>1, <4>1
      <4>3. flatten[i] = flatten[i - 1] \o seqs[i]  BY <2>11, <3>3
      <4>4. flatten[i] \in Seq(T)  BY <4>2, <4>3
      <4> QED  BY <4>4
    <3> QED  BY <3>2, <3>3
  <2> HIDE DEF S
  <2>14. \A i \in 0..n : i \in S  BY <2>12, <2>13, Induction
  <2>15. \A i \in 1..n : flatten[i] \in Seq(T)  BY <2>14 DEF S
  <2>16. \E u \in Seq(T) : flatten[n] = u \o seqs[n]
    <3>1. seqs[n] \in Seq(T)  BY <2>1, <2>2
    <3>2. CASE n = 1
      <4>1. flatten[n] = seqs[n]  BY <2>1, <2>11, <3>2
      <4>2. <<>> \o seqs[n] = seqs[n] /\ <<>> \in Seq(T)  BY <3>1
      <4> QED  BY <4>1, <4>2
    <3>3. CASE n # 1
      <4>0. n \in 1..n  BY <2>1
      <4>1. flatten[n] = flatten[n - 1] \o seqs[n]  BY <2>11, <3>3, <4>0
      <4>2. flatten[n - 1] \in Seq(T)  BY <2>1, <2>15, <3>3
      <4>3. PICK u \in Seq(T) : u = flatten[n - 1]  BY <4>2
      <4> QED  BY <4>1, <4>3
    <3> QED  BY <3>2, <3>3
  <2>17. n \in 1..n /\ flatten[n] \in Seq(T)
    <3>1. n \in 1..n  BY <2>1
    <3> QED  BY <2>15, <3>1
  <2>18. FlattenSeq(seqs) \in Seq(T)  BY <2>10, <2>17
  <2>19. \E u \in Seq(T) : FlattenSeq(seqs) = u \o seqs[Len(seqs)]
    BY <2>1, <2>10, <2>16
  <2> QED  BY <2>18, <2>19
<1> QED  BY <1>1, <1>2

(* What is left when the first n elements go is a suffix.                  *)
LEMMA DropIsSuffix ==
  ASSUME NEW T, NEW q \in Seq(T), NEW n \in 0..Len(q)
  PROVE  IsSuffix(Drop(q, n), q)
<1>1. PICK m \in Nat : m = Len(q)  OBVIOUS
<1>2. PICK r \in Seq(T) : r = Drop(q, n)  BY DropIs
<1>3. Len(r) = m - n /\ \A i \in 1..(m - n) : r[i] = q[n + i]
  BY <1>1, <1>2, DropIs
<1>4. m - n \in Nat  BY <1>1
<1>5. Reverse(r) = [i \in 1..(m - n) |-> r[(m - n - i) + 1]]
  BY <1>3 DEF Reverse
<1>6. Reverse(q) = [i \in 1..m |-> q[(m - i) + 1]]
  BY <1>1 DEF Reverse
<1>7. ASSUME NEW i \in 1..(m - n) PROVE Reverse(r)[i] = Reverse(q)[i]
  <2>1. (m - n - i) + 1 \in 1..(m - n) /\ i \in 1..m
        /\ n + ((m - n - i) + 1) = (m - i) + 1
    BY <1>1
  <2>2. Reverse(r)[i] = r[(m - n - i) + 1]  BY <1>5
  <2>3. Reverse(q)[i] = q[(m - i) + 1]  BY <1>6, <2>1
  <2>4. r[(m - n - i) + 1] = q[n + ((m - n - i) + 1)]  BY <1>3, <2>1
  <2> QED  BY <2>1, <2>2, <2>3, <2>4
<1>8. Reverse(r) \in Seq(T) /\ Len(Reverse(r)) = m - n
  <2>1. \A i \in 1..(m - n) : r[(m - n - i) + 1] \in T
    <3> SUFFICES ASSUME NEW i \in 1..(m - n) PROVE r[(m - n - i) + 1] \in T
      OBVIOUS
    <3>1. (m - n - i) + 1 \in 1..Len(r)  BY <1>1, <1>3
    <3> QED  BY <3>1
  <2>2. Reverse(r) \in [1..(m - n) -> T]  BY <1>5, <2>1
  <2> QED  BY <1>4, <2>2, IsSequence
<1>9. Reverse(q) \in Seq(T) /\ Len(Reverse(q)) = m
  <2>1. \A i \in 1..m : q[(m - i) + 1] \in T
    <3> SUFFICES ASSUME NEW i \in 1..m PROVE q[(m - i) + 1] \in T
      OBVIOUS
    <3>1. (m - i) + 1 \in 1..Len(q)  BY <1>1
    <3> QED  BY <3>1
  <2>2. Reverse(q) \in [1..m -> T]  BY <1>6, <2>1
  <2> QED  BY <1>1, <2>2, IsSequence
<1>10. SubSeq(Reverse(r), 1, m - n) = SubSeq(Reverse(q), 1, m - n)
  <2>1. PICK a \in Seq(T) : a = Reverse(r)  BY <1>8
  <2>2. PICK b \in Seq(T) : b = Reverse(q)  BY <1>9
  <2>3. Len(a) = m - n /\ Len(b) = m /\ \A i \in 1..(m - n) : a[i] = b[i]
    BY <1>7, <1>8, <1>9, <2>1, <2>2
  <2>4. m - n \in 0..Len(a) /\ m - n \in 0..Len(b)  BY <1>1, <2>3
  <2>5. /\ SubSeq(a, 1, m - n) \in Seq(T) /\ Len(SubSeq(a, 1, m - n)) = m - n
        /\ \A i \in 1..(m - n) : SubSeq(a, 1, m - n)[i] = a[i]
    BY <2>4, FirstsAre
  <2>6. /\ SubSeq(b, 1, m - n) \in Seq(T) /\ Len(SubSeq(b, 1, m - n)) = m - n
        /\ \A i \in 1..(m - n) : SubSeq(b, 1, m - n)[i] = b[i]
    BY <2>4, FirstsAre
  <2> QED  BY <2>1, <2>2, <2>3, <2>5, <2>6, SameSequence
<1> QED  BY <1>1, <1>2, <1>3, <1>8, <1>9, <1>10 DEF IsSuffix, IsPrefix

-----------------------------------------------------------------------------
(* What is shown of a launch.                                              *)
LEMMA NormalizedTyped ==
  ASSUME NEW q \in Seq(Line)
  PROVE  Normalized(q) \in Seq(Line)
<1> DEFINE pieces == [i \in DOMAIN q |->
                        IF q[i].op \in {"label", "nop"} THEN <<>> ELSE <<q[i]>>]
<1>1. PICK n \in Nat : n = Len(q) /\ DOMAIN q = 1..n  OBVIOUS
<1>2. ASSUME NEW i \in 1..n
      PROVE  (IF q[i].op \in {"label", "nop"} THEN <<>> ELSE <<q[i]>>) \in Seq(Line)
  <2>1. q[i] \in Line  BY <1>1
  <2>2. <<>> \in Seq(Line) /\ <<q[i]>> \in Seq(Line)  BY <2>1
  <2> QED  BY <2>2
<1>3. pieces \in [1..n -> Seq(Line)]  BY <1>1, <1>2
<1>4. Normalized(q) = FlattenSeq(pieces)  BY DEF Normalized
<1> HIDE DEF pieces
<1>5. pieces \in Seq(Seq(Line))  BY <1>3, IsSequence
<1> QED  BY <1>4, <1>5, FlattenIs

Listing == [kernel : Seq(Line), loop : Seq(Line)]

LEMMA RenderedLines ==
  ASSUME NEW k \in Listing
  PROVE  /\ RenderLines(k) \in Seq(Line)
         /\ TokenCount(RenderLines(k)) <= TokenBudget - 1
<1>1. PICK b \in Nat : b = TokenBudget - 1  BY TextAssumption
<1>2. k.kernel \in Seq(Line) /\ k.loop \in Seq(Line)  BY DEF Listing
<1>3. CASE Len(k.kernel) <= ShortKernel /\ TokenCount(k.kernel) <= TokenBudget - 1
  BY <1>2, <1>3 DEF RenderLines
<1>4. CASE ~(Len(k.kernel) <= ShortKernel
             /\ TokenCount(k.kernel) <= TokenBudget - 1)
  <2>1. PICK q \in Seq(Line) : q = IF k.loop # <<>> THEN k.loop ELSE k.kernel
    BY <1>2
  <2>2. RenderLines(k) = FirstLines(q, b)  BY <1>1, <1>4, <2>1 DEF RenderLines
  <2> QED  BY <1>1, <2>2, FirstLinesFit
<1> QED  BY <1>3, <1>4

LEMMA FragmentIs ==
  ASSUME NEW k \in Listing, Fragment(k) # NoText
  PROVE  /\ Fragment(k).lines \in Seq(Line)
         /\ Fragment(k).lines # <<>>
         /\ Fragment(k).cost = TokenCount(Fragment(k).lines)
         /\ Fragment(k).cost \in 2..TokenBudget
<1>1. PICK n \in Listing : n = NormalizedKernel(k)
  <2>1. k.kernel \in Seq(Line) /\ k.loop \in Seq(Line)  BY DEF Listing
  <2>2. Normalized(k.kernel) \in Seq(Line) /\ Normalized(k.loop) \in Seq(Line)
    BY <2>1, NormalizedTyped
  <2>3. LoopBudget \in Nat  BY TextAssumption
  <2>4. FirstLines(Normalized(k.loop), LoopBudget) \in Seq(Line)
    BY <2>2, <2>3, FirstLinesFit
  <2> QED  BY <2>2, <2>4 DEF NormalizedKernel, Listing
<1>2. PICK chosen \in Seq(Line) : /\ chosen = RenderLines(n)
                                  /\ TokenCount(chosen) <= TokenBudget - 1
  BY RenderedLines
<1>3. Boundary \in Line /\ Boundary.cost = 1
  <2>1. Boundary \in Line  BY DEF Boundary, Line
  <2>2. Boundary.cost = 1  BY DEF Boundary
  <2> QED  BY <2>1, <2>2
<1>4. PICK lines \in Seq(Line) : lines = Append(chosen, Boundary)
  <2>1. Append(chosen, Boundary) \in Seq(Line)  BY <1>3
  <2> QED  BY <2>1
<1>5. chosen # <<>>
      /\ Fragment(k) = [lines |-> lines, cost |-> TokenCount(lines),
                        ratio |-> IntegerRatio(chosen), shown |-> Len(chosen)]
  BY <1>1, <1>2, <1>4 DEF Fragment
<1>6. TokenCount(lines) = TokenCount(chosen) + 1
  BY <1>3, <1>4, TokensAppend
<1>7. TokenCount(chosen) \in Nat \ {0}  BY <1>5, TokensPositive
<1>8. TokenCount(lines) \in 2..TokenBudget
  BY <1>2, <1>6, <1>7, TextAssumption
<1>9. lines # <<>>  BY <1>4
<1>10. /\ Fragment(k).lines = lines
       /\ Fragment(k).cost = TokenCount(lines)
  BY <1>5
<1> QED  BY <1>8, <1>9, <1>10

ShownOf(kernels) == {Fragment(kernels[l]) : l \in DOMAIN kernels} \ {NoText}

LEMMA FragmentsAre ==
  ASSUME NEW kernels, \A l \in DOMAIN kernels : kernels[l] \in Listing,
         NEW S, NEW launches \in Seq(S)
  PROVE  /\ Fragments(launches, kernels) \in Seq(ShownOf(kernels))
         /\ \A x \in ShownOf(kernels) :
              /\ x.lines \in Seq(Line) /\ x.lines # <<>>
              /\ x.cost = TokenCount(x.lines) /\ x.cost \in 2..TokenBudget
<1> DEFINE of(l) == IF l \in DOMAIN kernels /\ Fragment(kernels[l]) # NoText
                    THEN <<Fragment(kernels[l])>> ELSE <<>>
           pieces == [i \in DOMAIN launches |-> of(launches[i])]
<1>1. PICK n \in Nat : n = Len(launches) /\ DOMAIN launches = 1..n  OBVIOUS
<1>2. ASSUME NEW i \in 1..n PROVE of(launches[i]) \in Seq(ShownOf(kernels))
  <2>1. <<>> \in Seq(ShownOf(kernels))  OBVIOUS
  <2>2. ASSUME launches[i] \in DOMAIN kernels,
               Fragment(kernels[launches[i]]) # NoText
        PROVE  <<Fragment(kernels[launches[i]])>> \in Seq(ShownOf(kernels))
    <3>1. Fragment(kernels[launches[i]]) \in ShownOf(kernels)
      BY <2>2 DEF ShownOf
    <3> QED  BY <3>1
  <2> QED  BY <2>1, <2>2
<1>3. Fragments(launches, kernels) = FlattenSeq(pieces)  BY DEF Fragments
<1>4. pieces \in [1..n -> Seq(ShownOf(kernels))]
  <2> HIDE DEF of
  <2> QED  BY <1>1, <1>2
<1> HIDE DEF of, pieces
<1>5. pieces \in Seq(Seq(ShownOf(kernels)))  BY <1>4, IsSequence
<1>6. Fragments(launches, kernels) \in Seq(ShownOf(kernels))
  BY <1>3, <1>5, FlattenIs
<1>7. ASSUME NEW x \in ShownOf(kernels)
      PROVE  /\ x.lines \in Seq(Line) /\ x.lines # <<>>
             /\ x.cost = TokenCount(x.lines) /\ x.cost \in 2..TokenBudget
  <2>1. PICK l \in DOMAIN kernels : x = Fragment(kernels[l]) /\ x # NoText
    BY DEF ShownOf
  <2> QED  BY <2>1, FragmentIs
<1> QED  BY <1>6, <1>7

-----------------------------------------------------------------------------
(* What is shown of a window.                                              *)
LEMMA LinesAre ==
  ASSUME NEW P, \A x \in P : x.lines \in Seq(Line), NEW shown \in Seq(P)
  PROVE  /\ AllLines(shown) \in Seq(Line)
         /\ shown # <<>> =>
              \E n \in 0..Len(AllLines(shown)) :
                Last(shown).lines = Drop(AllLines(shown), n)
<1> DEFINE pieces == [i \in DOMAIN shown |-> shown[i].lines]
<1>1. PICK n \in Nat : n = Len(shown) /\ DOMAIN shown = 1..n  OBVIOUS
<1>2. \A i \in 1..n : shown[i].lines \in Seq(Line)
  <2> SUFFICES ASSUME NEW i \in 1..n PROVE shown[i].lines \in Seq(Line)
    OBVIOUS
  <2>1. shown[i] \in P  BY <1>1
  <2> QED  BY <2>1
<1>3. pieces \in [1..n -> Seq(Line)]  BY <1>1, <1>2
<1>4. AllLines(shown) = FlattenSeq(pieces)  BY DEF AllLines
<1>5. \A i \in 1..n : pieces[i] = shown[i].lines  BY <1>1
<1> HIDE DEF pieces
<1>6. pieces \in Seq(Seq(Line)) /\ Len(pieces) = n  BY <1>3, IsSequence
<1>7. PICK all \in Seq(Line) : all = AllLines(shown)  BY <1>4, <1>6, FlattenIs
<1>8. ASSUME shown # <<>>
      PROVE  \E m \in 0..Len(all) : Last(shown).lines = Drop(all, m)
  <2>1. n \in 1..n  BY <1>1, <1>8
  <2>2. pieces # <<>>  BY <1>6, <2>1
  <2>3. PICK u \in Seq(Line) : all = u \o pieces[n]
    BY <1>4, <1>6, <1>7, <2>2, FlattenIs
  <2>4. PICK v \in Seq(Line) : v = pieces[n]  BY <1>2, <1>5, <2>1
  <2>5. Last(shown).lines = v  BY <1>1, <1>5, <2>1, <2>4 DEF Last
  <2>6. all = u \o v  BY <2>3, <2>4
  <2>7. Len(all) = Len(u) + Len(v) /\ \A i \in 1..Len(v) : all[Len(u) + i] = v[i]
    BY <2>6
  <2>8. Len(u) \in 0..Len(all)  BY <2>7
  <2>9. PICK r \in Seq(Line) : r = Drop(all, Len(u))  BY <2>8, DropIs
  <2>10. /\ Len(r) = Len(all) - Len(u)
         /\ \A i \in 1..(Len(all) - Len(u)) : r[i] = all[Len(u) + i]
    BY <2>8, <2>9, DropIs
  <2>11. Len(r) = Len(v) /\ \A i \in 1..Len(r) : r[i] = v[i]
    <3>1. Len(all) - Len(u) = Len(v)  BY <2>7
    <3> QED  BY <2>7, <2>10, <3>1
  <2>12. r = v  BY <2>11, SameSequence
  <2>13. Last(shown).lines = Drop(all, Len(u))  BY <2>5, <2>9, <2>12
  <2>14. PICK e \in 0..Len(all) : Last(shown).lines = Drop(all, e)
    BY <2>8, <2>13, Zenon
  <2> QED  BY <2>14
<1> QED  BY <1>7, <1>8

LEMMA ClippedFront ==
  ASSUME NEW all \in Seq(Line)
  PROVE  \E n \in 0..Len(all) :
           /\ ClipFront(all) = Drop(all, n)
           /\ TokenCount(Drop(all, n)) <= TokenBudget
           /\ \A m \in 0..Len(all) :
                TokenCount(Drop(all, m)) <= TokenBudget => n <= m
<1>1. TokenBudget \in Nat  BY TextAssumption
<1>2. CASE TokenCount(all) > TokenBudget
  <2>1. ClipFront(all) = LastLines(all, TokenBudget)  BY <1>2 DEF ClipFront
  <2> QED  BY <1>1, <2>1, LastLinesFit
<1>3. CASE ~(TokenCount(all) > TokenBudget)
  <2>1. ClipFront(all) = all /\ Drop(all, 0) = all
    BY <1>3, DropNone DEF ClipFront
  <2>2. TokenCount(all) <= TokenBudget  BY <1>1, <1>3, TokensNat
  <2>3. 0 \in 0..Len(all) /\ \A m \in 0..Len(all) : 0 <= m  OBVIOUS
  <2> QED  BY <2>1, <2>2, <2>3
<1> QED  BY <1>2, <1>3

LEMMA ClippedText ==
  ASSUME NEW all \in Seq(Line), NEW e \in 0..Len(all),
         TokenCount(Drop(all, e)) <= TokenBudget
  PROVE  /\ ClipFront(all) \in Seq(Line)
         /\ TokenCount(ClipFront(all)) <= TokenBudget
         /\ IsSuffix(ClipFront(all), all)
         /\ IsSuffix(Drop(all, e), ClipFront(all))
         /\ Len(all) - Len(ClipFront(all)) > 0 =>
              TokenCount(ClipFront(all)) + all[Len(all) - Len(ClipFront(all))].cost
                > TokenBudget
<1>1. PICK n \in 0..Len(all) :
        /\ ClipFront(all) = Drop(all, n)
        /\ TokenCount(Drop(all, n)) <= TokenBudget
        /\ \A m \in 0..Len(all) :
             TokenCount(Drop(all, m)) <= TokenBudget => n <= m
  BY ClippedFront
<1>2. PICK text \in Seq(Line) : text = ClipFront(all)  BY <1>1, DropIs
<1>3. Len(text) = Len(all) - n  BY <1>1, <1>2, DropIs
<1>4. IsSuffix(text, all)  BY <1>1, <1>2, DropIsSuffix
<1>5. IsSuffix(Drop(all, e), text)
  <2>1. n <= e  BY <1>1
  <2>2. PICK l \in Nat : l = Len(all)  OBVIOUS
  <2>3. e - n \in 0..Len(text) /\ e - n \in 0..(Len(all) - n)
    BY <1>3, <2>1, <2>2
  <2>4. Drop(Drop(all, n), e - n) = Drop(all, n + (e - n))
    BY <2>3, DropDrop
  <2>5. n + (e - n) = e  BY <2>2
  <2>6. Drop(text, e - n) = Drop(all, e)  BY <1>1, <1>2, <2>4, <2>5
  <2> QED  BY <2>3, <2>6, DropIsSuffix
<1>6. Len(all) - Len(text) = n
  <2>1. PICK l \in Nat : l = Len(all)  OBVIOUS
  <2> QED  BY <1>3, <2>1
<1>7. ASSUME n > 0 PROVE TokenCount(text) + all[n].cost > TokenBudget
  <2>1. n \in 1..Len(all) /\ n - 1 \in 0..Len(all) /\ ~(n <= n - 1)
    BY <1>7
  <2>2. ~(TokenCount(Drop(all, n - 1)) <= TokenBudget)  BY <1>1, <2>1
  <2>3. TokenCount(Drop(all, n - 1)) = all[n].cost + TokenCount(text)
    BY <1>1, <1>2, <2>1, TokensDropOne
  <2>4. all[n].cost \in Nat /\ TokenCount(text) \in Nat /\ TokenBudget \in Nat
    <3>1. all[n] \in Line  BY <2>1
    <3> QED  BY <3>1, TokensNat, TextAssumption DEF Line
  <2> QED  BY <2>2, <2>3, <2>4
<1>8. TokenCount(text) <= TokenBudget  BY <1>1, <1>2
<1> QED  BY <1>2, <1>4, <1>5, <1>6, <1>7, <1>8

(* The text of every window and every prepared launch fit, for any         *)
(* listings and any launches (render_workload_sass, prepare_l0_launches).  *)
THEOREM TextsAlwaysFit ==
  ASSUME NEW kernels, \A l \in DOMAIN kernels : kernels[l] \in Listing,
         NEW S, NEW launches \in Seq(S)
  PROVE  RenderedTextFits(launches, kernels)
<1> DEFINE P == ShownOf(kernels)
           ready == PreparedLaunches(launches, kernels)
           text == WindowText(launches, kernels)
<1>1. PICK shown \in Seq(P) : shown = Fragments(launches, kernels)
  BY FragmentsAre
<1>2. \A x \in P : /\ x.lines \in Seq(Line) /\ x.lines # <<>>
                   /\ x.cost = TokenCount(x.lines) /\ x.cost \in 2..TokenBudget
  BY FragmentsAre
<1> HIDE DEF P
<1>3. PICK n \in Nat : n = Len(shown) /\ DOMAIN shown = 1..n
  OBVIOUS
<1>4. \A i \in 1..n : shown[i] \in P
  BY <1>3
<1>5. /\ \A i \in DOMAIN ready : ready[i].cost \in 2..TokenBudget
      /\ ready = <<>> => \A i \in DOMAIN shown : shown[i].ratio < GateRatio
  <2> DEFINE measured == [i \in DOMAIN shown |-> shown[i].ratio]
             rows == [i \in DOMAIN shown |-> [cost |-> shown[i].cost,
                                              ratio |-> shown[i].ratio]]
  <2>1. ready = IF BelowGate(measured) THEN <<>> ELSE rows
    BY <1>1 DEF PreparedLaunches
  <2>2. CASE BelowGate(measured)
    <3>1. ready = <<>>  BY <2>1, <2>2
    <3>2. DOMAIN ready = {}  BY <3>1
    <3>3. \A i \in DOMAIN shown : shown[i].ratio < GateRatio
      BY <2>2 DEF BelowGate
    <3> QED  BY <3>2, <3>3
  <2>3. CASE ~BelowGate(measured)
    <3>1. ready = rows  BY <2>1, <2>3
    <3>2. DOMAIN ready = 1..n /\ \A i \in 1..n : ready[i].cost = shown[i].cost
      BY <1>3, <3>1
    <3>3. \A i \in 1..n : shown[i].cost \in 2..TokenBudget  BY <1>2, <1>4
    <3>4. ASSUME ready = <<>>
          PROVE  \A i \in DOMAIN shown : shown[i].ratio < GateRatio
      <4>1. DOMAIN ready = {}  BY <3>4
      <4> QED  BY <1>3, <3>2, <4>1
    <3> QED  BY <3>2, <3>3, <3>4
  <2> QED  BY <2>2, <2>3
<1>6. AllLines(shown) \in Seq(Line)
  BY <1>2, LinesAre
<1>7. CASE shown = <<>>
  <2>1. text = NoText  BY <1>1, <1>7 DEF WindowText
  <2>2. TextFits(text, ready, shown)
    <3> HIDE DEF text, ready
    <3> QED  BY <1>5, <1>7, <2>1 DEF TextFits
  <2> QED  BY <1>1, <2>2 DEF RenderedTextFits
<1>8. CASE shown # <<>>
  <2>1. PICK all \in Seq(Line) : all = AllLines(shown)  BY <1>6
  <2>2. PICK e \in 0..Len(all) : Last(shown).lines = Drop(all, e)
    BY <1>2, <1>8, <2>1, LinesAre
  <2>3. TokenCount(Drop(all, e)) <= TokenBudget
    <3>1. n \in 1..n  BY <1>3, <1>8
    <3>2. Last(shown) = shown[n]  BY <1>3 DEF Last
    <3>3. shown[n] \in P  BY <1>4, <3>1
    <3>4. shown[n].cost = TokenCount(shown[n].lines)
          /\ shown[n].cost \in 2..TokenBudget
      BY <1>2, <3>3
    <3> QED  BY <2>2, <3>2, <3>4, TextAssumption
  <2>4. text = ClipFront(all)  BY <1>1, <1>8, <2>1 DEF WindowText
  <2>5. /\ text \in Seq(Line)
        /\ TokenCount(text) <= TokenBudget
        /\ IsSuffix(text, all)
        /\ IsSuffix(Last(shown).lines, text)
        /\ Len(all) - Len(text) > 0 =>
             TokenCount(text) + all[Len(all) - Len(text)].cost > TokenBudget
    BY <2>2, <2>3, <2>4, ClippedText
  <2>6. text # NoText  BY <2>5, TextAssumption
  <2>7. TextFits(text, ready, shown)
    <3> HIDE DEF text, ready
    <3> QED  BY <1>5, <1>8, <2>1, <2>5, <2>6 DEF TextFits
  <2> QED  BY <1>1, <2>7 DEF RenderedTextFits
<1> QED  BY <1>7, <1>8

-----------------------------------------------------------------------------
(* Of SeparateParts: only an answer given just now has to be judged, since *)
(* a part that has answered stops and the others answer nothing.           *)
LEMMA OnlyAnswers ==
  ASSUME PartsNext, part' # part \/ input' # input \/ answer' # answer
  PROVE  \/ ExtractLoops \/ RenderWindows \/ CutText \/ JudgeCapture
         \/ Windowize \/ SplitDataset \/ SplitKernels
BY DEF PartsNext, ScheduleWindows, BuildDataset, RunCaptures, RegisterCodes,
       ReadFrames, partVars

(* The evaluation cuts and judges every text as the processor does, in     *)
(* every behaviour of the offline programs (predict, _aggregate;           *)
(* chunk_token_ids, aggregate_group_predictions).                          *)
THEOREM JudgesAlike == PartsSpec => []OnlineJudgesLikeOffline
<1>1. PartsInit => OnlineJudgesLikeOffline
  BY DEF PartsInit, OnlineJudgesLikeOffline, Answered
<1>2. OnlineJudgesLikeOffline /\ [PartsNext]_partsVars
        => OnlineJudgesLikeOffline'
  <2> SUFFICES ASSUME OnlineJudgesLikeOffline, [PartsNext]_partsVars
               PROVE  OnlineJudgesLikeOffline'
    OBVIOUS
  <2>1. CASE part' = part /\ input' = input /\ answer' = answer
    BY <2>1 DEF OnlineJudgesLikeOffline, Answered
  <2>2. CASE ~(part' = part /\ input' = input /\ answer' = answer)
    <3>1. PartsNext  BY <2>2 DEF partsVars, partVars
    <3>2. CASE CutText
      <4>1. PICK n \in TextLengths, window \in WindowSizes :
              \E stride \in 0..(window - 1) :
                Answers([n |-> n, window |-> window, stride |-> stride],
                        Chunks(n, window, stride))
        BY <3>2 DEF CutText
      <4>2. PICK stride \in 0..(window - 1) :
              input' = [n |-> n, window |-> window, stride |-> stride]
        BY <4>1 DEF Answers
      <4>3. n \in Nat \ {0} /\ window \in Nat \ {0}  BY InputsAssumption
      <4>4. ChunksAgree(n, window, stride)  BY <4>2, <4>3, ChunksAlwaysAgree
      <4>5. ChunksAgree(input.n, input.window, input.stride)'
        BY <4>2, <4>4
      <4>6. part' = "chunks"  BY <3>2 DEF CutText, Given, Answers
      <4> QED  BY <4>5, <4>6 DEF OnlineJudgesLikeOffline, Answered
    <3>3. CASE JudgeCapture
      <4>1. PICK texts \in CaptureTexts : input' = texts
        BY <3>3 DEF JudgeCapture, Answers
      <4>2. VerdictsAgree(texts)  BY InputsAssumption, VerdictsAlwaysAgree
      <4>3. VerdictsAgree(input)'  BY <4>1, <4>2
      <4>4. part' = "verdicts"  BY <3>3 DEF JudgeCapture, Given, Answers
      <4> QED  BY <4>3, <4>4 DEF OnlineJudgesLikeOffline, Answered
    <3>4. CASE \/ ExtractLoops \/ RenderWindows \/ Windowize \/ SplitDataset
               \/ SplitKernels
      <4>1. part' \in {"loops", "texts", "samples", "splits", "kernels"}
        BY <3>4 DEF ExtractLoops, RenderWindows, Windowize, SplitDataset,
                    SplitKernels, Given, Answers
      <4> QED  BY <4>1 DEF OnlineJudgesLikeOffline, Answered
    <3> QED  BY <2>2, <3>1, <3>2, <3>3, <3>4, OnlyAnswers
  <2> QED  BY <2>1, <2>2
<1> QED  BY <1>1, <1>2, PTL DEF PartsSpec

(* What the scheduler and the classifier see of any launches fits the      *)
(* budget and shows the newest launch (render_workload_sass).              *)
THEOREM TextsFit == PartsSpec => []WindowTextFits
<1>1. PartsInit => WindowTextFits
  BY DEF PartsInit, WindowTextFits, Answered
<1>2. WindowTextFits /\ [PartsNext]_partsVars => WindowTextFits'
  <2> SUFFICES ASSUME WindowTextFits, [PartsNext]_partsVars
               PROVE  WindowTextFits'
    OBVIOUS
  <2>1. CASE part' = part /\ input' = input /\ answer' = answer
    BY <2>1 DEF WindowTextFits, Answered
  <2>2. CASE ~(part' = part /\ input' = input /\ answer' = answer)
    <3>1. PartsNext  BY <2>2 DEF partsVars, partVars
    <3>2. CASE RenderWindows
      <4>1. PICK kernels \in KernelTables, list \in LaunchLists :
              input' = [kernels |-> kernels, launches |-> list]
        BY <3>2 DEF RenderWindows, Answers
      <4>2. /\ \A k \in DOMAIN kernels : kernels[k] \in Listing
            /\ list \in Seq(Nat)
        BY InputsAssumption DEF Listing
      <4>3. RenderedTextFits(list, kernels)  BY <4>2, TextsAlwaysFit
      <4>4. RenderedTextFits(input.launches, input.kernels)'
        BY <4>1, <4>3
      <4> QED  BY <4>4 DEF WindowTextFits
    <3>3. CASE \/ ExtractLoops \/ CutText \/ JudgeCapture \/ Windowize
               \/ SplitDataset \/ SplitKernels
      <4>1. part' \in {"loops", "chunks", "verdicts", "samples", "splits",
                       "kernels"}
        BY <3>3 DEF ExtractLoops, CutText, JudgeCapture, Windowize,
                    SplitDataset, SplitKernels, Given, Answers
      <4> QED  BY <4>1 DEF WindowTextFits, Answered
    <3> QED  BY <2>2, <3>1, <3>2, <3>3, OnlyAnswers
  <2> QED  BY <2>1, <2>2
<1> QED  BY <1>1, <1>2, PTL DEF PartsSpec

(***************************************************************************)
(* The dataset splits (Splits).                                            *)
(***************************************************************************)
(* A condition as a number.                                                *)
One(b) == IF b THEN 1 ELSE 0

LEMMA PlacesAre ==
  Place("train") = 1 /\ Place("val") = 2 /\ Place("test") = 3
<1>1. /\ SplitNames[1] = "train" /\ SplitNames[2] = "val"
      /\ SplitNames[3] = "test"
  BY DEF SplitNames
<1>2. ASSUME NEW i \in 1..3
      PROVE  /\ SplitNames[i] = "train" <=> i = 1
             /\ SplitNames[i] = "val" <=> i = 2
             /\ SplitNames[i] = "test" <=> i = 3
  <2>1. i = 1 \/ i = 2 \/ i = 3  OBVIOUS
  <2> QED  BY <1>1, <2>1
<1>3. 1 \in 1..3 /\ 2 \in 1..3 /\ 3 \in 1..3  OBVIOUS
<1> QED  BY <1>2, <1>3 DEF Place

LEMMA SplitsFinite == IsFiniteSet(SplitSet)
<1>1. IsFiniteSet({"train"})  BY FS_Singleton
<1>2. IsFiniteSet({"train"} \cup {"val"})  BY <1>1, FS_AddElement
<1>3. IsFiniteSet(({"train"} \cup {"val"}) \cup {"test"})
  BY <1>2, FS_AddElement
<1>4. SplitSet = ({"train"} \cup {"val"}) \cup {"test"}  BY DEF SplitSet
<1> QED  BY <1>3, <1>4

LEMMA WithoutOne ==
  ASSUME NEW S, IsFiniteSet(S), NEW x
  PROVE  /\ IsFiniteSet(S \ {x})
         /\ Cardinality(S \ {x}) \in Nat
         /\ Cardinality(S) = Cardinality(S \ {x}) + One(x \in S)
<1>1. CASE x \in S
  <2>1. IsFiniteSet(S \ {x}) /\ Cardinality(S \ {x}) = Cardinality(S) - 1
    BY <1>1, FS_RemoveElement
  <2>2. Cardinality(S) \in Nat /\ Cardinality(S \ {x}) \in Nat
    BY <2>1, FS_CardinalityType
  <2>3. One(x \in S) = 1  BY <1>1 DEF One
  <2> QED  BY <2>1, <2>2, <2>3
<1>2. CASE x \notin S
  <2>1. IsFiniteSet(S \ {x}) /\ Cardinality(S \ {x}) = Cardinality(S)
    BY <1>2, FS_RemoveElement
  <2>2. Cardinality(S) \in Nat  BY FS_CardinalityType
  <2>3. One(x \in S) = 0  BY <1>2 DEF One
  <2> QED  BY <2>1, <2>2, <2>3
<1> QED  BY <1>1, <1>2

LEMMA SplitsCounted ==
  ASSUME NEW S, S \subseteq SplitSet
  PROVE  Cardinality(S) =
           One("train" \in S) + One("val" \in S) + One("test" \in S)
<1>1. IsFiniteSet(S)  BY SplitsFinite, FS_Subset
<1> DEFINE S1 == S \ {"train"}
           S2 == S1 \ {"val"}
           S3 == S2 \ {"test"}
<1>2. /\ IsFiniteSet(S1) /\ Cardinality(S1) \in Nat
      /\ Cardinality(S) = Cardinality(S1) + One("train" \in S)
  BY <1>1, WithoutOne
<1>3. /\ IsFiniteSet(S2) /\ Cardinality(S2) \in Nat
      /\ Cardinality(S1) = Cardinality(S2) + One("val" \in S1)
  BY <1>2, WithoutOne
<1>4. /\ Cardinality(S3) \in Nat
      /\ Cardinality(S2) = Cardinality(S3) + One("test" \in S2)
  BY <1>3, WithoutOne
<1>5. S3 = {}  BY DEF SplitSet
<1>6. Cardinality(S3) = 0  BY <1>5, FS_EmptySet
<1>7. /\ "val" \in S1 <=> "val" \in S
      /\ "test" \in S2 <=> "test" \in S
  OBVIOUS
<1> HIDE DEF S1, S2, S3
<1>8. /\ Cardinality(S) = Cardinality(S1) + One("train" \in S)
      /\ Cardinality(S1) = Cardinality(S2) + One("val" \in S)
      /\ Cardinality(S2) = 0 + One("test" \in S)
  BY <1>2, <1>3, <1>4, <1>6, <1>7
<1>9. \A b : One(b) \in {0, 1}  BY DEF One
<1> QED  BY <1>8, <1>9

-----------------------------------------------------------------------------
(* The shares of n groups.                                                 *)
Shared(c, n) ==
  c \in [SplitSet -> Nat] /\ c["train"] + c["val"] + c["test"] = n

LEMMA WholeAre ==
  ASSUME NEW n \in Nat, NEW shares \in [SplitSet -> Nat], ValidRatios(shares)
  PROVE  /\ WholeShares(n, shares) \in [SplitSet -> Nat]
         /\ LET w == WholeShares(n, shares)
            IN  n - (w["train"] + w["val"] + w["test"]) \in 0..2
<1> DEFINE p(s) == n * shares[s]
           w(s) == p(s) \div 100
<1>1. ASSUME NEW s \in SplitSet
      PROVE  /\ p(s) \in Nat /\ w(s) \in Nat
             /\ 100 * w(s) <= p(s) /\ p(s) < 100 * w(s) + 100
  <2>1. shares[s] \in Nat  OBVIOUS
  <2>2. p(s) \in Nat  BY <2>1
  <2> HIDE DEF p
  <2> QED  BY <2>2
<1>2. p("train") + p("val") + p("test") = n * 100
  <2>1. PICK a \in Nat : a = shares["train"]  BY DEF SplitSet
  <2>2. PICK b \in Nat : b = shares["val"]  BY DEF SplitSet
  <2>3. PICK c \in Nat : c = shares["test"]  BY DEF SplitSet
  <2>4. a + b + c = 100  BY <2>1, <2>2, <2>3 DEF ValidRatios
  <2>5. n * (a + b + c) = n * a + n * b + n * c  OBVIOUS
  <2> QED  BY <2>1, <2>2, <2>3, <2>4, <2>5
<1>3. WholeShares(n, shares) = [s \in SplitSet |-> w(s)]  BY DEF WholeShares
<1>4. "train" \in SplitSet /\ "val" \in SplitSet /\ "test" \in SplitSet
  BY DEF SplitSet
<1> HIDE DEF p, w
<1>5. n - (w("train") + w("val") + w("test")) \in 0..2
  <2>1. PICK a, b, c \in Nat : a = w("train") /\ b = w("val") /\ c = w("test")
    BY <1>1, <1>4
  <2>2. PICK i, j, k \in Nat : i = p("train") /\ j = p("val") /\ k = p("test")
    BY <1>1, <1>4
  <2>3. /\ 100 * a <= i /\ i < 100 * a + 100
        /\ 100 * b <= j /\ j < 100 * b + 100
        /\ 100 * c <= k /\ k < 100 * c + 100
    BY <1>1, <1>4, <2>1, <2>2
  <2>4. i + j + k = n * 100  BY <1>2, <2>2
  <2>5. 0 <= n - (a + b + c) /\ n - (a + b + c) <= 2  BY <2>3, <2>4
  <2>6. n - (a + b + c) \in 0..2  BY <2>5
  <2> QED  BY <2>1, <2>6
<1> QED  BY <1>1, <1>3, <1>4, <1>5

LEMMA SharesAre ==
  ASSUME NEW n \in Nat, NEW shares \in [SplitSet -> Nat], ValidRatios(shares)
  PROVE  /\ Shared(Shares(n, shares), n)
         /\ \A s \in SplitSet :
              Shares(n, shares)[s] - WholeShares(n, shares)[s] \in {0, 1}
<1> DEFINE whole == WholeShares(n, shares)
           rest == n - (whole["train"] + whole["val"] + whole["test"])
           ahead(s, t) == Ahead(n, shares, s, t)
           rank(s) == Cardinality({t \in SplitSet : ahead(t, s)})
<1>1. whole \in [SplitSet -> Nat] /\ rest \in 0..2  BY WholeAre
<1>2. "train" \in SplitSet /\ "val" \in SplitSet /\ "test" \in SplitSet
  BY DEF SplitSet
<1>3. \A s \in SplitSet : n * shares[s] \in Nat /\ (n * shares[s]) % 100 \in Nat
  <2> SUFFICES ASSUME NEW s \in SplitSet
               PROVE  n * shares[s] \in Nat /\ (n * shares[s]) % 100 \in Nat
    OBVIOUS
  <2>1. PICK a \in Nat : a = shares[s]  OBVIOUS
  <2>2. PICK b \in Nat : b = n * a  OBVIOUS
  <2>3. b % 100 \in Nat  OBVIOUS
  <2> QED  BY <2>1, <2>2, <2>3
<1>4. /\ ~ahead("train", "train") /\ ~ahead("val", "val")
      /\ ~ahead("test", "test")
      /\ ahead("val", "train") <=> ~ahead("train", "val")
      /\ ahead("test", "train") <=> ~ahead("train", "test")
      /\ ahead("test", "val") <=> ~ahead("val", "test")
      /\ ahead("train", "val") /\ ahead("val", "test") => ahead("train", "test")
      /\ ahead("train", "test") => ahead("train", "val") \/ ahead("val", "test")
  <2>1. PICK a1, b1, c1 \in Nat : /\ a1 = (n * shares["train"]) % 100
                                  /\ b1 = (n * shares["val"]) % 100
                                  /\ c1 = (n * shares["test"]) % 100
    BY <1>2, <1>3
  <2>2. PICK a2, b2, c2 \in Nat : /\ a2 = shares["train"]
                                  /\ b2 = shares["val"]
                                  /\ c2 = shares["test"]
    BY <1>2
  <2> QED  BY <2>1, <2>2, PlacesAre DEF Ahead
<1> HIDE DEF ahead
<1>5. /\ rank("train") = One(ahead("val", "train")) + One(ahead("test", "train"))
      /\ rank("val") = One(ahead("train", "val")) + One(ahead("test", "val"))
      /\ rank("test") = One(ahead("train", "test")) + One(ahead("val", "test"))
  <2>1. ASSUME NEW s \in SplitSet
        PROVE  rank(s) = One(ahead("train", s)) + One(ahead("val", s))
                           + One(ahead("test", s))
    <3> DEFINE S == {t \in SplitSet : ahead(t, s)}
    <3>1. S \subseteq SplitSet  OBVIOUS
    <3>2. Cardinality(S) =
            One("train" \in S) + One("val" \in S) + One("test" \in S)
      <4> HIDE DEF S
      <4> QED  BY <3>1, SplitsCounted
    <3>3. /\ "train" \in S <=> ahead("train", s)
          /\ "val" \in S <=> ahead("val", s)
          /\ "test" \in S <=> ahead("test", s)
      BY <1>2
    <3>4. /\ One("train" \in S) = One(ahead("train", s))
          /\ One("val" \in S) = One(ahead("val", s))
          /\ One("test" \in S) = One(ahead("test", s))
      BY <3>3 DEF One
    <3> QED  BY <3>2, <3>4
  <2>2. \A s \in SplitSet : One(ahead(s, s)) = 0
    <3>1. \A s \in SplitSet : s \in {"train", "val", "test"}  BY DEF SplitSet
    <3> QED  BY <1>4, <3>1 DEF One
  <2>3. \A s, t : One(ahead(s, t)) \in {0, 1}  BY DEF One
  <2> HIDE DEF rank
  <2> QED  BY <1>2, <2>1, <2>2, <2>3
<1>6. Shares(n, shares) =
        [s \in SplitSet |-> whole[s] + (IF rank(s) < rest THEN 1 ELSE 0)]
  BY DEF Shares, ahead
<1> DEFINE extra(s) == IF rank(s) < rest THEN 1 ELSE 0
<1>7. extra("train") + extra("val") + extra("test") = rest
  <2>1. rest = 0 \/ rest = 1 \/ rest = 2  BY <1>1
  <2> HIDE DEF rank, rest
  <2> QED  BY <1>4, <1>5, <2>1 DEF One
<1>8. PICK a, b, c \in Nat :
        a = whole["train"] /\ b = whole["val"] /\ c = whole["test"]
  BY <1>1, <1>2
<1>9. rest = n - (a + b + c)  BY <1>8
<1>10. \A s \in SplitSet : extra(s) \in {0, 1} /\ whole[s] \in Nat
  BY <1>1
<1> HIDE DEF whole, rank, rest
<1>11. Shares(n, shares) = [s \in SplitSet |-> whole[s] + extra(s)]
  BY <1>6
<1> HIDE DEF extra
<1>12. Shares(n, shares) \in [SplitSet -> Nat]
  <2>1. \A s \in SplitSet : whole[s] + extra(s) \in Nat  BY <1>10
  <2> QED  BY <1>11, <2>1
<1>13. /\ Shares(n, shares)["train"] = a + extra("train")
       /\ Shares(n, shares)["val"] = b + extra("val")
       /\ Shares(n, shares)["test"] = c + extra("test")
  BY <1>2, <1>8, <1>11
<1>14. Shares(n, shares)["train"] + Shares(n, shares)["val"]
         + Shares(n, shares)["test"] = n
  BY <1>2, <1>7, <1>9, <1>10, <1>13
<1>15. \A s \in SplitSet : Shares(n, shares)[s] - whole[s] \in {0, 1}
  BY <1>10, <1>11
<1> QED  BY <1>12, <1>14, <1>15 DEF Shared, whole

LEMMA DonorIs ==
  ASSUME NEW c \in [SplitSet -> Nat]
  PROVE  /\ Donor(c) \in SplitSet
         /\ \A t \in SplitSet : c[t] <= c[Donor(c)]
<1> DEFINE best(d) == \A t \in SplitSet :
             \/ c[t] < c[d]
             \/ c[t] = c[d] /\ Place(d) <= Place(t)
<1>1. "train" \in SplitSet /\ "val" \in SplitSet /\ "test" \in SplitSet
  BY DEF SplitSet
<1>2. PICK i, j, k \in Nat : i = c["train"] /\ j = c["val"] /\ k = c["test"]
  BY <1>1
<1> DEFINE beats(d, t) == \/ c[t] < c[d]
                          \/ c[t] = c[d] /\ Place(d) <= Place(t)
<1>3. \A d : best(d) <=> beats(d, "train") /\ beats(d, "val") /\ beats(d, "test")
  <2> SUFFICES ASSUME NEW d
               PROVE  best(d) <=> /\ beats(d, "train") /\ beats(d, "val")
                                  /\ beats(d, "test")
    OBVIOUS
  <2>1. \A t \in SplitSet : t = "train" \/ t = "val" \/ t = "test"
    BY DEF SplitSet
  <2>2. best(d) <=> \A t \in SplitSet : beats(d, t)  OBVIOUS
  <2> HIDE DEF best, beats
  <2> QED  BY <1>1, <2>1, <2>2
<1>4. /\ best("train") <=> j <= i /\ k <= i
      /\ best("val") <=> i < j /\ k <= j
      /\ best("test") <=> i < k /\ j < k
  <2>0. /\ ~(Place("val") <= Place("train")) /\ Place("val") <= Place("val")
        /\ Place("val") <= Place("test") /\ Place("test") <= Place("test")
        /\ ~(Place("test") <= Place("train")) /\ ~(Place("test") <= Place("val"))
    BY PlacesAre
  <2>1. /\ beats("train", "train")
        /\ beats("train", "val") <=> j <= i
        /\ beats("train", "test") <=> k <= i
    BY <1>2, PlacesAre
  <2>2. /\ beats("val", "train") <=> i < j
        /\ beats("val", "val")
        /\ beats("val", "test") <=> k <= j
    BY <1>2, <2>0
  <2>3. /\ beats("test", "train") <=> i < k
        /\ beats("test", "val") <=> j < k
        /\ beats("test", "test")
    BY <1>2, <2>0
  <2> HIDE DEF best, beats
  <2> QED  BY <1>3, <2>1, <2>2, <2>3
<1>5. \E d \in SplitSet : best(d)
  <2> HIDE DEF best
  <2> QED  BY <1>1, <1>4
<1>6. Donor(c) = CHOOSE d \in SplitSet : best(d)  BY DEF Donor
<1>7. Donor(c) \in SplitSet /\ best(Donor(c))
  <2> HIDE DEF best
  <2> QED  BY <1>5, <1>6
<1> QED  BY <1>7

LEMMA GiveOneIs ==
  ASSUME NEW n \in Nat, NEW c, Shared(c, n), NEW s \in SplitSet
  PROVE  /\ Shared(GiveOne(c, s), n)
         /\ \A t \in SplitSet : c[t] >= 1 => GiveOne(c, s)[t] >= 1
         /\ \A t \in SplitSet : c[t] = 1 => GiveOne(c, s)[t] = 1
         /\ n >= 3 => GiveOne(c, s)[s] >= 1
         /\ GiveOne(c, s) = c \/ (c[s] = 0 /\ GiveOne(c, s)[s] = 1)
<1>1. c \in [SplitSet -> Nat] /\ c["train"] + c["val"] + c["test"] = n
  BY DEF Shared
<1>2. "train" \in SplitSet /\ "val" \in SplitSet /\ "test" \in SplitSet
  BY DEF SplitSet
<1>3. PICK d \in SplitSet : d = Donor(c) /\ \A t \in SplitSet : c[t] <= c[d]
  BY <1>1, DonorIs
<1>4. CASE c[s] = 0 /\ c[d] > 1
  <2>1. PICK g : g = [c EXCEPT ![d] = @ - 1, ![s] = @ + 1]  OBVIOUS
  <2>2. GiveOne(c, s) = g  BY <1>3, <1>4, <2>1 DEF GiveOne
  <2>3. d # s  BY <1>4
  <2>4. g \in [SplitSet -> Nat]
    <3>1. c[d] - 1 \in Nat /\ c[s] + 1 \in Nat  BY <1>1, <1>4
    <3> QED  BY <1>1, <2>1, <2>3, <3>1
  <2>5. /\ g[s] = 1 /\ g[d] = c[d] - 1
        /\ \A t \in SplitSet : t # s /\ t # d => g[t] = c[t]
    BY <1>1, <1>4, <2>1, <2>3
  <2>6. \A t \in SplitSet : c[t] \in Nat /\ g[t] \in Nat  BY <1>1, <2>4
  <2>7. g["train"] + g["val"] + g["test"] = n
    <3>1. s \in {"train", "val", "test"} /\ d \in {"train", "val", "test"}
      BY DEF SplitSet
    <3> QED  BY <1>1, <1>2, <1>4, <2>3, <2>5, <2>6, <3>1
  <2>8. \A t \in SplitSet : c[t] >= 1 => g[t] >= 1
    BY <1>4, <2>5, <2>6
  <2>9. \A t \in SplitSet : c[t] = 1 => g[t] = 1
    BY <1>4, <2>5, <2>6
  <2> QED  BY <1>4, <2>2, <2>4, <2>5, <2>7, <2>8, <2>9 DEF Shared
<1>5. CASE ~(c[s] = 0 /\ c[d] > 1)
  <2>1. GiveOne(c, s) = c  BY <1>3, <1>5 DEF GiveOne
  <2>2. n >= 3 => c[s] >= 1
    <3>1. c["train"] <= c[d] /\ c["val"] <= c[d] /\ c["test"] <= c[d]
      BY <1>2, <1>3
    <3>2. c["train"] \in Nat /\ c["val"] \in Nat /\ c["test"] \in Nat
          /\ c[d] \in Nat /\ c[s] \in Nat
      BY <1>1, <1>2
    <3>3. s \in {"train", "val", "test"}  BY DEF SplitSet
    <3> QED  BY <1>1, <1>5, <3>1, <3>2, <3>3
  <2> QED  BY <2>1, <2>2
<1> QED  BY <1>4, <1>5

(* The groups of a label are shared out within one of their ratio, unless  *)
(* a split had to be given its first.                                      *)
LEMMA CountsAre ==
  ASSUME NEW n \in Nat, NEW shares \in [SplitSet -> Nat], ValidRatios(shares)
  PROVE  /\ Shared(SplitGroupCounts(n, shares), n)
         /\ SharedOut(SplitGroupCounts(n, shares), n, shares)
<1> DEFINE zero == Shares(n, shares)
           whole == WholeShares(n, shares)
           first == GiveOne(zero, "train")
           second == GiveOne(first, "val")
           third == GiveOne(second, "test")
<1>1. "train" \in SplitSet /\ "val" \in SplitSet /\ "test" \in SplitSet
  BY DEF SplitSet
<1>2. /\ whole \in [SplitSet -> Nat] /\ Shared(zero, n)
      /\ \A s \in SplitSet : zero[s] - whole[s] \in {0, 1}
  BY WholeAre, SharesAre
<1>3. SplitGroupCounts(n, shares) = IF n >= 3 THEN third ELSE zero
  BY DEF SplitGroupCounts
<1>4. ASSUME NEW c, Shared(c, n), c = zero \/ \E t \in SplitSet : whole[t] = 0 /\ c[t] = 1,
             n >= 3 => \A s \in SplitSet : c[s] >= 1
      PROVE  SharedOut(c, n, shares)
  <2>1. c["train"] + c["val"] + c["test"] = n  BY <1>4 DEF Shared
  <2>2. \A s \in SplitSet : n >= 3 => c[s] >= 1  BY <1>4
  <2>3. ASSUME NEW s \in SplitSet
        PROVE  \/ c[s] - whole[s] \in {0, 1}
               \/ \E t \in SplitSet : whole[t] = 0 /\ c[t] = 1
    BY <1>2, <1>4
  <2> QED  BY <2>1, <2>2, <2>3 DEF SharedOut
<1>5. CASE n < 3
  <2>1. SplitGroupCounts(n, shares) = zero  BY <1>3, <1>5
  <2>2. ~(n >= 3)  BY <1>5
  <2> QED  BY <1>2, <1>4, <2>1, <2>2
<1>6. CASE n >= 3
  <2>1. SplitGroupCounts(n, shares) = third  BY <1>3, <1>6
  <2> HIDE DEF zero, whole, first, second, third
  <2>2. /\ Shared(first, n)
        /\ first["train"] >= 1
        /\ first = zero \/ (zero["train"] = 0 /\ first["train"] = 1)
    <3>1. Shared(zero, n)  BY <1>2
    <3>2. /\ Shared(first, n)
          /\ \A t \in SplitSet : zero[t] >= 1 => first[t] >= 1
          /\ \A t \in SplitSet : zero[t] = 1 => first[t] = 1
          /\ first["train"] >= 1
          /\ first = zero \/ (zero["train"] = 0 /\ first["train"] = 1)
      BY <1>1, <1>6, <3>1, GiveOneIs DEF first
    <3> QED  BY <1>1, <1>2, <3>2
  <2>3. /\ Shared(second, n)
        /\ second["train"] >= 1 /\ second["val"] >= 1
        /\ second = first \/ (first["val"] = 0 /\ second["val"] = 1)
        /\ first["train"] = 1 => second["train"] = 1
    <3>1. Shared(first, n)  BY <2>2
    <3>2. /\ Shared(second, n)
          /\ \A t \in SplitSet : first[t] >= 1 => second[t] >= 1
          /\ \A t \in SplitSet : first[t] = 1 => second[t] = 1
          /\ second["val"] >= 1
          /\ second = first \/ (first["val"] = 0 /\ second["val"] = 1)
      BY <1>1, <1>6, <3>1, GiveOneIs DEF second
    <3> QED  BY <1>1, <2>2, <3>2
  <2>4. /\ Shared(third, n)
        /\ third["train"] >= 1 /\ third["val"] >= 1 /\ third["test"] >= 1
        /\ third = second \/ (second["test"] = 0 /\ third["test"] = 1)
        /\ second["train"] = 1 => third["train"] = 1
        /\ second["val"] = 1 => third["val"] = 1
    <3>1. Shared(second, n)  BY <2>3
    <3>2. /\ Shared(third, n)
          /\ \A t \in SplitSet : second[t] >= 1 => third[t] >= 1
          /\ \A t \in SplitSet : second[t] = 1 => third[t] = 1
          /\ third["test"] >= 1
          /\ third = second \/ (second["test"] = 0 /\ third["test"] = 1)
      BY <1>1, <1>6, <3>1, GiveOneIs DEF third
    <3> QED  BY <1>1, <2>3, <3>2
  <2>5. \A s \in SplitSet : third[s] >= 1
    <3>1. \A s \in SplitSet : s = "train" \/ s = "val" \/ s = "test"
      BY DEF SplitSet
    <3> QED  BY <2>4, <3>1
  <2>6. \A s \in SplitSet : zero[s] = 0 => whole[s] = 0
    <3>1. ASSUME NEW s \in SplitSet, zero[s] = 0 PROVE whole[s] = 0
      <4>1. whole[s] \in Nat /\ 0 - whole[s] \in {0, 1}  BY <1>2, <3>1
      <4> QED  BY <4>1
    <3> QED  BY <3>1
  <2>7. third = zero \/ \E t \in SplitSet : whole[t] = 0 /\ third[t] = 1
    BY <1>1, <2>2, <2>3, <2>4, <2>6
  <2> QED  BY <1>4, <2>1, <2>4, <2>5, <2>7
<1> QED  BY <1>5, <1>6

-----------------------------------------------------------------------------
(* The groups of a label in shuffled order, dealt out in three runs.       *)
Slot(k, c) ==
  IF k <= c["train"] THEN "train"
  ELSE IF k <= c["train"] + c["val"] THEN "val" ELSE "test"

LEMMA RunsCounted ==
  ASSUME NEW n \in Nat, NEW c, Shared(c, n), NEW s \in SplitSet
  PROVE  Cardinality({k \in 1..n : Slot(k, c) = s}) = c[s]
<1>1. "train" \in SplitSet /\ "val" \in SplitSet /\ "test" \in SplitSet
  BY DEF SplitSet
<1>2. PICK i, j, k \in Nat : i = c["train"] /\ j = c["val"] /\ k = c["test"]
  BY <1>1 DEF Shared
<1>3. i + j + k = n  BY <1>2 DEF Shared
<1>4. CASE s = "train"
  <2>1. {x \in 1..n : Slot(x, c) = s} = 1..i
    BY <1>2, <1>3, <1>4 DEF Slot
  <2>2. Cardinality(1..i) = i  BY FS_Interval
  <2> QED  BY <1>2, <1>4, <2>1, <2>2
<1>5. CASE s = "val"
  <2>1. {x \in 1..n : Slot(x, c) = s} = (i + 1)..(i + j)
    BY <1>2, <1>3, <1>5 DEF Slot
  <2>2. Cardinality((i + 1)..(i + j)) = j
    <3>1. i + 1 \in Int /\ i + j \in Int  OBVIOUS
    <3>2. Cardinality((i + 1)..(i + j)) =
            IF i + 1 > i + j THEN 0 ELSE (i + j) - (i + 1) + 1
      BY <3>1, FS_Interval
    <3> QED  BY <3>2
  <2> QED  BY <1>2, <1>5, <2>1, <2>2
<1>6. CASE s = "test"
  <2>1. {x \in 1..n : Slot(x, c) = s} = (i + j + 1)..n
    BY <1>2, <1>3, <1>6 DEF Slot
  <2>2. Cardinality((i + j + 1)..n) = k
    <3>1. i + j + 1 \in Int /\ n \in Int  OBVIOUS
    <3>2. Cardinality((i + j + 1)..n) =
            IF i + j + 1 > n THEN 0 ELSE n - (i + j + 1) + 1
      BY <3>1, FS_Interval
    <3> QED  BY <1>3, <3>2
  <2> QED  BY <1>2, <1>6, <2>1, <2>2
<1>7. s = "train" \/ s = "val" \/ s = "test"  BY DEF SplitSet
<1> QED  BY <1>4, <1>5, <1>6, <1>7

LEMMA ImageFinite ==
  ASSUME NEW S, IsFiniteSet(S), NEW f, DOMAIN f = S
  PROVE  IsFiniteSet({f[x] : x \in S})
<1> DEFINE T == {f[x] : x \in S}
           g == [x \in S |-> f[x]]
<1>1. g \in Surjection(S, T)  BY DEF Surjection
<1> HIDE DEF g, T
<1>2. IsFiniteSet(T)  BY <1>1, FS_Surjection
<1> QED  BY <1>2 DEF T

LEMMA ImageCounted ==
  ASSUME NEW S, NEW T, NEW f \in Injection(S, T), NEW K, K \subseteq S,
         IsFiniteSet(K), NEW I, \A x : x \in I <=> \E k \in K : x = f[k]
  PROVE  Cardinality(I) = Cardinality(K)
<1> DEFINE g == [k \in K |-> f[k]]
<1>1. g \in Surjection(K, I)  BY DEF Surjection
<1>2. g \in Injection(K, I)
  <2>1. f \in [S -> T] /\ \A a, b \in S : f[a] = f[b] => a = b
    BY DEF Injection, IsInjective
  <2>2. g \in [K -> I]  OBVIOUS
  <2>3. \A a, b \in K : g[a] = g[b] => a = b  BY <2>1
  <2> HIDE DEF g
  <2> QED  BY <2>2, <2>3 DEF Injection, IsInjective
<1> HIDE DEF g
<1> QED  BY <1>1, <1>2, FS_Surjection

LEMMA ShuffledIs ==
  ASSUME NEW S, IsFiniteSet(S), NEW q \in SetToSeqs(S)
  PROVE  /\ Cardinality(S) \in Nat
         /\ Len(q) = Cardinality(S) /\ DOMAIN q = 1..Cardinality(S)
         /\ q \in Injection(1..Cardinality(S), S)
         /\ \A g \in S : \E k \in 1..Cardinality(S) : q[k] = g
<1>1. PICK n \in Nat : n = Cardinality(S)  BY FS_CardinalityType
<1>2. q \in [1..n -> S] /\ \A i, j \in 1..n : i # j => q[i] # q[j]
  BY <1>1 DEF SetToSeqs
<1>3. q \in Injection(1..n, S)  BY <1>2 DEF Injection, IsInjective
<1>4. Cardinality(1..n) = n  BY FS_Interval
<1>5. q \in Surjection(1..n, S)  BY <1>1, <1>3, <1>4, FS_Injection
<1>6. \A g \in S : \E k \in 1..n : q[k] = g  BY <1>5 DEF Surjection
<1>7. Len(q) = n  BY <1>2, LenProperties
<1> QED  BY <1>1, <1>2, <1>3, <1>6, <1>7

(* Every record is in a group of its label.                                *)
LEMMA LabelOfGroup ==
  ASSUME NEW records, NEW m \in Nat, DOMAIN records = 1..m,
         \A g \in GroupsOf(records) : Cardinality(LabelsOf(records, g)) = 1
  PROVE  /\ IsFiniteSet(GroupsOf(records))
         /\ \A i \in 1..m :
              LabelsOf(records, records[i].group) = {records[i].label}
<1>1. IsFiniteSet(1..m)  BY FS_Interval
<1>2. IsFiniteSet(GroupsOf(records))
  <2> DEFINE f == [i \in 1..m |-> records[i].group]
  <2>1. GroupsOf(records) = {f[i] : i \in 1..m}  BY DEF GroupsOf
  <2>2. DOMAIN f = 1..m  OBVIOUS
  <2> HIDE DEF f
  <2> QED  BY <1>1, <2>1, <2>2, ImageFinite
<1>3. ASSUME NEW i \in 1..m
      PROVE  LabelsOf(records, records[i].group) = {records[i].label}
  <2> DEFINE g == records[i].group
             S == InGroup(records, g)
             f == [j \in S |-> records[j].label]
  <2>1. S \subseteq 1..m /\ i \in S  BY DEF InGroup
  <2>2. LabelsOf(records, g) = {f[j] : j \in S}  BY DEF LabelsOf
  <2>3. DOMAIN f = S  OBVIOUS
  <2>4. records[i].label \in LabelsOf(records, g)  BY <2>1 DEF LabelsOf
  <2>5. g \in GroupsOf(records)  BY DEF GroupsOf
  <2> HIDE DEF f, S, g
  <2>6. IsFiniteSet(S)  BY <1>1, <2>1, FS_Subset
  <2>7. IsFiniteSet(LabelsOf(records, g))  BY <2>2, <2>3, <2>6, ImageFinite
  <2>8. PICK x : LabelsOf(records, g) = {x}  BY <2>5, <2>7, FS_Singleton
  <2>9. LabelsOf(records, g) = {records[i].label}  BY <2>4, <2>8
  <2> QED  BY <2>9 DEF g
<1> QED  BY <1>2, <1>3

(* What make_grouped_stratified_split makes of groups of one label each.   *)
LEMMA SplitIs ==
  ASSUME NEW records, NEW m \in Nat, DOMAIN records = 1..m,
         \A g \in GroupsOf(records) : Cardinality(LabelsOf(records, g)) = 1,
         NEW shuffled \in Shuffles(records),
         NEW shares \in [SplitSet -> Nat], ValidRatios(shares)
  PROVE  LET split == GroupedSplit(records, shuffled, shares)
         IN  /\ split \in [1..m -> SplitSet]
             /\ \A i, j \in 1..m :
                  records[i].group = records[j].group => split[i] = split[j]
             /\ \A l \in AllLabels(records), s \in SplitSet :
                  /\ Cardinality(GroupsOfLabel(records, l)) \in Nat
                  /\ Cardinality(GroupsIn(records, split, s, l)) =
                       SplitGroupCounts(
                         Cardinality(GroupsOfLabel(records, l)), shares)[s]
<1> DEFINE L(i) == records[i].label
           n(l) == Cardinality(GroupsOfLabel(records, l))
           due(l) == SplitGroupCounts(n(l), shares)
           at(i) == CHOOSE k \in DOMAIN shuffled[L(i)] :
                      shuffled[L(i)][k] = records[i].group
           split == GroupedSplit(records, shuffled, shares)
<1>1. /\ IsFiniteSet(GroupsOf(records))
      /\ \A i \in 1..m :
           LabelsOf(records, records[i].group) = {records[i].label}
  BY LabelOfGroup
<1>2. \A i \in 1..m : L(i) \in AllLabels(records)  BY DEF AllLabels
<1>3. \A i \in 1..m : records[i].group \in GroupsOfLabel(records, L(i))
  <2>1. \A i \in 1..m : records[i].group \in GroupsOf(records)
    BY DEF GroupsOf
  <2> QED  BY <1>1, <2>1 DEF GroupsOfLabel
<1>4. ASSUME NEW l \in AllLabels(records)
      PROVE  /\ n(l) \in Nat /\ Len(shuffled[l]) = n(l)
             /\ DOMAIN shuffled[l] = 1..n(l)
             /\ shuffled[l] \in Injection(1..n(l), GroupsOfLabel(records, l))
             /\ \A g \in GroupsOfLabel(records, l) :
                  \E k \in 1..n(l) : shuffled[l][k] = g
  <2>1. shuffled[l] \in SetToSeqs(GroupsOfLabel(records, l))  BY DEF Shuffles
  <2>2. GroupsOfLabel(records, l) \subseteq GroupsOf(records)
    BY DEF GroupsOfLabel
  <2>3. IsFiniteSet(GroupsOfLabel(records, l))  BY <1>1, <2>2, FS_Subset
  <2> QED  BY <2>1, <2>3, ShuffledIs
<1>5. ASSUME NEW l \in AllLabels(records)
      PROVE  /\ \A k \in 1..n(l) : shuffled[l][k] \in GroupsOfLabel(records, l)
             /\ \A j, k \in 1..n(l) : shuffled[l][j] = shuffled[l][k] => j = k
  BY <1>4 DEF Injection, IsInjective
<1>6. ASSUME NEW i \in 1..m
      PROVE  /\ at(i) \in 1..n(L(i))
             /\ shuffled[L(i)][at(i)] = records[i].group
  <2>1. \E k \in 1..n(L(i)) : shuffled[L(i)][k] = records[i].group
    BY <1>2, <1>3, <1>4
  <2>2. DOMAIN shuffled[L(i)] = 1..n(L(i))  BY <1>2, <1>4
  <2> HIDE DEF L, n
  <2> QED  BY <2>1, <2>2
<1>7. split = [i \in 1..m |-> Slot(at(i), due(L(i)))]
  <2>1. ~\E g \in GroupsOf(records) : Cardinality(LabelsOf(records, g)) # 1
    OBVIOUS
  <2>2. split = [i \in 1..m |->
                   DealGroups(records, shuffled[L(i)],
                              SplitGroupCounts(Len(shuffled[L(i)]), shares))[i]]
    BY <2>1 DEF GroupedSplit
  <2>3. ASSUME NEW i \in 1..m
        PROVE  DealGroups(records, shuffled[L(i)],
                          SplitGroupCounts(Len(shuffled[L(i)]), shares))[i]
               = Slot(at(i), due(L(i)))
    <3>1. Len(shuffled[L(i)]) = n(L(i))  BY <1>2, <1>4
    <3>2. records[i].group \in ToSet(shuffled[L(i)])
      <4>1. at(i) \in DOMAIN shuffled[L(i)]  BY <1>2, <1>4, <1>6
      <4> HIDE DEF at, L
      <4> QED  BY <1>6, <4>1 DEF ToSet
    <3>3. i \in {j \in DOMAIN records :
                  records[j].group \in ToSet(shuffled[L(i)])}
      BY <3>2
    <3> QED  BY <3>1, <3>3 DEF DealGroups, Slot
  <2> HIDE DEF split, L, due, at
  <2> QED  BY <2>2, <2>3
<1>8. \A i \in 1..m : split[i] = Slot(at(i), due(L(i)))
  <2> HIDE DEF split, L, due, at
  <2> QED  BY <1>7
<1>9. split \in [1..m -> SplitSet]
  <2>1. \A k, c : Slot(k, c) \in SplitSet  BY DEF Slot, SplitSet
  <2> HIDE DEF split, L, due, at
  <2> QED  BY <1>7, <2>1
<1>10. ASSUME NEW i \in 1..m, NEW j \in 1..m,
              records[i].group = records[j].group
       PROVE  split[i] = split[j]
  <2>1. L(i) = L(j)
    <3>1. {records[i].label} = {records[j].label}  BY <1>1, <1>10
    <3> QED  BY <3>1
  <2>2. at(i) = at(j)  BY <1>10, <2>1
  <2> HIDE DEF split, L, due, at
  <2> QED  BY <1>8, <2>1, <2>2
<1>11. ASSUME NEW l \in AllLabels(records), NEW s \in SplitSet
       PROVE  Cardinality(GroupsIn(records, split, s, l)) = due(l)[s]
  <2> DEFINE K == {k \in 1..n(l) : Slot(k, due(l)) = s}
             I == {shuffled[l][k] : k \in K}
  <2>1. ASSUME NEW i \in 1..m, split[i] = s, L(i) = l
        PROVE  records[i].group \in I
    <3>1. at(i) \in 1..n(l) /\ shuffled[l][at(i)] = records[i].group
      BY <1>6, <2>1
    <3>2. Slot(at(i), due(l)) = s  BY <1>8, <2>1
    <3> HIDE DEF at, due, n, split
    <3> QED  BY <3>1, <3>2
  <2>2. ASSUME NEW k \in K
        PROVE  \E i \in 1..m : /\ split[i] = s /\ L(i) = l
                               /\ records[i].group = shuffled[l][k]
    <3>1. k \in 1..n(l) /\ Slot(k, due(l)) = s  OBVIOUS
    <3>2. shuffled[l][k] \in GroupsOfLabel(records, l)  BY <1>5, <3>1
    <3>3. PICK i \in 1..m : records[i].group = shuffled[l][k]
      BY <3>2 DEF GroupsOfLabel, GroupsOf
    <3>4. L(i) = l
      <4>1. LabelsOf(records, records[i].group) = {l}
        BY <3>2, <3>3 DEF GroupsOfLabel
      <4> QED  BY <1>1, <4>1
    <3>5. at(i) = k
      <4>1. at(i) \in 1..n(l) /\ shuffled[l][at(i)] = shuffled[l][k]
        BY <1>6, <3>3, <3>4
      <4> HIDE DEF at, n, L
      <4> QED  BY <1>5, <3>1, <4>1
    <3>6. split[i] = s  BY <1>8, <3>1, <3>4, <3>5
    <3> HIDE DEF split, L, at, due, n
    <3> QED  BY <3>3, <3>4, <3>6
  <2>3. GroupsIn(records, split, s, l) = I
    <3>1. GroupsIn(records, split, s, l) =
            {records[i].group : i \in {j \in 1..m : split[j] = s /\ L(j) = l}}
      BY DEF GroupsIn
    <3> HIDE DEF split, L, at, due, n, K
    <3> QED  BY <2>1, <2>2, <3>1
  <2>4. Cardinality(I) = Cardinality(K)
    <3>1. K \subseteq 1..n(l)  OBVIOUS
    <3>2. n(l) \in Nat  BY <1>4
    <3>3. shuffled[l] \in Injection(1..n(l), GroupsOfLabel(records, l))
      BY <1>4
    <3> HIDE DEF n, K
    <3>4. IsFiniteSet(1..n(l))  BY <3>2, FS_Interval
    <3>5. IsFiniteSet(K)  BY <3>1, <3>4, FS_Subset
    <3>6. \A x : x \in I <=> \E k \in K : x = shuffled[l][k]
      OBVIOUS
    <3> HIDE DEF I
    <3>7. PICK f, D, T : /\ f = shuffled[l] /\ D = 1..n(l)
                         /\ T = GroupsOfLabel(records, l)
      OBVIOUS
    <3>8. /\ f \in Injection(D, T) /\ K \subseteq D
          /\ \A x : x \in I <=> \E k \in K : x = f[k]
      BY <3>1, <3>3, <3>6, <3>7
    <3> QED  BY <3>5, <3>8, ImageCounted
  <2>5. Cardinality(K) = due(l)[s]
    <3>1. n(l) \in Nat  BY <1>4
    <3> HIDE DEF n
    <3>2. Shared(due(l), n(l))  BY <3>1, CountsAre
    <3> HIDE DEF due
    <3> QED  BY <3>1, <3>2, RunsCounted
  <2> QED  BY <2>3, <2>4, <2>5
<1> QED  BY <1>4, <1>9, <1>10, <1>11

(* Splits of any records keep every group whole, whatever the outcome of   *)
(* the shuffles; those of a sound dataset are always made, and share the   *)
(* groups of each label out as they should (make_grouped_stratified_split, *)
(* split_group_counts, validate_splits).                                   *)
THEOREM SplitsAlwaysKeepGroups ==
  ASSUME NEW dirs, NEW records, records = LoadRecords(dirs),
         records # SplitError =>
           \E m \in Nat : /\ DOMAIN records = 1..m /\ Len(records) = m
                         /\ \A i \in 1..m : records[i].label \in STRING,
         NEW shuffled \in Shuffles(records),
         NEW shares \in [SplitSet -> Nat], NEW allTest \in BOOLEAN
  PROVE  SplitsKeepGroups(dirs, shares, allTest,
                          MakeSplits(dirs, shuffled, shares, allTest))
<1> DEFINE split == IF allTest THEN AllTest(records)
                    ELSE GroupedSplit(records, shuffled, shares)
           made == MakeSplits(dirs, shuffled, shares, allTest)
           absent == MissingLabels(records, split)
<1>1. made = IF \/ records = SplitError \/ split = SplitError
                \/ ~Valid(records, split)
             THEN SplitError ELSE [split |-> split, missing |-> absent]
  BY DEF MakeSplits
<1>2. CASE records = SplitError
  <2>1. made = SplitError  BY <1>1, <1>2
  <2>2. ~Sound(records, shares)  BY <1>2 DEF Sound
  <2> QED  BY <2>1, <2>2 DEF SplitsKeepGroups
<1>3. CASE records # SplitError
  <2>1. PICK m \in Nat : /\ DOMAIN records = 1..m /\ Len(records) = m
                        /\ \A i \in 1..m : records[i].label \in STRING
    BY <1>3
  <2> DEFINE oneLabel == \A g \in GroupsOf(records) :
                           Cardinality(LabelsOf(records, g)) = 1
             n(l) == Cardinality(GroupsOfLabel(records, l))
             c(l) == SplitGroupCounts(n(l), shares)
  <2>2. ASSUME oneLabel, ValidRatios(shares), ~allTest
        PROVE  /\ split \in [1..m -> SplitSet]
               /\ \A i, j \in 1..m :
                    records[i].group = records[j].group => split[i] = split[j]
               /\ \A l \in AllLabels(records) :
                    /\ n(l) \in Nat
                    /\ \A s \in SplitSet :
                         Cardinality(GroupsIn(records, split, s, l)) = c(l)[s]
    <3> DEFINE q == GroupedSplit(records, shuffled, shares)
    <3>1. /\ q \in [1..m -> SplitSet]
          /\ \A i, j \in 1..m :
               records[i].group = records[j].group => q[i] = q[j]
          /\ \A l \in AllLabels(records), s \in SplitSet :
               /\ n(l) \in Nat
               /\ Cardinality(GroupsIn(records, q, s, l)) = c(l)[s]
      BY <2>1, <2>2, SplitIs
    <3>2. split = q  BY <2>2
    <3>3. "test" \in SplitSet  BY DEF SplitSet
    <3> HIDE DEF split, q, n, c
    <3> QED  BY <3>1, <3>2, <3>3
  <2>3. ASSUME Sound(records, shares)
        PROVE  /\ split \in [1..m -> SplitSet]
               /\ \A i, j \in 1..m :
                    records[i].group = records[j].group => split[i] = split[j]
    <3>1. CASE allTest
      <4>1. split = [i \in 1..m |-> "test"]  BY <2>1, <3>1 DEF AllTest
      <4> HIDE DEF split
      <4> QED  BY <4>1 DEF SplitSet
    <3>2. CASE ~allTest
      <4>1. oneLabel /\ ValidRatios(shares)  BY <2>3 DEF Sound
      <4> QED  BY <2>2, <3>2, <4>1
    <3> QED  BY <3>1, <3>2
  <2>4. ASSUME Sound(records, shares), NEW i \in 1..m, NEW j \in 1..m,
               records[i].workload = records[j].workload
        PROVE  i = j
    <3> DEFINE W == {records[k].workload : k \in DOMAIN records}
               f == [k \in 1..m |-> records[k].workload]
    <3>1. Cardinality(W) = m  BY <2>1, <2>4 DEF Sound
    <3>2. f \in Surjection(1..m, W)  BY <2>1 DEF Surjection
    <3>3. f[i] = f[j] /\ DOMAIN f = 1..m  BY <2>4
    <3> HIDE DEF W, f
    <3>4. IsFiniteSet(1..m) /\ Cardinality(1..m) = m  BY FS_Interval
    <3>5. f \in Injection(1..m, W)
      BY <3>1, <3>2, <3>4, FS_SurjSameCardinalityImpliesInj
    <3> QED  BY <3>3, <3>5 DEF Injection, IsInjective
  <2>5. ASSUME Sound(records, shares) PROVE made # SplitError
    <3>1. Valid(records, split)
      <4> HIDE DEF split
      <4> QED  BY <2>1, <2>3, <2>4, <2>5 DEF Valid
    <3>2. split \in Seq(SplitSet)
      <4> HIDE DEF split
      <4> QED  BY <2>3, <2>5, SeqDef
    <3>3. absent \in SUBSET (SplitSet \X STRING)
      <4>1. AllLabels(records) \subseteq STRING  BY <2>1 DEF AllLabels
      <4>2. absent \subseteq SplitSet \X AllLabels(records)
        BY DEF MissingLabels
      <4> HIDE DEF absent
      <4> QED  BY <4>1, <4>2
    <3> HIDE DEF split, absent, made
    <3>4. [split |-> split, missing |-> absent]
            \in [split : Seq(SplitSet), missing : SUBSET (SplitSet \X STRING)]
      BY <3>2, <3>3
    <3>5. split # SplitError  BY <3>2, SplitAssumption
    <3>6. [split |-> split, missing |-> absent] # SplitError
      BY <3>4, SplitAssumption
    <3> QED  BY <1>1, <1>3, <3>1, <3>5, <3>6
  <2>6. ASSUME made # SplitError
        PROVE  /\ made.split = split /\ made.missing = absent
               /\ split # SplitError /\ Valid(records, split)
    <3>1. made = [split |-> split, missing |-> absent]
          /\ split # SplitError /\ Valid(records, split)
      BY <1>1, <2>6
    <3> HIDE DEF split, absent, made
    <3> QED  BY <3>1
  <2>7. ASSUME made # SplitError, ~allTest, NEW l \in AllLabels(records)
        PROVE  LET size == [s \in SplitSet |->
                              Cardinality(GroupsIn(records, made.split, s, l))]
               IN  /\ SharedOut(size, n(l), shares)
                   /\ n(l) >= 3 => \A s \in SplitSet : <<s, l>> \notin made.missing
    <3> DEFINE size == [s \in SplitSet |->
                          Cardinality(GroupsIn(records, made.split, s, l))]
    <3>1. oneLabel /\ ValidRatios(shares)
      <4>1. GroupedSplit(records, shuffled, shares) # SplitError
        BY <2>6, <2>7
      <4> QED  BY <4>1 DEF GroupedSplit
    <3>2. /\ n(l) \in Nat
          /\ \A s \in SplitSet :
               Cardinality(GroupsIn(records, made.split, s, l)) = c(l)[s]
      BY <2>2, <2>6, <2>7, <3>1
    <3> HIDE DEF n, made, split
    <3>3. Shared(c(l), n(l)) /\ SharedOut(c(l), n(l), shares)
      BY <3>1, <3>2, CountsAre
    <3> HIDE DEF c
    <3>4. size = c(l)  BY <3>2, <3>3 DEF Shared
    <3>5. ASSUME n(l) >= 3, NEW s \in SplitSet
          PROVE  <<s, l>> \notin made.missing
      <4>1. c(l)[s] >= 1  BY <3>3, <3>5 DEF SharedOut
      <4>2. GroupsIn(records, made.split, s, l) # {}
        <5>1. Cardinality(GroupsIn(records, made.split, s, l)) = c(l)[s]
          BY <3>2
        <5>2. Cardinality({}) = 0 /\ ~(0 >= 1)  BY FS_EmptySet
        <5> QED  BY <4>1, <5>1, <5>2
      <4>3. PICK i \in 1..m : made.split[i] = s /\ records[i].label = l
        BY <2>1, <4>2 DEF GroupsIn
      <4>4. made.missing = MissingLabels(records, made.split)
        BY <2>6, <2>7
      <4> QED  BY <2>1, <4>3, <4>4 DEF MissingLabels
    <3> HIDE DEF size
    <3> QED  BY <3>3, <3>4, <3>5 DEF size
  <2>8. made # SplitError => Valid(records, made.split)  BY <2>6
  <2> HIDE DEF made, split, absent
  <2> QED  BY <2>5, <2>7, <2>8 DEF SplitsKeepGroups, made
<1> QED  BY <1>2, <1>3

(* What the build wrote is read back with the labels of the captures.      *)
LEMMA RecordsAre ==
  ASSUME NEW n \in Nat, NEW dirs, DOMAIN dirs = 1..n,
         \A i \in 1..n : \E c : \E l0 \in BOOLEAN, k \in Nat :
           c.label \in STRING /\ dirs[i] = BuiltDirectory(c, l0, k),
         LoadRecords(dirs) # SplitError
  PROVE  \E m \in Nat :
           /\ DOMAIN LoadRecords(dirs) = 1..m /\ Len(LoadRecords(dirs)) = m
           /\ \A i \in 1..m : LoadRecords(dirs)[i].label \in STRING
<1> DEFINE of(d) == IF d.windows = Absent THEN <<PlainRecord(d)>>
                    ELSE [i \in DOMAIN d.windows |->
                            WindowRecord(d.windows[i], d)]
           rows == [i \in DOMAIN dirs |-> of(dirs[i])]
           T == UNION {{rows[i][k] : k \in DOMAIN rows[i]} : i \in DOMAIN dirs}
<1>1. LoadRecords(dirs) = FlattenSeq(rows)  BY DEF LoadRecords
<1>3. ASSUME NEW i \in 1..n
      PROVE  /\ \E k \in Nat : of(dirs[i]) \in [1..k -> {of(dirs[i])[j] : j \in 1..k}]
             /\ \A k \in DOMAIN of(dirs[i]) : of(dirs[i])[k].label \in STRING
  <2>1. PICK c : \E l0 \in BOOLEAN, k \in Nat :
          c.label \in STRING /\ dirs[i] = BuiltDirectory(c, l0, k)
    OBVIOUS
  <2>2. PICK l0 \in BOOLEAN, k \in Nat :
          c.label \in STRING /\ dirs[i] = BuiltDirectory(c, l0, k)
    BY <2>1
  <2> DEFINE f == [id \in 1..k |-> BuiltWindow(c, id)]
             w == CASE ~l0 -> Absent
                    [] l0 /\ k = 0 -> <<BuiltWindow(c, NoWindow)>>
                    [] OTHER -> f
  <2>3. PICK d : d = [workload |-> c.workload, stem |-> c.stem, parent |-> Absent,
                      capture |-> c.capture, label |-> c.label, opt |-> c.opt,
                      windows |-> w]
    OBVIOUS
  <2>4. dirs[i] = d  BY <2>2, <2>3 DEF BuiltDirectory
  <2>5. d.label = c.label /\ d.windows = w /\ c.label \in STRING
    <3> HIDE DEF w
    <3> QED  BY <2>2, <2>3
  <2>6. PlainRecord(d).label \in STRING  BY <2>5 DEF PlainRecord
  <2>7. CASE d.windows = Absent
    <3>1. of(d) = <<PlainRecord(d)>>  BY <2>7
    <3> HIDE DEF of
    <3>2. of(d) \in [1..1 -> {of(d)[j] : j \in 1..1}]  BY <3>1
    <3>3. \A j \in DOMAIN of(d) : of(d)[j].label \in STRING  BY <2>6, <3>1
    <3> QED  BY <2>4, <3>2, <3>3
  <2>8. CASE d.windows # Absent
    <3>1. l0  BY <2>5, <2>8
    <3>2. PICK p \in Nat : /\ DOMAIN d.windows = 1..p
                          /\ \A j \in 1..p : d.windows[j].label \in STRING
      <4>1. \A id : BuiltWindow(c, id).label \in STRING
        BY <2>5 DEF BuiltWindow
      <4>2. CASE k = 0
        <5>1. d.windows = <<BuiltWindow(c, NoWindow)>>
          BY <2>5, <3>1, <4>2
        <5>2. DOMAIN d.windows = 1..1 /\ d.windows[1].label \in STRING
          BY <4>1, <5>1
        <5> QED  BY <5>2
      <4>3. CASE k # 0
        <5>1. d.windows = f
          <6> HIDE DEF f
          <6> QED  BY <2>5, <3>1, <4>3
        <5> QED  BY <4>1, <5>1
      <4> QED  BY <4>2, <4>3
    <3>3. of(d) = [j \in 1..p |-> WindowRecord(d.windows[j], d)]
      BY <2>8, <3>2
    <3>4. \A j \in 1..p : WindowRecord(d.windows[j], d).label \in STRING
      BY <3>2 DEF WindowRecord
    <3> HIDE DEF of
    <3>5. of(d) \in [1..p -> {of(d)[j] : j \in 1..p}]  BY <3>3
    <3>6. \A j \in DOMAIN of(d) : of(d)[j].label \in STRING  BY <3>3, <3>4
    <3> QED  BY <2>4, <3>5, <3>6
  <2> QED  BY <2>7, <2>8
<1>4. DOMAIN dirs = 1..n  OBVIOUS
<1> HIDE DEF of
<1>5. \A i \in 1..n : rows[i] = of(dirs[i])  BY <1>4
<1>6. DOMAIN rows = 1..n  BY <1>4
<1> HIDE DEF rows
<1>7. ASSUME NEW i \in 1..n PROVE rows[i] \in Seq(T)
  <2>1. PICK k \in Nat : rows[i] \in [1..k -> {rows[i][j] : j \in 1..k}]
    BY <1>3, <1>5
  <2>2. DOMAIN rows[i] = 1..k  BY <2>1
  <2>3. ASSUME NEW j \in 1..k PROVE rows[i][j] \in T
    BY <1>4, <2>2
  <2> HIDE DEF T
  <2>4. rows[i] \in [1..k -> T]  BY <2>1, <2>3
  <2> QED  BY <2>4, SeqDef
<1>8. \A x \in T : x.label \in STRING
  <2> SUFFICES ASSUME NEW x \in T PROVE x.label \in STRING
    OBVIOUS
  <2>1. PICK i \in 1..n : \E k \in DOMAIN rows[i] : x = rows[i][k]  BY <1>4
  <2> QED  BY <1>3, <1>5, <2>1
<1> HIDE DEF T
<1>9. rows \in Seq(Seq(T))
  <2>1. rows \in [1..n -> Seq(T)]
    <3>1. rows = [i \in 1..n |-> rows[i]]  BY <1>4 DEF rows
    <3> QED  BY <1>7, <3>1
  <2> QED  BY <2>1, SeqDef
<1>10. LoadRecords(dirs) \in Seq(T)  BY <1>1, <1>9, FlattenIs
<1>11. PICK m \in Nat : /\ Len(LoadRecords(dirs)) = m
                       /\ DOMAIN LoadRecords(dirs) = 1..m
                       /\ \A i \in 1..m : LoadRecords(dirs)[i] \in T
  <2>1. PICK q \in Seq(T) : q = LoadRecords(dirs)  BY <1>10
  <2>2. Len(q) \in Nat /\ DOMAIN q = 1..Len(q)
        /\ \A i \in 1..Len(q) : q[i] \in T
    BY ElementOfSeq, LenProperties
  <2> QED  BY <2>1, <2>2
<1> QED  BY <1>8, <1>11

(* Every split of what the dataset build wrote is complete and never       *)
(* divides a group (make_grouped_stratified_split, validate_splits).       *)
THEOREM GroupsWhole == PartsSpec => []GroupsStayWhole
<1>1. PartsInit => GroupsStayWhole
  BY DEF PartsInit, GroupsStayWhole, Answered
<1>2. GroupsStayWhole /\ [PartsNext]_partsVars => GroupsStayWhole'
  <2> SUFFICES ASSUME GroupsStayWhole, [PartsNext]_partsVars
               PROVE  GroupsStayWhole'
    OBVIOUS
  <2>1. CASE part' = part /\ input' = input /\ answer' = answer
    BY <2>1 DEF GroupsStayWhole, Answered
  <2>2. CASE ~(part' = part /\ input' = input /\ answer' = answer)
    <3>1. PartsNext  BY <2>2 DEF partsVars, partVars
    <3>2. CASE SplitDataset
      <4>1. PICK workloads \in CapturedSets, emitted \in WindowCounts,
                 shares \in SplitRatios, l0 \in BOOLEAN, allTest \in BOOLEAN :
              LET dirs == [i \in DOMAIN workloads |->
                             BuiltDirectory(workloads[i], l0, emitted[i])]
              IN  \E shuffled \in Shuffles(LoadRecords(dirs)) :
                    Answers([dirs |-> dirs, ratios |-> shares,
                             allTest |-> allTest],
                            MakeSplits(dirs, shuffled, shares, allTest))
        BY <3>2 DEF SplitDataset
      <4>2. PICK dirs : dirs = [i \in DOMAIN workloads |->
                                  BuiltDirectory(workloads[i], l0, emitted[i])]
        OBVIOUS
      <4>3. PICK shuffled \in Shuffles(LoadRecords(dirs)) :
              /\ input' = [dirs |-> dirs, ratios |-> shares, allTest |-> allTest]
              /\ answer' = MakeSplits(dirs, shuffled, shares, allTest)
        BY <4>1, <4>2 DEF Answers
      <4>4. /\ workloads \in Seq([workload : STRING, stem : STRING,
                                   capture : STRING, label : STRING, opt : STRING])
            /\ \A i \in DOMAIN workloads : emitted[i] \in Nat
            /\ shares \in [SplitSet -> Nat]
        BY InputsAssumption
      <4>5. LoadRecords(dirs) # SplitError =>
              \E m \in Nat :
                /\ DOMAIN LoadRecords(dirs) = 1..m /\ Len(LoadRecords(dirs)) = m
                /\ \A i \in 1..m : LoadRecords(dirs)[i].label \in STRING
        <5>1. PICK n \in Nat : DOMAIN workloads = 1..n
          BY <4>4, LenProperties
        <5>2. ASSUME NEW i \in 1..n
              PROVE  \E c : \E b \in BOOLEAN, k \in Nat :
                       c.label \in STRING /\ dirs[i] = BuiltDirectory(c, b, k)
          <6> DEFINE S == [workload : STRING, stem : STRING,
                           capture : STRING, label : STRING, opt : STRING]
          <6>1. workloads \in Seq(S)  BY <4>4
          <6>2. \A c \in S : c.label \in STRING  OBVIOUS
          <6> HIDE DEF S
          <6>3. workloads[i].label \in STRING
            <7>1. workloads[i] \in S  BY <5>1, <6>1
            <7> QED  BY <6>2, <7>1
          <6>4. emitted[i] \in Nat  BY <4>4, <5>1
          <6>5. dirs[i] = BuiltDirectory(workloads[i], l0, emitted[i])
            BY <4>2, <5>1
          <6> QED  BY <6>3, <6>4, <6>5
        <5>3. DOMAIN dirs = 1..n  BY <4>2, <5>1
        <5> QED  BY <5>2, <5>3, RecordsAre
      <4>6. SplitsKeepGroups(dirs, shares, allTest,
                             MakeSplits(dirs, shuffled, shares, allTest))
        BY <4>4, <4>5, SplitsAlwaysKeepGroups
      <4>7. SplitsKeepGroups(input.dirs, input.ratios, input.allTest, answer)'
        BY <4>3, <4>6
      <4> QED  BY <4>7 DEF GroupsStayWhole
    <3>3. CASE ExtractLoops \/ RenderWindows \/ CutText \/ JudgeCapture
               \/ Windowize \/ SplitKernels
      BY <3>3 DEF GroupsStayWhole, Answered, Given, Answers, ExtractLoops,
         RenderWindows, CutText, JudgeCapture, Windowize, SplitKernels
    <3> QED  BY <2>2, <3>1, <3>2, <3>3, OnlyAnswers
  <2> QED  BY <2>1, <2>2
<1> QED  BY <1>1, <1>2, PTL DEF PartsSpec

(***************************************************************************)
(* The main loop of a kernel (MainLoop).                                   *)
(***************************************************************************)
(* In a finite set one element is beaten by none, when to beat is an       *)
(* irreflexive and transitive relation.                                    *)
LEMMA Unbeaten ==
  ASSUME NEW S, IsFiniteSet(S), S # {}, NEW R,
         \A x \in S : <<x, x>> \notin R,
         \A x, y, z \in S : <<x, y>> \in R /\ <<y, z>> \in R => <<x, z>> \in R
  PROVE  \E x \in S : \A y \in S : <<y, x>> \notin R
<1> DEFINE above(x) == {y \in S : <<y, x>> \in R}
           counted == {Cardinality(above(x)) : x \in S}
<1>1. ASSUME NEW x \in S
      PROVE  IsFiniteSet(above(x)) /\ Cardinality(above(x)) \in Nat
  <2>1. above(x) \in SUBSET S  OBVIOUS
  <2> HIDE DEF above
  <2> QED  BY <2>1, FS_Subset, FS_CardinalityType
<1>2. \E m \in counted : \A k \in counted : m <= k
  <2>1. counted \subseteq Nat /\ counted # {}
    <3> HIDE DEF above
    <3> QED  BY <1>1
  <2> HIDE DEF counted
  <2> QED  BY <2>1, FirstOf
<1>3. PICK x \in S : \A y \in S : Cardinality(above(x)) <= Cardinality(above(y))
  <2> HIDE DEF above
  <2> QED  BY <1>2
<1>4. ASSUME NEW y \in S, <<y, x>> \in R PROVE FALSE
  <2>1. above(y) \in SUBSET above(x) /\ y \in above(x) /\ y \notin above(y)
    BY <1>4
  <2>2. Cardinality(above(x)) <= Cardinality(above(y))  BY <1>3
  <2> HIDE DEF above
  <2>3. Cardinality(above(y)) <= Cardinality(above(x))
    BY <1>1, <2>1, FS_Subset
  <2>4. Cardinality(above(y)) = Cardinality(above(x))
    BY <1>1, <2>2, <2>3
  <2>5. above(x) = above(y)  BY <1>1, <2>1, <2>4, FS_Subset
  <2> QED  BY <2>1, <2>5
<1> QED  BY <1>4

(* A kernel of n instructions, and labels that name some of them.          *)
Labelled(code, at, n) ==
  /\ n \in Nat /\ Len(code) = n /\ DOMAIN code = 1..n
  /\ \A l \in DOMAIN at : at[l] \in 1..n

LEMMA ListingLabelled ==
  ASSUME NEW T, NEW lines \in Seq(T)
  PROVE  \E n : Labelled(Parse(lines), Labels(lines), n)
<1> DEFINE one == [i \in DOMAIN lines |->
                     IF IsLabel(lines[i]) THEN <<>> ELSE <<lines[i]>>]
<1>1. PICK k \in Nat : DOMAIN lines = 1..k
  BY LenProperties
<1>2. one \in Seq(Seq(T))
  <2>1. ASSUME NEW i \in 1..k
        PROVE  (IF IsLabel(lines[i]) THEN <<>> ELSE <<lines[i]>>) \in Seq(T)
    <3>1. lines[i] \in T  BY <1>1
    <3>2. <<>> \in Seq(T) /\ <<lines[i]>> \in Seq(T)  BY <3>1
    <3> QED  BY <3>2
  <2>2. one \in [1..k -> Seq(T)]  BY <1>1, <2>1
  <2> HIDE DEF one
  <2> QED  BY <2>2, SeqDef
<1>3. Parse(lines) \in Seq(T)
  <2>1. Parse(lines) = FlattenSeq(one)  BY DEF Parse
  <2> HIDE DEF one
  <2> QED  BY <1>2, <2>1, FlattenIs
<1>4. PICK n \in Nat : Len(Parse(lines)) = n /\ DOMAIN Parse(lines) = 1..n
  BY <1>3, LenProperties
<1> DEFINE next(i) == 1 + Cardinality({j \in 1..i : ~IsLabel(lines[j])})
           at(l) == {i \in DOMAIN lines : /\ IsLabel(lines[i])
                                          /\ lines[i].label = l
                                          /\ next(i) <= Len(Parse(lines))}
           all == {lines[i].label : i \in {j \in DOMAIN lines : IsLabel(lines[j])}}
           named == {l \in all : at(l) # {}}
           last(l) == CHOOSE i \in at(l) : \A j \in at(l) : j <= i
<1>5. Labels(lines) = [l \in named |-> next(last(l))]
  BY DEF Labels
<1>6. ASSUME NEW l \in named PROVE next(last(l)) \in 1..n
  <2>1. at(l) \subseteq 1..k /\ at(l) # {}  BY <1>1
  <2>2. last(l) \in at(l)
    <3> HIDE DEF at
    <3>1. \E i \in at(l) : \A j \in at(l) : j <= i  BY <2>1, LastOf
    <3> QED  BY <3>1
  <2>3. PICK i \in 1..k : i = last(l) /\ next(i) <= n
    <3> HIDE DEF last
    <3> QED  BY <1>1, <1>4, <2>2
  <2>4. {j \in 1..i : ~IsLabel(lines[j])} \in SUBSET (1..i)  OBVIOUS
  <2>5. Cardinality({j \in 1..i : ~IsLabel(lines[j])}) \in Nat
    <3>1. IsFiniteSet(1..i)  BY FS_Interval
    <3> QED  BY <2>4, <3>1, FS_Subset, FS_CardinalityType
  <2>6. next(i) \in 1..n  BY <2>3, <2>5
  <2> QED  BY <2>3, <2>6
<1> HIDE DEF named, next, last
<1>7. \A l \in DOMAIN Labels(lines) : Labels(lines)[l] \in 1..n
  BY <1>5, <1>6
<1> QED  BY <1>4, <1>7 DEF Labelled

-----------------------------------------------------------------------------
(* The graph: a block begins at every leader, and one ends with every      *)
(* instruction before a leader and with the last.                          *)
LEMMA BlockFrom ==
  ASSUME NEW code, NEW at, NEW n, Labelled(code, at, n),
         NEW s \in Leaders(code, at)
  PROVE  \E b \in Blocks(code, at) : b[1] = s
<1> DEFINE ends == {e \in 1..n : s <= e /\ (e = n \/ e + 1 \in Leaders(code, at))}
<1>1. n \in Nat /\ Len(code) = n /\ DOMAIN code = 1..n /\ s \in 1..n
  BY DEF Labelled, Leaders
<1>2. ends \subseteq Nat /\ n \in ends  BY <1>1
<1>3. PICK e \in ends : \A x \in ends : e <= x
  <2> HIDE DEF ends
  <2> QED  BY <1>2, FirstOf
<1>4. ASSUME NEW i \in (s + 1)..e PROVE i \notin Leaders(code, at)
  <2>1. i - 1 \in 1..n /\ s <= i - 1 /\ (i - 1) + 1 = i /\ ~(e <= i - 1)
    BY <1>1
  <2>2. i - 1 \notin ends
    <3> HIDE DEF ends
    <3> QED  BY <1>3, <2>1
  <2> QED  BY <2>1, <2>2
<1>5. <<s, e>> \in Blocks(code, at)  BY <1>1, <1>4 DEF Blocks
<1> QED  BY <1>5

LEMMA BlockTo ==
  ASSUME NEW code, NEW at, NEW n, Labelled(code, at, n), NEW e \in 1..n,
         e = n \/ e + 1 \in Leaders(code, at)
  PROVE  \E b \in Blocks(code, at) : b[2] = e
<1> DEFINE begins == {s \in 1..e : s \in Leaders(code, at)}
<1>1. n \in Nat /\ Len(code) = n /\ DOMAIN code = 1..n  BY DEF Labelled
<1>2. 1 \in begins  BY <1>1 DEF Leaders
<1>3. PICK s \in begins : \A x \in begins : x <= s
  <2>1. begins \subseteq 1..e /\ e \in Nat  BY <1>1
  <2> HIDE DEF begins
  <2> QED  BY <1>1, <1>2, <2>1, LastOf
<1>4. ASSUME NEW i \in (s + 1)..e PROVE i \notin Leaders(code, at)
  <2>1. i \in 1..e /\ ~(i <= s)  BY <1>1
  <2>2. i \notin begins
    <3> HIDE DEF begins
    <3> QED  BY <1>3, <2>1
  <2> QED  BY <2>1, <2>2
<1>5. <<s, e>> \in Blocks(code, at)  BY <1>1, <1>4 DEF Blocks
<1> QED  BY <1>5

LEMMA BlockIs ==
  ASSUME NEW code, NEW at, NEW n, Labelled(code, at, n),
         NEW b \in Blocks(code, at)
  PROVE  \E s, e \in 1..n : b = <<s, e>> /\ s <= e
BY DEF Blocks, Labelled, Leaders

(* An instruction that closes a loop gives the graph an edge back.         *)
LEMMA EdgeBack ==
  ASSUME NEW code, NEW at, NEW n, Labelled(code, at, n),
         NEW i \in BackJumps(code, at), code[i].op \in {"bra", "call"}
  PROVE  \E e \in Edges(code, at) :
           /\ e[3] # "fallthrough" /\ e[1][2] = i
           /\ e[2][1] = at[code[i].target] /\ e[2][1] < e[1][2]
<1>1. /\ n \in Nat /\ DOMAIN code = 1..n /\ i \in 1..n
      /\ code[i].target \in DOMAIN at
  BY DEF Labelled, BackJumps
<1>2. PICK t \in 1..n : t = at[code[i].target] /\ t < i
  BY <1>1 DEF Labelled, BackJumps
<1>3. t \in Leaders(code, at)  BY <1>1, <1>2 DEF Leaders
<1>4. i = n \/ i + 1 \in Leaders(code, at)
  <2>1. CASE i # n
    <3>1. i + 1 \in DOMAIN code /\ i + 1 > 1 /\ (i + 1) - 1 = i  BY <1>1, <2>1
    <3>2. code[i].op \in EndOps  BY DEF EndOps
    <3> QED  BY <3>1, <3>2 DEF Leaders
  <2> QED  BY <2>1
<1>5. PICK c \in Blocks(code, at) : c[1] = t  BY <1>3, BlockFrom
<1>6. PICK b \in Blocks(code, at) : b[2] = i  BY <1>1, <1>4, BlockTo
<1>7. PICK kind : /\ kind \in {"branch", "call"}
                  /\ kind = "branch" => code[i].op = "bra"
                  /\ kind = "call" => code[i].op = "call"
  OBVIOUS
<1>8. <<b, c, kind>> \in Edges(code, at)
  BY <1>1, <1>2, <1>5, <1>6, <1>7 DEF Edges
<1> QED  BY <1>2, <1>5, <1>6, <1>7, <1>8

LEMMA BackEdge ==
  ASSUME NEW code, NEW at, NEW n, Labelled(code, at, n),
         NEW e \in Edges(code, at), e[3] # "fallthrough", e[2][1] < e[1][2]
  PROVE  e[1][2] \in BackJumps(code, at)
<1>1. e[1] \in Blocks(code, at)  BY DEF Edges
<1>2. e[1][2] \in DOMAIN code
  <2>1. PICK x, y \in 1..n : e[1] = <<x, y>>  BY <1>1, BlockIs
  <2> QED  BY <2>1 DEF Labelled
<1>3. code[e[1][2]].target \in DOMAIN at /\ at[code[e[1][2]].target] = e[2][1]
  BY DEF Edges
<1> QED  BY <1>2, <1>3 DEF BackJumps

-----------------------------------------------------------------------------
(* The choice of a loop.                                                   *)
LEMMA CountNat ==
  ASSUME NEW code, NEW a \in Int, NEW b \in Int, NEW ops
  PROVE  /\ Count(code, <<a, b>>, ops) \in Nat
         /\ Count(code, <<a, b>>, ops) # 0 =>
              \E i \in a..b : code[i].op \in ops
<1> DEFINE picked == {i \in a..b : code[i].op \in ops}
<1>1. Count(code, <<a, b>>, ops) = Cardinality(picked)  BY DEF Count
<1>2. IsFiniteSet(picked)
  <2>1. picked \in SUBSET (a..b)  OBVIOUS
  <2> HIDE DEF picked
  <2> QED  BY <2>1, FS_Interval, FS_Subset
<1>3. Cardinality(picked) \in Nat /\ (picked = {} => Cardinality(picked) = 0)
  <2> HIDE DEF picked
  <2> QED  BY <1>2, FS_CardinalityType, FS_EmptySet
<1> QED  BY <1>1, <1>3

LEMMA ScoreInt ==
  ASSUME NEW code, NEW a \in Int, NEW b \in Int, NEW d \in Int
  PROVE  /\ Size(<<a, b>>) \in Int
         /\ ScoreLoop(code, <<a, b>>, 1, d) \in Int
         /\ ScoreRegion(code, <<a, b>>) \in Int
<1>1. Size(<<a, b>>) \in Int  BY DEF Size
<1>2. \A ops : Count(code, <<a, b>>, ops) \in Int
  <2> SUFFICES ASSUME NEW ops PROVE Count(code, <<a, b>>, ops) \in Int
    OBVIOUS
  <2>1. Count(code, <<a, b>>, ops) \in Nat  BY CountNat
  <2> QED  BY <2>1
<1>3. ScoreLoop(code, <<a, b>>, 1, d) \in Int
  BY <1>1, <1>2 DEF ScoreLoop
<1>4. ScoreLoop(code, <<a, b>>, 0, 0) \in Int
  BY <1>1, <1>2 DEF ScoreLoop
<1>5. ScoreRegion(code, <<a, b>>) \in Int
  BY <1>2, <1>4 DEF ScoreRegion
<1> QED  BY <1>1, <1>3, <1>5

LEMMA LoopChosen ==
  ASSUME NEW code, NEW at, NEW n, Labelled(code, at, n),
         BackJumps(code, at) # {}
  PROVE  \E i \in BackJumps(code, at) : MainLoop(code, at) = LoopAt(code, at, i)
<1> DEFINE S == BackJumps(code, at)
           size(i) == Size(LoopAt(code, at, i))
           score(i) == ScoreLoop(code, LoopAt(code, at, i), 1, Depth(code, at, i))
           R == {e \in S \X S : BetterLoop(code, at, e[1], e[2])}
<1>1. n \in Nat /\ S \subseteq 1..n /\ IsFiniteSet(S)
  <2>1. n \in Nat /\ S \in SUBSET (1..n)  BY DEF Labelled, BackJumps
  <2>2. IsFiniteSet(1..n)  BY <2>1, FS_Interval
  <2> HIDE DEF S
  <2> QED  BY <2>1, <2>2, FS_Subset
<1>2. ASSUME NEW i \in S
      PROVE  size(i) \in Int /\ score(i) \in Int /\ i \in Int
  <2>1. PICK t \in 1..n : t = at[code[i].target]
    BY DEF Labelled, BackJumps
  <2>2. i \in Int /\ t \in Int  BY <1>1
  <2>3. LoopAt(code, at, i) = <<t, i>>  BY <2>1 DEF LoopAt
  <2>4. Depth(code, at, i) \in Int
    <3> DEFINE around == {j \in S \ {i} :
                            i <= j /\ at[code[j].target] <= at[code[i].target]}
    <3>1. around \in SUBSET S /\ Depth(code, at, i) = Cardinality(around)
      BY DEF Depth
    <3> HIDE DEF around, S
    <3>2. Cardinality(around) \in Nat
      BY <1>1, <3>1, FS_Subset, FS_CardinalityType
    <3> QED  BY <3>1, <3>2
  <2>5. PICK d \in Int : d = Depth(code, at, i)  BY <2>4
  <2>6. Size(<<t, i>>) \in Int /\ ScoreLoop(code, <<t, i>>, 1, d) \in Int
    BY <2>2, ScoreInt
  <2> QED  BY <2>2, <2>3, <2>5, <2>6
<1>3. \A j, i \in S : <<j, i>> \in R <=>
        \/ score(j) > score(i)
        \/ score(j) = score(i) /\ size(j) > size(i)
        \/ score(j) = score(i) /\ size(j) = size(i) /\ j < i
  BY DEF BetterLoop
<1> HIDE DEF S, R, size, score
<1>4. \A i \in S : <<i, i>> \notin R  BY <1>2, <1>3
<1>5. \A i, j, k \in S : <<i, j>> \in R /\ <<j, k>> \in R => <<i, k>> \in R
  BY <1>2, <1>3
<1>6. \E i \in S : \A j \in S : <<j, i>> \notin R
  <2>1. S # {}  BY DEF S
  <2> QED  BY <1>1, <1>4, <1>5, <2>1, Unbeaten
<1>7. \E i \in S : \A j \in S : ~BetterLoop(code, at, j, i)
  BY <1>6 DEF R
<1> DEFINE chosen == CHOOSE i \in S : \A j \in S : ~BetterLoop(code, at, j, i)
<1>8. chosen \in S
  <2> QED  BY <1>7
<1>9. MainLoop(code, at) = LoopAt(code, at, chosen)
  BY DEF MainLoop, S
<1> HIDE DEF chosen
<1> QED  BY <1>8, <1>9 DEF S

-----------------------------------------------------------------------------
(* The choice of a region.                                                 *)
StartsRegion(code, at, s) ==
  \E b \in Blocks(code, at) :
    \/ b[1] = s
    \/ b[1] < s /\ s <= b[2] /\ Size(b) > MaxRegion

LEMMA PieceIs ==
  ASSUME NEW code, NEW at, NEW n, Labelled(code, at, n),
         NEW p \in SourceBlocks(code, at)
  PROVE  \E s, e \in 1..n : /\ p = <<s, e>> /\ s <= e
                            /\ e - s + 1 <= MaxRegion
                            /\ StartsRegion(code, at, s)
<1>1. PICK b \in Blocks(code, at) : p \in Cut(b)  BY DEF SourceBlocks
<1>2. PICK x, y \in 1..n : b = <<x, y>> /\ x <= y  BY BlockIs
<1>3. n \in Nat  BY DEF Labelled
<1>4. /\ TargetRegion \in Nat \ {0} /\ MaxRegion \in Nat
      /\ TargetRegion <= MaxRegion
  BY RegionAssumption
<1>5. Size(b) = y - x + 1  BY <1>2 DEF Size
<1>6. CASE Size(b) <= MaxRegion
  <2>1. p = <<x, y>>  BY <1>1, <1>2, <1>6 DEF Cut
  <2>2. StartsRegion(code, at, x)  BY <1>2 DEF StartsRegion
  <2> QED  BY <1>2, <1>5, <1>6, <2>1, <2>2
<1>7. CASE ~(Size(b) <= MaxRegion)
  <2>1. PICK i \in x..y :
          p = <<i, IF i + TargetRegion - 1 < y THEN i + TargetRegion - 1 ELSE y>>
    BY <1>1, <1>2, <1>7 DEF Cut
  <2>2. PICK e : e = IF i + TargetRegion - 1 < y THEN i + TargetRegion - 1 ELSE y
    OBVIOUS
  <2>3. /\ i \in 1..n /\ e \in 1..n /\ i <= e
        /\ e - i + 1 <= MaxRegion
    BY <1>2, <1>3, <1>4, <2>2
  <2>4. StartsRegion(code, at, i)
    <3>1. b[1] = i \/ (b[1] < i /\ i <= b[2])  BY <1>2, <1>3
    <3>2. Size(b) > MaxRegion  BY <1>2, <1>3, <1>4, <1>5, <1>7
    <3> QED  BY <3>1, <3>2 DEF StartsRegion
  <2> QED  BY <2>1, <2>2, <2>3, <2>4
<1> QED  BY <1>6, <1>7

LEMMA CandidateIs ==
  ASSUME NEW code, NEW at, NEW n, Labelled(code, at, n),
         NEW r \in RegionCandidates(code, at)
  PROVE  \E s, e \in 1..n : /\ r = <<s, e>> /\ s <= e
                            /\ e - s + 1 <= MaxRegion
                            /\ StartsRegion(code, at, s)
                            /\ code[e].op \notin NoiseOps
                            /\ \E i \in s..e : code[i].op \in UsefulOps
<1> DEFINE blocks == SourceBlocks(code, at)
<1>1. PICK p, q : /\ p \in blocks /\ q \in blocks /\ Grows(code, blocks, p, q)
                  /\ r = TrimNoise(code, <<p[1], q[2]>>)
                  /\ NontrivialRegion(code, r)
  BY DEF RegionCandidates
<1> HIDE DEF blocks
<1>2. PICK s, e \in 1..n : /\ p = <<s, e>> /\ s <= e
                           /\ e - s + 1 <= MaxRegion
                           /\ StartsRegion(code, at, s)
  BY <1>1, PieceIs DEF blocks
<1>3. PICK u, v \in 1..n : q = <<u, v>> /\ u <= v
  BY <1>1, PieceIs DEF blocks
<1>4. n \in Nat /\ MaxRegion \in Nat  BY RegionAssumption DEF Labelled
<1>5. v - s + 1 <= MaxRegion
  <2>1. CASE p = q
    BY <1>2, <1>3, <2>1
  <2>2. CASE p # q
    <3>1. Size(<<s, v>>) <= MaxRegion  BY <1>1, <1>2, <1>3, <2>2 DEF Grows
    <3> QED  BY <3>1 DEF Size
  <2> QED  BY <2>1, <2>2
<1> DEFINE kept == {i \in s..v : code[i].op \notin NoiseOps}
           last == CHOOSE i \in kept : \A j \in kept : j <= i
<1>6. r = <<s, IF kept = {} THEN s - 1 ELSE last>>
  BY <1>1, <1>2, <1>3 DEF TrimNoise
<1>7. /\ Size(r) > 0
      /\ Count(code, r, UsefulOps) >= 2
  BY <1>1 DEF NontrivialRegion
<1>8. kept # {}
  <2> SUFFICES ASSUME kept = {} PROVE FALSE
    OBVIOUS
  <2> HIDE DEF kept, last
  <2>1. r = <<s, s - 1>>  BY <1>6
  <2>2. Size(r) = 0  BY <1>4, <2>1 DEF Size
  <2> QED  BY <1>7, <2>2
<1>9. last \in kept
  <2>1. kept \subseteq 1..n  BY <1>4
  <2> HIDE DEF kept
  <2>2. \E i \in kept : \A j \in kept : j <= i  BY <1>4, <1>8, <2>1, LastOf
  <2> QED  BY <2>2
<1>10. PICK x \in s..v : x = last /\ code[x].op \notin NoiseOps
  <2> HIDE DEF last
  <2> QED  BY <1>9
<1>11. r = <<s, x>>
  <2> HIDE DEF kept, last
  <2> QED  BY <1>6, <1>8, <1>10
<1>12. x \in 1..n /\ s <= x /\ x - s + 1 <= MaxRegion
  BY <1>4, <1>5
<1>13. \E i \in s..x : code[i].op \in UsefulOps
  <2>1. s \in Int /\ x \in Int  BY <1>4
  <2>2. Count(code, <<s, x>>, UsefulOps) # 0  BY <1>7, <1>11
  <2> QED  BY <2>1, <2>2, CountNat
<1> QED  BY <1>2, <1>10, <1>11, <1>12, <1>13

LEMMA RegionChosen ==
  ASSUME NEW code, NEW at, NEW n, Labelled(code, at, n),
         NEW C, C \subseteq (1..n) \X (1..n), C # {}
  PROVE  BestRegion(code, C) \in C
<1> DEFINE long == {r \in C : Size(r) >= AtMost(MinRegion, code)}
           pool == IF long # {} THEN long ELSE C
           R == {e \in pool \X pool : BetterRegion(code, e[1], e[2])}
           s(r) == ScoreRegion(code, r)
           thin(r) == s(r) * Size(r)
           d(r) == Size(r) - AtMost(TargetRegion, code)
           off(r) == IF d(r) < 0 THEN -d(r) ELSE d(r)
<1>1. n \in Nat /\ Len(code) = n  BY DEF Labelled
<1>2. pool \subseteq C /\ pool # {}  OBVIOUS
<1>3. IsFiniteSet(pool)
  <2>1. IsFiniteSet(1..n)  BY <1>1, FS_Interval
  <2>2. IsFiniteSet((1..n) \X (1..n))  BY <2>1, FS_Product
  <2> HIDE DEF pool
  <2>3. pool \in SUBSET ((1..n) \X (1..n))  BY <1>2
  <2> QED  BY <2>2, <2>3, FS_Subset
<1>4. AtMost(TargetRegion, code) \in Int
  BY <1>1, RegionAssumption DEF AtMost
<1> HIDE DEF pool
<1>5. ASSUME NEW r \in pool
      PROVE  /\ s(r) \in Int /\ thin(r) \in Int /\ off(r) \in Int
             /\ Size(r) \in Int /\ r[1] \in Int
  <2>1. PICK a \in 1..n, b \in 1..n : r = <<a, b>>  BY <1>2
  <2>2. a \in Int /\ b \in Int  BY <1>1
  <2>3. ScoreRegion(code, <<a, b>>) \in Int /\ Size(<<a, b>>) \in Int
    <3>1. PICK z \in Int : TRUE  OBVIOUS
    <3> QED  BY <2>2, <3>1, ScoreInt
  <2>4. Size(r) \in Int /\ s(r) \in Int  BY <2>1, <2>3
  <2>5. PICK x \in Int, y \in Int : x = s(r) /\ y = Size(r)  BY <2>4
  <2>6. x * y \in Int  OBVIOUS
  <2>7. d(r) \in Int  BY <1>4, <2>4
  <2>8. off(r) \in Int
    <3> HIDE DEF d
    <3> QED  BY <2>7
  <2> QED  BY <2>1, <2>2, <2>4, <2>5, <2>6, <2>8
<1>6. \A q, r \in pool : <<q, r>> \in R <=>
        \/ s(q) > s(r)
        \/ /\ s(q) = s(r)
           /\ \/ thin(q) < thin(r)
              \/ /\ thin(q) = thin(r)
                 /\ \/ off(q) < off(r)
                    \/ off(q) = off(r) /\ Size(q) > Size(r)
                    \/ off(q) = off(r) /\ Size(q) = Size(r) /\ q[1] < r[1]
  BY DEF BetterRegion
<1> HIDE DEF R, s, thin, d, off
<1>7. \A r \in pool : <<r, r>> \notin R  BY <1>5, <1>6
<1>8. ASSUME NEW p \in pool, NEW q \in pool, NEW r \in pool,
             <<p, q>> \in R, <<q, r>> \in R
      PROVE  <<p, r>> \in R
  BY <1>5, <1>6, <1>8
<1>9. \E r \in pool : \A q \in pool : <<q, r>> \notin R
  BY <1>2, <1>3, <1>7, <1>8, Unbeaten
<1>10. \E r \in pool : \A q \in pool : ~BetterRegion(code, q, r)
  BY <1>9 DEF R
<1> DEFINE chosen == CHOOSE r \in pool : \A q \in pool : ~BetterRegion(code, q, r)
<1>11. chosen \in pool  BY <1>10
<1>12. BestRegion(code, C) = chosen  BY DEF BestRegion, pool
<1> HIDE DEF chosen
<1> QED  BY <1>2, <1>11, <1>12

(* What is extracted from a kernel is a loop of its graph, from a block's  *)
(* entry to the jump back to it, and a loop when there is one; or a region *)
(* within the bounds (extract_main_loop, build_cfg).                       *)
THEOREM MainLoopsFollowGraph ==
  ASSUME NEW T, NEW lines \in Seq(T), OnlyJumpsGoBack(lines)
  PROVE  MainLoopFollowsGraph(lines, ExtractMainLoop(lines))
<1>1. PICK code, at : code = Parse(lines) /\ at = Labels(lines)
  OBVIOUS
<1>2. PICK n : Labelled(code, at, n)  BY <1>1, ListingLabelled
<1>3. PICK picked : picked = ExtractMainLoop(lines)
  OBVIOUS
<1> DEFINE regions == RegionCandidates(code, at)
           back == {e \in Edges(code, at) : e[3] # "fallthrough" /\ e[2][1] < e[1][2]}
<1>4. picked = IF BackJumps(code, at) # {}
              THEN [kind |-> "loop", range |-> MainLoop(code, at)]
              ELSE IF Len(code) <= SmallKernel
              THEN [kind |-> "full_kernel_small", range |-> Whole(code)]
              ELSE IF regions # {}
              THEN [kind |-> "compute_region", range |-> BestRegion(code, regions)]
              ELSE [kind |-> "full_kernel", range |-> Whole(code)]
  BY <1>1, <1>3 DEF ExtractMainLoop
<1>5. \A i \in BackJumps(code, at) : code[i].op \in {"bra", "call"}
  BY <1>1 DEF OnlyJumpsGoBack
<1> HIDE DEF regions
<1>6. picked.kind = "loop" <=> BackJumps(code, at) # {}
  BY <1>4
<1>7. BackJumps(code, at) # {} <=> back # {}
  <2>1. ASSUME NEW i \in BackJumps(code, at) PROVE back # {}
    <3>1. code[i].op \in {"bra", "call"}  BY <1>5
    <3>2. PICK e \in Edges(code, at) : /\ e[3] # "fallthrough" /\ e[1][2] = i
                                       /\ e[2][1] < e[1][2]
      BY <1>2, <3>1, EdgeBack
    <3> QED  BY <3>2
  <2>2. ASSUME NEW e \in back PROVE BackJumps(code, at) # {}
    <3>1. e[1][2] \in BackJumps(code, at)  BY <1>2, BackEdge
    <3> QED  BY <3>1
  <2> HIDE DEF back
  <2> QED  BY <2>1, <2>2
<1>8. ASSUME picked.kind = "loop"
      PROVE  \E e \in back : e[1][2] = picked.range[2] /\ e[2][1] = picked.range[1]
  <2>1. BackJumps(code, at) # {}  BY <1>6, <1>8
  <2>2. PICK i \in BackJumps(code, at) :
          MainLoop(code, at) = LoopAt(code, at, i)
    BY <1>2, <2>1, LoopChosen
  <2>3. picked.range = LoopAt(code, at, i)  BY <1>4, <2>1, <2>2
  <2>4. picked.range[1] = at[code[i].target] /\ picked.range[2] = i
    BY <2>3 DEF LoopAt
  <2>5. code[i].op \in {"bra", "call"}  BY <1>5
  <2>6. PICK e \in Edges(code, at) :
          /\ e[3] # "fallthrough" /\ e[1][2] = i
          /\ e[2][1] = at[code[i].target] /\ e[2][1] < e[1][2]
    BY <1>2, <2>5, EdgeBack
  <2> QED  BY <2>4, <2>6
<1>9. ASSUME picked.kind = "compute_region"
      PROVE  /\ Size(picked.range) <= MaxRegion
             /\ code[picked.range[2]].op \notin NoiseOps
             /\ \E i \in picked.range[1]..picked.range[2] : code[i].op \in UsefulOps
             /\ StartsRegion(code, at, picked.range[1])
  <2>1. regions # {} /\ picked.range = BestRegion(code, regions)  BY <1>4, <1>9
  <2>2. \A r \in regions : \E s, e \in 1..n : r = <<s, e>>
    BY <1>2, CandidateIs DEF regions
  <2>3. regions \subseteq (1..n) \X (1..n)  BY <2>2
  <2>4. picked.range \in regions  BY <1>2, <2>1, <2>3, RegionChosen
  <2>5. PICK s, e \in 1..n :
          /\ picked.range = <<s, e>> /\ s <= e
          /\ e - s + 1 <= MaxRegion
          /\ StartsRegion(code, at, s)
          /\ code[e].op \notin NoiseOps
          /\ \E i \in s..e : code[i].op \in UsefulOps
    BY <1>2, <2>4, CandidateIs DEF regions
  <2> QED  BY <2>5 DEF Size
<1> HIDE DEF back
<1>10. MainLoopFollowsGraph(lines, picked)
  BY <1>1, <1>6, <1>7, <1>8, <1>9 DEF MainLoopFollowsGraph, StartsRegion, back
<1> QED  BY <1>3, <1>10

(* The main loop of any kernel agrees with the graph of the kernel, in     *)
(* every behaviour of the offline programs (extract_main_loop, build_cfg). *)
THEOREM LoopsFollowGraph == PartsSpec => []MainLoopIsLoop
<1>1. PartsInit => MainLoopIsLoop
  BY DEF PartsInit, MainLoopIsLoop, Answered
<1>2. MainLoopIsLoop /\ [PartsNext]_partsVars => MainLoopIsLoop'
  <2> SUFFICES ASSUME MainLoopIsLoop, [PartsNext]_partsVars
               PROVE  MainLoopIsLoop'
    OBVIOUS
  <2>1. CASE part' = part /\ input' = input /\ answer' = answer
    BY <2>1 DEF MainLoopIsLoop, Answered
  <2>2. CASE ~(part' = part /\ input' = input /\ answer' = answer)
    <3>1. PartsNext  BY <2>2 DEF partsVars, partVars
    <3>2. CASE ExtractLoops
      <4>1. PICK lines \in Listings :
              input' = lines /\ answer' = ExtractMainLoop(lines)
        BY <3>2 DEF ExtractLoops, Answers
      <4>2. lines \in Seq(SassLine) /\ OnlyJumpsGoBack(lines)
        BY InputsAssumption
      <4>3. MainLoopFollowsGraph(lines, ExtractMainLoop(lines))
        BY <4>2, MainLoopsFollowGraph
      <4>4. MainLoopFollowsGraph(input, answer)'  BY <4>1, <4>3
      <4> QED  BY <4>4 DEF MainLoopIsLoop
    <3>3. CASE RenderWindows \/ CutText \/ JudgeCapture \/ Windowize
               \/ SplitDataset \/ SplitKernels
      BY <3>3 DEF MainLoopIsLoop, Answered, Given, Answers, RenderWindows,
         CutText, JudgeCapture, Windowize, SplitDataset, SplitKernels
    <3> QED  BY <2>2, <3>1, <3>2, <3>3, OnlyAnswers
  <2> QED  BY <2>1, <2>2
<1> QED  BY <1>1, <1>2, PTL DEF PartsSpec

(***************************************************************************)
(* The directories of kernels, and what a launch is shown (KernelFiles).   *)
(***************************************************************************)
LEMMA CardinalityIs == \A S : Files!Cardinality(S) = Cardinality(S)
BY DEF Files!Cardinality, Cardinality

LEMMA SetIs == \A q : Files!ToSet(q) = {q[i] : i \in DOMAIN q}
BY DEF Files!ToSet

(* A directory that no kernel has, of one of the three forms.              *)
LEMMA FreshDir ==
  ASSUME NEW base, NEW c, NEW used, IsFiniteSet(used), NEW count \in Nat
  PROVE  /\ Files!UniqueDir(base, c, used, count) \notin used
         /\ \/ Files!UniqueDir(base, c, used, count) = <<base>>
            \/ Files!UniqueDir(base, c, used, count) = <<base, c>>
            \/ \E i \in Nat : Files!UniqueDir(base, c, used, count) = <<base, c, i>>
<1> DEFINE N == Cardinality(used)
           I == (count + 1)..(count + 1 + N)
           Unused == {i \in I : <<base, c, i>> \notin used}
           d == [i \in I |-> <<base, c, i>>]
<1>1. N \in Nat
  BY FS_CardinalityType
<1>2. IsFiniteSet(I) /\ Cardinality(I) = N + 1
  BY <1>1, FS_Interval
<1>3. Unused # {}
  <2>1. SUFFICES ASSUME Unused = {} PROVE FALSE
    OBVIOUS
  <2>2. d \in [I -> used]
    BY <2>1
  <2>3. \E x, y \in I : x # y /\ d[x] = d[y]
    <3> HIDE DEF d, I
    <3> QED BY <1>1, <1>2, <2>2, FS_PigeonHole
  <2> QED
    BY <2>3
<1>4. PICK i \in Unused : \A j \in Unused : i <= j
  <2>1. Unused \subseteq Nat
    BY <1>1
  <2> HIDE DEF Unused
  <2> QED BY <1>3, <2>1, FirstOf
<1>5. ASSUME NEW j \in (count + 1)..(i - 1) PROVE <<base, c, j>> \in used
  <2>1. i \in I
    BY <1>4
  <2>2. i \in Nat /\ j \in I /\ j < i
    <3> HIDE DEF N
    <3> QED BY <1>1, <1>5, <2>1
  <2> QED BY <1>4, <2>2
<1>6. \E x \in I : /\ <<base, c, x>> \notin used
                   /\ \A j \in (count + 1)..(x - 1) : ~(<<base, c, j>> \notin used)
  BY <1>4, <1>5
<1>7. CASE <<base>> \notin used
  BY <1>7 DEF Files!UniqueDir
<1>8. CASE <<base>> \in used /\ <<base, c>> \notin used
  BY <1>8 DEF Files!UniqueDir
<1>9. CASE <<base>> \in used /\ <<base, c>> \in used
  <2> DEFINE P(x) == /\ <<base, c, x>> \notin used
                     /\ \A j \in (count + 1)..(x - 1) : ~(<<base, c, j>> \notin used)
             least == CHOOSE x \in I : P(x)
  <2>1. least \in I /\ P(least)
    <3> HIDE DEF I, P
    <3> QED BY <1>6 DEF P
  <2>2. Files!UniqueDir(base, c, used, count) = <<base, c, least>>
    BY <1>9, CardinalityIs DEF Files!UniqueDir
  <2>3. least \in Nat
    <3>1. I \subseteq Nat
      <4> HIDE DEF N
      <4> QED BY <1>1
    <3> HIDE DEF least, I
    <3> QED BY <2>1, <3>1
  <2> HIDE DEF least
  <2> QED BY <2>1, <2>2, <2>3
<1> QED
  BY <1>7, <1>8, <1>9

DirShape(d, base) ==
  /\ Len(d) \in {1, 2, 3}
  /\ Len(d) = 1 => d = <<base>>
  /\ Len(d) = 2 => d[2] \in Nat /\ d = <<base, d[2]>>
  /\ Len(d) = 3 => d[2] \in Nat /\ d[3] \in Nat /\ d = <<base, d[2], d[3]>>

LEMMA FreshShape ==
  ASSUME NEW base, NEW c \in Nat, NEW used, IsFiniteSet(used), NEW count \in Nat
  PROVE  DirShape(Files!UniqueDir(base, c, used, count), base)
<1>1. \A b : DirShape(<<b>>, b)  BY DEF DirShape
<1>2. \A b : DirShape(<<b, c>>, b)  BY DEF DirShape
<1>3. \A b : \A i \in Nat : DirShape(<<b, c, i>>, b)  BY DEF DirShape
<1> QED  BY <1>1, <1>2, <1>3, FreshDir

(* Among the directories of one base there is a first.                     *)
LEMMA FirstIsOne ==
  ASSUME NEW rows, rows # {}, NEW base,
         \A r \in rows : DirShape(r.dir, base),
         \A r, q \in rows : r.dir = q.dir => r = q
  PROVE  \E r \in rows : Files!FirstDir(rows) = r.dir
<1>1. \A r \in rows : DirShape(r.dir, base)
  OBVIOUS
<1>2. \E r \in rows : \A q \in rows : q = r \/ Files!Before(r.dir, q.dir)
  <2>1. CASE \E r \in rows : Len(r.dir) = 1
    <3>1. PICK r \in rows : Len(r.dir) = 1
      BY <2>1
    <3>2. r.dir = <<base>>
      BY <1>1, <3>1 DEF DirShape
    <3>3. ASSUME NEW q \in rows, q # r
          PROVE  Files!Before(r.dir, q.dir)
      <4>1. q.dir # <<base>>
        BY <3>2, <3>3
      <4>2. Len(q.dir) >= 2
        BY <1>1, <4>1 DEF DirShape
      <4> QED BY <3>1, <4>2 DEF Files!Before
    <3> QED BY <3>3
  <2>2. CASE \A r \in rows : Len(r.dir) # 1
    <3>1. \A r \in rows : /\ Len(r.dir) \in {2, 3} /\ r.dir[2] \in Nat
                          /\ Len(r.dir) = 2 => r.dir = <<base, r.dir[2]>>
                          /\ Len(r.dir) = 3 => /\ r.dir[3] \in Nat
                                               /\ r.dir = <<base, r.dir[2], r.dir[3]>>
      BY <1>1, <2>2 DEF DirShape
    <3> DEFINE seconds == {r.dir[2] : r \in rows}
    <3>2. seconds \subseteq Nat /\ seconds # {}
      BY <3>1
    <3>3. PICK m \in seconds : \A x \in seconds : m <= x
      <4> HIDE DEF seconds
      <4> QED BY <3>2, FirstOf
    <3>4. m \in Nat /\ \A q \in rows : m <= q.dir[2]
      BY <3>2, <3>3
    <3>5. CASE \E r \in rows : r.dir[2] = m /\ Len(r.dir) = 2
      <4>1. PICK r \in rows : r.dir[2] = m /\ Len(r.dir) = 2
        BY <3>5
      <4>2. ASSUME NEW q \in rows, q # r
            PROVE  Files!Before(r.dir, q.dir)
        <5>1. q.dir # r.dir
          BY <4>2
        <5>2. q.dir[2] = m => Len(q.dir) = 3
          BY <3>1, <4>1, <5>1
        <5>3. m <= q.dir[2] /\ q.dir[2] \in Nat /\ Len(q.dir) \in {2, 3}
          BY <3>1, <3>4
        <5>4. CASE q.dir[2] = m
          <6>1. Len(r.dir) = 2 /\ Len(q.dir) = 3 /\ r.dir[2] = q.dir[2]
            BY <4>1, <5>2, <5>4
          <6> QED BY <6>1 DEF Files!Before
        <5>5. CASE q.dir[2] # m
          <6>1. m < q.dir[2]
            BY <3>4, <5>3, <5>5
          <6> QED BY <4>1, <5>3, <6>1 DEF Files!Before
        <5> QED BY <5>4, <5>5
      <4> QED BY <4>2
    <3>6. CASE ~\E r \in rows : r.dir[2] = m /\ Len(r.dir) = 2
      <4> DEFINE thirds == {r.dir[3] : r \in {q \in rows : q.dir[2] = m}}
      <4>1. thirds \subseteq Nat
        BY <3>1, <3>6
      <4>2. thirds # {}
        BY <3>3
      <4>3. PICK k \in thirds : \A x \in thirds : k <= x
        <5> HIDE DEF thirds
        <5> QED BY <4>1, <4>2, FirstOf
      <4>4. PICK r \in rows : r.dir[2] = m /\ r.dir[3] = k
        BY <4>3
      <4>5. ASSUME NEW q \in rows, q # r
            PROVE  Files!Before(r.dir, q.dir)
        <5>1. q.dir # r.dir
          BY <4>5
        <5>2. CASE q.dir[2] = m
          <6>1. Len(r.dir) = 3 /\ Len(q.dir) = 3
            BY <3>1, <3>6, <4>4, <5>2
          <6>2. q.dir[3] # k
            BY <3>1, <4>4, <5>1, <5>2, <6>1
          <6>3. k <= q.dir[3] /\ k \in Nat /\ q.dir[3] \in Nat
            <7>1. q.dir[3] \in thirds
              BY <5>2
            <7> HIDE DEF thirds
            <7> QED BY <4>1, <4>3, <7>1
          <6> QED BY <4>4, <5>2, <6>1, <6>2, <6>3 DEF Files!Before
        <5>3. CASE q.dir[2] # m
          <6>1. m < q.dir[2] /\ Len(q.dir) \in {2, 3} /\ Len(r.dir) \in {2, 3}
            BY <3>1, <3>4, <5>3
          <6> QED BY <4>4, <6>1 DEF Files!Before
        <5> QED BY <5>2, <5>3
      <4> QED BY <4>5
    <3> QED BY <3>5, <3>6
  <2> QED BY <2>1, <2>2
<1> QED
  BY <1>2 DEF Files!FirstDir
(* What the report says of a code object depends on its dump only, and its *)
(* path tells its dump.                                                    *)
RowsAgree(report) ==
  \A c, d \in Nat : Files!RowOf(report, c).functions # <<>> =>
    /\ Files!RowOf(report, c).path = Files!RowOf(report, d).path
         => /\ Files!RowOf(report, c).dump = Files!RowOf(report, d).dump
            /\ Files!RowOf(report, c).functions = Files!RowOf(report, d).functions
    /\ /\ Files!RowOf(report, d).functions # <<>>
       /\ Files!RowOf(report, c).dump = Files!RowOf(report, d).dump
       => Files!RowOf(report, c).functions = Files!RowOf(report, d).functions

LEMMA PathsAre ==
  ASSUME NEW D, NEW codes \in Seq([id : Nat, dump : D]),
         \A i, j \in DOMAIN codes : codes[i].id = codes[j].id => i = j
  PROVE  /\ \E T : Files!CopyCode(codes) \in Seq(T)
         /\ Len(Files!CopyCode(codes)) = Len(codes)
         /\ \A i \in 1..Len(codes) :
              /\ Files!CopyCode(codes)[i].id = codes[i].id
              /\ Files!CopyCode(codes)[i].dump = codes[i].dump
              /\ Files!CopyCode(codes)[i].path \in Nat
         /\ \A i, j \in 1..Len(codes) :
              Files!CopyCode(codes)[i].path = Files!CopyCode(codes)[j].path
                => codes[i].dump = codes[j].dump
<1>1. PICK n \in Nat : DOMAIN codes = 1..n /\ Len(codes) = n
  OBVIOUS
<1> DEFINE same(i) == {j \in 1..i : codes[j].dump = codes[i].dump}
           first(i) == CHOOSE j \in same(i) : \A k \in same(i) : j <= k
<1>2. Files!CopyCode(codes) =
        [i \in 1..n |-> [id |-> codes[i].id, dump |-> codes[i].dump,
                         path |-> codes[first(i)].id]]
  BY <1>1 DEF Files!CopyCode
<1>3. ASSUME NEW i \in 1..n
      PROVE  first(i) \in 1..n /\ codes[first(i)].dump = codes[i].dump
  <2>1. same(i) \subseteq Nat /\ i \in same(i) /\ same(i) \subseteq 1..n
    BY <1>1
  <2>2. first(i) \in same(i)
    <3> HIDE DEF same
    <3>1. \E j \in same(i) : \A k \in same(i) : j <= k  BY <2>1, FirstOf
    <3> QED  BY <3>1
  <2> HIDE DEF first
  <2> QED  BY <2>1, <2>2
<1> HIDE DEF first
<1>4. ASSUME NEW i \in 1..n, NEW j \in 1..n,
             codes[first(i)].id = codes[first(j)].id
      PROVE  codes[i].dump = codes[j].dump
  <2>1. \A k, m \in 1..n : codes[k].id = codes[m].id => k = m
    BY <1>1
  <2>2. first(i) \in 1..n /\ first(j) \in 1..n  BY <1>3
  <2>3. first(i) = first(j)  BY <1>4, <2>1, <2>2
  <2> QED  BY <1>3, <2>3
<1>5. Len(Files!CopyCode(codes)) = n /\ \E T : Files!CopyCode(codes) \in Seq(T)
  <2> DEFINE copy == [i \in 1..n |-> [id |-> codes[i].id, dump |-> codes[i].dump,
                                     path |-> codes[first(i)].id]]
             T == {copy[i] : i \in 1..n}
  <2>1. copy \in [1..n -> T]  OBVIOUS
  <2> HIDE DEF copy, T
  <2>2. copy \in Seq(T) /\ Len(copy) = n  BY <1>1, <2>1, IsSequence
  <2> QED  BY <1>2, <2>2 DEF copy
<1>6. ASSUME NEW i \in 1..n PROVE codes[i].id \in Nat
  <2>1. \A e \in [id : Nat, dump : D] : e.id \in Nat  OBVIOUS
  <2>2. codes[i] \in [id : Nat, dump : D]  BY <1>1, ElementOfSeq
  <2> QED  BY <2>1, <2>2
<1>7. ASSUME NEW i \in 1..n
      PROVE  /\ Files!CopyCode(codes)[i].id = codes[i].id
             /\ Files!CopyCode(codes)[i].dump = codes[i].dump
             /\ Files!CopyCode(codes)[i].path = codes[first(i)].id
  BY <1>2
<1>8. \A i \in 1..n : codes[first(i)].id \in Nat  BY <1>3, <1>6
<1>9. \A i \in 1..n : Files!CopyCode(codes)[i].path \in Nat  BY <1>7, <1>8
<1>10. ASSUME NEW i \in 1..n, NEW j \in 1..n,
              Files!CopyCode(codes)[i].path = Files!CopyCode(codes)[j].path
       PROVE  codes[i].dump = codes[j].dump
  BY <1>4, <1>7, <1>10
<1> QED  BY <1>1, <1>5, <1>7, <1>9, <1>10

(* The rows of the report are the code objects', and the functions of one  *)
(* dump are the same in all of its rows (disassemble_code_objects).        *)
LEMMA ReportIs ==
  ASSUME NEW T, NEW codes \in Seq(T), NEW works, NEW tools,
         NEW report, report = Files!Disassemble(codes, works, tools)
  PROVE  /\ DOMAIN report = 1..Len(codes)
         /\ \A i \in 1..Len(codes) :
              /\ report[i].id = codes[i].id /\ report[i].dump = codes[i].dump
              /\ report[i].path = codes[i].path
         /\ \A i, j \in 1..Len(codes) : codes[i].dump = codes[j].dump
              => report[i].functions = report[j].functions
<1>1. PICK n \in Nat : n = Len(codes) /\ DOMAIN codes = 1..n
  OBVIOUS
<1> DEFINE RowFor(c) == Files!ReportRow(<<>>, c, works, tools)
           first == [i \in 0..n |-> [k \in 1..i |-> RowFor(codes[k])]]
           Next1(rows, i) == Append(rows, Files!ReportRow(rows, codes[i], works, tools))
           body(g) == [i \in 0..n |-> IF i = 0 THEN <<>> ELSE Next1(g[i - 1], i)]
           all == CHOOSE g : g = body(g)
<1>2. \A c : /\ RowFor(c).id = c.id /\ RowFor(c).dump = c.dump /\ RowFor(c).path = c.path
  BY DEF Files!ReportRow
<1>3. \A c, d : c.dump = d.dump => /\ RowFor(c).tool = RowFor(d).tool
                                   /\ RowFor(c).functions = RowFor(d).functions
  BY DEF Files!ReportRow
<1>4. ASSUME NEW i \in 1..n, NEW rows, rows = [k \in 1..(i - 1) |-> RowFor(codes[k])]
      PROVE  Files!ReportRow(rows, codes[i], works, tools) = RowFor(codes[i])
  <2> DEFINE prior == {k \in DOMAIN rows : rows[k].dump = codes[i].dump
                                           /\ rows[k].tool # None}
             commands == Files!Commands(works[codes[i].dump].format)
             able == {k \in DOMAIN commands :
                        commands[k] \in tools \cap works[codes[i].dump].readers}
             own == IF able # {} THEN commands[Files!Earliest(able)] ELSE None
             tool == IF prior # {} THEN rows[Files!Earliest(prior)].tool ELSE own
             RowWith(t) == [id |-> codes[i].id, dump |-> codes[i].dump,
                            path |-> codes[i].path, tool |-> t,
                            functions |-> IF t = None THEN <<>>
                              ELSE Files!ParseDisassembly(works[codes[i].dump].listing, t)]
  <2>1. Files!ReportRow(rows, codes[i], works, tools) = RowWith(tool)
    BY DEF Files!ReportRow
  <2>2. RowFor(codes[i]) = RowWith(own)
    <3>1. {k \in DOMAIN <<>> : <<>>[k].dump = codes[i].dump /\ <<>>[k].tool # None} = {}
      OBVIOUS
    <3> QED  BY <3>1 DEF Files!ReportRow
  <2>3. RowFor(codes[i]).tool = own
    <3> HIDE DEF RowFor, own
    <3> QED  BY <2>2
  <2>4. ASSUME prior # {} PROVE rows[Files!Earliest(prior)].tool = own
    <3>1. prior \subseteq 1..(i - 1)  BY <1>4
    <3>2. \E a \in prior : \A b \in prior : a <= b
      <4>1. prior \subseteq Nat  BY <3>1
      <4> HIDE DEF prior
      <4> QED  BY <2>4, <4>1, FirstOf
    <3>3. Files!Earliest(prior) \in prior
      <4> HIDE DEF prior
      <4> QED  BY <3>2 DEF Files!Earliest
    <3>4. PICK k \in prior : k = Files!Earliest(prior)  BY <3>3
    <3>5. k \in 1..(i - 1) /\ rows[k].dump = codes[i].dump  BY <3>1
    <3>6. rows[k] = RowFor(codes[k])  BY <1>4, <3>5
    <3>7. codes[k].dump = codes[i].dump
      <4> HIDE DEF RowFor
      <4> QED  BY <1>2, <3>5, <3>6
    <3>8. rows[k].tool = RowFor(codes[i]).tool
      <4> HIDE DEF RowFor
      <4> QED  BY <1>3, <3>6, <3>7
    <3> HIDE DEF prior, own, RowFor
    <3> QED  BY <2>3, <3>4, <3>8
  <2>5. tool = own
    <3> HIDE DEF prior, own
    <3> QED  BY <2>4
  <2> HIDE DEF tool, own, RowFor, RowWith
  <2> QED  BY <2>1, <2>2, <2>5
<1> HIDE DEF RowFor
<1>5. ASSUME NEW i \in 1..n
      PROVE  Next1([k \in 1..(i - 1) |-> RowFor(codes[k])], i)
               = [k \in 1..i |-> RowFor(codes[k])]
  <2> DEFINE rows == [k \in 1..(i - 1) |-> RowFor(codes[k])]
             next == [k \in 1..i |-> RowFor(codes[k])]
             All == {RowFor(codes[k]) : k \in 1..i}
  <2>1. Next1(rows, i) = Append(rows, RowFor(codes[i]))  BY <1>4
  <2>2. rows \in Seq(All) /\ Len(rows) = i - 1 /\ RowFor(codes[i]) \in All
    <3>1. rows \in [1..(i - 1) -> All] /\ RowFor(codes[i]) \in All  OBVIOUS
    <3>2. i - 1 \in Nat  BY <1>1
    <3> HIDE DEF rows, All
    <3> QED  BY <3>1, <3>2, IsSequence
  <2>3. next \in Seq(All) /\ Len(next) = i
    <3>1. next \in [1..i -> All]  OBVIOUS
    <3>2. i \in Nat  BY <1>1
    <3> HIDE DEF next, All
    <3> QED  BY <3>1, <3>2, IsSequence
  <2>4. Append(rows, RowFor(codes[i])) = next
    <3> DEFINE longer == Append(rows, RowFor(codes[i]))
    <3>1. longer \in Seq(All) /\ Len(longer) = i
      <4> HIDE DEF rows, All
      <4> QED  BY <2>2
    <3>2. \A k \in 1..i : longer[k] = next[k]
      <4>1. \A k \in 1..(i - 1) : longer[k] = rows[k]
        <5> HIDE DEF rows, All
        <5> QED  BY <2>2
      <4>2. longer[i] = RowFor(codes[i])
        <5> HIDE DEF rows, All
        <5> QED  BY <2>2
      <4> HIDE DEF longer
      <4>3. ASSUME NEW k \in 1..i PROVE longer[k] = RowFor(codes[k])
        <5>1. CASE k = i  BY <4>2, <5>1
        <5>2. CASE k # i
          <6>1. k \in 1..(i - 1)  BY <5>2
          <6> QED  BY <4>1, <6>1
        <5> QED  BY <5>1, <5>2
      <4> QED  BY <4>3
    <3> HIDE DEF longer, next, All
    <3>3. Len(longer) = Len(next) /\ \A k \in 1..Len(longer) : longer[k] = next[k]
      BY <2>3, <3>1, <3>2
    <3>4. longer = next  BY <2>3, <3>1, <3>3, SameSequence
    <3> QED  BY <3>4 DEF longer
  <2> HIDE DEF Next1
  <2> QED  BY <2>1, <2>4
<1> HIDE DEF Next1
<1>6. first = body(first)
  <2>1. ASSUME NEW i \in 0..n PROVE first[i] = body(first)[i]
    <3>1. CASE i = 0
      <4>1. [k \in 1..0 |-> RowFor(codes[k])] = <<>>  OBVIOUS
      <4> QED  BY <3>1, <4>1
    <3>2. CASE i # 0
      <4>1. i \in 1..n /\ i - 1 \in 0..n  BY <1>1, <3>2
      <4>2. first[i - 1] = [k \in 1..(i - 1) |-> RowFor(codes[k])]  BY <4>1
      <4>3. first[i] = [k \in 1..i |-> RowFor(codes[k])]  OBVIOUS
      <4>4. body(first)[i] = Next1(first[i - 1], i)  BY <3>2
      <4> QED  BY <1>5, <4>1, <4>2, <4>3, <4>4
    <3> QED  BY <3>1, <3>2
  <2> QED  BY <2>1
<1>7. all = body(all)  BY <1>6
<1>8. report = all[n]
  BY <1>1 DEF Files!Disassemble, Next1
<1> HIDE DEF all
<1> DEFINE S == {i \in 0..n : all[i] = [k \in 1..i |-> RowFor(codes[k])]}
<1>9. 0 \in S
  <2>1. all[0] = <<>>  BY <1>1, <1>7
  <2>2. [k \in 1..0 |-> RowFor(codes[k])] = <<>>  OBVIOUS
  <2> QED  BY <1>1, <2>1, <2>2
<1>10. ASSUME NEW i \in 1..n, i - 1 \in S PROVE i \in S
  <2>1. body(all)[i] = Next1(all[i - 1], i)  BY <1>1
  <2>2. all[i] = Next1(all[i - 1], i)  BY <1>7, <2>1
  <2>3. all[i - 1] = [k \in 1..(i - 1) |-> RowFor(codes[k])]  BY <1>10
  <2> QED  BY <1>1, <1>5, <2>2, <2>3
<1> HIDE DEF S
<1>11. n \in S
  <2>1. \A i \in 0..n : i \in S  BY <1>1, <1>9, <1>10, Induction
  <2>2. n \in 0..n  BY <1>1
  <2> QED  BY <2>1, <2>2
<1>12. report = [k \in 1..n |-> RowFor(codes[k])]
  BY <1>8, <1>11 DEF S
<1>13. DOMAIN report = 1..n /\ \A i \in 1..n : report[i] = RowFor(codes[i])
  BY <1>12
<1>14. ASSUME NEW i \in 1..n
       PROVE  /\ report[i].id = codes[i].id /\ report[i].dump = codes[i].dump
              /\ report[i].path = codes[i].path
  BY <1>2, <1>13
<1>15. ASSUME NEW i \in 1..n, NEW j \in 1..n, codes[i].dump = codes[j].dump
       PROVE  report[i].functions = report[j].functions
  BY <1>3, <1>13, <1>15
<1> QED  BY <1>1, <1>13, <1>14, <1>15

LEMMA ReportAgrees ==
  ASSUME None \notin Nat,
         NEW D, NEW events \in Seq([id : Nat, dump : D]),
         \A i, j \in DOMAIN events : events[i].id = events[j].id => i = j,
         NEW works, NEW tools, NEW report,
         report = Files!Disassemble(Files!CopyCode(events), works, tools)
  PROVE  RowsAgree(report)
<1>1. PICK codes : codes = Files!CopyCode(events)
  OBVIOUS
<1>2. PICK T : codes \in Seq(T)
  BY <1>1, PathsAre
<1>3. PICK n \in Nat : n = Len(events) /\ DOMAIN events = 1..n
  OBVIOUS
<1>4. /\ Len(codes) = n
      /\ \A i \in 1..n : /\ codes[i].id = events[i].id /\ codes[i].path \in Nat
                          /\ codes[i].dump = events[i].dump
      /\ \A i, j \in 1..n : codes[i].path = codes[j].path
                               => events[i].dump = events[j].dump
  <2>1. /\ Len(codes) = Len(events)
        /\ \A i \in 1..Len(events) :
              /\ codes[i].id = events[i].id
              /\ codes[i].dump = events[i].dump
              /\ codes[i].path \in Nat
        /\ \A i, j \in 1..Len(events) :
              codes[i].path = codes[j].path => events[i].dump = events[j].dump
    BY <1>1, PathsAre
  <2> QED  BY <1>3, <2>1
<1>5. /\ DOMAIN report = 1..n
      /\ \A i \in 1..n : /\ report[i].id = codes[i].id
                          /\ report[i].dump = codes[i].dump
                          /\ report[i].path = codes[i].path
      /\ \A i, j \in 1..n : codes[i].dump = codes[j].dump
                               => report[i].functions = report[j].functions
  <2>1. report = Files!Disassemble(codes, works, tools)  BY <1>1
  <2> QED  BY <1>2, <1>4, <2>1, ReportIs
<1>6. ASSUME NEW c \in Nat
      PROVE  \/ \E i \in 1..n : Files!RowOf(report, c) = report[i]
             \/ /\ Files!RowOf(report, c).path = None
                /\ Files!RowOf(report, c).functions = <<>>
  <2> DEFINE rows == {i \in DOMAIN report : report[i].id = c}
  <2>1. CASE rows = {}
    <3>1. Files!RowOf(report, c) = [path |-> None, functions |-> <<>>]
      BY <2>1 DEF Files!RowOf
    <3> QED  BY <3>1
  <2>2. CASE rows # {}
    <3>1. Files!RowOf(report, c) = report[Files!Earliest(rows)]
      BY <2>2 DEF Files!RowOf
    <3>2. rows \subseteq 1..n  BY <1>5
    <3>3. Files!Earliest(rows) \in rows
      <4>1. rows \subseteq Nat  BY <1>3, <3>2
      <4> HIDE DEF rows
      <4>2. \E a \in rows : \A b \in rows : a <= b  BY <2>2, <4>1, FirstOf
      <4> QED  BY <4>2 DEF Files!Earliest
    <3> HIDE DEF rows
    <3> QED  BY <3>1, <3>2, <3>3
  <2> QED  BY <2>1, <2>2
<1>7. ASSUME NEW c \in Nat, NEW d \in Nat, Files!RowOf(report, c).functions # <<>>,
             Files!RowOf(report, c).path = Files!RowOf(report, d).path
      PROVE  /\ Files!RowOf(report, c).dump = Files!RowOf(report, d).dump
             /\ Files!RowOf(report, c).functions = Files!RowOf(report, d).functions
  <2>1. PICK i \in 1..n : Files!RowOf(report, c) = report[i]
    BY <1>6, <1>7
  <2>2. Files!RowOf(report, c).path \in Nat  BY <1>4, <1>5, <2>1
  <2>3. PICK j \in 1..n : Files!RowOf(report, d) = report[j]
    BY <1>6, <1>7, <2>2
  <2>4. codes[i].path = codes[j].path  BY <1>5, <1>7, <2>1, <2>3
  <2>5. events[i].dump = events[j].dump  BY <1>4, <2>4
  <2>6. codes[i].dump = codes[j].dump  BY <1>4, <2>5
  <2> QED  BY <1>5, <2>1, <2>3, <2>6
<1>8. ASSUME NEW c \in Nat, NEW d \in Nat, Files!RowOf(report, c).functions # <<>>,
             Files!RowOf(report, d).functions # <<>>,
             Files!RowOf(report, c).dump = Files!RowOf(report, d).dump
      PROVE  Files!RowOf(report, c).functions = Files!RowOf(report, d).functions
  <2>1. PICK i \in 1..n : Files!RowOf(report, c) = report[i]
    BY <1>6, <1>8
  <2>2. PICK j \in 1..n : Files!RowOf(report, d) = report[j]
    BY <1>6, <1>8
  <2>3. codes[i].dump = codes[j].dump  BY <1>5, <1>8, <2>1, <2>2
  <2> QED  BY <1>5, <2>1, <2>2, <2>3
<1> QED  BY <1>7, <1>8 DEF RowsAgree

(* The kernels after each launch (split_launched_kernels).                 *)
LEMMA SplitSteps ==
  ASSUME NEW T, NEW launches \in Seq(T), NEW report
  PROVE  \E g : /\ Files!SplitLaunched(launches, report) = g[Len(launches)]
                /\ g[0] = Files!NoKernels
                /\ \A i \in 1..Len(launches) :
                     g[i] = IF \E j \in 1..(i - 1) : launches[j] = launches[i]
                            THEN g[i - 1]
                            ELSE Files!SplitKernel(g[i - 1], launches[i], report)
<1>1. PICK n \in Nat : n = Len(launches)
  OBVIOUS
<1> DEFINE Step(acc, i) == IF \E j \in 1..(i - 1) : launches[j] = launches[i]
                           THEN acc ELSE Files!SplitKernel(acc, launches[i], report)
           upto(g, m) == [i \in 0..m |-> IF i = 0 THEN Files!NoKernels
                                         ELSE Step(g[i - 1], i)]
           split == CHOOSE g : g = upto(g, n)
           S == {m \in 0..n : \E g : g = upto(g, m)}
<1>2. Files!SplitLaunched(launches, report) = split[n]
  BY <1>1 DEF Files!SplitLaunched
<1> HIDE DEF Step
<1>3. 0 \in S
  <2> DEFINE g == [i \in 0..0 |-> Files!NoKernels]
  <2>1. g = upto(g, 0)  OBVIOUS
  <2> HIDE DEF g
  <2> QED  BY <1>1, <2>1
<1>4. ASSUME NEW m \in 1..n, m - 1 \in S PROVE m \in S
  <2>1. PICK f : f = upto(f, m - 1)  BY <1>4
  <2> DEFINE g == [i \in 0..m |-> IF i = m THEN Step(f[m - 1], m) ELSE f[i]]
  <2>2. ASSUME NEW i \in 0..m PROVE g[i] = upto(g, m)[i]
    <3>1. CASE i = m
      <4>1. m # 0 /\ m - 1 \in 0..m /\ m - 1 # m  BY <1>1
      <4>2. g[m - 1] = f[m - 1]  BY <4>1
      <4>3. g[m] = Step(f[m - 1], m)  BY <1>1
      <4>4. upto(g, m)[m] = Step(g[m - 1], m)
        <5> HIDE DEF g
        <5> QED  BY <1>1, <4>1
      <4> HIDE DEF g
      <4> QED  BY <3>1, <4>2, <4>3, <4>4
    <3>2. CASE i # m
      <4>1. i \in 0..(m - 1)  BY <1>1, <3>2
      <4>2. g[i] = f[i]  BY <3>2
      <4>3. f[i] = upto(f, m - 1)[i]  BY <2>1
      <4>4. CASE i = 0
        <5>1. f[i] = Files!NoKernels  BY <4>1, <4>3, <4>4
        <5>2. upto(g, m)[i] = Files!NoKernels
          <6> HIDE DEF g
          <6> QED  BY <4>4
        <5> QED  BY <4>2, <5>1, <5>2
      <4>5. CASE i # 0
        <5>1. i - 1 \in 0..m /\ i - 1 # m  BY <1>1, <4>1, <4>5
        <5>2. g[i - 1] = f[i - 1]  BY <5>1
        <5>3. f[i] = Step(f[i - 1], i)  BY <4>1, <4>3, <4>5
        <5>4. upto(g, m)[i] = Step(g[i - 1], i)
          <6> HIDE DEF g
          <6> QED  BY <4>5
        <5> HIDE DEF g
        <5> QED  BY <4>2, <5>2, <5>3, <5>4
      <4> QED  BY <4>4, <4>5
    <3> QED  BY <3>1, <3>2
  <2>3. g = upto(g, m)
    <3> DEFINE u == upto(g, m)
    <3>1. DOMAIN g = 0..m /\ DOMAIN u = 0..m
          /\ g = [i \in DOMAIN g |-> g[i]] /\ u = [i \in DOMAIN u |-> u[i]]
      OBVIOUS
    <3>2. \A i \in 0..m : g[i] = u[i]  BY <2>2
    <3> HIDE DEF g, u
    <3>3. g = u  BY <3>1, <3>2
    <3> QED  BY <3>3 DEF u
  <2>4. m \in 0..n  BY <1>1
  <2> HIDE DEF g
  <2> QED  BY <2>3, <2>4
<1>5. n \in S
  <2> HIDE DEF S
  <2>1. \A m \in 0..n : m \in S  BY <1>1, <1>3, <1>4, Induction
  <2> QED  BY <1>1, <2>1
<1>6. split = upto(split, n)  BY <1>5
<1> HIDE DEF split
<1>7. split[0] = Files!NoKernels  BY <1>1, <1>6
<1>8. ASSUME NEW i \in 1..n PROVE split[i] = Step(split[i - 1], i)
  <2>1. split[i] = upto(split, n)[i]  BY <1>6
  <2>2. upto(split, n)[i] = Step(split[i - 1], i)  BY <1>1
  <2> QED  BY <2>1, <2>2
<1> QED  BY <1>1, <1>2, <1>7, <1>8 DEF Step

IsListed(q) == \E T : q \in Seq(T)

LEMMA Appended ==
  ASSUME NEW q, IsListed(q), NEW x
  PROVE  /\ IsListed(Append(q, x))
         /\ Len(q) \in Nat /\ DOMAIN q = 1..Len(q)
         /\ DOMAIN Append(q, x) = 1..(Len(q) + 1)
         /\ \A i \in 1..Len(q) : Append(q, x)[i] = q[i]
         /\ Append(q, x)[Len(q) + 1] = x
<1>1. PICK T : q \in Seq(T)  BY DEF IsListed
<1> DEFINE U == T \cup {x}
<1>2. \A i \in 1..Len(q) : q[i] \in U  BY <1>1, ElementOfSeq
<1>3. Len(q) \in Nat /\ DOMAIN q = 1..Len(q) /\ q = [i \in 1..Len(q) |-> q[i]]
  BY <1>1
<1>4. q \in Seq(U)
  <2>1. q \in [1..Len(q) -> U]
    <3> HIDE DEF U
    <3> QED  BY <1>2, <1>3
  <2> HIDE DEF U
  <2> QED  BY <1>3, <2>1, IsSequence
<1>5. x \in U  OBVIOUS
<1> HIDE DEF U
<1>6. /\ Append(q, x) \in Seq(U) /\ Len(Append(q, x)) = Len(q) + 1
      /\ \A i \in 1..Len(q) : Append(q, x)[i] = q[i]
      /\ Append(q, x)[Len(q) + 1] = x
  BY <1>4, <1>5, AppendIs
<1>7. DOMAIN Append(q, x) = 1..(Len(q) + 1)  BY <1>6
<1> QED  BY <1>3, <1>6, <1>7 DEF IsListed

-----------------------------------------------------------------------------
HasFunction(row, name) ==
  \E i \in DOMAIN row.functions :
    row.functions[i].name = name /\ row.functions[i].size > 0

(* A kernel is written from its own code object.                           *)
KernelOwn(w, report) ==
  /\ w.code \in Nat
  /\ DirShape(w.dir, SafeNames[w.name])
  /\ Files!RowOf(report, w.code).functions # <<>>
  /\ w.body[1] = Files!RowOf(report, w.code).dump
  /\ HasFunction(Files!RowOf(report, w.code), w.name) => w.body[2] = w.name

(* Of the launches so far, all from code objects that could be read have   *)
(* a kernel of their name; no kernel is written twice.                     *)
KernelsOwn(acc, done, report) ==
  /\ DOMAIN acc = {"dirs", "written", "missing", "asked"}
  /\ IsListed(acc.dirs) /\ IsListed(acc.written) /\ IsListed(acc.asked)
  /\ \A i \in DOMAIN acc.written :
       /\ KernelOwn(acc.written[i], report)
       /\ [name |-> acc.written[i].name, code |-> acc.written[i].code] \in done
  /\ \A i, j \in DOMAIN acc.written :
       \/ acc.written[i].dir = acc.written[j].dir
       \/ /\ acc.written[i].name = acc.written[j].name
          /\ acc.written[i].code = acc.written[j].code
       => i = j
  /\ \A i \in DOMAIN acc.dirs : \E j \in DOMAIN acc.written :
       /\ acc.dirs[i].name = acc.written[j].name
       /\ acc.dirs[i].path = Files!RowOf(report, acc.written[j].code).path
  /\ acc.missing \subseteq done
  /\ \A l \in done :
       /\ l \in acc.missing <=> Files!RowOf(report, l.code).functions = <<>>
       /\ l \notin acc.missing =>
            \E j \in DOMAIN acc.written : acc.written[j].name = l.name

LEMMA NoKernelsOwn ==
  ASSUME NEW report
  PROVE  KernelsOwn(Files!NoKernels, {}, report)
<1>1. DOMAIN <<>> = {} /\ <<>> \in Seq({})  OBVIOUS
<1>2. IsListed(<<>>)  BY <1>1 DEF IsListed
<1> QED  BY <1>1, <1>2 DEF KernelsOwn, Files!NoKernels

(* A launch that is given the directory of an earlier one.                 *)
LEMMA ReuseKeepsOwn ==
  ASSUME NEW acc, NEW done, NEW report, KernelsOwn(acc, done, report),
         RowsAgree(report),
         NEW l, l.code \in Nat, l \notin done,
         NEW i \in DOMAIN acc.dirs, acc.dirs[i].name = l.name,
         acc.dirs[i].path = Files!RowOf(report, l.code).path,
         NEW e, e.name = l.name, e.path = Files!RowOf(report, l.code).path,
         NEW next, next = [acc EXCEPT !.dirs = Append(@, e)]
  PROVE  KernelsOwn(next, done \cup {l}, report)
<1>1. PICK j \in DOMAIN acc.written :
        /\ acc.dirs[i].name = acc.written[j].name
        /\ acc.dirs[i].path = Files!RowOf(report, acc.written[j].code).path
  BY DEF KernelsOwn
<1>2. Files!RowOf(report, l.code).functions # <<>>
  <2>1. /\ acc.written[j].code \in Nat
        /\ Files!RowOf(report, acc.written[j].code).functions # <<>>
    BY <1>1 DEF KernelsOwn, KernelOwn
  <2>2. Files!RowOf(report, acc.written[j].code).path = Files!RowOf(report, l.code).path
    BY <1>1
  <2> QED  BY <2>1, <2>2 DEF RowsAgree
<1>3. /\ DOMAIN next = {"dirs", "written", "missing", "asked"}
      /\ next.dirs = Append(acc.dirs, e) /\ next.written = acc.written
      /\ next.missing = acc.missing /\ next.asked = acc.asked
  BY DEF KernelsOwn
<1>4. /\ IsListed(next.dirs)
      /\ \A k \in DOMAIN next.dirs :
           (k \in DOMAIN acc.dirs /\ next.dirs[k] = acc.dirs[k]) \/ next.dirs[k] = e
  <2>1. IsListed(acc.dirs)  BY DEF KernelsOwn
  <2> QED  BY <1>3, <2>1, Appended
<1>5. \A k \in DOMAIN next.dirs : \E m \in DOMAIN next.written :
        /\ next.dirs[k].name = next.written[m].name
        /\ next.dirs[k].path = Files!RowOf(report, next.written[m].code).path
  <2>1. \A k \in DOMAIN acc.dirs : \E m \in DOMAIN acc.written :
          /\ acc.dirs[k].name = acc.written[m].name
          /\ acc.dirs[k].path = Files!RowOf(report, acc.written[m].code).path
    BY DEF KernelsOwn
  <2>2. e.name = acc.written[j].name
        /\ e.path = Files!RowOf(report, acc.written[j].code).path
    BY <1>1
  <2> QED  BY <1>1, <1>3, <1>4, <2>1, <2>2
<1>6. l \notin acc.missing /\ next.missing \subseteq done \cup {l}
  BY <1>3 DEF KernelsOwn
<1>7. \A k \in done \cup {l} :
        /\ k \in next.missing <=> Files!RowOf(report, k.code).functions = <<>>
        /\ k \notin next.missing =>
             \E m \in DOMAIN next.written : next.written[m].name = k.name
  <2>1. \A k \in done :
          /\ k \in acc.missing <=> Files!RowOf(report, k.code).functions = <<>>
          /\ k \notin acc.missing =>
               \E m \in DOMAIN acc.written : acc.written[m].name = k.name
    BY DEF KernelsOwn
  <2>2. acc.written[j].name = l.name  BY <1>1
  <2> QED  BY <1>1, <1>2, <1>3, <1>6, <2>1, <2>2
<1>8. /\ \A k \in DOMAIN acc.written :
           /\ KernelOwn(acc.written[k], report)
           /\ [name |-> acc.written[k].name, code |-> acc.written[k].code] \in done
      /\ \A k, m \in DOMAIN acc.written :
           \/ acc.written[k].dir = acc.written[m].dir
           \/ /\ acc.written[k].name = acc.written[m].name
              /\ acc.written[k].code = acc.written[m].code
           => k = m
      /\ IsListed(acc.written) /\ IsListed(acc.asked)
  BY DEF KernelsOwn
<1> QED  BY <1>3, <1>4, <1>5, <1>6, <1>7, <1>8 DEF KernelsOwn

(* A launch whose code object could not be read.                           *)
LEMMA MissingKeepsOwn ==
  ASSUME NEW acc, NEW done, NEW report, KernelsOwn(acc, done, report),
         NEW l, Files!RowOf(report, l.code).functions = <<>>,
         NEW next, next = [acc EXCEPT !.missing = @ \cup {l}]
  PROVE  KernelsOwn(next, done \cup {l}, report)
<1>1. /\ DOMAIN next = {"dirs", "written", "missing", "asked"}
      /\ next.dirs = acc.dirs /\ next.written = acc.written
      /\ next.missing = acc.missing \cup {l} /\ next.asked = acc.asked
  BY DEF KernelsOwn
<1>2. \A k \in done \cup {l} :
        /\ k \in next.missing <=> Files!RowOf(report, k.code).functions = <<>>
        /\ k \notin next.missing =>
             \E m \in DOMAIN next.written : next.written[m].name = k.name
  BY <1>1 DEF KernelsOwn
<1> QED  BY <1>1, <1>2 DEF KernelsOwn

(* A launch a kernel is written for.                                       *)
LEMMA WriteKeepsOwn ==
  ASSUME NEW acc, NEW done, NEW report, KernelsOwn(acc, done, report),
         NEW l, l = [name |-> l.name, code |-> l.code], l \notin done,
         NEW e, e.name = l.name, e.path = Files!RowOf(report, l.code).path,
         NEW w, w.name = l.name, w.code = l.code, KernelOwn(w, report),
         \A i \in DOMAIN acc.written : acc.written[i].dir # w.dir,
         NEW base,
         NEW next, next = [acc EXCEPT !.dirs = Append(@, e),
                                      !.asked = base,
                                      !.written = Append(@, w)],
         IsListed(base)
  PROVE  KernelsOwn(next, done \cup {l}, report)
<1>1. /\ DOMAIN next = {"dirs", "written", "missing", "asked"}
      /\ next.dirs = Append(acc.dirs, e) /\ next.written = Append(acc.written, w)
      /\ next.missing = acc.missing /\ next.asked = base
  BY DEF KernelsOwn
<1>2. /\ \A i \in DOMAIN acc.written :
           /\ KernelOwn(acc.written[i], report)
           /\ [name |-> acc.written[i].name, code |-> acc.written[i].code] \in done
      /\ \A i, j \in DOMAIN acc.written :
           \/ acc.written[i].dir = acc.written[j].dir
           \/ /\ acc.written[i].name = acc.written[j].name
              /\ acc.written[i].code = acc.written[j].code
           => i = j
  BY DEF KernelsOwn
<1>3. PICK n \in Nat :
        /\ DOMAIN acc.written = 1..n /\ DOMAIN next.written = 1..(n + 1)
        /\ \A i \in 1..n : next.written[i] = acc.written[i]
        /\ next.written[n + 1] = w
        /\ IsListed(next.written)
  <2>1. IsListed(acc.written)  BY DEF KernelsOwn
  <2> QED  BY <1>1, <2>1, Appended
<1>4. /\ IsListed(next.dirs)
      /\ \A k \in DOMAIN next.dirs :
           (k \in DOMAIN acc.dirs /\ next.dirs[k] = acc.dirs[k]) \/ next.dirs[k] = e
  <2>1. IsListed(acc.dirs)  BY DEF KernelsOwn
  <2> QED  BY <1>1, <2>1, Appended
<1>5. \A i \in DOMAIN next.written :
        (i \in DOMAIN acc.written /\ next.written[i] = acc.written[i])
        \/ (i = n + 1 /\ next.written[i] = w)
  BY <1>3
<1>6. \A i \in DOMAIN acc.written :
        i \in DOMAIN next.written /\ next.written[i] = acc.written[i]
  BY <1>3
<1>7. n + 1 \in DOMAIN next.written /\ next.written[n + 1] = w  BY <1>3
<1>8. ASSUME NEW i \in DOMAIN next.written
      PROVE  /\ KernelOwn(next.written[i], report)
             /\ [name |-> next.written[i].name, code |-> next.written[i].code]
                  \in done \cup {l}
  BY <1>2, <1>5
<1>9. ASSUME NEW i \in DOMAIN acc.written
      PROVE  ~(acc.written[i].name = w.name /\ acc.written[i].code = w.code)
  <2>1. [name |-> acc.written[i].name, code |-> acc.written[i].code] \in done
    BY <1>2
  <2> QED  BY <2>1
<1>10. ASSUME NEW i \in DOMAIN next.written, NEW j \in DOMAIN next.written,
              \/ next.written[i].dir = next.written[j].dir
              \/ /\ next.written[i].name = next.written[j].name
                 /\ next.written[i].code = next.written[j].code
       PROVE  i = j
  <2>1. CASE i = n + 1 /\ j = n + 1  BY <2>1
  <2>2. CASE i # n + 1 /\ j = n + 1
    <3>1. i \in DOMAIN acc.written /\ next.written[i] = acc.written[i]
          /\ next.written[j] = w
      BY <1>5, <1>7, <2>2
    <3> QED  BY <1>9, <1>10, <3>1
  <2>3. CASE i = n + 1 /\ j # n + 1
    <3>1. j \in DOMAIN acc.written /\ next.written[j] = acc.written[j]
          /\ next.written[i] = w
      BY <1>5, <1>7, <2>3
    <3> QED  BY <1>9, <1>10, <3>1
  <2>4. CASE i # n + 1 /\ j # n + 1
    <3>1. /\ i \in DOMAIN acc.written /\ next.written[i] = acc.written[i]
          /\ j \in DOMAIN acc.written /\ next.written[j] = acc.written[j]
      BY <1>5, <2>4
    <3> QED  BY <1>2, <1>10, <3>1
  <2> QED  BY <2>1, <2>2, <2>3, <2>4
<1>11. \A k \in DOMAIN next.dirs : \E m \in DOMAIN next.written :
         /\ next.dirs[k].name = next.written[m].name
         /\ next.dirs[k].path = Files!RowOf(report, next.written[m].code).path
  <2>1. \A k \in DOMAIN acc.dirs : \E m \in DOMAIN acc.written :
          /\ acc.dirs[k].name = acc.written[m].name
          /\ acc.dirs[k].path = Files!RowOf(report, acc.written[m].code).path
    BY DEF KernelsOwn
  <2>2. \A k \in DOMAIN acc.dirs : \E m \in DOMAIN next.written :
          /\ acc.dirs[k].name = next.written[m].name
          /\ acc.dirs[k].path = Files!RowOf(report, next.written[m].code).path
    BY <1>6, <2>1
  <2>3. \E m \in DOMAIN next.written :
          /\ e.name = next.written[m].name
          /\ e.path = Files!RowOf(report, next.written[m].code).path
    BY <1>7
  <2>4. ASSUME NEW k \in DOMAIN next.dirs
        PROVE  \E m \in DOMAIN next.written :
                 /\ next.dirs[k].name = next.written[m].name
                 /\ next.dirs[k].path = Files!RowOf(report, next.written[m].code).path
    <3>1. CASE k \in DOMAIN acc.dirs /\ next.dirs[k] = acc.dirs[k]
      <4>1. PICK m \in DOMAIN next.written :
              /\ acc.dirs[k].name = next.written[m].name
              /\ acc.dirs[k].path = Files!RowOf(report, next.written[m].code).path
        BY <2>2, <3>1
      <4> QED  BY <3>1, <4>1
    <3>2. CASE next.dirs[k] = e
      BY <2>3, <3>2
    <3> QED  BY <1>4, <3>1, <3>2
  <2> QED  BY <2>4
<1>12. l \notin acc.missing /\ next.missing \subseteq done \cup {l}
  BY <1>1 DEF KernelsOwn
<1>13. \A k \in done \cup {l} :
         /\ k \in next.missing <=> Files!RowOf(report, k.code).functions = <<>>
         /\ k \notin next.missing =>
              \E m \in DOMAIN next.written : next.written[m].name = k.name
  <2>1. \A k \in done :
          /\ k \in acc.missing <=> Files!RowOf(report, k.code).functions = <<>>
          /\ k \notin acc.missing =>
               \E m \in DOMAIN acc.written : acc.written[m].name = k.name
    BY DEF KernelsOwn
  <2>2. Files!RowOf(report, l.code).functions # <<>>
    BY DEF KernelOwn
  <2>3. \E m \in DOMAIN next.written : next.written[m].name = l.name
    BY <1>7
  <2> QED  BY <1>1, <1>6, <1>12, <2>1, <2>2, <2>3
<1>14. IsListed(next.asked)  BY <1>1
<1> QED  BY <1>1, <1>3, <1>4, <1>8, <1>10, <1>11, <1>12, <1>13, <1>14 DEF KernelsOwn

LEMMA SplitKeepsOwn ==
  ASSUME NEW acc, NEW done, NEW report, KernelsOwn(acc, done, report),
         RowsAgree(report),
         NEW l, l = [name |-> l.name, code |-> l.code], l.code \in Nat, l \notin done
  PROVE  KernelsOwn(Files!SplitKernel(acc, l, report), done \cup {l}, report)
<1> DEFINE row == Files!RowOf(report, l.code)
           reuse == {i \in DOMAIN acc.dirs : acc.dirs[i].name = l.name
                                             /\ acc.dirs[i].path = row.path}
           exact == {i \in DOMAIN row.functions :
                       row.functions[i].name = l.name /\ row.functions[i].size > 0}
           match == IF exact # {} THEN row.functions[CHOOSE i \in exact : TRUE]
                    ELSE Files!SelectFallback(l.name, row.functions)
           base == SafeNames[l.name]
           asked == Append(acc.asked, base)
           count == Cardinality({i \in DOMAIN asked : asked[i] = base})
           used == {acc.written[i].dir : i \in DOMAIN acc.written}
           fresh == Files!UniqueDir(base, l.code, used, count)
           Entry(dir) == [name |-> l.name, code |-> l.code, path |-> row.path, dir |-> dir]
           new == [dir |-> fresh, name |-> l.name, code |-> l.code,
                   body |-> <<row.dump, match.name>>]
           split == Files!SplitKernel(acc, l, report)
<1>1. split =
        IF reuse # {}
        THEN [acc EXCEPT !.dirs = Append(@, Entry(acc.dirs[Files!Earliest(reuse)].dir))]
        ELSE IF row.functions = <<>>
        THEN [acc EXCEPT !.missing = @ \cup {l}]
        ELSE [acc EXCEPT !.dirs = Append(@, Entry(fresh)), !.asked = asked,
                         !.written = Append(@, new)]
  BY CardinalityIs DEF Files!SplitKernel
<1>2. \A d : Entry(d).name = l.name /\ Entry(d).path = row.path
  OBVIOUS
<1> HIDE DEF split, Entry
<1>3. CASE reuse # {}
  <2>1. PICK i \in DOMAIN acc.dirs : acc.dirs[i].name = l.name
                                     /\ acc.dirs[i].path = row.path
    BY <1>3
  <2>2. PICK e : /\ e.name = l.name /\ e.path = row.path
                 /\ split = [acc EXCEPT !.dirs = Append(@, e)]
    <3> HIDE DEF reuse
    <3> QED  BY <1>1, <1>2, <1>3
  <2>3. KernelsOwn(split, done \cup {l}, report)
    BY <2>1, <2>2, ReuseKeepsOwn
  <2> QED  BY <2>3 DEF split
<1>4. CASE reuse = {} /\ row.functions = <<>>
  <2>1. split = [acc EXCEPT !.missing = @ \cup {l}]
    BY <1>1, <1>4
  <2>2. KernelsOwn(split, done \cup {l}, report)
    BY <1>4, <2>1, MissingKeepsOwn
  <2> QED  BY <2>2 DEF split
<1>5. CASE reuse = {} /\ row.functions # <<>>
  <2>1. split = [acc EXCEPT !.dirs = Append(@, Entry(fresh)), !.asked = asked,
                            !.written = Append(@, new)]
    <3> HIDE DEF reuse, fresh, new, asked
    <3> QED  BY <1>1, <1>5
  <2>2. IsListed(asked) /\ \E n \in Nat : DOMAIN asked = 1..n
    <3>1. IsListed(acc.asked)  BY DEF KernelsOwn
    <3>2. /\ IsListed(asked) /\ Len(acc.asked) \in Nat
          /\ DOMAIN asked = 1..(Len(acc.asked) + 1)
      BY <3>1, Appended
    <3>3. Len(acc.asked) + 1 \in Nat  BY <3>2
    <3> QED  BY <3>2, <3>3
  <2>3. count \in Nat
    <3>1. PICK n \in Nat : DOMAIN asked = 1..n  BY <2>2
    <3>2. IsFiniteSet(1..n)
      <4>1. 1 \in Int /\ n \in Int  OBVIOUS
      <4> QED  BY <4>1, FS_Interval
    <3> DEFINE mine == {i \in DOMAIN asked : asked[i] = base}
    <3>3. mine \subseteq 1..n  BY <3>1
    <3> HIDE DEF mine
    <3>4. IsFiniteSet(mine)  BY <3>2, <3>3, FS_Subset
    <3>5. Cardinality(mine) \in Nat  BY <3>4, FS_CardinalityType
    <3> QED  BY <3>5 DEF mine
  <2>4. IsFiniteSet(used)
    <3>1. PICK n \in Nat : DOMAIN acc.written = 1..n
      <4>1. IsListed(acc.written)  BY DEF KernelsOwn
      <4> QED  BY <4>1, Appended
    <3>2. IsFiniteSet(1..n)
      <4>1. 1 \in Int /\ n \in Int  OBVIOUS
      <4> QED  BY <4>1, FS_Interval
    <3> DEFINE dirs == [i \in 1..n |-> acc.written[i].dir]
    <3>3. used = {dirs[i] : i \in 1..n}  BY <3>1
    <3>4. DOMAIN dirs = 1..n  OBVIOUS
    <3> HIDE DEF dirs, used
    <3>5. IsFiniteSet({dirs[i] : i \in 1..n})  BY <3>2, <3>4, ImageFinite
    <3> QED  BY <3>3, <3>5
  <2>5. fresh \notin used /\ DirShape(fresh, base)
    <3> HIDE DEF used, count, base
    <3>1. fresh \notin used  BY <2>3, <2>4, FreshDir
    <3>2. DirShape(fresh, base)  BY <2>3, <2>4, FreshShape
    <3> QED  BY <3>1, <3>2
  <2>6. HasFunction(row, l.name) => match.name = l.name
    <3>1. SUFFICES ASSUME HasFunction(row, l.name) PROVE match.name = l.name
      OBVIOUS
    <3> HIDE DEF row
    <3>2. exact # {}  BY <3>1 DEF HasFunction
    <3>3. (CHOOSE i \in exact : TRUE) \in exact
      <4> HIDE DEF exact
      <4> QED  BY <3>2
    <3>4. PICK i \in exact : match = row.functions[i]
      <4>1. match = row.functions[CHOOSE i \in exact : TRUE]  BY <3>2
      <4> HIDE DEF exact, match
      <4> QED  BY <3>3, <4>1
    <3> HIDE DEF match
    <3> QED  BY <3>4
  <2>7. /\ new.dir = fresh /\ new.name = l.name /\ new.code = l.code
        /\ new.body[1] = row.dump /\ new.body[2] = match.name
    <3> HIDE DEF fresh, row, match
    <3> QED  OBVIOUS
  <2>8. \A i \in DOMAIN acc.written : acc.written[i].dir # fresh
    <3> HIDE DEF fresh
    <3> QED  BY <2>5
  <2> HIDE DEF new, fresh, match, count, used, asked, exact
  <2>9. KernelOwn(new, report)
    BY <1>5, <2>5, <2>6, <2>7 DEF KernelOwn
  <2>10. PICK e : e = Entry(fresh)  OBVIOUS
  <2>11. e.name = l.name /\ e.path = row.path  BY <1>2, <2>10
  <2>12. KernelsOwn(split, done \cup {l}, report)
    BY <2>1, <2>2, <2>7, <2>8, <2>9, <2>10, <2>11, WriteKeepsOwn
  <2> QED  BY <2>12 DEF split
<1> QED  BY <1>3, <1>4, <1>5

LEMMA AllSplitOwn ==
  ASSUME NEW N, NEW launches \in Seq([name : N, code : Nat]), NEW report,
         RowsAgree(report)
  PROVE  KernelsOwn(Files!SplitLaunched(launches, report),
                    {launches[i] : i \in DOMAIN launches}, report)
<1>1. PICK n \in Nat : n = Len(launches) /\ DOMAIN launches = 1..n
  OBVIOUS
<1>2. PICK g : /\ Files!SplitLaunched(launches, report) = g[n]
               /\ g[0] = Files!NoKernels
               /\ \A i \in 1..n :
                    g[i] = IF \E j \in 1..(i - 1) : launches[j] = launches[i]
                           THEN g[i - 1]
                           ELSE Files!SplitKernel(g[i - 1], launches[i], report)
  BY <1>1, SplitSteps
<1> DEFINE done(i) == {launches[j] : j \in 1..i}
           S == {i \in 0..n : KernelsOwn(g[i], done(i), report)}
<1>3. 0 \in S
  <2>1. done(0) = {}  OBVIOUS
  <2>2. KernelsOwn(g[0], {}, report)  BY <1>2, NoKernelsOwn
  <2>3. KernelsOwn(g[0], done(0), report)
    <3> HIDE DEF done
    <3> QED  BY <2>1, <2>2
  <2> HIDE DEF done
  <2> QED  BY <1>1, <2>3
<1>4. ASSUME NEW i \in 1..n, i - 1 \in S PROVE i \in S
  <2>1. PICK l : l = launches[i]  OBVIOUS
  <2>2. l = [name |-> l.name, code |-> l.code] /\ l.code \in Nat
    <3>1. l \in [name : N, code : Nat]  BY <1>1, <2>1, ElementOfSeq
    <3> QED  BY <3>1
  <2>3. KernelsOwn(g[i - 1], done(i - 1), report)  BY <1>4
  <2>4. done(i) = done(i - 1) \cup {l}
    <3>1. \A j : j \in 1..i <=> j \in 1..(i - 1) \/ j = i  BY <1>1
    <3> QED  BY <2>1, <3>1
  <2>5. (\E j \in 1..(i - 1) : launches[j] = launches[i]) <=> l \in done(i - 1)
    BY <2>1
  <2> HIDE DEF done
  <2>6. CASE l \in done(i - 1)
    <3>1. g[i] = g[i - 1]  BY <1>2, <2>5, <2>6
    <3>2. done(i) = done(i - 1)  BY <2>4, <2>6
    <3>3. KernelsOwn(g[i], done(i), report)  BY <2>3, <3>1, <3>2
    <3> QED  BY <1>1, <3>3
  <2>7. CASE l \notin done(i - 1)
    <3>1. g[i] = Files!SplitKernel(g[i - 1], l, report)  BY <1>2, <2>1, <2>5, <2>7
    <3>2. KernelsOwn(Files!SplitKernel(g[i - 1], l, report), done(i - 1) \cup {l}, report)
      BY <2>2, <2>3, <2>7, SplitKeepsOwn
    <3>3. KernelsOwn(g[i], done(i), report)  BY <2>4, <3>1, <3>2
    <3> QED  BY <1>1, <3>3
  <2> QED  BY <2>6, <2>7
<1>5. n \in S
  <2> HIDE DEF S
  <2>1. \A i \in 0..n : i \in S  BY <1>1, <1>3, <1>4, Induction
  <2> QED  BY <1>1, <2>1
<1> QED  BY <1>1, <1>2, <1>5

(* Whatever is launched, every launch of a code object that could be read  *)
(* is shown a kernel of its own code object (split_launched_kernels,       *)
(* copy_code_objects, resolve_kernel_dir).                                 *)
THEOREM LaunchesShownOwn ==
  ASSUME None \notin Nat,
         NEW D, NEW events \in Seq([id : Nat, dump : D]),
         \A i, j \in DOMAIN events : events[i].id = events[j].id => i = j,
         NEW works, NEW tools, NEW report,
         report = Files!Disassemble(Files!CopyCode(events), works, tools),
         NEW N, NEW launches \in Seq([name : N, code : Nat])
  PROVE  Files!ResolvedIsOwn(launches, report, Files!SplitLaunched(launches, report))
<1> DEFINE done == {launches[i] : i \in DOMAIN launches}
<1>1. RowsAgree(report)  BY ReportAgrees
<1>2. PICK made : made = Files!SplitLaunched(launches, report)  OBVIOUS
<1>3. KernelsOwn(made, done, report)  BY <1>1, <1>2, AllSplitOwn
<1> DEFINE RowFor(l) == Files!RowOf(report, l.code)
           written == {made.written[i] : i \in DOMAIN made.written}
           meta == {[dir |-> w.dir, name |-> w.name, code |-> w.code] : w \in written}
           Body(d) == (CHOOSE w \in written : w.dir = d).body
           ShownTo(l) == Body(Files!Resolve(meta, l.name, l.code, <<l.name, l.code>>))
           Named(l) == \E w \in meta : w.name = l.name /\ w.code = l.code
           Unique(l) == \A w \in written :
                          w.name = l.name => w.body[1] = RowFor(l).dump
           Exact(l) == \E f \in Files!ToSet(RowFor(l).functions) : f.name = l.name /\ f.size > 0
<1>4. \A w \in written : KernelOwn(w, report)
  BY <1>3 DEF KernelsOwn
<1>5. \A v, w \in written :
        v.dir = w.dir \/ (v.name = w.name /\ v.code = w.code) => v = w
  <2> SUFFICES ASSUME NEW v \in written, NEW w \in written,
                      v.dir = w.dir \/ (v.name = w.name /\ v.code = w.code)
               PROVE  v = w
    OBVIOUS
  <2>1. PICK i \in DOMAIN made.written : v = made.written[i]  OBVIOUS
  <2>2. PICK j \in DOMAIN made.written : w = made.written[j]  OBVIOUS
  <2>3. i = j
    <3> HIDE DEF written
    <3> QED  BY <1>3, <2>1, <2>2 DEF KernelsOwn
  <2> QED  BY <2>1, <2>2, <2>3
<1>6. ASSUME NEW r \in meta
      PROVE  \E w \in written :
               /\ r.dir = w.dir /\ r.name = w.name /\ r.code = w.code
               /\ r = [dir |-> w.dir, name |-> w.name, code |-> w.code]
  <2> HIDE DEF written
  <2>1. PICK w \in written : r = [dir |-> w.dir, name |-> w.name, code |-> w.code]
    OBVIOUS
  <2>2. r.dir = w.dir /\ r.name = w.name /\ r.code = w.code  BY <2>1
  <2> QED  BY <2>1, <2>2
<1>7. \A w \in written : [dir |-> w.dir, name |-> w.name, code |-> w.code] \in meta
  OBVIOUS
<1>8. ASSUME NEW w \in written PROVE Body(w.dir) = w.body
  <2> HIDE DEF written
  <2>1. \E v \in written : v.dir = w.dir  OBVIOUS
  <2>2. PICK v : v = CHOOSE u \in written : u.dir = w.dir  OBVIOUS
  <2>3. v \in written /\ v.dir = w.dir  BY <2>1, <2>2
  <2>4. v = w  BY <1>5, <2>3
  <2> QED  BY <2>2, <2>4
<1>9. \A l \in done : /\ l \in made.missing <=> RowFor(l).functions = <<>>
                      /\ l \notin made.missing =>
                           \E w \in written : w.name = l.name
  BY <1>3 DEF KernelsOwn
<1>10. \A l \in done : l.code \in Nat
  <2>1. ASSUME NEW i \in DOMAIN launches PROVE launches[i].code \in Nat
    <3>1. i \in 1..Len(launches)  OBVIOUS
    <3>2. launches[i] \in [name : N, code : Nat]  BY <3>1, ElementOfSeq
    <3> QED  BY <3>2
  <2> QED  BY <2>1
<1>11. \A l \in done : Exact(l) <=> HasFunction(RowFor(l), l.name)
  BY SetIs DEF HasFunction
<1> HIDE DEF done, written, meta, Body, Exact, RowFor
<1>12. ASSUME NEW l \in done, l \notin made.missing, Named(l) \/ Unique(l)
       PROVE  /\ ShownTo(l)[1] = RowFor(l).dump
              /\ Exact(l) => ShownTo(l)[2] = l.name
  <2> DEFINE own == {r \in meta : r.name = l.name /\ r.code = l.code}
             byName == {r \in meta : r.name = l.name}
  <2>1. byName # {}
    <3>1. PICK w \in written : w.name = l.name  BY <1>9, <1>12
    <3>2. PICK r \in meta : r.name = l.name  BY <1>7, <3>1
    <3> QED  BY <3>2
  <2>2. RowFor(l).functions # <<>>  BY <1>9, <1>12
  <2>3. CASE own # {}
    <3>1. PICK r \in own : TRUE  BY <2>3
    <3>2. PICK w \in written :
            /\ w.dir = r.dir /\ w.name = l.name /\ w.code = l.code
            /\ r = [dir |-> w.dir, name |-> w.name, code |-> w.code]
      BY <1>6, <3>1
    <3>3. \A q \in own : q = r
      <4> SUFFICES ASSUME NEW q \in own PROVE q = r  OBVIOUS
      <4>1. PICK v \in written :
              /\ v.name = l.name /\ v.code = l.code
              /\ q = [dir |-> v.dir, name |-> v.name, code |-> v.code]
        BY <1>6
      <4>2. v = w  BY <1>5, <3>2, <4>1
      <4> QED  BY <3>2, <4>1, <4>2
    <3>4. Files!LastDir(own) = r.dir
      <4> HIDE DEF own
      <4>1. (CHOOSE p \in own : \A q \in own : q = p \/ Files!Before(q.dir, p.dir)) \in own
        BY <3>1, <3>3
      <4>2. (CHOOSE p \in own : \A q \in own : q = p \/ Files!Before(q.dir, p.dir)) = r
        BY <3>3, <4>1
      <4> QED  BY <4>2 DEF Files!LastDir
    <3>5. Files!Resolve(meta, l.name, l.code, <<l.name, l.code>>) = w.dir
      BY <2>3, <3>2, <3>4 DEF Files!Resolve
    <3>6. ShownTo(l) = w.body  BY <1>8, <3>5
    <3>7. KernelOwn(w, report)  BY <1>4
    <3>8. w.body[1] = RowFor(l).dump /\ (HasFunction(RowFor(l), l.name) => w.body[2] = l.name)
      BY <3>2, <3>7 DEF KernelOwn, RowFor
    <3> HIDE DEF ShownTo
    <3> QED  BY <1>11, <3>6, <3>8
  <2>4. CASE own = {}
    <3>1. Unique(l)  BY <1>12, <2>4
    <3>2. \A r \in byName : DirShape(r.dir, SafeNames[l.name])
      BY <1>4, <1>6 DEF KernelOwn
    <3>3. \A r, q \in byName : r.dir = q.dir => r = q
      <4> SUFFICES ASSUME NEW r \in byName, NEW q \in byName, r.dir = q.dir
                   PROVE  r = q
        OBVIOUS
      <4>1. PICK w \in written :
              r.dir = w.dir /\ r = [dir |-> w.dir, name |-> w.name, code |-> w.code]
        BY <1>6
      <4>2. PICK v \in written :
              q.dir = v.dir /\ q = [dir |-> v.dir, name |-> v.name, code |-> v.code]
        BY <1>6
      <4>3. v = w  BY <1>5, <4>1, <4>2
      <4> QED  BY <4>1, <4>2, <4>3
    <3>4. PICK r \in byName : Files!FirstDir(byName) = r.dir
      <4> HIDE DEF byName
      <4> QED  BY <2>1, <3>2, <3>3, FirstIsOne
    <3>5. PICK w \in written : w.dir = r.dir /\ w.name = l.name
      BY <1>6
    <3>6. Files!Resolve(meta, l.name, l.code, <<l.name, l.code>>) = w.dir
      BY <2>1, <2>4, <3>4, <3>5 DEF Files!Resolve
    <3>7. ShownTo(l) = w.body  BY <1>8, <3>6
    <3>8. KernelOwn(w, report) /\ w.body[1] = RowFor(l).dump  BY <1>4, <3>1, <3>5
    <3>9. Files!RowOf(report, w.code).functions = RowFor(l).functions
      <4>1. /\ w.code \in Nat /\ l.code \in Nat
            /\ Files!RowOf(report, w.code).functions # <<>>
            /\ Files!RowOf(report, w.code).dump = RowFor(l).dump
        BY <1>10, <3>8 DEF KernelOwn
      <4> QED  BY <1>1, <2>2, <4>1 DEF RowsAgree, RowFor
    <3>10. HasFunction(RowFor(l), l.name) => w.body[2] = l.name
      <4>1. HasFunction(RowFor(l), l.name)
              => HasFunction(Files!RowOf(report, w.code), l.name)
        BY <3>9 DEF HasFunction
      <4> QED  BY <3>5, <3>8, <4>1 DEF KernelOwn
    <3> HIDE DEF ShownTo
    <3> QED  BY <1>11, <3>7, <3>8, <3>10
  <2> QED  BY <2>3, <2>4
<1>13. \A i, j \in DOMAIN made.written :
         made.written[i].dir = made.written[j].dir => i = j
  BY <1>3 DEF KernelsOwn
<1>14. Files!ToSet(launches) = done /\ Files!ToSet(made.written) = written
  BY SetIs DEF done, written
<1> HIDE DEF ShownTo, Named, Unique
<1>15. \A l \in done :
         /\ l \in made.missing <=> RowFor(l).functions = <<>>
         /\ l \notin made.missing /\ (Named(l) \/ Unique(l)) =>
              /\ ShownTo(l)[1] = RowFor(l).dump
              /\ Exact(l) => ShownTo(l)[2] = l.name
  BY <1>9, <1>12
<1>16. Files!ResolvedIsOwn(launches, report, made)
  BY <1>13, <1>14, <1>15
  DEF Files!ResolvedIsOwn, ShownTo, Named, Unique, Exact, Body, meta, RowFor
<1> QED  BY <1>2, <1>16

(* Every launch is shown a kernel of its own code object, in every         *)
(* behaviour of the offline programs (split_launched_kernels,              *)
(* resolve_kernel_dir).                                                    *)
THEOREM KernelsShownOwn == PartsSpec => []ResolvedKernelIsOwn
<1>1. PartsInit => ResolvedKernelIsOwn
  BY DEF PartsInit, ResolvedKernelIsOwn, Answered
<1>2. ResolvedKernelIsOwn /\ [PartsNext]_partsVars => ResolvedKernelIsOwn'
  <2> SUFFICES ASSUME ResolvedKernelIsOwn, [PartsNext]_partsVars
               PROVE  ResolvedKernelIsOwn'
    OBVIOUS
  <2>1. CASE part' = part /\ input' = input /\ answer' = answer
    BY <2>1 DEF ResolvedKernelIsOwn, Answered
  <2>2. CASE ~(part' = part /\ input' = input /\ answer' = answer)
    <3>1. PartsNext  BY <2>2 DEF partsVars, partVars
    <3>2. CASE SplitKernels
      <4>1. PICK list \in KernelLaunches, tools \in ToolSets :
              LET report == Files!Disassemble(Files!CopyCode(CodeEvents), Dumps, tools)
              IN  /\ input' = [launches |-> list, report |-> report]
                  /\ answer' = Files!SplitLaunched(list, report)
        BY <3>2 DEF SplitKernels, Answers
      <4>2. PICK report : report = Files!Disassemble(Files!CopyCode(CodeEvents), Dumps, tools)
        OBVIOUS
      <4>3. /\ input' = [launches |-> list, report |-> report]
            /\ answer' = Files!SplitLaunched(list, report)
        BY <4>1, <4>2
      <4>4. /\ None \notin Nat
            /\ CodeEvents \in Seq([id : Nat, dump : DOMAIN Dumps])
            /\ \A i, j \in DOMAIN CodeEvents :
                 CodeEvents[i].id = CodeEvents[j].id => i = j
            /\ list \in Seq([name : DOMAIN SafeNames, code : Nat])
        BY InputsAssumption
      <4>5. Files!ResolvedIsOwn(list, report, Files!SplitLaunched(list, report))
        BY <4>2, <4>4, LaunchesShownOwn
      <4>6. Files!ResolvedIsOwn(input.launches, input.report, answer)'
        BY <4>3, <4>5
      <4> QED  BY <4>6 DEF ResolvedKernelIsOwn
    <3>3. CASE ExtractLoops \/ RenderWindows \/ CutText \/ JudgeCapture
               \/ Windowize \/ SplitDataset
      BY <3>3 DEF ResolvedKernelIsOwn, Answered, Given, Answers, ExtractLoops,
         RenderWindows, CutText, JudgeCapture, Windowize, SplitDataset
    <3> QED  BY <2>2, <3>1, <3>2, <3>3, OnlyAnswers
  <2> QED  BY <2>1, <2>2
<1> QED  BY <1>1, <1>2, PTL DEF PartsSpec
=============================================================================
