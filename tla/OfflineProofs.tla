---------------------------- MODULE OfflineProofs ----------------------------
(***************************************************************************)
(* Proofs about the parts that run beside the telemetry path: the L0       *)
(* window scheduler (L0Windows), the dataset build (DatasetBuild) and the  *)
(* throttle experiment (ThrottleRuns), each from its own specification.    *)
(***************************************************************************)
EXTENDS SeparateParts, SequenceTheorems, FiniteSetTheorems,
        WellFoundedInduction, TLAPS

(***************************************************************************)
(* Numbers and functions, and the window scheduler.                        *)
(***************************************************************************)
(* A non-empty set of natural numbers has a least element.               *)
LEMMA FirstOf ==
  ASSUME NEW S, S \subseteq Nat, S # {}
  PROVE  \E x \in S : \A y \in S : x <= y
<1> DEFINE less == {e \in Nat \X Nat : e[1] < e[2]}
<1>1. IsWellFoundedOn(less, Nat)
  BY NatLessThanWellFounded DEF OpToRel
<1>2. \E x \in S : \A y \in S : ~(<<y, x>> \in less)
  <2> HIDE DEF less
  <2> QED  BY <1>1, WFMin
<1>3. PICK x \in S : \A y \in S : ~(<<y, x>> \in less)
  BY <1>2
<1>4. ASSUME NEW y \in S PROVE x <= y
  <2>1. <<y, x>> \in Nat \X Nat /\ ~(<<y, x>> \in less)  BY <1>3
  <2> QED  BY <2>1
<1> QED  BY <1>4

(* Induction up to a bound, stated with a set.                             *)
LEMMA Induction ==
  ASSUME NEW n \in Nat, NEW S, 0 \in S,
         \A i \in 1..n : i - 1 \in S => i \in S
  PROVE  \A i \in 0..n : i \in S
<1> DEFINE Out == {i \in 0..n : i \notin S}
<1> SUFFICES ASSUME Out # {} PROVE FALSE
  OBVIOUS
<1>1. PICK i \in Out : \A j \in Out : i <= j
  <2>1. Out \subseteq Nat  OBVIOUS
  <2> HIDE DEF Out
  <2> QED  BY <2>1, FirstOf
<1>2. i # 0 /\ i \in 1..n  OBVIOUS
<1>3. i - 1 \in 0..n /\ i - 1 \notin Out  BY <1>1, <1>2
<1> QED  BY <1>2, <1>3

(* A function can be defined by recursion up to a bound.                   *)
Iterates(n, V, v, next, f) ==
  /\ f \in [0..n -> V]
  /\ f[0] = v /\ \A i \in 1..n : f[i] = next[<<i, f[i - 1]>>]

LEMMA Recursion ==
  ASSUME NEW n \in Nat, NEW V, NEW v \in V, NEW next \in [(1..n) \X V -> V]
  PROVE  \E f : Iterates(n, V, v, next, f)
<1> DEFINE Defined(m, f) ==
             f[0] = v /\ \A i \in 1..m : f[i] = next[<<i, f[i - 1]>>]
           S == {m \in 0..n : \E f \in [0..m -> V] : Defined(m, f)}
<1>1. 0 \in S
  <2> DEFINE f0 == [i \in 0..0 |-> v]
  <2>1. f0 \in [0..0 -> V] /\ Defined(0, f0)
    OBVIOUS
  <2> HIDE DEF Defined, f0
  <2> QED  BY <2>1
<1>2. ASSUME NEW m \in 1..n, m - 1 \in S PROVE m \in S
  <2>1. PICK f \in [0..(m - 1) -> V] : Defined(m - 1, f)
    <3> HIDE DEF Defined
    <3> QED  BY <1>2
  <2> DEFINE f2 == [i \in 0..m |-> IF i = m THEN next[<<m, f[m - 1]>>] ELSE f[i]]
  <2>2. next[<<m, f[m - 1]>>] \in V
    <3>1. f[m - 1] \in V  OBVIOUS
    <3> QED  BY <3>1
  <2>3. f2 \in [0..m -> V]  BY <2>2
  <2>4. Defined(m, f2)
    <3>1. f2[0] = v  BY <2>1
    <3>2. ASSUME NEW i \in 1..m PROVE f2[i] = next[<<i, f2[i - 1]>>]
      <4>1. i - 1 \in 0..(m - 1) /\ f2[i - 1] = f[i - 1]  OBVIOUS
      <4>2. CASE i = m
        <5>1. f2[i] = next[<<m, f[m - 1]>>]  BY <4>2
        <5> QED  BY <4>1, <4>2, <5>1
      <4>3. CASE i # m
        <5>1. i \in 1..(m - 1)  BY <4>3
        <5> QED  BY <2>1, <4>1, <5>1
      <4> QED  BY <4>2, <4>3
    <3> QED  BY <3>1, <3>2
  <2> HIDE DEF Defined, f2
  <2> QED  BY <2>3, <2>4
<1> HIDE DEF S
<1>3. n \in S  BY <1>1, <1>2, Induction
<1> QED  BY <1>3 DEF S, Iterates

-----------------------------------------------------------------------------
(* The sums of the beginnings of q.                                        *)
RunningTotals(q, s) ==
  /\ s \in [0..Len(q) -> Int]
  /\ s[0] = 0
  /\ \A i \in 1..Len(q) : s[i] = s[i - 1] + q[i].cost

Costed(T) == \A x \in T : x.cost \in Nat

LEMMA RunningTotalsExist ==
  ASSUME NEW T, Costed(T), NEW q \in Seq(T)
  PROVE  \E s : RunningTotals(q, s)
<1>1. PICK n \in Nat : n = Len(q)  OBVIOUS
<1> DEFINE next == [e \in (1..n) \X Int |-> e[2] + q[e[1]].cost]
<1>2. next \in [(1..n) \X Int -> Int]
  <2> SUFFICES ASSUME NEW i \in 1..n, NEW x \in Int PROVE x + q[i].cost \in Int
    OBVIOUS
  <2>1. q[i] \in T  BY <1>1
  <2>2. q[i].cost \in Nat  BY <2>1 DEF Costed
  <2> QED  BY <2>2
<1>3. \A i \in 1..n, x \in Int : next[<<i, x>>] = x + q[i].cost
  OBVIOUS
<1> HIDE DEF next
<1>4. \E f : Iterates(n, Int, 0, next, f)
  <2>1. 0 \in Int  OBVIOUS
  <2> QED  BY <1>2, <2>1, Recursion
<1>5. PICK f : Iterates(n, Int, 0, next, f)
  BY <1>4
<1>6. f \in [0..n -> Int] /\ f[0] = 0
      /\ \A i \in 1..n : f[i] = next[<<i, f[i - 1]>>]
  BY <1>5 DEF Iterates
<1>7. RunningTotals(q, f)
  <2>1. ASSUME NEW i \in 1..n PROVE f[i] = f[i - 1] + q[i].cost
    <3>1. f[i - 1] \in Int  BY <1>6
    <3>2. next[<<i, f[i - 1]>>] = f[i - 1] + q[i].cost  BY <1>3, <3>1
    <3> QED  BY <1>6, <3>2
  <2> QED  BY <1>1, <1>6, <2>1 DEF RunningTotals
<1> QED  BY <1>7

LEMMA TotalIs ==
  ASSUME NEW T, Costed(T), NEW q \in Seq(T), NEW s, RunningTotals(q, s)
  PROVE  Total(q) = s[Len(q)]
<1> DEFINE body(f) == [n \in 0..Len(q) |-> IF n = 0 THEN 0 ELSE f[n - 1] + q[n].cost]
           sum == CHOOSE f : f = body(f)
<1>1. s = body(s)  BY DEF RunningTotals
<1>2. sum = body(sum)  BY <1>1
<1>3. Total(q) = sum[Len(q)]  BY DEF Total
<1> HIDE DEF sum
<1> DEFINE S == {n \in 0..Len(q) : sum[n] = s[n]}
<1>4. 0 \in S  BY <1>2 DEF RunningTotals
<1>5. \A i \in 1..Len(q) : i - 1 \in S => i \in S
  <2> SUFFICES ASSUME NEW i \in 1..Len(q), i - 1 \in S PROVE i \in S
    OBVIOUS
  <2>1. sum[i] = body(sum)[i]  BY <1>2
  <2>2. body(sum)[i] = sum[i - 1] + q[i].cost  OBVIOUS
  <2> QED  BY <2>1, <2>2 DEF RunningTotals
<1>6. Len(q) \in Nat  OBVIOUS
<1> HIDE DEF S
<1>7. \A i \in 0..Len(q) : i \in S  BY <1>4, <1>5, <1>6, Induction
<1> QED  BY <1>3, <1>6, <1>7 DEF S

-----------------------------------------------------------------------------
(* Drop.                                                                   *)
LEMMA DropIs ==
  ASSUME NEW T, NEW q \in Seq(T), NEW n \in 0..Len(q)
  PROVE  /\ Drop(q, n) \in Seq(T)
         /\ Len(Drop(q, n)) = Len(q) - n
         /\ \A i \in 1..(Len(q) - n) : Drop(q, n)[i] = q[n + i]
BY DEF Drop

LEMMA FirstsAre ==
  ASSUME NEW T, NEW q \in Seq(T), NEW n \in 0..Len(q)
  PROVE  /\ SubSeq(q, 1, n) \in Seq(T)
         /\ Len(SubSeq(q, 1, n)) = n
         /\ \A i \in 1..n : SubSeq(q, 1, n)[i] = q[i]
OBVIOUS

LEMMA AppendIs ==
  ASSUME NEW T, NEW q \in Seq(T), NEW l \in T
  PROVE  /\ Append(q, l) \in Seq(T)
         /\ Len(Append(q, l)) = Len(q) + 1
         /\ \A i \in 1..Len(q) : Append(q, l)[i] = q[i]
         /\ Append(q, l)[Len(q) + 1] = l
OBVIOUS

LEMMA SameSequence ==
  ASSUME NEW T, NEW q \in Seq(T), NEW r \in Seq(T), Len(q) = Len(r),
         \A i \in 1..Len(q) : q[i] = r[i]
  PROVE  q = r
BY SeqEqual

LEMMA DropNone ==
  ASSUME NEW T, NEW q \in Seq(T)
  PROVE  Drop(q, 0) = q
<1>1. 0 \in 0..Len(q)  OBVIOUS
<1>2. Drop(q, 0) \in Seq(T) /\ Len(Drop(q, 0)) = Len(q)
      /\ \A i \in 1..Len(q) : Drop(q, 0)[i] = q[i]
  BY <1>1, DropIs
<1> QED  BY <1>2, SameSequence

LEMMA DropAppend ==
  ASSUME NEW T, NEW q \in Seq(T), NEW l \in T, NEW e \in 0..Len(q)
  PROVE  Append(Drop(q, e), l) = Drop(Append(q, l), e)
<1> DEFINE rest == Append(Drop(q, e), l)
           right == Drop(Append(q, l), e)
<1>1. Drop(q, e) \in Seq(T) /\ Len(Drop(q, e)) = Len(q) - e
      /\ \A i \in 1..(Len(q) - e) : Drop(q, e)[i] = q[e + i]
  BY DropIs
<1>2. rest \in Seq(T) /\ Len(rest) = Len(q) - e + 1
      /\ (\A i \in 1..(Len(q) - e) : rest[i] = q[e + i])
      /\ rest[Len(q) - e + 1] = l
  BY <1>1, AppendIs
<1>3. Append(q, l) \in Seq(T) /\ Len(Append(q, l)) = Len(q) + 1
      /\ e \in 0..Len(Append(q, l))
  BY AppendIs
<1>4. right \in Seq(T) /\ Len(right) = Len(q) + 1 - e
      /\ \A i \in 1..(Len(q) + 1 - e) : right[i] = Append(q, l)[e + i]
  <2>1. PICK a \in Seq(T) : a = Append(q, l)  BY <1>3
  <2>2. Drop(a, e) \in Seq(T) /\ Len(Drop(a, e)) = Len(a) - e
        /\ \A i \in 1..(Len(a) - e) : Drop(a, e)[i] = a[e + i]
    BY <1>3, <2>1, DropIs
  <2> QED  BY <1>3, <2>1, <2>2
<1>5. ASSUME NEW i \in 1..(Len(q) + 1 - e) PROVE rest[i] = right[i]
  <2>1. CASE i = Len(q) + 1 - e
    <3>1. right[i] = Append(q, l)[Len(q) + 1]  BY <1>4, <2>1
    <3> QED  BY <1>2, <2>1, <3>1, AppendIs
  <2>2. CASE i # Len(q) + 1 - e
    <3>1. i \in 1..(Len(q) - e) /\ e + i \in 1..Len(q)  BY <2>2
    <3> QED  BY <1>2, <1>4, <3>1, AppendIs
  <2> QED  BY <2>1, <2>2
<1> HIDE DEF rest, right
<1>6. rest = right  BY <1>2, <1>4, <1>5, SameSequence
<1> QED  BY <1>6 DEF rest, right

LEMMA DropDrop ==
  ASSUME NEW T, NEW q \in Seq(T), NEW e \in 0..Len(q), NEW n \in 0..(Len(q) - e)
  PROVE  Drop(Drop(q, e), n) = Drop(q, e + n)
<1>1. Drop(q, e) \in Seq(T) /\ Len(Drop(q, e)) = Len(q) - e
      /\ \A i \in 1..(Len(q) - e) : Drop(q, e)[i] = q[e + i]
  BY DropIs
<1>2. e + n \in 0..Len(q) /\ n \in 0..Len(Drop(q, e))  BY <1>1
<1>3. Drop(q, e + n) \in Seq(T) /\ Len(Drop(q, e + n)) = Len(q) - (e + n)
      /\ \A i \in 1..(Len(q) - (e + n)) : Drop(q, e + n)[i] = q[(e + n) + i]
  BY <1>2, DropIs
<1>4. Drop(Drop(q, e), n) \in Seq(T)
      /\ Len(Drop(Drop(q, e), n)) = Len(Drop(q, e)) - n
      /\ \A i \in 1..(Len(Drop(q, e)) - n) :
           Drop(Drop(q, e), n)[i] = Drop(q, e)[n + i]
  BY <1>1, <1>2, DropIs
<1>5. ASSUME NEW i \in 1..(Len(q) - (e + n))
      PROVE  Drop(Drop(q, e), n)[i] = Drop(q, e + n)[i]
  <2>1. n + i \in 1..(Len(q) - e) /\ i \in 1..(Len(Drop(q, e)) - n)
        /\ e + (n + i) = (e + n) + i
    BY <1>1
  <2> QED  BY <1>1, <1>3, <1>4, <2>1
<1>6. Len(Drop(Drop(q, e), n)) = Len(Drop(q, e + n))
  BY <1>1, <1>3, <1>4
<1> QED  BY <1>3, <1>4, <1>5, <1>6, SameSequence

-----------------------------------------------------------------------------
(* Total.                                                                  *)
LEMMA TotalEmpty == Total(<<>>) = 0
<1> DEFINE T == {}
<1>1. <<>> \in Seq(T) /\ Len(<<>>) = 0 /\ Costed(T)  BY DEF Costed
<1> HIDE DEF T
<1>2. PICK s : RunningTotals(<<>>, s)  BY <1>1, RunningTotalsExist
<1>3. Total(<<>>) = s[Len(<<>>)]  BY <1>1, <1>2, TotalIs
<1> QED  BY <1>1, <1>2, <1>3 DEF RunningTotals

LEMMA TotalNat ==
  ASSUME NEW T, Costed(T), NEW q \in Seq(T)
  PROVE  Total(q) \in Nat
<1>1. PICK s : RunningTotals(q, s)  BY RunningTotalsExist
<1> DEFINE S == {i \in 0..Len(q) : s[i] \in Nat}
<1>2. 0 \in S  BY <1>1 DEF RunningTotals
<1>3. \A i \in 1..Len(q) : i - 1 \in S => i \in S
  <2> SUFFICES ASSUME NEW i \in 1..Len(q), i - 1 \in S PROVE s[i] \in Nat
    OBVIOUS
  <2>1. q[i] \in T  OBVIOUS
  <2>2. q[i].cost \in Nat  BY <2>1 DEF Costed
  <2> QED  BY <1>1, <2>2 DEF RunningTotals
<1>4. Len(q) \in Nat  OBVIOUS
<1> HIDE DEF S
<1>5. Len(q) \in S
  <2>1. \A i \in 0..Len(q) : i \in S  BY <1>2, <1>3, <1>4, Induction
  <2> QED  BY <1>4, <2>1
<1> QED  BY <1>1, <1>5, TotalIs DEF S

LEMMA TotalAppend ==
  ASSUME NEW T, Costed(T), NEW q \in Seq(T), NEW l \in T
  PROVE  Total(Append(q, l)) = Total(q) + l.cost
<1>1. Append(q, l) \in Seq(T) /\ Len(Append(q, l)) = Len(q) + 1
  BY AppendIs
<1>2. PICK s : RunningTotals(Append(q, l), s)  BY <1>1, RunningTotalsExist
<1>3. PICK n \in Nat : n = Len(q)  OBVIOUS
<1>4. s \in [0..(n + 1) -> Int] /\ s[0] = 0
      /\ \A i \in 1..(n + 1) : s[i] = s[i - 1] + Append(q, l)[i].cost
  BY <1>1, <1>2, <1>3 DEF RunningTotals
<1> DEFINE t == [i \in 0..n |-> s[i]]
<1>5. RunningTotals(q, t)
  <2>1. \A i \in 1..n : Append(q, l)[i] = q[i]  BY <1>3, AppendIs
  <2> QED  BY <1>3, <1>4, <2>1 DEF RunningTotals
<1>6. Total(q) = s[n]
  <2>1. t[n] = s[n]  OBVIOUS
  <2> HIDE DEF t
  <2> QED  BY <1>3, <1>5, <2>1, TotalIs
<1>7. Total(Append(q, l)) = s[n + 1]  BY <1>1, <1>2, <1>3, TotalIs
<1>8. Append(q, l)[n + 1] = l  BY <1>3, AppendIs
<1>9. s[n + 1] = s[n] + l.cost
  <2>1. n + 1 \in 1..(n + 1) /\ (n + 1) - 1 = n  OBVIOUS
  <2> QED  BY <1>4, <1>8, <2>1
<1> QED  BY <1>6, <1>7, <1>9

(* What remains of the sum when the first n launches leave.                *)
LEMMA TotalDrop ==
  ASSUME NEW T, Costed(T), NEW q \in Seq(T), NEW n \in 0..Len(q)
  PROVE  Total(q) - Total(SubSeq(q, 1, n)) = Total(Drop(q, n))
<1>1. PICK s : RunningTotals(q, s)  BY RunningTotalsExist
<1>2. PICK m \in Nat : m = Len(q)  OBVIOUS
<1>3. s \in [0..m -> Int] /\ s[0] = 0
      /\ \A i \in 1..m : s[i] = s[i - 1] + q[i].cost
  BY <1>1, <1>2 DEF RunningTotals
<1> DEFINE a == [i \in 0..n |-> s[i]]
           b == [i \in 0..(m - n) |-> s[n + i] - s[n]]
<1>4. Total(SubSeq(q, 1, n)) = s[n]
  <2>1. SubSeq(q, 1, n) \in Seq(T) /\ Len(SubSeq(q, 1, n)) = n
        /\ \A i \in 1..n : SubSeq(q, 1, n)[i] = q[i]
    BY FirstsAre
  <2>2. RunningTotals(SubSeq(q, 1, n), a)
    <3>1. ASSUME NEW i \in 1..n PROVE a[i] = a[i - 1] + q[i].cost
      <4>1. i \in 1..m /\ i \in 0..n /\ i - 1 \in 0..n  BY <1>2
      <4> QED  BY <1>3, <4>1
    <3>2. a \in [0..n -> Int] /\ a[0] = 0  BY <1>2, <1>3
    <3> HIDE DEF a
    <3> QED  BY <2>1, <3>1, <3>2 DEF RunningTotals
  <2>3. a[n] = s[n]  BY <1>2
  <2> HIDE DEF a
  <2> QED  BY <2>1, <2>2, <2>3, TotalIs
<1>5. Total(Drop(q, n)) = s[m] - s[n]
  <2>1. Drop(q, n) \in Seq(T) /\ Len(Drop(q, n)) = m - n
        /\ \A i \in 1..(m - n) : Drop(q, n)[i] = q[n + i]
    BY <1>2, DropIs
  <2>2. RunningTotals(Drop(q, n), b)
    <3>1. ASSUME NEW i \in 1..(m - n) PROVE b[i] = b[i - 1] + q[n + i].cost
      <4>1. n + i \in 1..m /\ i \in 0..(m - n) /\ i - 1 \in 0..(m - n)
            /\ n + (i - 1) = (n + i) - 1 /\ (n + i) - 1 \in 0..m /\ n \in 0..m
        BY <1>2
      <4>2. s[n + i] = s[(n + i) - 1] + q[n + i].cost  BY <1>3, <4>1
      <4>3. s[(n + i) - 1] \in Int /\ s[n] \in Int /\ q[n + i].cost \in Nat
        <5>1. q[n + i] \in T  BY <1>2, <4>1
        <5>2. q[n + i].cost \in Nat  BY <5>1 DEF Costed
        <5> QED  BY <1>2, <1>3, <4>1, <5>2
      <4>4. b[i] = s[n + i] - s[n]
        BY <4>1
      <4>5. b[i - 1] = s[n + (i - 1)] - s[n]
        BY <4>1
      <4> HIDE DEF b
      <4> QED  BY <4>1, <4>2, <4>3, <4>4, <4>5
    <3>2. b \in [0..(m - n) -> Int] /\ b[0] = 0
      <4>1. s[n] \in Int /\ n + 0 = n /\ 0 \in 0..(m - n)  BY <1>2, <1>3
      <4>2. \A i \in 0..(m - n) : s[n + i] \in Int  BY <1>2, <1>3
      <4> QED  BY <4>1, <4>2
    <3> HIDE DEF b
    <3> QED  BY <2>1, <3>1, <3>2 DEF RunningTotals
  <2>3. b[m - n] = s[m] - s[n]
    <3>1. m - n \in 0..(m - n) /\ n + (m - n) = m  BY <1>2
    <3> QED  BY <3>1
  <2> HIDE DEF b
  <2> QED  BY <2>1, <2>2, <2>3, TotalIs
<1>6. Total(q) = s[m] /\ s[m] \in Int /\ s[n] \in Int
  BY <1>1, <1>2, <1>3, TotalIs
<1> QED  BY <1>4, <1>5, <1>6

-----------------------------------------------------------------------------
(* The launches of the scheduler.                                         *)
LEMMA LaunchTyped ==
  ASSUME NEW q \in Seq(Launches), NEW i \in 1..Len(q)
  PROVE  /\ q[i] \in Launches
         /\ q[i].cost \in Nat /\ q[i].kernel \in Kernels /\ q[i].ratio \in 0..100
<1>1. q[i] \in Launches  OBVIOUS
<1> QED  BY <1>1, LaunchesAssumption, BudgetAssumption

LEMMA LaunchesCosted == Costed(Launches)
BY LaunchesAssumption, BudgetAssumption DEF Costed

(* Occurrences and CountsOf.                                               *)
Places(q, k) == {i \in 1..Len(q) : q[i].kernel = k}

LEMMA AtFinite ==
  ASSUME NEW q \in Seq(Launches), NEW k
  PROVE  /\ IsFiniteSet(Places(q, k))
         /\ Occurrences(q, k) = Cardinality(Places(q, k))
         /\ Occurrences(q, k) \in Nat
         /\ Occurrences(q, k) > 0 <=> Places(q, k) # {}
<1>1. IsFiniteSet(1..Len(q))  BY FS_Interval
<1>2. Places(q, k) \subseteq 1..Len(q)  BY DEF Places
<1>3. IsFiniteSet(Places(q, k))  BY <1>1, <1>2, FS_Subset
<1>4. Occurrences(q, k) = Cardinality(Places(q, k))
  <2>1. DOMAIN q = 1..Len(q)  OBVIOUS
  <2> QED  BY <2>1 DEF Occurrences, Places
<1>5. Cardinality(Places(q, k)) \in Nat  BY <1>3, FS_CardinalityType
<1>6. Cardinality(Places(q, k)) = 0 <=> Places(q, k) = {}  BY <1>3, FS_EmptySet
<1> QED  BY <1>3, <1>4, <1>5, <1>6

LEMMA OccurrencesAppend ==
  ASSUME NEW q \in Seq(Launches), NEW l \in Launches, NEW k
  PROVE  Occurrences(Append(q, l), k)
           = Occurrences(q, k) + (IF l.kernel = k THEN 1 ELSE 0)
<1>1. PICK n \in Nat : n = Len(q)  OBVIOUS
<1>2. PICK a \in Seq(Launches) : a = Append(q, l)  BY AppendIs
<1>3. Len(a) = n + 1 /\ a[n + 1] = l /\ \A i \in 1..n : a[i] = q[i]
  BY <1>1, <1>2, AppendIs
<1>4. Places(a, k) = IF l.kernel = k THEN Places(q, k) \cup {n + 1} ELSE Places(q, k)
  <2>1. \A i : i \in 1..(n + 1) <=> i \in 1..n \/ i = n + 1  OBVIOUS
  <2> QED  BY <1>1, <1>3, <2>1 DEF Places
<1>5. n + 1 \notin Places(q, k)  BY <1>1 DEF Places
<1>6. Cardinality(Places(q, k) \cup {n + 1}) = Cardinality(Places(q, k)) + 1
  BY <1>5, AtFinite, FS_AddElement
<1>7. /\ Occurrences(a, k) = Cardinality(Places(a, k))
      /\ Occurrences(q, k) = Cardinality(Places(q, k))
      /\ Occurrences(q, k) \in Nat
  BY AtFinite
<1>8. CASE l.kernel = k
  BY <1>2, <1>4, <1>6, <1>7, <1>8
<1>9. CASE l.kernel # k
  BY <1>2, <1>4, <1>7, <1>9
<1> QED  BY <1>8, <1>9

LEMMA OccurrencesDrop ==
  ASSUME NEW q \in Seq(Launches), NEW n \in 0..Len(q), NEW k
  PROVE  Occurrences(q, k) - Occurrences(SubSeq(q, 1, n), k)
           = Occurrences(Drop(q, n), k)
<1>1. PICK m \in Nat : m = Len(q)  OBVIOUS
<1>2. PICK a \in Seq(Launches) : a = SubSeq(q, 1, n)  BY FirstsAre
<1>3. PICK b \in Seq(Launches) : b = Drop(q, n)  BY DropIs
<1>4. Len(a) = n /\ \A i \in 1..n : a[i] = q[i]  BY <1>2, FirstsAre
<1>5. Len(b) = m - n /\ \A i \in 1..(m - n) : b[i] = q[n + i]
  BY <1>1, <1>3, DropIs
<1> DEFINE moved == {i \in (n + 1)..m : q[i].kernel = k}
           f == [i \in Places(b, k) |-> n + i]
<1>6. f \in Bijection(Places(b, k), moved)
  <2>1. f \in [Places(b, k) -> moved]
    <3> SUFFICES ASSUME NEW i \in Places(b, k) PROVE n + i \in moved
      OBVIOUS
    <3> QED  BY <1>1, <1>5 DEF Places
  <2>2. \A i, j \in Places(b, k) : f[i] = f[j] => i = j
    BY DEF Places
  <2>3. ASSUME NEW i \in moved PROVE \E j \in Places(b, k) : f[j] = i
    <3>1. i \in (n + 1)..m /\ q[i].kernel = k  OBVIOUS
    <3>2. i - n \in 1..(m - n) /\ n + (i - n) = i  BY <1>1, <3>1
    <3>3. b[i - n] = q[i]  BY <1>5, <3>2
    <3>4. i - n \in Places(b, k)  BY <1>5, <3>1, <3>2, <3>3 DEF Places
    <3> QED  BY <3>2, <3>4
  <2> HIDE DEF f, moved
  <2>4. f \in Injection(Places(b, k), moved)  BY <2>1, <2>2 DEF Injection, IsInjective
  <2>5. f \in Surjection(Places(b, k), moved)  BY <2>1, <2>3 DEF Surjection
  <2> QED  BY <2>4, <2>5 DEF Bijection
<1>7. IsFiniteSet(moved) /\ Cardinality(moved) = Cardinality(Places(b, k))
  <2>1. ExistsBijection(Places(b, k), moved)
    <3> HIDE DEF f, moved
    <3> QED  BY <1>6 DEF ExistsBijection
  <2> HIDE DEF moved
  <2> QED  BY <2>1, AtFinite, FS_Bijection
<1>8. Places(q, k) = Places(a, k) \cup moved /\ Places(a, k) \cap moved = {}
  <2>1. \A i : i \in 1..m <=> i \in 1..n \/ i \in (n + 1)..m  BY <1>1
  <2>2. \A i : ~(i \in 1..n /\ i \in (n + 1)..m)  BY <1>1
  <2> QED  BY <1>1, <1>4, <2>1, <2>2 DEF Places
<1>9. Cardinality(Places(q, k)) = Cardinality(Places(a, k)) + Cardinality(moved)
  <2>1. Cardinality(Places(a, k) \cup moved)
          = Cardinality(Places(a, k)) + Cardinality(moved)
              - Cardinality(Places(a, k) \cap moved)
    <3> HIDE DEF moved
    <3> QED  BY <1>7, AtFinite, FS_Union
  <2>2. Cardinality(Places(a, k) \cap moved) = 0  BY <1>8, FS_EmptySet
  <2>3. Cardinality(Places(a, k)) \in Nat /\ Cardinality(moved) \in Nat
    <3> HIDE DEF moved
    <3> QED  BY <1>7, AtFinite, FS_CardinalityType
  <2> HIDE DEF moved
  <2> QED  BY <1>8, <2>1, <2>2, <2>3
<1>10. /\ Occurrences(q, k) = Cardinality(Places(q, k))
       /\ Occurrences(a, k) = Cardinality(Places(a, k))
       /\ Occurrences(b, k) = Cardinality(Places(b, k))
       /\ Occurrences(a, k) \in Nat /\ Occurrences(b, k) \in Nat
  BY AtFinite
<1> HIDE DEF moved
<1> QED  BY <1>2, <1>3, <1>7, <1>9, <1>10

-----------------------------------------------------------------------------
(* LastRatios.                                                             *)
LEMMA LastOf ==
  ASSUME NEW n \in Nat, NEW S, S \subseteq 1..n, S # {}
  PROVE  \E i \in S : \A j \in S : j <= i
<1> DEFINE far == {n - i : i \in S}
<1>1. far \subseteq Nat /\ far # {}
  <2>1. \A i \in S : n - i \in Nat  OBVIOUS
  <2>2. PICK i \in S : TRUE  OBVIOUS
  <2>3. n - i \in far  OBVIOUS
  <2> QED  BY <2>1, <2>3
<1>2. PICK x \in far : \A y \in far : x <= y
  <2> HIDE DEF far
  <2> QED  BY <1>1, FirstOf
<1>3. PICK i \in S : x = n - i  OBVIOUS
<1>4. \A j \in S : j <= i
  <2> SUFFICES ASSUME NEW j \in S PROVE j <= i
    OBVIOUS
  <2>1. n - j \in far  OBVIOUS
  <2>2. n - i <= n - j
    <3> HIDE DEF far
    <3> QED  BY <1>2, <1>3, <2>1
  <2>3. i \in 1..n /\ j \in 1..n  OBVIOUS
  <2> QED  BY <2>2, <2>3
<1> QED  BY <1>4

(* The last launch of a kernel gives the ratio.                            *)
LEMMA LastRatioIs ==
  ASSUME NEW q \in Seq(Launches), NEW k \in Kernels
  PROVE  /\ Places(q, k) = {} => LastRatios(q)[k] = None
         /\ \A i \in Places(q, k) : (\A j \in Places(q, k) : j <= i)
              => LastRatios(q)[k] = q[i].ratio
<1>1. DOMAIN q = 1..Len(q)  OBVIOUS
<1>2. LastRatios(q)[k] = IF Places(q, k) = {} THEN None
        ELSE q[CHOOSE i \in Places(q, k) : \A j \in Places(q, k) : j <= i].ratio
  BY <1>1 DEF LastRatios, Places
<1>3. ASSUME NEW i \in Places(q, k), \A j \in Places(q, k) : j <= i
      PROVE  LastRatios(q)[k] = q[i].ratio
  <2> DEFINE c == CHOOSE c \in Places(q, k) : \A j \in Places(q, k) : j <= c
  <2>1. c \in Places(q, k) /\ \A j \in Places(q, k) : j <= c  BY <1>3
  <2> HIDE DEF c
  <2>2. c = i  BY <1>3, <2>1 DEF Places
  <2> QED  BY <1>2, <1>3, <2>2 DEF c
<1> QED  BY <1>2, <1>3

LEMMA LastRatiosAppend ==
  ASSUME NEW q \in Seq(Launches), NEW l \in Launches, l.kernel \in Kernels
  PROVE  LastRatios(Append(q, l)) = [LastRatios(q) EXCEPT ![l.kernel] = l.ratio]
<1>1. PICK n \in Nat : n = Len(q)  OBVIOUS
<1>2. PICK a \in Seq(Launches) : a = Append(q, l)  BY AppendIs
<1>3. Len(a) = n + 1 /\ a[n + 1] = l /\ \A i \in 1..n : a[i] = q[i]
  BY <1>1, <1>2, AppendIs
<1>4. ASSUME NEW k \in Kernels
      PROVE  LastRatios(a)[k] = IF k = l.kernel THEN l.ratio ELSE LastRatios(q)[k]
  <2>1. CASE k = l.kernel
    <3>1. n + 1 \in Places(a, k) /\ \A j \in Places(a, k) : j <= n + 1
      BY <1>3, <2>1 DEF Places
    <3>2. LastRatios(a)[k] = a[n + 1].ratio  BY <3>1, LastRatioIs
    <3> QED  BY <1>3, <2>1, <3>2
  <2>2. CASE k # l.kernel
    <3>1. Places(a, k) = Places(q, k)
      <4>1. \A i : i \in 1..(n + 1) <=> i \in 1..n \/ i = n + 1  OBVIOUS
      <4> QED  BY <1>1, <1>3, <2>2, <4>1 DEF Places
    <3>2. CASE Places(q, k) = {}
      <4>1. LastRatios(a)[k] = None /\ LastRatios(q)[k] = None
        BY <3>1, <3>2, LastRatioIs
      <4> QED  BY <2>2, <4>1
    <3>3. CASE Places(q, k) # {}
      <4>1. Places(q, k) \subseteq 1..n  BY <1>1 DEF Places
      <4>2. PICK i \in Places(q, k) : \A j \in Places(q, k) : j <= i
        BY <3>3, <4>1, LastOf
      <4>3. LastRatios(a)[k] = a[i].ratio /\ LastRatios(q)[k] = q[i].ratio
        BY <3>1, <4>2, LastRatioIs
      <4>4. a[i] = q[i]  BY <1>3, <4>1
      <4> QED  BY <2>2, <4>3, <4>4
    <3> QED  BY <3>2, <3>3
  <2> QED  BY <2>1, <2>2
<1>5. LastRatios(a) = [k \in Kernels |-> LastRatios(a)[k]]
      /\ LastRatios(q) = [k \in Kernels |-> LastRatios(q)[k]]
  BY DEF LastRatios
<1> QED  BY <1>2, <1>4, <1>5

LEMMA LastRatiosDrop ==
  ASSUME NEW q \in Seq(Launches), NEW n \in 0..Len(q)
  PROVE  LastRatios(Drop(q, n)) =
           [k \in Kernels |-> IF Occurrences(Drop(q, n), k) > 0
                              THEN LastRatios(q)[k] ELSE None]
<1>1. PICK m \in Nat : m = Len(q)  OBVIOUS
<1>2. PICK b \in Seq(Launches) : b = Drop(q, n)  BY DropIs
<1>3. Len(b) = m - n /\ \A i \in 1..(m - n) : b[i] = q[n + i]
  BY <1>1, <1>2, DropIs
<1>4. ASSUME NEW k \in Kernels
      PROVE  LastRatios(b)[k] =
               IF Occurrences(b, k) > 0 THEN LastRatios(q)[k] ELSE None
  <2>1. CASE Places(b, k) = {}
    <3>1. ~(Occurrences(b, k) > 0)  BY <2>1, AtFinite
    <3>2. LastRatios(b)[k] = None  BY <2>1, LastRatioIs
    <3> QED  BY <3>1, <3>2
  <2>2. CASE Places(b, k) # {}
    <3>1. Occurrences(b, k) > 0  BY <2>2, AtFinite
    <3>2. PICK i \in Places(b, k) : \A j \in Places(b, k) : j <= i
      <4>1. Places(b, k) \subseteq 1..(m - n) /\ m - n \in Nat  BY <1>1, <1>3 DEF Places
      <4> QED  BY <2>2, <4>1, LastOf
    <3>3. i \in 1..(m - n) /\ b[i] = q[n + i]  BY <1>3 DEF Places
    <3>4. n + i \in Places(q, k)  BY <1>1, <3>3 DEF Places
    <3>5. ASSUME NEW j \in Places(q, k) PROVE j <= n + i
      <4>1. j \in 1..m /\ q[j].kernel = k  BY <1>1 DEF Places
      <4>2. CASE j <= n  BY <3>3, <4>1, <4>2
      <4>3. CASE j > n
        <5>1. j - n \in 1..(m - n) /\ n + (j - n) = j  BY <4>1, <4>3
        <5>2. j - n \in Places(b, k)  BY <1>3, <4>1, <5>1 DEF Places
        <5> QED  BY <3>2, <3>3, <4>1, <5>2
      <4> QED  BY <4>1, <4>2, <4>3
    <3>6. LastRatios(b)[k] = b[i].ratio /\ LastRatios(q)[k] = q[n + i].ratio
      BY <3>2, <3>4, <3>5, LastRatioIs
    <3> QED  BY <3>1, <3>3, <3>6
  <2> QED  BY <2>1, <2>2
<1>5. LastRatios(b) = [k \in Kernels |-> LastRatios(b)[k]]
  BY DEF LastRatios
<1> QED  BY <1>2, <1>4, <1>5

-----------------------------------------------------------------------------
(* EvictCount and LongestSuffix.                                           *)
Fits(a, e) ==
  /\ e \in 0..Len(a)
  /\ Total(Drop(a, e)) <= Budget
  /\ \A m \in 0..(e - 1) : Total(Drop(a, m)) > Budget

LEMMA EvictFits ==
  ASSUME NEW q \in Seq(Launches)
  PROVE  Fits(q, EvictCount(q, Total(q)))
<1>1. PICK n \in Nat : n = Len(q)  OBVIOUS
<1> DEFINE S == {i \in 0..n : Total(Drop(q, i)) <= Budget}
<1>2. \A i \in 0..n : Total(q) - Total(SubSeq(q, 1, i)) = Total(Drop(q, i))
  BY <1>1, TotalDrop, LaunchesCosted
<1>3. Total(Drop(q, n)) <= Budget
  <2>1. n \in 0..Len(q)  BY <1>1
  <2>2. Drop(q, n) \in Seq(Launches) /\ Len(Drop(q, n)) = 0
    BY <1>1, <2>1, DropIs
  <2>3. Drop(q, n) = <<>>  BY <2>2
  <2> QED  BY <2>3, TotalEmpty, BudgetAssumption
<1>4. \A i \in 0..n : Total(Drop(q, i)) \in Nat
  BY <1>1, DropIs, TotalNat, LaunchesCosted
<1>5. PICK e \in S : \A i \in S : e <= i
  <2>1. S \subseteq Nat /\ n \in S  BY <1>3
  <2> HIDE DEF S
  <2> QED  BY <2>1, FirstOf
<1> DEFINE Out(i) ==
             /\ i \in 0..Len(q)
             /\ i = Len(q) \/ Total(q) - Total(SubSeq(q, 1, i)) <= Budget
             /\ \A m \in 0..(i - 1) : Total(q) - Total(SubSeq(q, 1, m)) > Budget
<1>6. Out(e)
  <2>1. ASSUME NEW m \in 0..(e - 1) PROVE Total(q) - Total(SubSeq(q, 1, m)) > Budget
    <3>1. m \in 0..n /\ m \notin S  BY <1>5
    <3> QED  BY <1>2, <1>4, <3>1, BudgetAssumption
  <2> QED  BY <1>1, <1>2, <1>5, <2>1
<1>7. EvictCount(q, Total(q)) = CHOOSE i \in 0..Len(q) : Out(i)
  BY DEF EvictCount
<1>8. Out(EvictCount(q, Total(q)))
  <2> HIDE DEF Out
  <2>1. e \in 0..Len(q)  BY <1>1
  <2> QED  BY <1>6, <1>7, <2>1
<1>9. ASSUME NEW x, Out(x) PROVE Fits(q, x)
  <2>1. x \in 0..n /\ \A m \in 0..(x - 1) : m \in 0..n  BY <1>1, <1>9
  <2>2. Total(Drop(q, x)) <= Budget  BY <1>1, <1>2, <1>3, <1>9, <2>1
  <2>3. \A m \in 0..(x - 1) : Total(Drop(q, m)) > Budget
    BY <1>2, <1>9, <2>1
  <2> QED  BY <1>1, <2>1, <2>2, <2>3 DEF Fits
<1> HIDE DEF Out
<1> QED  BY <1>8, <1>9

LEMMA LongestIs ==
  ASSUME NEW a \in Seq(Launches), NEW e, Fits(a, e)
  PROVE  LongestSuffix(a) = Drop(a, e)
<1> DEFINE fits == {n \in 0..Len(a) : Total(Drop(a, n)) <= Budget}
           least == CHOOSE n \in fits : \A m \in fits : n <= m
<1>1. e \in fits  BY DEF Fits
<1>2. ASSUME NEW m \in fits PROVE e <= m
  <2>1. ~(Total(Drop(a, m)) > Budget)
    <3>1. Total(Drop(a, m)) \in Nat  BY DropIs, TotalNat, LaunchesCosted
    <3> QED  BY <3>1, BudgetAssumption
  <2>2. m \notin 0..(e - 1)  BY <2>1 DEF Fits
  <2> QED  BY <2>2 DEF Fits
<1>3. least \in fits /\ \A m \in fits : least <= m
  <2> HIDE DEF fits
  <2> QED  BY <1>1, <1>2
<1>4. least = e
  <2>1. least <= e /\ e <= least  BY <1>1, <1>2, <1>3
  <2>2. least \in Nat /\ e \in Nat  BY <1>1, <1>3
  <2> HIDE DEF least
  <2> QED  BY <2>1, <2>2
<1>5. LongestSuffix(a) = Drop(a, least)  BY DEF LongestSuffix
<1> HIDE DEF least
<1> QED  BY <1>4, <1>5

(* What a stream holds when it evicts from what it held and a new launch.  *)
LEMMA FitsAppend ==
  ASSUME NEW a \in Seq(Launches), NEW e, Fits(a, e), NEW l \in Launches,
         NEW n, Fits(Append(Drop(a, e), l), n)
  PROVE  /\ Fits(Append(a, l), e + n)
         /\ Drop(Append(Drop(a, e), l), n) = Drop(Append(a, l), e + n)
<1>1. PICK b \in Seq(Launches) : b = Append(a, l)  BY AppendIs
<1>2. PICK q \in Seq(Launches) : q = Append(Drop(a, e), l)
  BY DropIs, AppendIs DEF Fits
<1>3. Len(b) = Len(a) + 1  BY <1>1, AppendIs
<1>4. e \in 0..Len(a) /\ e \in 0..Len(b)  BY <1>3 DEF Fits
<1>5. q = Drop(b, e)  BY <1>1, <1>2, <1>4, DropAppend
<1>6. Len(q) = Len(b) - e  BY <1>4, <1>5, DropIs
<1>7. \A m \in 0..Len(q) : Drop(q, m) = Drop(b, e + m)
  BY <1>4, <1>5, <1>6, DropDrop
<1>8. n \in 0..Len(q) /\ Total(Drop(q, n)) <= Budget
      /\ \A m \in 0..(n - 1) : Total(Drop(q, m)) > Budget
  BY <1>2 DEF Fits
<1>9. ASSUME NEW m \in 0..((e + n) - 1) PROVE Total(Drop(b, m)) > Budget
  <2>1. CASE m < e
    <3>1. m \in 0..(e - 1) /\ m \in 0..Len(a)  BY <1>4, <2>1
    <3>2. Total(Drop(a, m)) > Budget  BY <3>1 DEF Fits
    <3>3. Drop(a, m) \in Seq(Launches) /\ Drop(b, m) = Append(Drop(a, m), l)
      BY <1>1, <3>1, DropIs, DropAppend
    <3>4. Total(Drop(b, m)) = Total(Drop(a, m)) + l.cost /\ Total(Drop(a, m)) \in Nat
      BY <3>3, TotalAppend, TotalNat, LaunchesCosted
    <3>5. l.cost \in Nat  BY LaunchesAssumption, BudgetAssumption
    <3> QED  BY <3>2, <3>4, <3>5, BudgetAssumption
  <2>2. CASE m >= e
    <3>1. m - e \in 0..(n - 1) /\ m - e \in 0..Len(q) /\ e + (m - e) = m
      BY <1>4, <1>8, <2>2
    <3> QED  BY <1>7, <1>8, <3>1
  <2> QED  BY <1>4, <1>8, <2>1, <2>2
<1>10. e + n \in 0..Len(b)  BY <1>4, <1>6, <1>8
<1> QED  BY <1>1, <1>2, <1>7, <1>8, <1>9, <1>10 DEF Fits

-----------------------------------------------------------------------------
(* DueStreams: the streams among the first m created that are due.         *)
Selected(m, d) ==
  /\ d \in Seq(Groups)
  /\ \A i \in 1..Len(d) : \E j \in 1..m : Due(created[j]) /\ d[i] = created[j]
  /\ \A j \in 1..m : Due(created[j]) => \E i \in 1..Len(d) : d[i] = created[j]
  /\ \A i, j \in 1..Len(d) : d[i] = d[j] => i = j

LEMMA SelectedNext ==
  ASSUME created \in Seq(Groups),
         \A i, j \in 1..Len(created) : created[i] = created[j] => i = j,
         NEW m \in 1..Len(created), NEW d, Selected(m - 1, d)
  PROVE  Selected(m, IF Due(created[m]) THEN Append(d, created[m]) ELSE d)
<1>1. \A j : j \in 1..m <=> j \in 1..(m - 1) \/ j = m  OBVIOUS
<1>2. d \in Seq(Groups)  BY DEF Selected
<1>3. CASE ~Due(created[m])
  BY <1>1, <1>2, <1>3 DEF Selected
<1>4. CASE Due(created[m])
  <2>1. PICK n \in Nat : n = Len(d)  BY <1>2
  <2>0. created[m] \in Groups  OBVIOUS
  <2>2. PICK r \in Seq(Groups) : r = Append(d, created[m])
    <3>1. Append(d, created[m]) \in Seq(Groups)  BY <1>2, <2>0
    <3> QED  BY <3>1
  <2>3. Len(r) = n + 1 /\ r[n + 1] = created[m] /\ \A i \in 1..n : r[i] = d[i]
    BY <1>2, <2>0, <2>1, <2>2
  <2>4. \A i : i \in 1..(n + 1) <=> i \in 1..n \/ i = n + 1  OBVIOUS
  <2>5. ASSUME NEW i \in 1..(n + 1)
        PROVE  \E j \in 1..m : Due(created[j]) /\ r[i] = created[j]
    <3>1. CASE i \in 1..n
      <4>1. PICK j \in 1..(m - 1) : Due(created[j]) /\ d[i] = created[j]
        BY <2>1, <3>1 DEF Selected
      <4> QED  BY <1>1, <2>3, <3>1, <4>1
    <3>2. CASE i = n + 1
      BY <1>1, <1>4, <2>3, <3>2
    <3> QED  BY <2>4, <3>1, <3>2
  <2>6. ASSUME NEW j \in 1..m, Due(created[j])
        PROVE  \E i \in 1..(n + 1) : r[i] = created[j]
    <3>1. CASE j \in 1..(m - 1)
      <4>1. PICK i \in 1..n : d[i] = created[j]
        BY <2>1, <2>6, <3>1 DEF Selected
      <4> QED  BY <2>3, <2>4, <4>1
    <3>2. CASE j = m
      BY <2>3, <2>4, <3>2
    <3> QED  BY <1>1, <3>1, <3>2
  <2>7. ASSUME NEW i \in 1..n PROVE r[i] # created[m]
    <3>1. PICK j \in 1..(m - 1) : d[i] = created[j]  BY <2>1 DEF Selected
    <3>2. j \in 1..Len(created) /\ j # m  OBVIOUS
    <3> QED  BY <2>3, <3>1, <3>2
  <2>8. ASSUME NEW i \in 1..(n + 1), NEW j \in 1..(n + 1), r[i] = r[j]
        PROVE  i = j
    <3>1. CASE i \in 1..n /\ j \in 1..n
      BY <2>1, <2>3, <2>8, <3>1 DEF Selected
    <3>2. CASE i = n + 1 \/ j = n + 1
      BY <2>3, <2>4, <2>7, <2>8, <3>2
    <3> QED  BY <2>4, <3>1, <3>2
  <2>9. Selected(m, r)  BY <2>3, <2>5, <2>6, <2>8 DEF Selected
  <2> QED  BY <1>4, <2>2, <2>9
<1> QED  BY <1>3, <1>4

LEMMA DueStreamsAre ==
  ASSUME created \in Seq(Groups),
         \A i, j \in 1..Len(created) : created[i] = created[j] => i = j
  PROVE  Selected(Len(created), DueStreams)
<1>1. PICK n \in Nat : n = Len(created)  OBVIOUS
<1> DEFINE next == [e \in (1..n) \X Seq(Groups) |->
                      IF Due(created[e[1]]) THEN Append(e[2], created[e[1]])
                      ELSE e[2]]
           body(f) == [m \in 0..Len(created) |->
                         IF m = 0 THEN <<>>
                         ELSE IF Due(created[m])
                              THEN Append(f[m - 1], created[m]) ELSE f[m - 1]]
           upTo == CHOOSE f : f = body(f)
<1>2. next \in [(1..n) \X Seq(Groups) -> Seq(Groups)]
  <2> SUFFICES ASSUME NEW i \in 1..n, NEW d \in Seq(Groups)
               PROVE  (IF Due(created[i]) THEN Append(d, created[i]) ELSE d)
                        \in Seq(Groups)
    OBVIOUS
  <2>1. created[i] \in Groups  BY <1>1
  <2>2. Append(d, created[i]) \in Seq(Groups)  BY <2>1
  <2> QED  BY <2>2
<1>3. \A i \in 1..n, d \in Seq(Groups) :
        next[<<i, d>>] = IF Due(created[i]) THEN Append(d, created[i]) ELSE d
  OBVIOUS
<1> HIDE DEF next
<1>4. \E f : Iterates(n, Seq(Groups), <<>>, next, f)
  <2>1. <<>> \in Seq(Groups)  OBVIOUS
  <2> QED  BY <1>2, <2>1, Recursion
<1>5. PICK g : Iterates(n, Seq(Groups), <<>>, next, g)
  BY <1>4
<1>6. g \in [0..n -> Seq(Groups)] /\ g[0] = <<>>
      /\ \A i \in 1..n : g[i] = next[<<i, g[i - 1]>>]
  BY <1>5 DEF Iterates
<1>7. g = body(g)
  <2>1. ASSUME NEW i \in 1..n
        PROVE  g[i] = IF Due(created[i]) THEN Append(g[i - 1], created[i])
                      ELSE g[i - 1]
    <3>1. g[i - 1] \in Seq(Groups)  BY <1>6
    <3> QED  BY <1>3, <1>6, <3>1
  <2>2. \A i \in 0..n : g[i] = body(g)[i]
    <3>1. g[0] = body(g)[0]  BY <1>1, <1>6
    <3>2. ASSUME NEW i \in 1..n PROVE g[i] = body(g)[i]
      <4>1. i # 0 /\ i \in 0..Len(created)  BY <1>1
      <4> QED  BY <2>1, <4>1
    <3>3. \A i \in 0..n : i = 0 \/ i \in 1..n  OBVIOUS
    <3> QED  BY <3>1, <3>2, <3>3
  <2>3. g = [i \in 0..n |-> g[i]]  BY <1>6
  <2>4. body(g) = [i \in 0..n |-> body(g)[i]]  BY <1>1
  <2> HIDE DEF body
  <2> QED  BY <2>2, <2>3, <2>4
<1>8. upTo = body(upTo)
  <2> HIDE DEF body
  <2> QED  BY <1>7
<1>9. DueStreams = upTo[Len(created)]  BY DEF DueStreams
<1> HIDE DEF upTo
<1> DEFINE S == {m \in 0..n : Selected(m, upTo[m])}
<1>10. 0 \in S
  <2>1. upTo[0] = <<>>  BY <1>8
  <2>2. Selected(0, <<>>)  BY DEF Selected
  <2> QED  BY <2>1, <2>2
<1>11. ASSUME NEW m \in 1..n, m - 1 \in S PROVE m \in S
  <2>1. upTo[m] = body(upTo)[m]  BY <1>8
  <2>2. body(upTo)[m] = IF Due(created[m]) THEN Append(upTo[m - 1], created[m])
                        ELSE upTo[m - 1]
    BY <1>1
  <2>3. Selected(m - 1, upTo[m - 1])  BY <1>11
  <2> HIDE DEF body
  <2> QED  BY <1>1, <2>1, <2>2, <2>3, SelectedNext
<1> HIDE DEF S
<1>12. n \in S
  <2>1. \A i \in 0..n : i \in S  BY <1>10, <1>11, Induction
  <2> QED  BY <2>1
<1> QED  BY <1>1, <1>9, <1>12 DEF S

-----------------------------------------------------------------------------
(* The inductive invariant.                                                *)
Triggers == {"token_budget_overflow", "offline_final_flush"}
WindowType ==
  [id : Nat, group : Groups, launches : Seq(Launches), trigger : Triggers]

SchedulerTyped ==
  /\ created \in Seq(Groups)
  /\ queue \in [Groups -> Seq(Launches)]
  /\ cost \in [Groups -> 0..Budget]
  /\ counts \in [Groups -> [Kernels -> Nat]]
  /\ ratios \in [Groups -> [Kernels -> (0..100) \cup {None}]]
  /\ seen = [g \in Groups |-> seen[g]]
  /\ evicted \in [Groups -> Nat] /\ unready \in [Groups -> Nat]
  /\ nextWindow \in Nat
  /\ windows \in Seq(WindowType)
  /\ arrivals \in [Groups -> Seq(Launches)]
  /\ calls \in 0..MaxLaunches

(* A stream is in the states dict once, and before it holds a launch.      *)
StreamsOnce ==
  /\ \A i, j \in 1..Len(created) : created[i] = created[j] => i = j
  /\ \A g \in Groups : queue[g] # <<>> => \E i \in 1..Len(created) : created[i] = g

(* A stream holds what is left of its launches after evicting the fewest,  *)
(* and its running totals are those of what it holds.                      *)
StreamHeld(g) ==
  /\ Fits(arrivals[g], evicted[g])
  /\ queue[g] = Drop(arrivals[g], evicted[g])
  /\ cost[g] = Total(queue[g])
  /\ counts[g] = CountsOf(queue[g])
  /\ ratios[g] = LastRatios(queue[g])

(* seen_signatures are the compositions of the windows emitted.            *)
Shown(w) == Composition(CountsOf(w.launches))
SeenShown ==
  /\ \A i \in 1..Len(windows) : Shown(windows[i]) \in seen[windows[i].group]
  /\ \A g \in Groups : \A c \in seen[g] :
       \E i \in 1..Len(windows) : windows[i].group = g /\ Shown(windows[i]) = c

(* WindowsAreRuns, of one window and the launches of its stream.           *)
IsRun(w, a) ==
  /\ Len(w.launches) > 0
  /\ \E m \in 0..(Len(a) - Len(w.launches)) :
       w.launches = SubSeq(a, m + 1, m + Len(w.launches))
  /\ IF w.trigger = "token_budget_overflow"
     THEN /\ Total(w.launches) > Budget
          /\ Total(w.launches) - w.launches[Len(w.launches)].cost <= Budget
     ELSE Total(w.launches) <= Budget

(* NoCompositionMissed, of one launch of a stream.                         *)
HeldAt(a, n) == Append(LongestSuffix(SubSeq(a, 1, n - 1)), a[n])
ToBeShown(q) == Total(q) > Budget /\ GateOpen(CountsOf(q), LastRatios(q))

Scheduled ==
  /\ SchedulerTyped
  /\ StreamsOnce
  /\ \A g \in Groups : StreamHeld(g)
  /\ SeenShown
  /\ EachCompositionOnce
  /\ \A i \in 1..Len(windows) : IsRun(windows[i], arrivals[windows[i].group])
  /\ \A g \in Groups : \A n \in 1..Len(arrivals[g]) :
       ToBeShown(HeldAt(arrivals[g], n)) =>
         Composition(CountsOf(HeldAt(arrivals[g], n))) \in seen[g]

LEMMA HeldAtAppend ==
  ASSUME NEW a \in Seq(Launches), NEW l \in Launches
  PROVE  /\ \A n \in 1..Len(a) : HeldAt(Append(a, l), n) = HeldAt(a, n)
         /\ HeldAt(Append(a, l), Len(a) + 1) = Append(LongestSuffix(a), l)
<1>1. PICK b \in Seq(Launches) : b = Append(a, l)  BY AppendIs
<1>2. Len(b) = Len(a) + 1 /\ b[Len(a) + 1] = l /\ \A i \in 1..Len(a) : b[i] = a[i]
  BY <1>1, AppendIs
<1>3. ASSUME NEW n \in 0..Len(a) PROVE SubSeq(b, 1, n) = SubSeq(a, 1, n)
  <2>1. n \in 0..Len(b)  BY <1>2
  <2>2. /\ SubSeq(b, 1, n) \in Seq(Launches) /\ Len(SubSeq(b, 1, n)) = n
        /\ \A i \in 1..n : SubSeq(b, 1, n)[i] = b[i]
    BY <2>1, FirstsAre
  <2>3. /\ SubSeq(a, 1, n) \in Seq(Launches) /\ Len(SubSeq(a, 1, n)) = n
        /\ \A i \in 1..n : SubSeq(a, 1, n)[i] = a[i]
    BY FirstsAre
  <2> QED  BY <1>2, <2>2, <2>3, SameSequence
<1>4. ASSUME NEW n \in 1..Len(a) PROVE HeldAt(b, n) = HeldAt(a, n)
  <2>1. n - 1 \in 0..Len(a)  OBVIOUS
  <2> QED  BY <1>2, <1>3, <2>1 DEF HeldAt
<1>5. HeldAt(b, Len(a) + 1) = Append(LongestSuffix(a), l)
  <2>1. (Len(a) + 1) - 1 = Len(a) /\ Len(a) \in 0..Len(a)  OBVIOUS
  <2>2. SubSeq(a, 1, Len(a)) = a
    <3>1. SubSeq(a, 1, Len(a)) \in Seq(Launches)
          /\ Len(SubSeq(a, 1, Len(a))) = Len(a)
          /\ \A i \in 1..Len(a) : SubSeq(a, 1, Len(a))[i] = a[i]
      BY <2>1, FirstsAre
    <3> QED  BY <3>1, SameSequence
  <2>3. SubSeq(b, 1, (Len(a) + 1) - 1) = a  BY <1>3, <2>1, <2>2
  <2> QED  BY <1>2, <2>3 DEF HeldAt
<1> QED  BY <1>1, <1>4, <1>5

LEMMA IsRunAppend ==
  ASSUME NEW a \in Seq(Launches), NEW l \in Launches, NEW w \in WindowType,
         IsRun(w, a)
  PROVE  IsRun(w, Append(a, l))
<1>1. PICK b \in Seq(Launches) : b = Append(a, l)  BY AppendIs
<1>2. Len(b) = Len(a) + 1 /\ \A i \in 1..Len(a) : b[i] = a[i]
  BY <1>1, AppendIs
<1>3. w.launches \in Seq(Launches)  BY DEF WindowType
<1>4. PICK n \in Nat : n = Len(w.launches)  BY <1>3
<1>5. PICK m \in 0..(Len(a) - n) : w.launches = SubSeq(a, m + 1, m + n)
  BY <1>4 DEF IsRun
<1>6. SubSeq(a, m + 1, m + n) = SubSeq(b, m + 1, m + n)
  <2>1. m \in Nat /\ m + n \in 0..Len(a) /\ m + n \in 0..Len(b)  BY <1>2, <1>4
  <2>2. /\ SubSeq(a, m + 1, m + n) \in Seq(Launches)
        /\ Len(SubSeq(a, m + 1, m + n)) = n
        /\ \A i \in 1..n : SubSeq(a, m + 1, m + n)[i] = a[m + i]
    BY <1>4, <2>1
  <2>3. /\ SubSeq(b, m + 1, m + n) \in Seq(Launches)
        /\ Len(SubSeq(b, m + 1, m + n)) = n
        /\ \A i \in 1..n : SubSeq(b, m + 1, m + n)[i] = b[m + i]
    BY <1>4, <2>1
  <2>4. ASSUME NEW i \in 1..n PROVE b[m + i] = a[m + i]
    <3>1. m + i \in 1..Len(a)  BY <1>4, <2>1
    <3> QED  BY <1>2, <3>1
  <2> QED  BY <2>2, <2>3, <2>4, SameSequence
<1>7. m \in 0..(Len(b) - n)
  <2>1. Len(a) \in Nat /\ m \in Nat /\ m <= Len(a) - n  BY <1>4
  <2> QED  BY <1>2, <1>4, <2>1
<1>8. w.launches = SubSeq(b, m + 1, m + Len(w.launches))
      /\ m \in 0..(Len(b) - Len(w.launches))
  BY <1>4, <1>5, <1>6, <1>7
<1> QED  BY <1>1, <1>8 DEF IsRun

(* The last launches of a stream are a run.                                *)
LEMMA IsRunDrop ==
  ASSUME NEW a \in Seq(Launches), NEW e \in 0..Len(a), NEW w \in WindowType,
         w.launches = Drop(a, e), Len(w.launches) > 0,
         IF w.trigger = "token_budget_overflow"
         THEN /\ Total(w.launches) > Budget
              /\ Total(w.launches) - w.launches[Len(w.launches)].cost <= Budget
         ELSE Total(w.launches) <= Budget
  PROVE  IsRun(w, a)
<1>1. Len(w.launches) = Len(a) - e  BY DropIs
<1>2. w.launches = SubSeq(a, e + 1, e + Len(w.launches))
  <2>1. e + Len(w.launches) = Len(a)  BY <1>1
  <2> QED  BY <2>1 DEF Drop
<1>3. e \in 0..(Len(a) - Len(w.launches))  BY <1>1
<1> QED  BY <1>2, <1>3 DEF IsRun

-----------------------------------------------------------------------------
(* The windows a step emits: those after the ones there were.              *)
NewWindows == (Len(windows) + 1)..Len(windows')
WindowsGrow ==
  /\ windows' \in Seq(WindowType) /\ Len(windows') >= Len(windows)
  /\ \A i \in 1..Len(windows) : windows'[i] = windows[i]

LEMMA WindowSplit ==
  ASSUME SchedulerTyped, WindowsGrow
  PROVE  /\ Len(windows) \in Nat /\ Len(windows') \in Nat
         /\ \A i : i \in 1..Len(windows') <=> i \in 1..Len(windows) \/ i \in NewWindows
         /\ \A i \in 1..Len(windows) : windows[i] \in WindowType
         /\ \A i \in 1..Len(windows') : windows'[i] \in WindowType
         /\ DOMAIN windows = 1..Len(windows)
         /\ DOMAIN windows' = 1..Len(windows')
<1>1. windows \in Seq(WindowType) /\ windows' \in Seq(WindowType)
  BY DEF SchedulerTyped, WindowsGrow
<1>2. Len(windows) \in Nat /\ Len(windows') \in Nat  BY <1>1
<1>3. ASSUME NEW i \in 1..Len(windows) PROVE windows[i] \in WindowType
  BY <1>1
<1>4. ASSUME NEW i \in 1..Len(windows') PROVE windows'[i] \in WindowType
  BY <1>1
<1>5. \A i : i \in 1..Len(windows') <=> i \in 1..Len(windows) \/ i \in NewWindows
  BY <1>2 DEF NewWindows, WindowsGrow
<1> QED  BY <1>1, <1>2, <1>3, <1>4, <1>5

LEMMA OnceStep ==
  ASSUME SchedulerTyped, SeenShown, EachCompositionOnce, WindowsGrow,
         \A i \in NewWindows : /\ windows'[i].id = i - 1
                               /\ Shown(windows'[i]) \notin seen[windows'[i].group],
         \A i, j \in NewWindows : windows'[i].group = windows'[j].group => i = j,
         nextWindow' = Len(windows')
  PROVE  EachCompositionOnce'
<1>1. ASSUME NEW i \in 1..Len(windows'), NEW j \in 1..Len(windows'),
             i < j, windows'[i].group = windows'[j].group
      PROVE  Shown(windows'[i]) # Shown(windows'[j])
  <2>1. CASE j \in 1..Len(windows)
    <3>1. i \in 1..Len(windows)  BY <1>1, <2>1, WindowSplit
    <3>2. windows'[i] = windows[i] /\ windows'[j] = windows[j]
      BY <2>1, <3>1 DEF WindowsGrow
    <3> QED  BY <1>1, <2>1, <3>1, <3>2, WindowSplit DEF EachCompositionOnce, Shown
  <2>2. CASE j \in NewWindows
    <3>1. Shown(windows'[j]) \notin seen[windows'[j].group]  BY <2>2
    <3>2. CASE i \in 1..Len(windows)
      <4>1. windows'[i] = windows[i]  BY <3>2 DEF WindowsGrow
      <4>2. Shown(windows'[i]) \in seen[windows'[i].group]
        BY <3>2, <4>1 DEF SeenShown
      <4> QED  BY <1>1, <3>1, <4>2
    <3>3. CASE i \in NewWindows
      BY <1>1, <2>2, <3>3
    <3> QED  BY <3>2, <3>3, WindowSplit
  <2> QED  BY <2>1, <2>2, WindowSplit
<1>2. ASSUME NEW i \in 1..Len(windows') PROVE windows'[i].id = i - 1
  <2>1. CASE i \in 1..Len(windows)
    <3>1. windows'[i] = windows[i]  BY <2>1 DEF WindowsGrow
    <3> QED  BY <2>1, <3>1, WindowSplit DEF EachCompositionOnce
  <2> QED  BY <2>1, WindowSplit
<1> QED  BY <1>1, <1>2, WindowSplit DEF EachCompositionOnce, Shown

LEMMA SeenStep ==
  ASSUME SchedulerTyped, SeenShown, WindowsGrow,
         \A g \in Groups : seen'[g] = seen[g] \cup
           {Shown(windows'[i]) : i \in {i \in NewWindows : windows'[i].group = g}}
  PROVE  SeenShown'
<1>1. ASSUME NEW i \in 1..Len(windows')
      PROVE  Shown(windows'[i]) \in seen'[windows'[i].group]
  <2>1. windows'[i] \in WindowType  BY WindowSplit
  <2>2. windows'[i].group \in Groups  BY <2>1 DEF WindowType
  <2>3. CASE i \in 1..Len(windows)
    <3>1. windows'[i] = windows[i]  BY <2>3 DEF WindowsGrow
    <3> QED  BY <2>2, <2>3, <3>1 DEF SeenShown
  <2>4. CASE i \in NewWindows
    BY <2>2, <2>4
  <2> QED  BY <2>3, <2>4, WindowSplit
<1>2. ASSUME NEW g \in Groups, NEW c \in seen'[g]
      PROVE  \E i \in 1..Len(windows') : windows'[i].group = g /\ Shown(windows'[i]) = c
  <2>1. CASE c \in seen[g]
    <3>1. PICK i \in 1..Len(windows) : windows[i].group = g /\ Shown(windows[i]) = c
      BY <2>1 DEF SeenShown
    <3>2. windows'[i] = windows[i] /\ i \in 1..Len(windows')
      BY <3>1, WindowSplit DEF WindowsGrow
    <3> QED  BY <3>1, <3>2
  <2>2. CASE c \notin seen[g]
    <3>1. PICK i \in NewWindows : windows'[i].group = g /\ c = Shown(windows'[i])
      BY <1>2, <2>2
    <3> QED  BY <3>1, WindowSplit
  <2> QED  BY <2>1, <2>2
<1> QED  BY <1>1, <1>2 DEF SeenShown

-----------------------------------------------------------------------------
(* The steps.                                                              *)
LEMMA TotalsTyped ==
  ASSUME NEW q \in Seq(Launches)
  PROVE  /\ CountsOf(q) \in [Kernels -> Nat]
         /\ LastRatios(q) \in [Kernels -> (0..100) \cup {None}]
<1>1. CountsOf(q) \in [Kernels -> Nat]  BY AtFinite DEF CountsOf
<1>2. ASSUME NEW k \in Kernels PROVE LastRatios(q)[k] \in (0..100) \cup {None}
  <2>1. CASE Places(q, k) = {}
    BY <2>1, LastRatioIs
  <2>2. CASE Places(q, k) # {}
    <3>1. Len(q) \in Nat /\ Places(q, k) \subseteq 1..Len(q)  BY DEF Places
    <3>2. PICK i \in Places(q, k) : \A j \in Places(q, k) : j <= i
      BY <2>2, <3>1, LastOf
    <3>3. LastRatios(q)[k] = q[i].ratio  BY <3>2, LastRatioIs
    <3>4. q[i].ratio \in 0..100  BY <3>1, LaunchTyped
    <3> QED  BY <3>3, <3>4
  <2> QED  BY <2>1, <2>2
<1>3. LastRatios(q) = [k \in Kernels |-> LastRatios(q)[k]]  BY DEF LastRatios
<1> QED  BY <1>1, <1>2, <1>3

LEMMA CreatedOnce ==
  ASSUME SchedulerTyped, StreamsOnce, NEW g \in Groups, StreamCreated(g)
  PROVE  /\ created' \in Seq(Groups)
         /\ \A i, j \in 1..Len(created') : created'[i] = created'[j] => i = j
         /\ \E i \in 1..Len(created') : created'[i] = g
         /\ \A i \in 1..Len(created) : i \in 1..Len(created') /\ created'[i] = created[i]
<1>1. created \in Seq(Groups)  BY DEF SchedulerTyped
<1>2. DOMAIN created = 1..Len(created)  BY <1>1
<1>3. CASE \E i \in DOMAIN created : created[i] = g
  <2>1. created' = created  BY <1>3 DEF StreamCreated
  <2> QED  BY <1>1, <1>2, <1>3, <2>1 DEF StreamsOnce
<1>4. CASE ~(\E i \in DOMAIN created : created[i] = g)
  <2>1. created' = Append(created, g)  BY <1>4 DEF StreamCreated
  <2>2. PICK n \in Nat : n = Len(created)  BY <1>1
  <2>3. /\ created' \in Seq(Groups) /\ Len(created') = n + 1 /\ created'[n + 1] = g
        /\ \A i \in 1..n : created'[i] = created[i]
    BY <1>1, <2>1, <2>2
  <2>4. \A i : i \in 1..(n + 1) <=> i \in 1..n \/ i = n + 1  BY <2>2
  <2>5. \A i, j \in 1..n : created[i] = created[j] => i = j
    BY <2>2 DEF StreamsOnce
  <2>6. \A i \in 1..n : created[i] # g  BY <1>2, <1>4, <2>2
  <2>7. ASSUME NEW i \in 1..(n + 1), NEW j \in 1..(n + 1), created'[i] = created'[j]
        PROVE  i = j
    <3>1. CASE i \in 1..n /\ j \in 1..n
      BY <2>3, <2>5, <2>7, <3>1
    <3>2. CASE i = n + 1 \/ j = n + 1
      BY <2>3, <2>4, <2>6, <2>7, <3>2
    <3> QED  BY <2>4, <3>1, <3>2
  <2> QED  BY <2>2, <2>3, <2>4, <2>7
<1> QED  BY <1>3, <1>4

(* AddLaunch in terms of what the stream holds with the new launch.        *)
LEMMA AddLaunchIs ==
  ASSUME SchedulerTyped, NEW g \in Groups, NEW l \in Launches, StreamHeld(g),
         AddLaunch(g, l), NEW q, q = Append(queue[g], l)
  PROVE  \E n :
           /\ Fits(q, n)
           /\ queue' = [queue EXCEPT ![g] = Drop(q, n)]
           /\ cost' = [cost EXCEPT ![g] = Total(Drop(q, n))]
           /\ counts' = [counts EXCEPT ![g] = CountsOf(Drop(q, n))]
           /\ ratios' = [ratios EXCEPT ![g] = LastRatios(Drop(q, n))]
           /\ evicted' = [evicted EXCEPT ![g] = @ + n]
           /\ IF ToBeShown(q) /\ Composition(CountsOf(q)) \notin seen[g]
              THEN /\ seen' = [seen EXCEPT ![g] = @ \cup {Composition(CountsOf(q))}]
                   /\ windows' = Append(windows,
                        Window(nextWindow, g, q, "token_budget_overflow"))
                   /\ nextWindow' = nextWindow + 1
              ELSE UNCHANGED <<seen, windows, nextWindow>>
<1>1. queue[g] \in Seq(Launches) /\ q \in Seq(Launches)
  BY AppendIs DEF SchedulerTyped
<1>2. l.kernel \in Kernels /\ l.cost \in Nat
  BY LaunchesAssumption, BudgetAssumption
<1>3. PICK c : c = cost[g] + l.cost  OBVIOUS
<1>4. c = Total(q) /\ c \in Nat
  BY <1>1, <1>3, TotalAppend, TotalNat, LaunchesCosted DEF StreamHeld
<1>5. [counts[g] EXCEPT ![l.kernel] = @ + 1] = CountsOf(q)
  <2>1. \A k \in Kernels : Occurrences(q, k)
          = Occurrences(queue[g], k) + (IF l.kernel = k THEN 1 ELSE 0)
    BY <1>1, OccurrencesAppend
  <2>2. \A k \in Kernels : Occurrences(queue[g], k) \in Nat  BY <1>1, AtFinite
  <2>3. counts[g] = [k \in Kernels |-> Occurrences(queue[g], k)]
    BY DEF StreamHeld, CountsOf
  <2> QED  BY <1>2, <2>1, <2>2, <2>3 DEF CountsOf
<1>6. [ratios[g] EXCEPT ![l.kernel] = l.ratio] = LastRatios(q)
  BY <1>1, <1>2, LastRatiosAppend DEF StreamHeld
<1>7. PICK n : n = IF Overflows(c) THEN EvictCount(q, c) ELSE 0  OBVIOUS
<1>8. Fits(q, n)
  <2>1. CASE Overflows(c)
    BY <1>1, <1>4, <1>7, <2>1, EvictFits
  <2>2. CASE ~Overflows(c)
    <3>1. Total(Drop(q, 0)) <= Budget
      <4>1. Total(q) <= Budget
        BY <1>4, <2>2, BudgetAssumption DEF Overflows
      <4> QED  BY <1>1, <4>1, DropNone
    <3>2. 0 \in 0..Len(q) /\ 0..(0 - 1) = {}  BY <1>1
    <3> QED  BY <1>7, <2>2, <3>1, <3>2 DEF Fits
  <2> QED  BY <2>1, <2>2
<1>9. n \in 0..Len(q)  BY <1>8 DEF Fits
<1>10. c - Total(SubSeq(q, 1, n)) = Total(Drop(q, n))
  BY <1>1, <1>4, <1>9, TotalDrop, LaunchesCosted
<1>11. CountsWithout(CountsOf(q), SubSeq(q, 1, n)) = CountsOf(Drop(q, n))
  <2>1. \A k \in Kernels : Occurrences(q, k) - Occurrences(SubSeq(q, 1, n), k)
                             = Occurrences(Drop(q, n), k)
    BY <1>1, <1>9, OccurrencesDrop
  <2> QED  BY <2>1 DEF CountsWithout, CountsOf
<1>12. [k \in Kernels |-> IF CountsOf(Drop(q, n))[k] > 0
                          THEN LastRatios(q)[k] ELSE None] = LastRatios(Drop(q, n))
  <2>1. \A k \in Kernels : CountsOf(Drop(q, n))[k] = Occurrences(Drop(q, n), k)
    BY DEF CountsOf
  <2>2. LastRatios(Drop(q, n)) =
          [k \in Kernels |-> IF Occurrences(Drop(q, n), k) > 0
                             THEN LastRatios(q)[k] ELSE None]
    BY <1>1, <1>9, LastRatiosDrop
  <2> QED  BY <2>1, <2>2
<1>13. Overflows(c) /\ Emits(g, CountsOf(q), LastRatios(q))
         <=> ToBeShown(q) /\ Composition(CountsOf(q)) \notin seen[g]
  BY <1>4 DEF Overflows, Emits, ToBeShown
<1> DEFINE cnt == [counts[g] EXCEPT ![l.kernel] = @ + 1]
           rat == [ratios[g] EXCEPT ![l.kernel] = l.ratio]
           m == IF Overflows(c) THEN EvictCount(q, c) ELSE 0
           out == SubSeq(q, 1, m)
           rest == CountsWithout(cnt, out)
<1>14. /\ queue' = [queue EXCEPT ![g] = Drop(q, m)]
       /\ cost' = [cost EXCEPT ![g] = c - Total(out)]
       /\ counts' = [counts EXCEPT ![g] = rest]
       /\ ratios' = [ratios EXCEPT ![g] =
                       [k \in Kernels |-> IF rest[k] > 0 THEN rat[k] ELSE None]]
       /\ evicted' = [evicted EXCEPT ![g] = @ + m]
       /\ IF Overflows(c) /\ Emits(g, cnt, rat)
          THEN /\ seen' = [seen EXCEPT ![g] = @ \cup {Composition(cnt)}]
               /\ windows' = Append(windows,
                                Window(nextWindow, g, q, "token_budget_overflow"))
               /\ nextWindow' = nextWindow + 1
          ELSE UNCHANGED <<seen, windows, nextWindow>>
  BY <1>3 DEF AddLaunch
<1>15. cnt = CountsOf(q) /\ rat = LastRatios(q) /\ m = n
  BY <1>5, <1>6, <1>7
<1> HIDE DEF cnt, rat, m
<1>16. rest = CountsOf(Drop(q, n))  BY <1>11, <1>15
<1>17. [k \in Kernels |-> IF rest[k] > 0 THEN rat[k] ELSE None] = LastRatios(Drop(q, n))
  BY <1>12, <1>15, <1>16
<1>18. c - Total(out) = Total(Drop(q, n))  BY <1>10, <1>15
<1> HIDE DEF rest, out
<1> QED  BY <1>8, <1>13, <1>14, <1>15, <1>16, <1>17, <1>18

LEMMA AddLaunchKeeps ==
  ASSUME Scheduled, NEW g \in Groups, NEW l \in Launches, AddLaunch(g, l)
  PROVE  Scheduled'
<1>0. SchedulerTyped /\ StreamsOnce /\ SeenShown /\ EachCompositionOnce
      /\ \A h \in Groups : StreamHeld(h)
  BY DEF Scheduled
<1>1. PICK a \in Seq(Launches) : a = arrivals[g]  BY <1>0 DEF SchedulerTyped
<1>2. PICK e \in Nat : e = evicted[g]  BY <1>0 DEF SchedulerTyped
<1>3. PICK q \in Seq(Launches) : q = Append(queue[g], l)
  BY <1>0, AppendIs DEF SchedulerTyped
<1>4. Fits(a, e) /\ queue[g] = Drop(a, e) /\ e \in 0..Len(a)
      /\ queue[g] \in Seq(Launches) /\ Total(queue[g]) <= Budget
  BY <1>0, <1>1, <1>2 DEF StreamHeld, SchedulerTyped, Fits
<1> DEFINE held == Composition(CountsOf(q))
           emit == ToBeShown(q) /\ held \notin seen[g]
           w == Window(nextWindow, g, q, "token_budget_overflow")
<1>5. PICK n :
        /\ Fits(q, n)
        /\ queue' = [queue EXCEPT ![g] = Drop(q, n)]
        /\ cost' = [cost EXCEPT ![g] = Total(Drop(q, n))]
        /\ counts' = [counts EXCEPT ![g] = CountsOf(Drop(q, n))]
        /\ ratios' = [ratios EXCEPT ![g] = LastRatios(Drop(q, n))]
        /\ evicted' = [evicted EXCEPT ![g] = @ + n]
        /\ IF emit
           THEN /\ seen' = [seen EXCEPT ![g] = @ \cup {held}]
                /\ windows' = Append(windows, w)
                /\ nextWindow' = nextWindow + 1
           ELSE UNCHANGED <<seen, windows, nextWindow>>
  BY <1>0, <1>3, AddLaunchIs
<1>6. /\ calls < MaxLaunches /\ calls' = calls + 1 /\ StreamCreated(g)
      /\ arrivals' = [arrivals EXCEPT ![g] = Append(@, l)]
      /\ unready' = unready
  BY DEF AddLaunch
<1>7. PICK b \in Seq(Launches) : b = Append(a, l)  BY AppendIs
<1>8. PICK r \in Seq(Launches) : r = Drop(q, n)  BY <1>5, DropIs DEF Fits
<1>9. Fits(b, e + n) /\ r = Drop(b, e + n) /\ n \in Nat
  <2>1. q = Append(Drop(a, e), l) /\ Fits(q, n)  BY <1>3, <1>4, <1>5
  <2>2. Fits(Append(a, l), e + n) /\ Drop(q, n) = Drop(Append(a, l), e + n)
    BY <1>4, <2>1, FitsAppend
  <2>3. n \in Nat  BY <2>1 DEF Fits
  <2> QED  BY <1>7, <1>8, <2>2, <2>3
<1>10. /\ queue' = [queue EXCEPT ![g] = r]
       /\ cost' = [cost EXCEPT ![g] = Total(r)]
       /\ counts' = [counts EXCEPT ![g] = CountsOf(r)]
       /\ ratios' = [ratios EXCEPT ![g] = LastRatios(r)]
       /\ evicted' = [evicted EXCEPT ![g] = e + n]
       /\ arrivals' = [arrivals EXCEPT ![g] = b]
  BY <1>0, <1>1, <1>2, <1>5, <1>6, <1>7, <1>8 DEF SchedulerTyped
<1>11. Total(r) \in 0..Budget
  <2>1. Total(r) \in Nat  BY TotalNat, LaunchesCosted
  <2>2. Total(r) <= Budget  BY <1>9 DEF Fits
  <2> QED  BY <2>1, <2>2, BudgetAssumption
<1>12. nextWindow = Len(windows) /\ windows \in Seq(WindowType)
  BY <1>0 DEF EachCompositionOnce, SchedulerTyped
<1>13. w \in WindowType /\ w.group = g /\ w.launches = q /\ w.id = Len(windows)
       /\ w.trigger = "token_budget_overflow"
  BY <1>0, <1>12 DEF SchedulerTyped, WindowType, Window, Triggers
<1> HIDE DEF w
(* The windows after the step, and the ones it emits.                      *)
<1>14. /\ WindowsGrow /\ nextWindow' = Len(windows')
       /\ emit => NewWindows = {Len(windows) + 1}
                  /\ windows'[Len(windows) + 1] = w
       /\ ~emit => NewWindows = {}
  <2>1. PICK m \in Nat : m = Len(windows)  BY <1>12
  <2>2. CASE emit
    <3>1. windows' = Append(windows, w) /\ nextWindow' = m + 1
      BY <1>5, <1>12, <2>1, <2>2
    <3>2. /\ windows' \in Seq(WindowType) /\ Len(windows') = m + 1
          /\ windows'[m + 1] = w /\ \A i \in 1..m : windows'[i] = windows[i]
      BY <1>12, <1>13, <2>1, <3>1
    <3>3. (m + 1)..(m + 1) = {m + 1}  OBVIOUS
    <3> QED  BY <2>1, <2>2, <3>1, <3>2, <3>3 DEF WindowsGrow, NewWindows
  <2>3. CASE ~emit
    <3>1. windows' = windows /\ nextWindow' = nextWindow  BY <1>5, <2>3
    <3>2. (m + 1)..m = {}  OBVIOUS
    <3> QED  BY <1>12, <2>1, <2>3, <3>1, <3>2 DEF WindowsGrow, NewWindows
  <2> QED  BY <2>2, <2>3
<1>15. \A h \in Groups : seen'[h] = IF h = g /\ emit THEN seen[h] \cup {held} ELSE seen[h]
  <2>1. seen = [h \in Groups |-> seen[h]]  BY <1>0 DEF SchedulerTyped
  <2>2. CASE emit  BY <1>5, <2>1, <2>2
  <2>3. CASE ~emit  BY <1>5, <2>3
  <2> QED  BY <2>2, <2>3
<1>16. seen' = [h \in Groups |-> seen'[h]]
  <2>1. seen = [h \in Groups |-> seen[h]]  BY <1>0 DEF SchedulerTyped
  <2>2. CASE emit
    <3>1. seen' = [seen EXCEPT ![g] = @ \cup {held}]  BY <1>5, <2>2
    <3> QED  BY <2>1, <3>1
  <2>3. CASE ~emit  BY <1>5, <2>1, <2>3
  <2> QED  BY <2>2, <2>3
<1>17. \A i \in NewWindows : emit /\ windows'[i] = w /\ i = Len(windows) + 1
  BY <1>14
<1>18. SchedulerTyped'
  <2>1. windows' \in Seq(WindowType)  BY <1>14 DEF WindowsGrow
  <2>2. nextWindow' \in Nat  BY <1>14, <2>1
  <2>3. created' \in Seq(Groups)  BY <1>0, <1>6, CreatedOnce
  <2>4. calls' \in 0..MaxLaunches
    <3>1. calls \in 0..MaxLaunches /\ MaxLaunches \in Nat
      BY <1>0, BudgetAssumption DEF SchedulerTyped
    <3> QED  BY <1>6, <3>1
  <2>5. counts' \in [Groups -> [Kernels -> Nat]]
        /\ ratios' \in [Groups -> [Kernels -> (0..100) \cup {None}]]
    <3>1. /\ CountsOf(r) \in [Kernels -> Nat]
          /\ LastRatios(r) \in [Kernels -> (0..100) \cup {None}]
      BY TotalsTyped
    <3> QED  BY <1>0, <1>10, <3>1 DEF SchedulerTyped
  <2>6. queue' \in [Groups -> Seq(Launches)] /\ cost' \in [Groups -> 0..Budget]
        /\ arrivals' \in [Groups -> Seq(Launches)]
    BY <1>0, <1>10, <1>11 DEF SchedulerTyped
  <2>7. evicted' \in [Groups -> Nat] /\ unready' \in [Groups -> Nat]
    <3>1. e + n \in Nat  BY <1>9
    <3>2. evicted \in [Groups -> Nat] /\ unready \in [Groups -> Nat]
      BY <1>0 DEF SchedulerTyped
    <3> QED  BY <1>6, <1>10, <3>1, <3>2
  <2> QED  BY <1>16, <2>1, <2>2, <2>3, <2>4, <2>5, <2>6, <2>7 DEF SchedulerTyped
<1>19. StreamsOnce'
  <2>1. /\ \A i, j \in 1..Len(created') : created'[i] = created'[j] => i = j
        /\ \E i \in 1..Len(created') : created'[i] = g
        /\ \A i \in 1..Len(created) : i \in 1..Len(created') /\ created'[i] = created[i]
    BY <1>0, <1>6, CreatedOnce
  <2>2. ASSUME NEW h \in Groups, queue'[h] # <<>>
        PROVE  \E i \in 1..Len(created') : created'[i] = h
    <3>1. CASE h = g  BY <2>1, <3>1
    <3>2. CASE h # g
      <4>1. queue[h] # <<>>  BY <1>0, <1>10, <2>2, <3>2 DEF SchedulerTyped
      <4>2. PICK i \in 1..Len(created) : created[i] = h
        BY <1>0, <4>1 DEF StreamsOnce
      <4> QED  BY <2>1, <4>2
    <3> QED  BY <3>1, <3>2
  <2> QED  BY <2>1, <2>2 DEF StreamsOnce
<1>20. ASSUME NEW h \in Groups PROVE StreamHeld(h)'
  <2>1. CASE h = g
    <3>1. /\ queue'[h] = r /\ cost'[h] = Total(r) /\ counts'[h] = CountsOf(r)
          /\ ratios'[h] = LastRatios(r) /\ evicted'[h] = e + n /\ arrivals'[h] = b
      BY <1>0, <1>10, <2>1 DEF SchedulerTyped
    <3> QED  BY <1>9, <3>1 DEF StreamHeld
  <2>2. CASE h # g
    <3>1. /\ queue'[h] = queue[h] /\ cost'[h] = cost[h] /\ counts'[h] = counts[h]
          /\ ratios'[h] = ratios[h] /\ evicted'[h] = evicted[h]
          /\ arrivals'[h] = arrivals[h]
      BY <1>0, <1>10, <2>2 DEF SchedulerTyped
    <3> QED  BY <1>0, <3>1 DEF StreamHeld
  <2> QED  BY <2>1, <2>2
<1>21. SeenShown'
  <2>1. ASSUME NEW h \in Groups
        PROVE  seen'[h] = seen[h] \cup
                 {Shown(windows'[i]) : i \in {i \in NewWindows : windows'[i].group = h}}
    <3>1. CASE h = g /\ emit
      <4>1. {i \in NewWindows : windows'[i].group = h} = {Len(windows) + 1}
        BY <1>13, <1>14, <3>1
      <4>2. Shown(windows'[Len(windows) + 1]) = held
        BY <1>13, <1>14, <3>1 DEF Shown
      <4>3. seen'[h] = seen[h] \cup {held}  BY <1>15, <3>1
      <4> HIDE DEF emit, held
      <4> QED  BY <4>1, <4>2, <4>3
    <3>2. CASE ~(h = g /\ emit)
      <4>1. {i \in NewWindows : windows'[i].group = h} = {}
        BY <1>13, <1>17, <3>2
      <4>2. seen'[h] = seen[h]  BY <1>15, <3>2
      <4> QED  BY <4>1, <4>2
    <3> QED  BY <3>1, <3>2
  <2> QED  BY <1>0, <1>14, <2>1, SeenStep
<1>22. EachCompositionOnce'
  <2>1. \A i \in NewWindows : /\ windows'[i].id = i - 1
                              /\ Shown(windows'[i]) \notin seen[windows'[i].group]
    <3> SUFFICES ASSUME NEW i \in NewWindows
                 PROVE  /\ windows'[i].id = i - 1
                        /\ Shown(windows'[i]) \notin seen[windows'[i].group]
      OBVIOUS
    <3>1. emit /\ windows'[i] = w /\ i = Len(windows) + 1  BY <1>17
    <3>2. (Len(windows) + 1) - 1 = Len(windows)  BY <1>12
    <3> QED  BY <1>13, <3>1, <3>2 DEF Shown
  <2>2. \A i, j \in NewWindows : windows'[i].group = windows'[j].group => i = j
    BY <1>17
  <2> QED  BY <1>0, <1>14, <2>1, <2>2, OnceStep
<1>23. ASSUME NEW i \in 1..Len(windows')
       PROVE  IsRun(windows'[i], arrivals'[windows'[i].group])
  <2>1. CASE i \in 1..Len(windows)
    <3>1. windows'[i] = windows[i]  BY <1>14, <2>1 DEF WindowsGrow
    <3>2. windows[i] \in WindowType  BY <1>0, <1>14, <2>1, WindowSplit
    <3>3. windows[i].group \in Groups  BY <3>2 DEF WindowType
    <3>4. IsRun(windows[i], arrivals[windows[i].group])  BY <2>1 DEF Scheduled
    <3>5. CASE windows[i].group = g
      <4>1. IsRun(windows[i], b)  BY <1>1, <1>7, <3>2, <3>4, <3>5, IsRunAppend
      <4> QED  BY <1>0, <1>10, <3>1, <3>5, <4>1 DEF SchedulerTyped
    <3>6. CASE windows[i].group # g
      <4>1. arrivals'[windows[i].group] = arrivals[windows[i].group]
        BY <1>0, <1>10, <3>3, <3>6 DEF SchedulerTyped
      <4> QED  BY <3>1, <3>4, <4>1
    <3> QED  BY <3>5, <3>6
  <2>2. CASE i \in NewWindows
    <3>1. emit /\ windows'[i] = w  BY <1>17, <2>2
    <3>2. arrivals'[g] = b  BY <1>0, <1>10 DEF SchedulerTyped
    <3>3. e \in 0..Len(b) /\ q = Drop(b, e)
      <4>1. Len(b) = Len(a) + 1  BY <1>7, AppendIs
      <4>2. Len(a) \in Nat  OBVIOUS
      <4> QED  BY <1>3, <1>4, <1>7, <4>1, <4>2, DropAppend
    <3>4. Len(q) = Len(queue[g]) + 1 /\ q[Len(q)] = l
      BY <1>3, <1>4, AppendIs
    <3>5. Total(q) = Total(queue[g]) + l.cost /\ Total(queue[g]) \in Nat
      BY <1>3, <1>4, TotalAppend, TotalNat, LaunchesCosted
    <3>6. l.cost \in Nat  BY LaunchesAssumption, BudgetAssumption
    <3>7. Total(q) > Budget /\ Total(q) - q[Len(q)].cost <= Budget
      BY <1>4, <3>1, <3>4, <3>5, <3>6, BudgetAssumption DEF ToBeShown
    <3>8. Len(q) > 0
      <4>1. Len(queue[g]) \in Nat  BY <1>4
      <4> QED  BY <3>4, <4>1
    <3>9. IsRun(w, b)
      <4> HIDE DEF emit, held
      <4> QED  BY <1>13, <3>3, <3>7, <3>8, IsRunDrop
    <3> QED  BY <1>13, <3>1, <3>2, <3>9
  <2> QED  BY <1>0, <1>14, <2>1, <2>2, WindowSplit
<1>24. ASSUME NEW h \in Groups, NEW i \in 1..Len(arrivals'[h]),
              ToBeShown(HeldAt(arrivals'[h], i))
       PROVE  Composition(CountsOf(HeldAt(arrivals'[h], i))) \in seen'[h]
  <2>1. CASE h # g
    <3>1. arrivals'[h] = arrivals[h]  BY <1>0, <1>10, <2>1 DEF SchedulerTyped
    <3> QED  BY <1>15, <1>24, <2>1, <3>1 DEF Scheduled
  <2>2. CASE h = g
    <3>1. arrivals'[h] = b  BY <1>0, <1>10, <2>2 DEF SchedulerTyped
    <3>2. Len(b) = Len(a) + 1 /\ Len(a) \in Nat  BY <1>7, AppendIs
    <3>3. CASE i \in 1..Len(a)
      <4>1. HeldAt(b, i) = HeldAt(a, i)  BY <1>7, <3>3, HeldAtAppend
      <4>2. Composition(CountsOf(HeldAt(a, i))) \in seen[g]
        BY <1>1, <1>24, <3>1, <3>3, <4>1 DEF Scheduled
      <4> QED  BY <1>15, <2>2, <3>1, <4>1, <4>2
    <3>4. CASE i = Len(a) + 1
      <4>1. HeldAt(b, i) = Append(LongestSuffix(a), l)
        BY <1>7, <3>4, HeldAtAppend
      <4>2. HeldAt(b, i) = q  BY <1>3, <1>4, <4>1, LongestIs
      <4>3. ToBeShown(q)  BY <1>24, <3>1, <4>2
      <4>4. CASE emit  BY <1>15, <2>2, <3>1, <4>2, <4>4
      <4>5. CASE ~emit  BY <1>15, <2>2, <3>1, <4>2, <4>3, <4>5
      <4> QED  BY <4>4, <4>5
    <3> QED  BY <1>24, <3>1, <3>2, <3>3, <3>4
  <2> QED  BY <2>1, <2>2
<1> QED  BY <1>18, <1>19, <1>20, <1>21, <1>22, <1>23, <1>24 DEF Scheduled

(* flush leaves the streams as they are and emits for those that are due.  *)
LEMMA FlushKeeps ==
  ASSUME Scheduled, Flush
  PROVE  Scheduled'
<1>0. SchedulerTyped /\ StreamsOnce /\ SeenShown /\ EachCompositionOnce
      /\ \A h \in Groups : StreamHeld(h)
  BY DEF Scheduled
<1>1. UNCHANGED <<created, queue, cost, counts, ratios, evicted, unready,
                  arrivals, calls>>
  BY DEF Flush, streamVars
<1>2. PICK d : d = DueStreams  OBVIOUS
<1>3. Selected(Len(created), d)
  BY <1>0, <1>2, DueStreamsAre DEF SchedulerTyped, StreamsOnce
<1>4. PICK n \in Nat : n = Len(d)  BY <1>3 DEF Selected
<1>5. d \in Seq(Groups) /\ DOMAIN d = 1..n
      /\ \A i \in 1..n : d[i] \in Groups /\ Due(d[i])
  <2>1. d \in Seq(Groups)  BY <1>3 DEF Selected
  <2>2. ASSUME NEW i \in 1..n PROVE d[i] \in Groups /\ Due(d[i])
    <3>1. PICK j \in 1..Len(created) : Due(created[j]) /\ d[i] = created[j]
      BY <1>3, <1>4 DEF Selected
    <3> QED  BY <1>4, <2>1, <3>1
  <2> QED  BY <1>4, <2>1, <2>2
<1>6. PICK m \in Nat : m = Len(windows)
  <2>1. windows \in Seq(WindowType)  BY <1>0 DEF SchedulerTyped
  <2> QED  BY <2>1
<1>7. nextWindow = m /\ windows \in Seq(WindowType)
  BY <1>0, <1>6 DEF EachCompositionOnce, SchedulerTyped
<1>8. ASSUME NEW h \in Groups, Due(h)
      PROVE  \E i \in 1..n : d[i] = h
  <2>1. PICK j \in 1..Len(created) : created[j] = h
    BY <1>0, <1>8 DEF Due, StreamsOnce
  <2> QED  BY <1>3, <1>4, <1>8, <2>1 DEF Selected
<1>9. \A i, j \in 1..n : d[i] = d[j] => i = j
  BY <1>3, <1>4 DEF Selected
<1> DEFINE w(i) == Window(m + i - 1, d[i], queue[d[i]], "offline_final_flush")
           new == [i \in 1..n |-> w(i)]
<1>10. ASSUME NEW i \in 1..n
       PROVE  /\ w(i) \in WindowType /\ w(i).id = (m + i) - 1 /\ w(i).group = d[i]
              /\ w(i).launches = queue[d[i]] /\ w(i).trigger = "offline_final_flush"
  <2>1. d[i] \in Groups /\ queue[d[i]] \in Seq(Launches)
    BY <1>0, <1>5 DEF SchedulerTyped
  <2>2. m + i - 1 \in Nat /\ m + i - 1 = (m + i) - 1  OBVIOUS
  <2> QED  BY <2>1, <2>2 DEF Window, WindowType, Triggers
<1> HIDE DEF w
<1>11. windows' = windows \o new /\ nextWindow' = m + n
  BY <1>2, <1>4, <1>5, <1>7 DEF Flush, w
<1>12. /\ windows' \in Seq(WindowType) /\ Len(windows') = m + n
       /\ \A i \in 1..m : windows'[i] = windows[i]
       /\ \A i \in 1..n : windows'[m + i] = w(i)
  <2>1. new \in Seq(WindowType) /\ Len(new) = n /\ \A i \in 1..n : new[i] = w(i)
    BY <1>10
  <2> HIDE DEF new
  <2>2. Len(windows \o new) = m + n /\ windows \o new \in Seq(WindowType)
    BY <1>6, <1>7, <2>1
  <2>3. ASSUME NEW i \in 1..m PROVE (windows \o new)[i] = windows[i]
    BY <1>6, <1>7, <2>1
  <2>4. ASSUME NEW i \in 1..n PROVE (windows \o new)[m + i] = w(i)
    <3>1. PICK k \in Nat : k = m + i  OBVIOUS
    <3>2. k \in 1..(Len(windows) + Len(new)) /\ ~(k <= Len(windows))
          /\ k - Len(windows) = i
      BY <1>6, <2>1, <3>1
    <3>3. (windows \o new)[k] = new[k - Len(windows)]
      BY <1>7, <2>1, <3>2, ConcatProperties
    <3> QED  BY <2>1, <3>1, <3>2, <3>3
  <2>5. windows' = windows \o new  BY <1>11
  <2>6. windows' \in Seq(WindowType) /\ Len(windows') = m + n  BY <2>2, <2>5
  <2>7. \A i \in 1..m : windows'[i] = windows[i]  BY <2>3, <2>5
  <2>8. \A i \in 1..n : windows'[m + i] = w(i)  BY <2>4, <2>5
  <2> QED  BY <2>6, <2>7, <2>8
<1>13. WindowsGrow /\ nextWindow' = Len(windows')
  BY <1>6, <1>11, <1>12 DEF WindowsGrow
<1>14. ASSUME NEW i \in NewWindows
       PROVE  i - m \in 1..n /\ windows'[i] = w(i - m) /\ i = m + (i - m)
  <2>1. i \in (m + 1)..(m + n)  BY <1>6, <1>12 DEF NewWindows
  <2>2. i - m \in 1..n /\ i = m + (i - m)  BY <2>1
  <2> QED  BY <1>12, <2>2
<1>15. ASSUME NEW i \in 1..n
       PROVE  m + i \in NewWindows
  BY <1>6, <1>12 DEF NewWindows
<1>16. ASSUME NEW h \in Groups
       PROVE  /\ CountsOf(queue[h]) = counts[h]
              /\ Due(h) => Composition(counts[h]) \notin seen[h]
  BY <1>0 DEF StreamHeld, Due, Emits
<1>17. \A h \in Groups :
         seen'[h] = IF Due(h) THEN seen[h] \cup {Composition(counts[h])} ELSE seen[h]
  BY DEF Flush
<1>18. SchedulerTyped'
  <2>1. seen' = [h \in Groups |-> seen'[h]]  BY DEF Flush
  <2>2. nextWindow' \in Nat  BY <1>11
  <2> QED  BY <1>0, <1>1, <1>12, <2>1, <2>2 DEF SchedulerTyped
<1>19. StreamsOnce'
  BY <1>0, <1>1 DEF StreamsOnce
<1>20. ASSUME NEW h \in Groups PROVE StreamHeld(h)'
  BY <1>0, <1>1 DEF StreamHeld
<1>21. SeenShown'
  <2>1. ASSUME NEW h \in Groups
        PROVE  seen'[h] = seen[h] \cup
                 {Shown(windows'[i]) : i \in {i \in NewWindows : windows'[i].group = h}}
    <3> DEFINE ours == {i \in NewWindows : windows'[i].group = h}
    <3>1. ASSUME NEW i \in ours
          PROVE  Due(h) /\ Shown(windows'[i]) = Composition(counts[h])
      <4>1. i - m \in 1..n /\ windows'[i] = w(i - m)  BY <1>14
      <4>2. d[i - m] = h /\ windows'[i].launches = queue[h]
        BY <1>10, <4>1
      <4> QED  BY <1>5, <1>16, <4>1, <4>2 DEF Shown
    <3>2. CASE Due(h)
      <4>1. PICK i \in 1..n : d[i] = h  BY <1>8, <3>2
      <4>2. m + i \in ours  BY <1>10, <1>12, <1>15, <4>1
      <4>3. {Shown(windows'[j]) : j \in ours} = {Composition(counts[h])}
        <5> HIDE DEF ours
        <5> QED  BY <3>1, <4>2
      <4> QED  BY <1>17, <3>2, <4>3
    <3>3. CASE ~Due(h)
      <4>1. ours = {}
        <5> HIDE DEF ours
        <5> QED  BY <3>1, <3>3
      <4>2. seen'[h] = seen[h]  BY <1>17, <3>3
      <4> QED  BY <4>1, <4>2
    <3> QED  BY <3>2, <3>3
  <2> QED  BY <1>0, <1>13, <2>1, SeenStep
<1>22. EachCompositionOnce'
  <2>1. ASSUME NEW i \in NewWindows
        PROVE  /\ windows'[i].id = i - 1
               /\ Shown(windows'[i]) \notin seen[windows'[i].group]
    <3>1. i - m \in 1..n /\ windows'[i] = w(i - m) /\ i = m + (i - m)  BY <1>14
    <3>2. d[i - m] \in Groups /\ Due(d[i - m])  BY <1>5, <3>1
    <3>3. /\ windows'[i].id = (m + (i - m)) - 1 /\ windows'[i].group = d[i - m]
          /\ windows'[i].launches = queue[d[i - m]]
      BY <1>10, <3>1
    <3> QED  BY <1>16, <3>1, <3>2, <3>3 DEF Shown
  <2>2. ASSUME NEW i \in NewWindows, NEW j \in NewWindows,
               windows'[i].group = windows'[j].group
        PROVE  i = j
    <3>1. i - m \in 1..n /\ j - m \in 1..n /\ i = m + (i - m) /\ j = m + (j - m)
      BY <1>14
    <3>2. windows'[i].group = d[i - m] /\ windows'[j].group = d[j - m]
      BY <1>10, <1>14
    <3>3. i - m = j - m  BY <1>9, <2>2, <3>1, <3>2
    <3> QED  BY <3>1, <3>3
  <2> QED  BY <1>0, <1>13, <2>1, <2>2, OnceStep
<1>23. ASSUME NEW i \in 1..Len(windows')
       PROVE  IsRun(windows'[i], arrivals'[windows'[i].group])
  <2>1. CASE i \in 1..Len(windows)
    <3>1. windows'[i] = windows[i]  BY <1>13, <2>1 DEF WindowsGrow
    <3> QED  BY <1>1, <2>1, <3>1 DEF Scheduled
  <2>2. CASE i \in NewWindows
    <3>1. i - m \in 1..n /\ windows'[i] = w(i - m)  BY <1>14, <2>2
    <3>2. PICK h \in Groups : h = d[i - m] /\ Due(h)  BY <1>5, <3>1
    <3>3. PICK v \in WindowType :
            /\ v = windows'[i] /\ v.group = h /\ v.launches = queue[h]
            /\ v.trigger = "offline_final_flush"
      BY <1>10, <3>1, <3>2
    <3>4. /\ arrivals[h] \in Seq(Launches) /\ evicted[h] \in 0..Len(arrivals[h])
          /\ queue[h] = Drop(arrivals[h], evicted[h]) /\ Total(queue[h]) <= Budget
          /\ queue[h] \in Seq(Launches)
      BY <1>0 DEF SchedulerTyped, StreamHeld, Fits
    <3>5. Len(queue[h]) > 0
      <4>1. queue[h] # <<>>  BY <3>2 DEF Due
      <4> QED  BY <3>4, <4>1
    <3>6. IsRun(v, arrivals[h])
      <4>1. v.launches = Drop(arrivals[h], evicted[h]) /\ Len(v.launches) > 0
            /\ Total(v.launches) <= Budget /\ v.trigger # "token_budget_overflow"
        BY <3>3, <3>4, <3>5
      <4> QED  BY <3>4, <4>1, IsRunDrop
    <3> QED  BY <1>1, <3>3, <3>6
  <2> QED  BY <1>0, <1>13, <2>1, <2>2, WindowSplit
<1>24. ASSUME NEW h \in Groups, NEW i \in 1..Len(arrivals'[h]),
              ToBeShown(HeldAt(arrivals'[h], i))
       PROVE  Composition(CountsOf(HeldAt(arrivals'[h], i))) \in seen'[h]
  <2>1. Composition(CountsOf(HeldAt(arrivals[h], i))) \in seen[h]
    BY <1>1, <1>24 DEF Scheduled
  <2> QED  BY <1>1, <1>17, <2>1
<1> QED  BY <1>18, <1>19, <1>20, <1>21, <1>22, <1>23, <1>24 DEF Scheduled

LEMMA AddUnreadyKeeps ==
  ASSUME Scheduled, NEW g \in Groups, AddUnready(g)
  PROVE  Scheduled'
<1>1. SchedulerTyped /\ StreamsOnce
  BY DEF Scheduled
<1>2. /\ calls < MaxLaunches /\ calls' = calls + 1 /\ StreamCreated(g)
      /\ unready' = [unready EXCEPT ![g] = @ + 1]
      /\ UNCHANGED <<queue, cost, counts, ratios, evicted, seen, nextWindow,
                     windows, arrivals>>
  BY DEF AddUnready, streamVars
<1>3. /\ created' \in Seq(Groups)
      /\ \A i, j \in 1..Len(created') : created'[i] = created'[j] => i = j
      /\ \A i \in 1..Len(created) : i \in 1..Len(created') /\ created'[i] = created[i]
  BY <1>1, <1>2, CreatedOnce
<1>4. SchedulerTyped'
  <2>1. calls' \in 0..MaxLaunches
    <3>1. calls \in 0..MaxLaunches /\ MaxLaunches \in Nat
      BY <1>1, BudgetAssumption DEF SchedulerTyped
    <3> QED  BY <1>2, <3>1
  <2>2. unready' \in [Groups -> Nat]  BY <1>1, <1>2 DEF SchedulerTyped
  <2> QED  BY <1>1, <1>2, <1>3, <2>1, <2>2 DEF SchedulerTyped
<1>5. StreamsOnce'
  <2>1. ASSUME NEW h \in Groups, queue'[h] # <<>>
        PROVE  \E i \in 1..Len(created') : created'[i] = h
    <3>1. PICK i \in 1..Len(created) : created[i] = h
      BY <1>1, <1>2, <2>1 DEF StreamsOnce
    <3> QED  BY <1>3, <3>1
  <2> QED  BY <1>3, <2>1 DEF StreamsOnce
<1>6. ASSUME NEW h \in Groups PROVE StreamHeld(h)'
  BY <1>2 DEF Scheduled, StreamHeld
<1> QED  BY <1>2, <1>4, <1>5, <1>6 DEF Scheduled, SeenShown, EachCompositionOnce

LEMMA InitScheduled ==
  ASSUME Init
  PROVE  Scheduled
<1>1. <<>> \in Seq(Launches) /\ Len(<<>>) = 0 /\ 0 \in 0..Len(<<>>)
      /\ 0..(0 - 1) = {} /\ 1..0 = {} /\ DOMAIN <<>> = {}
  OBVIOUS
<1>2. SchedulerTyped
  BY BudgetAssumption DEF Init, SchedulerTyped
<1>3. ASSUME NEW g \in Groups PROVE StreamHeld(g)
  <2>1. Drop(<<>>, 0) = <<>>  BY <1>1, DropNone
  <2>2. Fits(<<>>, 0)
    BY <1>1, <2>1, TotalEmpty, BudgetAssumption DEF Fits
  <2>3. \A k \in Kernels : Places(<<>>, k) = {}  BY <1>1 DEF Places
  <2>4. \A k \in Kernels : Occurrences(<<>>, k) = 0
    <3>1. \A k \in Kernels : Occurrences(<<>>, k) = Cardinality(Places(<<>>, k))
      BY <1>1, AtFinite
    <3> QED  BY <2>3, <3>1, FS_EmptySet
  <2>5. CountsOf(<<>>) = [k \in Kernels |-> 0]  BY <2>4 DEF CountsOf
  <2>6. LastRatios(<<>>) = [k \in Kernels |-> None]
    <3>1. \A k \in Kernels : LastRatios(<<>>)[k] = None
      BY <1>1, <2>3, LastRatioIs
    <3>2. LastRatios(<<>>) = [k \in Kernels |-> LastRatios(<<>>)[k]]
      BY DEF LastRatios
    <3> QED  BY <3>1, <3>2
  <2> QED  BY <2>1, <2>2, <2>5, <2>6, TotalEmpty DEF Init, StreamHeld
<1>4. StreamsOnce
  BY <1>1 DEF Init, StreamsOnce
<1>5. SeenShown /\ EachCompositionOnce
  BY <1>1 DEF Init, SeenShown, EachCompositionOnce
<1> QED  BY <1>1, <1>2, <1>3, <1>4, <1>5 DEF Init, Scheduled

LEMMA ScheduledAlways == Spec => []Scheduled
<1>1. Init => Scheduled
  BY InitScheduled
<1>2. Scheduled /\ [Next]_vars => Scheduled'
  <2> SUFFICES ASSUME Scheduled, [Next]_vars PROVE Scheduled'
    OBVIOUS
  <2>1. CASE \E g \in Groups : AddUnready(g)
    BY <2>1, AddUnreadyKeeps
  <2>2. CASE \E g \in Groups : \E l \in Launches : AddLaunch(g, l)
    BY <2>2, AddLaunchKeeps
  <2>3. CASE Flush
    BY <2>3, FlushKeeps
  <2>4. CASE UNCHANGED vars
    <3>1. UNCHANGED <<created, queue, cost, counts, ratios, evicted, seen,
                      unready, nextWindow, windows, arrivals, calls>>
      BY <2>4 DEF vars, streamVars
    <3>2. SchedulerTyped'  BY <3>1 DEF Scheduled, SchedulerTyped
    <3>3. ASSUME NEW h \in Groups PROVE StreamHeld(h)'
      BY <3>1 DEF Scheduled, StreamHeld
    <3> QED  BY <3>1, <3>2, <3>3
             DEF Scheduled, StreamsOnce, SeenShown, EachCompositionOnce
  <2> QED  BY <2>1, <2>2, <2>3, <2>4 DEF Next
<1> QED  BY <1>1, <1>2, PTL DEF Spec

-----------------------------------------------------------------------------
(***************************************************************************)
(* The state of L0WindowScheduler stays well typed, and a stream has seen  *)
(* no more compositions than there are windows.                            *)
(***************************************************************************)
THEOREM SchedulerTypeOK == Spec => []TypeOK
<1>1. Scheduled => TypeOK
  <2> SUFFICES ASSUME Scheduled PROVE TypeOK
    OBVIOUS
  <2>1. SchedulerTyped /\ SeenShown  BY DEF Scheduled
  <2>2. PICK m \in Nat : m = Len(windows) /\ windows \in Seq(WindowType)
    <3>1. windows \in Seq(WindowType)  BY <2>1 DEF SchedulerTyped
    <3> QED  BY <3>1
  <2>3. ASSUME NEW g \in Groups PROVE Cardinality(seen[g]) <= Len(windows)
    <3> DEFINE f == [i \in 1..m |-> Shown(windows[i])]
               image == {Shown(windows[i]) : i \in 1..m}
    <3>1. IsFiniteSet(1..m) /\ Cardinality(1..m) = m  BY FS_Interval
    <3>2. IsFiniteSet(image) /\ Cardinality(image) <= Cardinality(1..m)
      <4>1. f \in Surjection(1..m, image)
        <5>1. f \in [1..m -> image] /\ \A x \in image : \E i \in 1..m : f[i] = x
          OBVIOUS
        <5> HIDE DEF f, image
        <5> QED  BY <5>1 DEF Surjection
      <4> HIDE DEF f, image
      <4> QED  BY <3>1, <4>1, FS_Surjection
    <3>3. seen[g] \subseteq image  BY <2>1, <2>2 DEF SeenShown
    <3> HIDE DEF image
    <3>4. IsFiniteSet(seen[g]) /\ Cardinality(seen[g]) <= Cardinality(image)
      BY <3>2, <3>3, FS_Subset
    <3>5. Cardinality(seen[g]) \in Nat /\ Cardinality(image) \in Nat
      BY <3>2, <3>4, FS_CardinalityType
    <3> QED  BY <2>2, <3>1, <3>2, <3>4, <3>5
  <2>4. ASSUME NEW i \in DOMAIN windows
        PROVE  windows[i].group \in Groups /\ windows[i].launches \in Seq(Launches)
    <3>1. windows[i] \in WindowType  BY <2>2
    <3> QED  BY <3>1 DEF WindowType
  <2> QED  BY <2>1, <2>3, <2>4 DEF SchedulerTyped, TypeOK
<1> QED  BY <1>1, ScheduledAlways, PTL

(***************************************************************************)
(* _evict_to_budget leaves each stream the longest run of its last         *)
(* launches that fits the budget, and cost, counts and ratios are those of *)
(* that run: for any number of streams, kernels and launches.              *)
(***************************************************************************)
THEOREM LongestSuffixKept == Spec => []KeepsLongestSuffix
<1>1. Scheduled => KeepsLongestSuffix
  <2> SUFFICES ASSUME Scheduled, NEW g \in Groups
               PROVE  /\ queue[g] = LongestSuffix(arrivals[g])
                      /\ cost[g] = Total(queue[g])
                      /\ counts[g] = CountsOf(queue[g])
                      /\ ratios[g] = LastRatios(queue[g])
                      /\ evicted[g] + Len(queue[g]) = Len(arrivals[g])
    BY DEF KeepsLongestSuffix
  <2>1. StreamHeld(g)  BY DEF Scheduled
  <2>2. arrivals[g] \in Seq(Launches)  BY DEF Scheduled, SchedulerTyped
  <2>3. Fits(arrivals[g], evicted[g]) /\ evicted[g] \in 0..Len(arrivals[g])
    BY <2>1 DEF StreamHeld, Fits
  <2>4. LongestSuffix(arrivals[g]) = Drop(arrivals[g], evicted[g])
    BY <2>2, <2>3, LongestIs
  <2>5. Len(Drop(arrivals[g], evicted[g])) = Len(arrivals[g]) - evicted[g]
    BY <2>2, <2>3, DropIs
  <2>6. evicted[g] + Len(queue[g]) = Len(arrivals[g])
    BY <2>1, <2>2, <2>3, <2>5 DEF StreamHeld
  <2> QED  BY <2>1, <2>4, <2>6 DEF StreamHeld
<1> QED  BY <1>1, ScheduledAlways, PTL

(***************************************************************************)
(* seen_signatures let a composition of a stream through once, and the     *)
(* numbers _assign_window_id gives are consecutive, also over flush.       *)
(***************************************************************************)
THEOREM CompositionsOnce == Spec => []EachCompositionOnce
<1>1. Scheduled => EachCompositionOnce
  BY DEF Scheduled
<1> QED  BY <1>1, ScheduledAlways, PTL

(***************************************************************************)
(* Every window is a run of launches of one stream that exceeds the budget *)
(* by less than its last launch, or fits it when flush emitted it, and no  *)
(* new composition that overflowed the budget and passed the gate is       *)
(* missing: however the streams interleave and wherever flush comes.       *)
(***************************************************************************)
THEOREM OverflowsAreShown == Spec => []OverflowsShown
<1>1. Scheduled => OverflowsShown
  <2> SUFFICES ASSUME Scheduled PROVE OverflowsShown
    OBVIOUS
  <2>1. SchedulerTyped /\ SeenShown  BY DEF Scheduled
  <2>2. DOMAIN windows = 1..Len(windows)
        /\ \A g \in Groups : DOMAIN arrivals[g] = 1..Len(arrivals[g])
    BY <2>1 DEF SchedulerTyped
  <2>3. WindowsAreRuns
    BY <2>2 DEF Scheduled, WindowsAreRuns, IsRun
  <2>4. ASSUME NEW g \in Groups, NEW n \in DOMAIN arrivals[g],
               ToBeShown(HeldAt(arrivals[g], n))
        PROVE  \E i \in DOMAIN windows :
                 /\ windows[i].group = g
                 /\ Composition(CountsOf(windows[i].launches))
                      = Composition(CountsOf(HeldAt(arrivals[g], n)))
    <3>1. Composition(CountsOf(HeldAt(arrivals[g], n))) \in seen[g]
      BY <2>2, <2>4 DEF Scheduled
    <3> QED  BY <2>1, <2>2, <3>1 DEF SeenShown, Shown
  <2>5. NoCompositionMissed
    BY <2>4 DEF NoCompositionMissed, HeldAt, ToBeShown
  <2> QED  BY <2>3, <2>5 DEF OverflowsShown
<1> QED  BY <1>1, ScheduledAlways, PTL

-----------------------------------------------------------------------------
(***************************************************************************)
(* The dataset build.                                                      *)
(***************************************************************************)
Steps == {"idle", "start", "build", "look", "remove", "removing", "replace"}
Holding == {"build", "look", "remove", "removing", "replace"}
Statuses ==
  {"pending", "created", "skipped", "skipped_empty", "skipped_unmapped",
   "failed", "dry_run"}
Names == {Workload(c) : c \in Captures}

(* The state of a build stays well typed.                                  *)
BuildTyped ==
  /\ builds \in Nat /\ (builds > 0 => options \in BuildOptions)
  /\ waiting \subseteq Captures
  /\ step \in [Builders -> Steps]
  /\ job \in [Builders -> Captures \cup {NoCapture}]
  /\ pid \in [Builders -> Nat \ {0}]
  /\ DOMAIN directories \subseteq [workload : Names, pid : Nat]
  /\ directories \in
       [DOMAIN directories -> [of : Captures, state : {"open", "whole", "torn"}]]
  /\ results \in [Captures -> Statuses]

(* Each capture of a build waits, or one worker has it, or it is answered. *)
JobsOnce ==
  /\ \A p, q \in Builders : pid[p] = pid[q] => p = q
  /\ builds = 0 => waiting = {} /\ \A p \in Builders : step[p] = "idle"
  /\ \A c \in waiting : results[c] = "pending"
  /\ \A p \in Builders : step[p] # "idle" =>
       job[p] \in Captures \ waiting /\ results[job[p]] = "pending"
  /\ \A p, q \in Builders :
       step[p] # "idle" /\ step[q] # "idle" /\ job[p] = job[q] => p = q
  /\ builds > 0 => \A c \in Captures : results[c] = "pending" =>
       c \in waiting \/ \E p \in Builders : step[p] # "idle" /\ job[p] = c

(* A worker past the checks holds its temporary directory, and there are   *)
(* no others but those that are known to be left.                          *)
Good(c) == Kind[c] \in {"windows", "quiet"}
TempsHeld ==
  /\ \A p \in Builders : step[p] \in Holding =>
       /\ ~options.dry
       /\ step[p] \in {"remove", "removing"} => ~options.skip
       /\ step[p] # "build" => Good(job[p])
       /\ Temp(job[p], p) \in DOMAIN directories
       /\ directories[Temp(job[p], p)].of = job[p]
       /\ directories[Temp(job[p], p)].state =
            (IF step[p] = "build" THEN "open" ELSE "whole")
  /\ \A d \in Temps : d \in left \/
       \E p \in Builders : step[p] \in Holding /\ d = Temp(job[p], p)

(* Nobody else touches the workload of a capture that shares its name with *)
(* no other.                                                               *)
Own(c) == \A b \in Captures \ {c} : Workload(b) # Workload(c)
OwnTrue ==
  \A c \in Captures : Own(c) =>
    /\ results[c] = "created" =>
         /\ Exists(Final(c)) /\ directories[Final(c)].state = "whole"
         /\ directories[Final(c)].of = c
    /\ Good(c) => results[c] \in {"pending", "created", "skipped", "dry_run"}
    /\ \A p \in Builders : job[p] = c =>
         /\ step[p] = "remove" => Exists(Final(c))
         /\ step[p] = "removing" =>
              Exists(Final(c)) /\ directories[Final(c)].state = "torn"
         /\ step[p] = "replace" => ~Exists(Final(c))
         /\ step[p] \in {"build", "look"} /\ options.skip => ~Exists(Final(c))

(* A build that skips what exists removes no workload.                     *)
SkippedThere ==
  \A c \in Captures :
    /\ results[c] = "skipped" => Exists(Final(c)) /\ options.skip
    /\ Good(c) /\ results[c] # "pending" /\ options.skip /\ ~options.dry =>
         Exists(Final(c))

(* One that overwrites puts a workload back after each that it removes, if *)
(* none of the captures of the name is skipped.                            *)
SkippedBy(c) == \E b \in Captures : Workload(b) = Workload(c) /\ ~Good(b)
At(c, label) ==
  \E p \in Builders : step[p] = label /\ Workload(job[p]) = Workload(c)
Refilled ==
  ~options.skip /\ ~options.dry => \A c \in Captures : ~SkippedBy(c) =>
    /\ results[c] # "pending" \/ At(c, "remove") \/ At(c, "removing") =>
         Exists(Final(c)) \/ At(c, "replace")
    /\ /\ results[c] # "pending" \/ At(c, "replace")
       /\ Exists(Final(c)) /\ directories[Final(c)].state = "torn"
       => At(c, "removing")

Dataset ==
  /\ BuildTyped /\ JobsOnce /\ TempsHeld /\ FinalsWhole /\ OwnTrue
  /\ builds > 0 => SkippedThere /\ Refilled

-----------------------------------------------------------------------------
(* The names of directories: those of workers differ from the final ones,  *)
(* and from each other.                                                    *)
LEMMA FinalNames ==
  \A b, c \in Captures : Final(b) = Final(c) <=> Workload(b) = Workload(c)
BY DEF Final

LEMMA TempNames ==
  ASSUME BuildTyped, NEW p \in Builders, NEW c
  PROVE  /\ \A b : Temp(c, p) # Final(b)
         /\ Temp(c, p).pid = pid[p] /\ Temp(c, p).pid # NotAPid
         /\ \A b : Final(b).pid = NotAPid
         /\ \A b : \A q \in Builders : JobsOnce /\ Temp(b, q) = Temp(c, p) => q = p
BY DEF BuildTyped, Temp, Final, NotAPid, JobsOnce

-----------------------------------------------------------------------------
(* What a step of worker p may touch: its own control, and of directories  *)
(* its temporary one and the final one of its capture c.                   *)
Same(d) ==
  /\ d \in DOMAIN directories' <=> d \in DOMAIN directories
  /\ d \in DOMAIN directories => directories'[d] = directories[d]
Touches(p, c) ==
  /\ UNCHANGED <<options, pid, builds, cutOff>>
  /\ step' = [step EXCEPT ![p] = step'[p]]
  /\ job' = [job EXCEPT ![p] = c] /\ c \in Captures
  /\ directories' = [d \in DOMAIN directories' |-> directories'[d]]
  /\ \A d : d # Final(c) /\ d # Temp(c, p) => Same(d)
  /\ left \ {Temp(c, p)} \subseteq left'

GoesOn(p, label) ==
  /\ step[p] # "idle" /\ step'[p] = label /\ label \in Steps \ {"idle"}
  /\ UNCHANGED <<waiting, job, results>>
Finishes(p, status) ==
  /\ step[p] # "idle" /\ step'[p] = "idle"
  /\ status \in Statuses \ {"pending"}
  /\ results' = [results EXCEPT ![job[p]] = status]
  /\ UNCHANGED <<waiting, job>>

(* The temporary directory is gone, or is known to be left.                *)
Drops(p, c) ==
  /\ left \subseteq left'
  /\ \/ step[p] \in Holding /\ Temp(c, p) \notin DOMAIN directories'
     \/ step[p] \in Holding /\ Temp(c, p) \in left' /\ Same(Temp(c, p))
     \/ step[p] \notin Holding /\ Same(Temp(c, p))

(* The steps, by what they do to these directories.                        *)
Takes(p, c) ==
  /\ step[p] = "idle" /\ step'[p] = "start"
  /\ c \in waiting /\ waiting' = waiting \ {c}
  /\ UNCHANGED <<directories, results, left>>
Rejects(p, c) ==
  /\ step[p] \in {"start", "build"} /\ ~Good(c)
  /\ \E status \in {"skipped_empty", "skipped_unmapped", "failed"} : Finishes(p, status)
  /\ Drops(p, c)
  /\ Same(Final(c)) \/ (~options.skip /\ Final(c) \notin DOMAIN directories')
DryRuns(p, c) ==
  /\ step[p] = "start" /\ options.dry /\ Finishes(p, "dry_run")
  /\ UNCHANGED <<directories, left>>
Skips(p, c) ==
  /\ step[p] \in {"start", "look"} /\ options.skip /\ Finishes(p, "skipped")
  /\ Drops(p, c) /\ Exists(Final(c)) /\ Same(Final(c))
Opens(p, c) ==
  /\ step[p] = "start" /\ GoesOn(p, "build")
  /\ ~options.dry /\ ~(options.skip /\ Exists(Final(c)))
  /\ Same(Final(c)) /\ Temp(c, p) \in DOMAIN directories'
  /\ directories'[Temp(c, p)] = [of |-> c, state |-> "open"]
Builds(p, c) ==
  /\ step[p] = "build" /\ GoesOn(p, "look") /\ Good(c)
  /\ Same(Final(c)) /\ Temp(c, p) \in DOMAIN directories'
  /\ directories'[Temp(c, p)] = [of |-> c, state |-> "whole"]
Looks(p, c) ==
  /\ step[p] = "look" /\ UNCHANGED <<directories, left>>
  /\ \/ GoesOn(p, "remove") /\ ~options.skip /\ Exists(Final(c))
     \/ GoesOn(p, "replace") /\ (options.skip \/ ~Exists(Final(c)))
Begins(p, c) ==
  /\ step[p] = "remove" /\ GoesOn(p, "removing") /\ Same(Temp(c, p))
  /\ Exists(Final(c)) /\ Final(c) \in DOMAIN directories'
  /\ directories'[Final(c)] = [of |-> directories[Final(c)].of, state |-> "torn"]
Removes(p, c) ==
  /\ step[p] = "removing" /\ GoesOn(p, "replace") /\ Same(Temp(c, p))
  /\ Final(c) \notin DOMAIN directories'
Replaces(p, c) ==
  /\ step[p] = "replace" /\ Finishes(p, "created") /\ Drops(p, c)
  /\ Final(c) \in DOMAIN directories'
  /\ directories'[Final(c)] = [of |-> c, state |-> "whole"]
Fails(p, c) ==
  /\ Finishes(p, "failed") /\ Drops(p, c) /\ Good(c) /\ Same(Final(c))
  /\ \/ step[p] = "remove" /\ ~Exists(Final(c))
     \/ /\ step[p] = "removing"
        /\ ~(Exists(Final(c)) /\ directories[Final(c)].state = "torn")
     \/ step[p] = "replace" /\ Exists(Final(c))

Shape(p, c) ==
  \/ Takes(p, c) \/ Rejects(p, c) \/ DryRuns(p, c) \/ Skips(p, c)
  \/ Opens(p, c) \/ Builds(p, c) \/ Looks(p, c) \/ Begins(p, c)
  \/ Removes(p, c) \/ Replaces(p, c) \/ Fails(p, c)

(* What is known of a worker's capture while it has one.                   *)
LEMMA JobIsCapture ==
  ASSUME BuildTyped, JobsOnce, NEW p \in Builders, step[p] # "idle"
  PROVE  /\ job[p] \in Captures /\ builds > 0 /\ options \in BuildOptions
         /\ job = [job EXCEPT ![p] = job[p]]
BY DEF BuildTyped, JobsOnce

(* Directories after some of them were removed.                            *)
LEMMA WithoutFacts ==
  ASSUME NEW gone, directories' = Without(directories, gone)
  PROVE  /\ DOMAIN directories' = DOMAIN directories \ gone
         /\ directories' = [d \in DOMAIN directories' |-> directories'[d]]
         /\ \A d : d \notin gone => Same(d)
BY DEF Without, Same

(* An exception leaves nothing of the worker behind that is not known; the *)
(* final directory goes if its capture is one that is skipped.             *)
LEMMA RaiseFacts ==
  ASSUME BuildTyped, JobsOnce, NEW p \in Builders, step[p] # "idle",
         NEW temps, temps = {} \/ temps = {Temp(job[p], p)},
         step[p] \in Holding <=> temps # {}, Raise(p, temps)
  PROVE  /\ Touches(p, job[p]) /\ Drops(p, job[p])
         /\ \E status \in {"skipped_empty", "skipped_unmapped", "failed"} :
              Finishes(p, status)
         /\ Kind[job[p]] \notin {"empty", "unmapped"} =>
              Finishes(p, "failed") /\ Same(Final(job[p]))
         /\ Same(Final(job[p])) \/
              (~options.skip /\ Final(job[p]) \notin DOMAIN directories')
<1> DEFINE c == job[p]
           status == IF Kind[c] \in {"empty", "unmapped"}
                     THEN SkippedAs[Kind[c]] ELSE "failed"
           over == IF Kind[c] \in {"empty", "unmapped"} THEN Overwritten(c) ELSE {}
           gone == (IF options.keep THEN {} ELSE temps) \cup over
<1>1. /\ job[p] \in Captures /\ options \in BuildOptions
      /\ job = [job EXCEPT ![p] = job[p]]
  BY JobIsCapture
<1>2. /\ directories' = Without(directories, gone)
      /\ left' = IF options.keep THEN left \cup temps ELSE left
      /\ Answer(p, status)
  BY DEF Raise
<1>3. status \in {"skipped_empty", "skipped_unmapped", "failed"}
  BY DEF SkippedAs
<1>4. over \subseteq {Final(c)} /\ (options.skip => over = {})
  BY DEF Overwritten
<1>5. Temp(c, p) # Final(c)  BY TempNames
<1> HIDE DEF status, over
<1>6. /\ DOMAIN directories' = DOMAIN directories \ gone
      /\ directories' = [d \in DOMAIN directories' |-> directories'[d]]
      /\ \A d : d \notin gone => Same(d)
  BY <1>2, WithoutFacts
<1>7. step' = [step EXCEPT ![p] = "idle"] /\ step'[p] = "idle"
  BY <1>2 DEF Answer, BuildTyped
<1>8. Finishes(p, status)
  BY <1>2, <1>3, <1>7 DEF Finishes, Answer, Statuses
<1>9. Touches(p, job[p])
  BY <1>1, <1>2, <1>4, <1>6, <1>7 DEF Touches, Answer
<1>10. Drops(p, job[p])
  <2>1. CASE temps = {}
    BY <1>2, <1>4, <1>5, <1>6, <2>1 DEF Drops
  <2>2. CASE temps = {Temp(c, p)} /\ options.keep
    BY <1>2, <1>4, <1>5, <1>6, <2>2 DEF Drops
  <2>3. CASE temps = {Temp(c, p)} /\ ~options.keep
    BY <1>2, <1>6, <2>3 DEF Drops
  <2> QED  BY <2>1, <2>2, <2>3
<1>11. Same(Final(c)) \/ (~options.skip /\ Final(c) \notin DOMAIN directories')
  <2>1. CASE Final(c) \in over  BY <1>4, <1>6, <2>1
  <2>2. CASE Final(c) \notin over  BY <1>5, <1>6, <2>2
  <2> QED  BY <2>1, <2>2
<1>12. Kind[c] \notin {"empty", "unmapped"} =>
         Finishes(p, "failed") /\ Same(Final(c))
  BY <1>5, <1>6, <1>8 DEF status, over
<1> QED  BY <1>3, <1>8, <1>9, <1>10, <1>11, <1>12

-----------------------------------------------------------------------------
(* Every step of a worker has one of the shapes.                           *)
LEMMA TakeShape ==
  ASSUME Dataset, NEW p \in Builders, TakeCapture(p)
  PROVE  \E c \in Captures : Touches(p, c) /\ Shape(p, c)
<1> USE DEF Dataset
<1>1. waiting # {} /\ waiting \subseteq Captures /\ waiting \subseteq Nat
  BY CapturesAssumption DEF TakeCapture, BuildTyped
<1> DEFINE c == CHOOSE x \in waiting : \A y \in waiting : x <= y
<1>2. c \in waiting
  <2>1. \E x \in waiting : \A y \in waiting : x <= y  BY <1>1, FirstOf
  <2> QED  BY <2>1
<1>3. /\ step[p] = "idle" /\ step' = [step EXCEPT ![p] = "start"]
      /\ job' = [job EXCEPT ![p] = c] /\ waiting' = waiting \ {c}
      /\ UNCHANGED <<options, pid, directories, results, builds, cutOff, left>>
  BY DEF TakeCapture, historyVars
<1> HIDE DEF c
<1>4. directories' = [d \in DOMAIN directories' |-> directories'[d]]
  BY <1>3 DEF BuildTyped
<1>5. step'[p] = "start"  BY <1>3 DEF BuildTyped
<1>6. Touches(p, c)  BY <1>1, <1>2, <1>3, <1>4, <1>5 DEF Touches, Same
<1>7. Takes(p, c)  BY <1>2, <1>3, <1>5 DEF Takes
<1> QED  BY <1>1, <1>2, <1>6, <1>7 DEF Shape

LEMMA UntouchedDirectories ==
  ASSUME BuildTyped, UNCHANGED <<directories, left>>
  PROVE  /\ directories' = [d \in DOMAIN directories' |-> directories'[d]]
         /\ \A d : Same(d)
BY DEF BuildTyped, Same

LEMMA AnswerFacts ==
  ASSUME BuildTyped, NEW p \in Builders, step[p] # "idle",
         NEW status \in Statuses \ {"pending"}, Answer(p, status)
  PROVE  /\ Finishes(p, status) /\ step' = [step EXCEPT ![p] = step'[p]]
         /\ UNCHANGED <<options, pid, builds, cutOff, waiting, job>>
BY DEF Finishes, Answer, BuildTyped

LEMMA GotoFacts ==
  ASSUME BuildTyped, NEW p \in Builders, step[p] # "idle",
         NEW label \in Steps \ {"idle"}, Goto(p, label)
  PROVE  /\ GoesOn(p, label) /\ step' = [step EXCEPT ![p] = step'[p]]
         /\ UNCHANGED <<options, pid, builds, cutOff, waiting, job>>
BY DEF GoesOn, Goto, BuildTyped

LEMMA SkipShape ==
  ASSUME Dataset, NEW p \in Builders,
         SkipDeclared(p) \/ SkipExisting(p) \/ DryRun(p)
  PROVE  Touches(p, job[p]) /\ Shape(p, job[p])
<1> USE DEF Dataset
<1> DEFINE c == job[p]
<1>1. step[p] = "start"
  BY DEF SkipDeclared, SkipExisting, DryRun, Goes
<1>2. /\ c \in Captures /\ options \in BuildOptions
      /\ job = [job EXCEPT ![p] = job[p]]
  BY <1>1, JobIsCapture
<1>3. step[p] \notin Holding  BY <1>1 DEF Holding
<1>4. CASE SkipDeclared(p)
  <2>1. /\ Kind[c] = "declared" /\ Answer(p, "skipped_empty") /\ left' = left
        /\ directories' = Without(directories, Overwritten(c))
    BY <1>4 DEF SkipDeclared
  <2>2. /\ Finishes(p, "skipped_empty") /\ step' = [step EXCEPT ![p] = step'[p]]
        /\ UNCHANGED <<options, pid, builds, cutOff, waiting, job>>
    BY <1>1, <2>1, AnswerFacts DEF Statuses
  <2>3. /\ DOMAIN directories' = DOMAIN directories \ Overwritten(c)
        /\ directories' = [d \in DOMAIN directories' |-> directories'[d]]
        /\ \A d : d \notin Overwritten(c) => Same(d)
    BY <2>1, WithoutFacts
  <2>4. /\ \A d : d # Final(c) => Same(d)
        /\ Same(Final(c)) \/ (~options.skip /\ Final(c) \notin DOMAIN directories')
    BY <2>3 DEF Overwritten
  <2>5. Touches(p, c)  BY <1>2, <2>1, <2>2, <2>3, <2>4 DEF Touches
  <2>6. Drops(p, c)  BY <1>3, <2>1, <2>4, TempNames DEF Drops
  <2>7. ~Good(c)  BY <2>1 DEF Good
  <2>8. Rejects(p, c)  BY <1>1, <2>2, <2>4, <2>6, <2>7 DEF Rejects
  <2> QED  BY <2>5, <2>8 DEF Shape
<1>5. CASE SkipExisting(p)
  <2>1. /\ Answer(p, "skipped") /\ UNCHANGED <<directories, left>>
        /\ options.skip /\ Exists(Final(c))
    BY <1>5 DEF SkipExisting
  <2>2. /\ Finishes(p, "skipped") /\ step' = [step EXCEPT ![p] = step'[p]]
        /\ UNCHANGED <<options, pid, builds, cutOff, waiting, job>>
    BY <1>1, <2>1, AnswerFacts DEF Statuses
  <2>3. /\ directories' = [d \in DOMAIN directories' |-> directories'[d]]
        /\ \A d : Same(d)
    BY <2>1, UntouchedDirectories
  <2>4. Touches(p, c)  BY <1>2, <2>1, <2>2, <2>3 DEF Touches
  <2>5. Drops(p, c)  BY <1>3, <2>1, <2>3 DEF Drops
  <2>6. Skips(p, c)  BY <1>1, <2>1, <2>2, <2>3, <2>5 DEF Skips
  <2> QED  BY <2>4, <2>6 DEF Shape
<1>6. CASE DryRun(p) /\ Kind[c] = "empty"
  <2>1. Raise(p, {})  BY <1>6 DEF DryRun
  <2>2. /\ Touches(p, c) /\ Drops(p, c)
        /\ \E status \in {"skipped_empty", "skipped_unmapped", "failed"} :
             Finishes(p, status)
        /\ Same(Final(c)) \/ (~options.skip /\ Final(c) \notin DOMAIN directories')
    BY <1>1, <1>3, <2>1, RaiseFacts
  <2>3. ~Good(c)  BY <1>6 DEF Good
  <2>4. Rejects(p, c)  BY <1>1, <2>2, <2>3 DEF Rejects
  <2> QED  BY <2>2, <2>4 DEF Shape
<1>7. CASE DryRun(p) /\ Kind[c] # "empty"
  <2>1. /\ Answer(p, "dry_run") /\ UNCHANGED <<directories, left>> /\ options.dry
    BY <1>7 DEF DryRun
  <2>2. /\ Finishes(p, "dry_run") /\ step' = [step EXCEPT ![p] = step'[p]]
        /\ UNCHANGED <<options, pid, builds, cutOff, waiting, job>>
    BY <1>1, <2>1, AnswerFacts DEF Statuses
  <2>3. /\ directories' = [d \in DOMAIN directories' |-> directories'[d]]
        /\ \A d : Same(d)
    BY <2>1, UntouchedDirectories
  <2>4. Touches(p, c)  BY <1>2, <2>1, <2>2, <2>3 DEF Touches
  <2>5. DryRuns(p, c)  BY <1>1, <2>1, <2>2 DEF DryRuns
  <2> QED  BY <2>4, <2>5 DEF Shape
<1> QED  BY <1>4, <1>5, <1>6, <1>7

LEMMA OpenShape ==
  ASSUME Dataset, NEW p \in Builders, OpenTemp(p)
  PROVE  Touches(p, job[p]) /\ Shape(p, job[p])
<1> USE DEF Dataset
<1> DEFINE c == job[p]
           temp == Temp(c, p)
<1>1. /\ step[p] = "start" /\ ~options.dry /\ ~(options.skip /\ Exists(Final(c)))
      /\ directories' = With(directories, temp, [of |-> c, state |-> "open"])
      /\ left' = left \ {temp} /\ Goto(p, "build")
  BY DEF OpenTemp, Goes
<1>2. c \in Captures /\ job = [job EXCEPT ![p] = job[p]]
  BY <1>1, JobIsCapture
<1>3. /\ GoesOn(p, "build") /\ step' = [step EXCEPT ![p] = step'[p]]
      /\ UNCHANGED <<options, pid, builds, cutOff, waiting, job>>
  BY <1>1, GotoFacts DEF Steps
<1>4. temp # Final(c)  BY TempNames
<1> HIDE DEF temp
<1>5. /\ directories' = [d \in DOMAIN directories' |-> directories'[d]]
      /\ \A d : d # temp => Same(d)
      /\ temp \in DOMAIN directories'
      /\ directories'[temp] = [of |-> c, state |-> "open"]
  BY <1>1 DEF With, Same
<1>6. Touches(p, c)  BY <1>1, <1>2, <1>3, <1>5 DEF Touches, temp
<1>7. Opens(p, c)  BY <1>1, <1>3, <1>4, <1>5 DEF Opens, temp
<1> QED  BY <1>6, <1>7 DEF Shape

LEMMA BuildShape ==
  ASSUME Dataset, NEW p \in Builders, Build(p)
  PROVE  Touches(p, job[p]) /\ Shape(p, job[p])
<1> USE DEF Dataset
<1> DEFINE c == job[p]
           temp == Temp(c, p)
<1>1. step[p] = "build" /\ step[p] \in Holding
  BY DEF Build, Holding
<1>2. c \in Captures /\ job = [job EXCEPT ![p] = job[p]]
  BY <1>1, JobIsCapture
<1>3. temp # Final(c)  BY TempNames
<1>4. CASE Good(c)
  <2>1. /\ directories' = [directories EXCEPT ![temp].state = "whole"]
        /\ left' = left /\ Goto(p, "look")
    BY <1>4 DEF Build, Good
  <2>2. /\ GoesOn(p, "look") /\ step' = [step EXCEPT ![p] = step'[p]]
        /\ UNCHANGED <<options, pid, builds, cutOff, waiting, job>>
    BY <1>1, <2>1, GotoFacts DEF Steps
  <2>3. /\ temp \in DOMAIN directories /\ directories[temp].of = c
        /\ directories[temp] \in [of : Captures, state : {"open", "whole", "torn"}]
    BY <1>1 DEF TempsHeld, BuildTyped
  <2> HIDE DEF temp
  <2>4. [directories[temp] EXCEPT !.state = "whole"] = [of |-> c, state |-> "whole"]
    BY <2>3
  <2>5. directories' = [directories EXCEPT ![temp] = [of |-> c, state |-> "whole"]]
    BY <2>1, <2>4
  <2>6. /\ directories' = [d \in DOMAIN directories' |-> directories'[d]]
        /\ \A d : d # temp => Same(d)
        /\ temp \in DOMAIN directories'
        /\ directories'[temp] = [of |-> c, state |-> "whole"]
    BY <2>3, <2>5 DEF Same
  <2>7. Touches(p, c)  BY <1>2, <2>1, <2>2, <2>6 DEF Touches, temp
  <2>8. Builds(p, c)  BY <1>1, <1>3, <1>4, <2>2, <2>6 DEF Builds, temp
  <2> QED  BY <2>7, <2>8 DEF Shape
<1>5. CASE ~Good(c)
  <2>1. Raise(p, {temp})  BY <1>5 DEF Build, Good
  <2>2. /\ Touches(p, c) /\ Drops(p, c)
        /\ \E status \in {"skipped_empty", "skipped_unmapped", "failed"} :
             Finishes(p, status)
        /\ Same(Final(c)) \/ (~options.skip /\ Final(c) \notin DOMAIN directories')
    BY <1>1, <2>1, RaiseFacts
  <2>3. Rejects(p, c)  BY <1>1, <1>5, <2>2 DEF Rejects
  <2> QED  BY <2>2, <2>3 DEF Shape
<1> QED  BY <1>4, <1>5

LEMMA LookShape ==
  ASSUME Dataset, NEW p \in Builders, Look(p)
  PROVE  Touches(p, job[p]) /\ Shape(p, job[p])
<1> USE DEF Dataset
<1> DEFINE c == job[p]
           label == IF ~options.skip /\ Exists(Final(c)) THEN "remove" ELSE "replace"
<1>1. step[p] = "look" /\ step[p] \in Holding /\ left' = left
  BY DEF Look, Holding
<1>2. c \in Captures /\ job = [job EXCEPT ![p] = job[p]]
  BY <1>1, JobIsCapture
<1>3. Temp(c, p) # Final(c)  BY TempNames
<1>4. CASE ~options.l0 /\ options.skip /\ Exists(Final(c))
  <2>1. /\ directories' = Without(directories, {Temp(c, p)})
        /\ Answer(p, "skipped")
    BY <1>4 DEF Look
  <2>2. /\ Finishes(p, "skipped") /\ step' = [step EXCEPT ![p] = step'[p]]
        /\ UNCHANGED <<options, pid, builds, cutOff, waiting, job>>
    BY <1>1, <2>1, AnswerFacts DEF Statuses
  <2>3. /\ DOMAIN directories' = DOMAIN directories \ {Temp(c, p)}
        /\ directories' = [d \in DOMAIN directories' |-> directories'[d]]
        /\ \A d : d # Temp(c, p) => Same(d)
    BY <2>1, WithoutFacts
  <2>4. Touches(p, c)  BY <1>1, <1>2, <2>2, <2>3 DEF Touches
  <2>5. Drops(p, c)  BY <1>1, <2>3 DEF Drops
  <2>6. Skips(p, c)  BY <1>1, <1>3, <1>4, <2>2, <2>3, <2>5 DEF Skips
  <2> QED  BY <2>4, <2>6 DEF Shape
<1>5. CASE ~(~options.l0 /\ options.skip /\ Exists(Final(c)))
  <2>1. Goto(p, label) /\ UNCHANGED <<directories, left>>
    BY <1>1, <1>5 DEF Look
  <2>2. label \in Steps \ {"idle"}  BY DEF Steps
  <2>3. /\ GoesOn(p, label) /\ step' = [step EXCEPT ![p] = step'[p]]
        /\ UNCHANGED <<options, pid, builds, cutOff, waiting, job>>
    BY <1>1, <2>1, <2>2, GotoFacts
  <2>4. /\ directories' = [d \in DOMAIN directories' |-> directories'[d]]
        /\ \A d : Same(d)
    BY <2>1, UntouchedDirectories
  <2>5. Touches(p, c)  BY <1>2, <2>1, <2>3, <2>4 DEF Touches
  <2>6. Looks(p, c)  BY <1>1, <2>1, <2>3 DEF Looks
  <2> QED  BY <2>5, <2>6 DEF Shape
<1> QED  BY <1>4, <1>5

(* A worker whose capture can be built and that cannot move it into place. *)
LEMMA FailShape ==
  ASSUME Dataset, NEW p \in Builders, Raise(p, {Temp(job[p], p)}),
         \/ step[p] = "remove" /\ ~Exists(Final(job[p]))
         \/ /\ step[p] = "removing"
            /\ ~(Exists(Final(job[p])) /\ directories[Final(job[p])].state = "torn")
         \/ step[p] = "replace" /\ Exists(Final(job[p]))
  PROVE  Touches(p, job[p]) /\ Shape(p, job[p])
<1> USE DEF Dataset
<1>1. step[p] # "idle" /\ step[p] \in Holding /\ step[p] # "build"
  BY DEF Holding
<1>2. Good(job[p])  BY <1>1 DEF TempsHeld
<1>3. Kind[job[p]] \notin {"empty", "unmapped"}  BY <1>2 DEF Good
<1>4. /\ Touches(p, job[p]) /\ Drops(p, job[p]) /\ Finishes(p, "failed")
      /\ Same(Final(job[p]))
  BY <1>1, <1>3, RaiseFacts
<1> QED  BY <1>2, <1>4 DEF Fails, Shape

LEMMA RemoveShape ==
  ASSUME Dataset, NEW p \in Builders, BeginRemove(p) \/ EndRemove(p)
  PROVE  Touches(p, job[p]) /\ Shape(p, job[p])
<1> USE DEF Dataset
<1> DEFINE c == job[p]
           final == Final(c)
<1>1. step[p] \in {"remove", "removing"} /\ step[p] \in Holding
  BY DEF BeginRemove, EndRemove, Holding
<1>2. c \in Captures /\ job = [job EXCEPT ![p] = job[p]]
  BY <1>1, JobIsCapture
<1>3. Temp(c, p) # final  BY TempNames
<1>4. CASE BeginRemove(p) /\ Exists(final)
  <2>1. /\ directories' = [directories EXCEPT ![final].state = "torn"]
        /\ Goto(p, "removing") /\ left' = left /\ step[p] = "remove"
    BY <1>4 DEF BeginRemove
  <2>2. /\ GoesOn(p, "removing") /\ step' = [step EXCEPT ![p] = step'[p]]
        /\ UNCHANGED <<options, pid, builds, cutOff, waiting, job>>
    BY <2>1, GotoFacts DEF Steps
  <2>3. /\ final \in DOMAIN directories
        /\ directories[final] \in [of : Captures, state : {"open", "whole", "torn"}]
    BY <1>4 DEF Exists, BuildTyped
  <2> HIDE DEF final
  <2>4. [directories[final] EXCEPT !.state = "torn"]
          = [of |-> directories[final].of, state |-> "torn"]
    BY <2>3
  <2>5. /\ directories' = [d \in DOMAIN directories' |-> directories'[d]]
        /\ \A d : d # final => Same(d)
        /\ final \in DOMAIN directories'
        /\ directories'[final] = [of |-> directories[final].of, state |-> "torn"]
    BY <2>1, <2>3, <2>4 DEF Same, BuildTyped
  <2>6. Touches(p, c)  BY <1>2, <2>1, <2>2, <2>5 DEF Touches, final
  <2>7. Begins(p, c)  BY <1>3, <1>4, <2>1, <2>2, <2>5 DEF Begins, final
  <2> QED  BY <2>6, <2>7 DEF Shape
<1>5. CASE BeginRemove(p) /\ ~Exists(final)
  BY <1>5, FailShape DEF BeginRemove
<1>6. CASE EndRemove(p) /\ Exists(final) /\ directories[final].state = "torn"
  <2>1. /\ directories' = Without(directories, {final})
        /\ Goto(p, "replace") /\ left' = left /\ step[p] = "removing"
    BY <1>6 DEF EndRemove
  <2>2. /\ GoesOn(p, "replace") /\ step' = [step EXCEPT ![p] = step'[p]]
        /\ UNCHANGED <<options, pid, builds, cutOff, waiting, job>>
    BY <2>1, GotoFacts DEF Steps
  <2>3. /\ DOMAIN directories' = DOMAIN directories \ {final}
        /\ directories' = [d \in DOMAIN directories' |-> directories'[d]]
        /\ \A d : d # final => Same(d)
    BY <2>1, WithoutFacts
  <2>4. Touches(p, c)  BY <1>2, <2>1, <2>2, <2>3 DEF Touches
  <2>5. Removes(p, c)  BY <1>3, <2>1, <2>2, <2>3 DEF Removes
  <2> QED  BY <2>4, <2>5 DEF Shape
<1>7. CASE EndRemove(p) /\ ~(Exists(final) /\ directories[final].state = "torn")
  BY <1>7, FailShape DEF EndRemove
<1> QED  BY <1>4, <1>5, <1>6, <1>7

LEMMA ReplaceShape ==
  ASSUME Dataset, NEW p \in Builders, Replace(p)
  PROVE  Touches(p, job[p]) /\ Shape(p, job[p])
<1> USE DEF Dataset
<1> DEFINE c == job[p]
           temp == Temp(c, p)
           final == Final(c)
<1>1. step[p] = "replace" /\ step[p] \in Holding
  BY DEF Replace, Holding
<1>2. c \in Captures /\ job = [job EXCEPT ![p] = job[p]]
  BY <1>1, JobIsCapture
<1>3. temp # final  BY TempNames
<1>4. CASE Exists(final) /\ Raise(p, {temp})
  BY <1>1, <1>4, FailShape
<1>5. CASE /\ directories' = Without(With(directories, final, directories[temp]),
                                     {temp} \ {final})
           /\ Answer(p, "created") /\ left' = left
  <2>1. /\ Finishes(p, "created") /\ step' = [step EXCEPT ![p] = step'[p]]
        /\ UNCHANGED <<options, pid, builds, cutOff, waiting, job>>
    BY <1>1, <1>5, AnswerFacts DEF Statuses
  <2>2. directories[temp] = [of |-> c, state |-> "whole"]
    <3>1. /\ temp \in DOMAIN directories /\ directories[temp].of = c
          /\ directories[temp].state = "whole"
      BY <1>1 DEF TempsHeld
    <3>2. directories[temp] \in [of : Captures, state : {"open", "whole", "torn"}]
      BY <3>1 DEF BuildTyped
    <3> QED  BY <3>1, <3>2
  <2> HIDE DEF temp, final
  <2>3. /\ directories' = [d \in DOMAIN directories' |-> directories'[d]]
        /\ \A d : d # temp /\ d # final => Same(d)
        /\ temp \notin DOMAIN directories'
        /\ final \in DOMAIN directories'
        /\ directories'[final] = [of |-> c, state |-> "whole"]
    BY <1>3, <1>5, <2>2 DEF With, Without, Same
  <2>4. Touches(p, c)  BY <1>2, <1>5, <2>1, <2>3 DEF Touches, temp, final
  <2>5. Drops(p, c)  BY <1>1, <1>5, <2>3 DEF Drops, temp
  <2>6. Replaces(p, c)  BY <1>1, <2>1, <2>3, <2>5 DEF Replaces, final
  <2> QED  BY <2>4, <2>6 DEF Shape
<1> QED  BY <1>4, <1>5 DEF Replace

LEMMA WorkShape ==
  ASSUME Dataset, NEW p \in Builders, Work(p)
  PROVE  \E c \in Captures :
           Touches(p, c) /\ Shape(p, c) /\ (step[p] # "idle" => c = job[p])
<1>1. CASE TakeCapture(p)
  BY <1>1, TakeShape DEF TakeCapture
<1>2. CASE ~TakeCapture(p)
  <2>1. Touches(p, job[p]) /\ Shape(p, job[p])
    BY <1>2, SkipShape, OpenShape, BuildShape, LookShape, RemoveShape,
       ReplaceShape DEF Work
  <2> QED  BY <2>1 DEF Touches
<1> QED  BY <1>1, <1>2

-----------------------------------------------------------------------------
(* Each part of the invariant is kept by a step of any shape.              *)
StepOf(p, c) ==
  Touches(p, c) /\ Shape(p, c) /\ (step[p] # "idle" => c = job[p])

LEMMA ControlAfter ==
  ASSUME BuildTyped, NEW p \in Builders, NEW c, StepOf(p, c)
  PROVE  /\ c \in Captures /\ job'[p] = c
         /\ \A q \in Builders : q # p => step'[q] = step[q] /\ job'[q] = job[q]
         /\ UNCHANGED <<options, pid, builds, cutOff>>
         /\ step'[p] \in Steps
<1>1. step'[p] \in Steps
  BY DEF StepOf, Shape, Takes, Rejects, DryRuns, Skips, Opens, Builds, Looks,
         Begins, Removes, Replaces, Fails, GoesOn, Finishes, Steps
<1> QED  BY <1>1 DEF BuildTyped, StepOf, Touches

LEMMA TypedKept ==
  ASSUME Dataset, NEW p \in Builders, NEW c, StepOf(p, c)
  PROVE  BuildTyped'
<1> USE DEF Dataset
<1>1. /\ c \in Captures /\ job'[p] = c /\ step'[p] \in Steps
      /\ UNCHANGED <<options, pid, builds, cutOff>>
  BY ControlAfter
<1>2. /\ step' = [step EXCEPT ![p] = step'[p]] /\ job' = [job EXCEPT ![p] = c]
      /\ directories' = [d \in DOMAIN directories' |-> directories'[d]]
      /\ \A d : d # Final(c) /\ d # Temp(c, p) => Same(d)
  BY DEF StepOf, Touches
<1>3. step' \in [Builders -> Steps] /\ job' \in [Builders -> Captures \cup {NoCapture}]
  BY <1>1, <1>2 DEF BuildTyped
<1>4. waiting' \subseteq Captures /\ results' \in [Captures -> Statuses]
  BY DEF BuildTyped, StepOf, Shape, Takes, Rejects, DryRuns, Skips, Opens, Builds,
         Looks, Begins, Removes, Replaces, Fails, GoesOn, Finishes
<1> DEFINE Content == [of : Captures, state : {"open", "whole", "torn"}]
           OK(d) == d \in DOMAIN directories' => directories'[d] \in Content
<1>5. \A d : Same(d) => OK(d)
  BY DEF BuildTyped, Same
<1>6. [of |-> c, state |-> "open"] \in Content /\ [of |-> c, state |-> "whole"] \in Content
  BY <1>1
<1>7. Exists(Final(c)) => [of |-> directories[Final(c)].of, state |-> "torn"] \in Content
  BY DEF BuildTyped, Exists
<1>8. OK(Final(c))
  <2> HIDE DEF Content
  <2>1. UNCHANGED directories => Same(Final(c))  BY DEF Same
  <2> QED
    BY <1>5, <1>6, <1>7, <2>1
    DEF StepOf, Shape, Takes, Rejects, DryRuns, Skips, Opens, Builds,
        Looks, Begins, Removes, Replaces, Fails
<1>9. OK(Temp(c, p))
  <2> HIDE DEF Content
  <2>1. UNCHANGED directories => Same(Temp(c, p))  BY DEF Same
  <2> QED
    BY <1>5, <1>6, <2>1
    DEF StepOf, Shape, Takes, Rejects, DryRuns, Skips, Opens, Builds,
        Looks, Begins, Removes, Replaces, Fails, Drops
<1>10. \A d \in DOMAIN directories' : directories'[d] \in Content
  BY <1>2, <1>5, <1>8, <1>9
<1>11. Final(c) \in [workload : Names, pid : Nat] /\ Temp(c, p) \in [workload : Names, pid : Nat]
  BY <1>1 DEF Final, Temp, Names, NotAPid, BuildTyped
<1>12. DOMAIN directories' \subseteq [workload : Names, pid : Nat]
  BY <1>2, <1>11 DEF BuildTyped, Same
<1>13. directories' \in [DOMAIN directories' -> Content]
  BY <1>2, <1>10
<1> QED  BY <1>1, <1>3, <1>4, <1>12, <1>13 DEF BuildTyped

LEMMA JobsKept ==
  ASSUME Dataset, NEW p \in Builders, NEW c, StepOf(p, c)
  PROVE  JobsOnce' /\ builds > 0
<1> USE DEF Dataset
<1>1. /\ c \in Captures /\ job'[p] = c /\ step'[p] \in Steps
      /\ \A q \in Builders : q # p => step'[q] = step[q] /\ job'[q] = job[q]
      /\ UNCHANGED <<options, pid, builds, cutOff>>
  BY ControlAfter
<1>2. \/ /\ step[p] = "idle" /\ step'[p] = "start"
         /\ c \in waiting /\ waiting' = waiting \ {c} /\ UNCHANGED results
      \/ step[p] # "idle" /\ step'[p] # "idle" /\ UNCHANGED <<waiting, job, results>>
      \/ /\ step[p] # "idle" /\ step'[p] = "idle" /\ UNCHANGED <<waiting, job>>
         /\ \E status \in Statuses \ {"pending"} :
              results' = [results EXCEPT ![job[p]] = status]
  BY DEF StepOf, Shape, Takes, Rejects, DryRuns, Skips, Opens, Builds,
         Looks, Begins, Removes, Replaces, Fails, GoesOn, Finishes
<1>3. builds > 0
  BY <1>2 DEF JobsOnce, BuildTyped
<1>4. CASE step[p] = "idle"
  <2>1. step'[p] = "start" /\ c \in waiting /\ waiting' = waiting \ {c} /\ results' = results
    BY <1>2, <1>4
  <2>2. c \in Captures /\ results[c] = "pending"
    BY <1>1, <2>1 DEF JobsOnce
  <2>3. \A q \in Builders : step[q] # "idle" => q # p /\ job[q] # c
    BY <1>4, <2>1 DEF JobsOnce
  <2>4. \A q \in Builders : step'[q] # "idle" =>
          /\ job'[q] \in Captures \ waiting' /\ results'[job'[q]] = "pending"
          /\ q # p => step[q] # "idle" /\ job'[q] = job[q]
    BY <1>1, <2>1, <2>2 DEF JobsOnce
  <2>5. \A b \in Captures : results'[b] = "pending" =>
          b \in waiting' \/ \E q \in Builders : step'[q] # "idle" /\ job'[q] = b
    <3> SUFFICES ASSUME NEW b \in Captures, results'[b] = "pending", b \notin waiting'
                 PROVE  \E q \in Builders : step'[q] # "idle" /\ job'[q] = b
      OBVIOUS
    <3>1. CASE b = c  BY <1>1, <2>1, <3>1
    <3>2. CASE b # c
      <4>1. PICK q \in Builders : step[q] # "idle" /\ job[q] = b
        BY <1>3, <2>1, <3>2 DEF JobsOnce
      <4> QED  BY <1>1, <2>3, <4>1
    <3> QED  BY <3>1, <3>2
  <2>6. \A q, r \in Builders :
          step'[q] # "idle" /\ step'[r] # "idle" /\ job'[q] = job'[r] => q = r
    BY <1>1, <2>3, <2>4 DEF JobsOnce
  <2>7. \A b \in waiting' : results'[b] = "pending"
    BY <2>1 DEF JobsOnce
  <2> QED  BY <1>1, <1>3, <2>4, <2>5, <2>6, <2>7 DEF JobsOnce
<1>5. CASE step[p] # "idle" /\ step'[p] # "idle"
  <2>1. UNCHANGED <<waiting, job, results>>  BY <1>2, <1>5
  <2> QED  BY <1>1, <1>3, <1>5, <2>1 DEF JobsOnce
<1>6. CASE step[p] # "idle" /\ step'[p] = "idle"
  <2>1. UNCHANGED <<waiting, job>> /\ c = job[p]  BY <1>2, <1>6 DEF StepOf
  <2>2. /\ results'[c] # "pending"
        /\ \A b \in Captures : b # c => results'[b] = results[b]
    BY <1>1, <1>2, <1>6, <2>1 DEF BuildTyped
  <2>3. c \notin waiting /\ \A q \in Builders : q # p /\ step[q] # "idle" => job[q] # c
    BY <1>6, <2>1 DEF JobsOnce
  <2>4. waiting \subseteq Captures  BY DEF BuildTyped
  <2>5. /\ \A b \in waiting' : results'[b] = "pending"
        /\ \A q \in Builders : step'[q] # "idle" =>
             job'[q] \in Captures \ waiting' /\ results'[job'[q]] = "pending"
    BY <1>1, <1>6, <2>1, <2>2, <2>3, <2>4 DEF JobsOnce
  <2>6. \A b \in Captures : results'[b] = "pending" =>
          b \in waiting' \/ \E q \in Builders : step'[q] # "idle" /\ job'[q] = b
    <3> SUFFICES ASSUME NEW b \in Captures, results'[b] = "pending", b \notin waiting
                 PROVE  \E q \in Builders : step'[q] # "idle" /\ job'[q] = b
      BY <2>1
    <3>1. b # c /\ results[b] = "pending"  BY <2>2
    <3>2. PICK q \in Builders : step[q] # "idle" /\ job[q] = b
      BY <1>3, <3>1 DEF JobsOnce
    <3> QED  BY <1>1, <2>1, <3>1, <3>2
  <2> QED  BY <1>1, <1>3, <1>6, <2>1, <2>5, <2>6 DEF JobsOnce
<1> QED  BY <1>2, <1>3, <1>4, <1>5, <1>6

LEMMA TempsKept ==
  ASSUME Dataset, NEW p \in Builders, NEW c, StepOf(p, c)
  PROVE  TempsHeld'
<1> USE DEF Dataset
<1>1. /\ c \in Captures /\ job'[p] = c
      /\ \A q \in Builders : q # p => step'[q] = step[q] /\ job'[q] = job[q]
      /\ UNCHANGED <<options, pid, builds, cutOff>>
  BY ControlAfter
<1>2. /\ \A d : d # Final(c) /\ d # Temp(c, p) => Same(d)
      /\ left \ {Temp(c, p)} \subseteq left'
  BY DEF StepOf, Touches
<1>3. \A q \in Builders : Temp(job[q], q)' = Temp(job'[q], q)
  BY <1>1 DEF Temp, Final, NotAPid
<1>4. /\ Temp(c, p) # Final(c) /\ Temp(c, p).pid # NotAPid /\ Final(c).pid = NotAPid
      /\ \A b : \A q \in Builders : q # p => Temp(b, q) # Temp(c, p) /\ Temp(b, q) # Final(c)
  BY TempNames
<1>5. \A q \in Builders : q # p /\ step'[q] \in Holding =>
        /\ ~options'.dry
        /\ step'[q] \in {"remove", "removing"} => ~options'.skip
        /\ step'[q] # "build" => Good(job'[q])
        /\ Temp(job'[q], q) \in DOMAIN directories'
        /\ directories'[Temp(job'[q], q)].of = job'[q]
        /\ directories'[Temp(job'[q], q)].state =
             (IF step'[q] = "build" THEN "open" ELSE "whole")
  BY <1>1, <1>2, <1>3, <1>4 DEF TempsHeld, Same
<1>6. step'[p] \in Holding =>
        /\ ~options'.dry
        /\ step'[p] \in {"remove", "removing"} => ~options'.skip
        /\ step'[p] # "build" => Good(c)
        /\ Temp(c, p) \in DOMAIN directories'
        /\ directories'[Temp(c, p)].of = c
        /\ directories'[Temp(c, p)].state =
             (IF step'[p] = "build" THEN "open" ELSE "whole")
  <2> SUFFICES ASSUME step'[p] \in Holding
               PROVE  /\ ~options'.dry
                      /\ step'[p] \in {"remove", "removing"} => ~options'.skip
                      /\ step'[p] # "build" => Good(c)
                      /\ Temp(c, p) \in DOMAIN directories'
                      /\ directories'[Temp(c, p)].of = c
                      /\ directories'[Temp(c, p)].state =
                           (IF step'[p] = "build" THEN "open" ELSE "whole")
    OBVIOUS
  <2>1. Opens(p, c) \/ Builds(p, c) \/ Looks(p, c) \/ Begins(p, c) \/ Removes(p, c)
    BY DEF StepOf, Shape, Takes, Rejects, DryRuns, Skips, Replaces, Fails, Finishes, Holding
  <2>2. CASE Opens(p, c)  BY <1>1, <2>2 DEF Opens, GoesOn
  <2>3. c = job[p]  BY <2>1 DEF StepOf, Opens, Builds, Looks, Begins, Removes
  <2>4. CASE Builds(p, c)  BY <1>1, <2>3, <2>4 DEF Builds, GoesOn, TempsHeld, Holding
  <2>5. CASE Looks(p, c) \/ Begins(p, c) \/ Removes(p, c)
    <3>1. Same(Temp(c, p))  BY <2>5 DEF Looks, Begins, Removes, Same
    <3>2. step[p] \in Holding /\ step[p] # "build" /\ step'[p] # "build"
      BY <2>5 DEF Looks, Begins, Removes, GoesOn, Holding
    <3>3. step'[p] \in {"remove", "removing"} => ~options.skip
      BY <2>5 DEF Looks, Begins, Removes, GoesOn, TempsHeld, Holding
    <3> QED  BY <1>1, <2>3, <3>1, <3>2, <3>3 DEF TempsHeld, Same
  <2> QED  BY <2>1, <2>2, <2>4, <2>5
<1>7. ASSUME NEW d \in DOMAIN directories', d.pid # NotAPid
      PROVE  d \in left' \/
               \E q \in Builders : step'[q] \in Holding /\ d = Temp(job'[q], q)
  <2>1. d # Final(c)  BY <1>4, <1>7
  <2>2. CASE d = Temp(c, p)
    <3>1. CASE step'[p] \in Holding  BY <1>1, <1>3, <2>2, <3>1
    <3>2. CASE step'[p] \notin Holding
      <4>1. Takes(p, c) \/ DryRuns(p, c) \/ Drops(p, c)
        BY <3>2 DEF StepOf, Shape, Rejects, Skips, Opens, Builds, Looks, Begins,
                    Removes, Replaces, Fails, GoesOn, Holding
      <4>2. CASE Drops(p, c) /\ step[p] \in Holding
        BY <1>7, <2>2, <4>2 DEF Drops
      <4>3. CASE step[p] \notin Holding /\ Same(d) /\ left \subseteq left'
        <5>1. d \in Temps  BY <1>7, <4>3 DEF Temps, Same
        <5>2. \A q \in Builders : step[q] \in Holding => d # Temp(job[q], q)
          BY <1>4, <2>2, <4>3
        <5> QED  BY <4>3, <5>1, <5>2 DEF TempsHeld
      <4>4. Takes(p, c) \/ DryRuns(p, c) =>
              step[p] \notin Holding /\ Same(d) /\ left \subseteq left'
        BY DEF Takes, DryRuns, Holding, Same
      <4> QED  BY <2>2, <4>1, <4>2, <4>3, <4>4 DEF Drops
    <3> QED  BY <3>1, <3>2
  <2>3. CASE d # Temp(c, p)
    <3>1. d \in Temps  BY <1>2, <1>7, <2>1, <2>3 DEF Temps, Same
    <3>2. d \in left => d \in left'  BY <1>2, <2>3
    <3>3. ASSUME NEW q \in Builders, step[q] \in Holding, d = Temp(job[q], q)
          PROVE  step'[q] \in Holding /\ d = Temp(job'[q], q)
      <4>1. q # p  BY <2>3, <3>3 DEF StepOf, Holding
      <4> QED  BY <1>1, <1>3, <3>3, <4>1
    <3> QED  BY <3>1, <3>2, <3>3 DEF TempsHeld
  <2> QED  BY <2>2, <2>3
<1> QED  BY <1>1, <1>3, <1>5, <1>6, <1>7 DEF TempsHeld, Temps

(* Other directories than the worker's two are as they were.               *)
LEMMA OtherFinals ==
  ASSUME Dataset, NEW p \in Builders, NEW c, StepOf(p, c)
  PROVE  /\ \A b : Final(b) # Final(c) => Same(Final(b))
         /\ \A d : d.pid = NotAPid /\ d # Final(c) => Same(d)
<1>1. \A d : d # Final(c) /\ d # Temp(c, p) => Same(d)
  BY DEF StepOf, Touches
<1>2. Temp(c, p).pid # NotAPid /\ \A b : Temp(c, p) # Final(b)
  BY TempNames DEF Dataset
<1> QED  BY <1>1, <1>2

LEMMA FinalsKept ==
  ASSUME Dataset, NEW p \in Builders, NEW c, StepOf(p, c)
  PROVE  FinalsWhole'
<1> USE DEF Dataset
<1>1. /\ c \in Captures /\ job'[p] = c
      /\ \A q \in Builders : q # p => step'[q] = step[q] /\ job'[q] = job[q]
      /\ UNCHANGED <<options, pid, builds, cutOff>>
  BY ControlAfter
<1>2. \A b : Final(b)' = Final(b)  BY DEF Final, NotAPid
<1>3. \A q \in Builders : Final(job[q])' = Final(job'[q])  BY DEF Final, NotAPid
<1> SUFFICES ASSUME NEW d \in DOMAIN directories', d.pid = NotAPid
             PROVE  /\ directories'[d].state # "open"
                    /\ directories'[d].state = "torn" =>
                         \/ d \in cutOff'
                         \/ \E q \in Builders :
                              step'[q] = "removing" /\ Final(job'[q]) = d
  BY <1>3 DEF FinalsWhole, NotAPid
<1>4. CASE d # Final(c)
  <2>1. Same(d)  BY <1>4, OtherFinals
  <2>2. /\ directories[d].state # "open"
        /\ directories[d].state = "torn" =>
             \/ d \in cutOff
             \/ \E q \in Builders : step[q] = "removing" /\ Final(job[q]) = d
    BY <2>1 DEF Same, FinalsWhole
  <2>3. ASSUME NEW q \in Builders, step[q] = "removing", Final(job[q]) = d
        PROVE  step'[q] = "removing" /\ Final(job'[q]) = d
    <3>1. q # p  BY <1>4, <2>3 DEF StepOf
    <3> QED  BY <1>1, <2>3, <3>1
  <2> QED  BY <1>1, <2>1, <2>2, <2>3 DEF Same
<1>5. CASE d = Final(c)
  <2>1. \/ directories'[d].state = "whole"
        \/ directories'[d].state = "torn" /\ step'[p] = "removing"
        \/ Same(d) /\ step[p] # "removing"
    <3>1. \/ Takes(p, c) \/ Rejects(p, c) \/ DryRuns(p, c) \/ Skips(p, c)
          \/ Opens(p, c) \/ Builds(p, c) \/ Looks(p, c)
          => Same(d) /\ step[p] # "removing"
      BY <1>5 DEF Takes, Rejects, DryRuns, Skips, Opens, Builds, Looks, Same
    <3>2. Begins(p, c) => directories'[d].state = "torn" /\ step'[p] = "removing"
      BY <1>5 DEF Begins, GoesOn
    <3>3. ~Removes(p, c)  BY <1>5 DEF Removes
    <3>4. Replaces(p, c) => directories'[d].state = "whole"
      BY <1>5 DEF Replaces
    <3>5. CASE Fails(p, c)
      <4>1. Same(d) /\ d \in DOMAIN directories  BY <1>5, <3>5 DEF Fails, Same
      <4>2. directories[d].state \in {"whole", "torn"}
        BY <4>1 DEF FinalsWhole, BuildTyped
      <4> QED  BY <1>5, <3>5, <4>1, <4>2 DEF Fails, Same, Exists
    <3> QED  BY <3>1, <3>2, <3>3, <3>4, <3>5 DEF StepOf, Shape
  <2>2. CASE directories'[d].state = "whole"  BY <2>2
  <2>3. CASE directories'[d].state = "torn" /\ step'[p] = "removing"
    BY <1>1, <1>5, <2>3
  <2>4. CASE Same(d) /\ step[p] # "removing"
    <3>1. /\ directories[d].state # "open"
          /\ directories[d].state = "torn" =>
               \/ d \in cutOff
               \/ \E q \in Builders : step[q] = "removing" /\ Final(job[q]) = d
      BY <2>4 DEF Same, FinalsWhole
    <3> QED  BY <1>1, <2>4, <3>1 DEF Same
  <2> QED  BY <2>1, <2>2, <2>3, <2>4
<1> QED  BY <1>4, <1>5

LEMMA OwnKept ==
  ASSUME Dataset, NEW p \in Builders, NEW c, StepOf(p, c)
  PROVE  OwnTrue'
<1> USE DEF Dataset
<1>1. /\ c \in Captures /\ job'[p] = c
      /\ \A q \in Builders : q # p => step'[q] = step[q] /\ job'[q] = job[q]
      /\ UNCHANGED <<options, pid, builds, cutOff>>
  BY ControlAfter
<1> SUFFICES ASSUME NEW b \in Captures, Own(b)
             PROVE
    /\ results'[b] = "created" =>
         /\ Final(b) \in DOMAIN directories'
         /\ directories'[Final(b)].state = "whole" /\ directories'[Final(b)].of = b
    /\ Good(b) => results'[b] \in {"pending", "created", "skipped", "dry_run"}
    /\ \A q \in Builders : job'[q] = b =>
         /\ step'[q] = "remove" => Final(b) \in DOMAIN directories'
         /\ step'[q] = "removing" =>
              Final(b) \in DOMAIN directories' /\ directories'[Final(b)].state = "torn"
         /\ step'[q] = "replace" => Final(b) \notin DOMAIN directories'
         /\ step'[q] \in {"build", "look"} /\ options'.skip =>
              Final(b) \notin DOMAIN directories'
  BY DEF OwnTrue, Exists, Final, NotAPid
<1>2. /\ results[b] = "created" =>
           /\ Final(b) \in DOMAIN directories
           /\ directories[Final(b)].state = "whole" /\ directories[Final(b)].of = b
      /\ Good(b) => results[b] \in {"pending", "created", "skipped", "dry_run"}
      /\ \A q \in Builders : job[q] = b =>
           /\ step[q] = "remove" => Final(b) \in DOMAIN directories
           /\ step[q] = "removing" =>
                Final(b) \in DOMAIN directories /\ directories[Final(b)].state = "torn"
           /\ step[q] = "replace" => Final(b) \notin DOMAIN directories
           /\ step[q] \in {"build", "look"} /\ options.skip =>
                Final(b) \notin DOMAIN directories
  BY DEF OwnTrue, Exists
<1>3. CASE b # c
  <2>1. Final(b) # Final(c)
    BY <1>1, <1>3, FinalNames DEF Own
  <2>2. Same(Final(b))  BY <2>1, OtherFinals
  <2>3. results'[b] = results[b]
    BY <1>3 DEF StepOf, Shape, Takes, Rejects, DryRuns, Skips, Opens, Builds,
                Looks, Begins, Removes, Replaces, Fails, GoesOn, Finishes, BuildTyped
  <2> QED  BY <1>1, <1>2, <1>3, <2>2, <2>3 DEF Same
<1>4. CASE b = c
  <2>1. \A q \in Builders : q # p /\ job'[q] = c => step'[q] = "idle"
    <3>1. step[p] = "idle" => c \in waiting
      BY DEF StepOf, Shape, Takes, Rejects, DryRuns, Skips, Opens, Builds,
             Looks, Begins, Removes, Replaces, Fails, GoesOn, Finishes
    <3> QED  BY <1>1, <3>1 DEF JobsOnce, StepOf
  <2>2. step[p] # "idle" => c = job[p]  BY DEF StepOf
  <2>3. step[p] # "idle" => results[c] = "pending"  BY <2>2 DEF JobsOnce
  <2>4. CASE Takes(p, c)
    BY <1>1, <1>2, <1>4, <2>1, <2>4 DEF Takes
  <2>5. CASE Rejects(p, c)
    <3>1. step'[p] = "idle" /\ results'[c] # "created"
      BY <1>1, <2>2, <2>5 DEF Rejects, Finishes, BuildTyped
    <3> QED  BY <1>1, <1>4, <2>1, <2>5, <3>1 DEF Rejects
  <2>6. CASE DryRuns(p, c)
    <3>1. step'[p] = "idle" /\ results'[c] = "dry_run"
      BY <1>1, <2>2, <2>6 DEF DryRuns, Finishes, BuildTyped
    <3> QED  BY <1>1, <1>4, <2>1, <3>1
  <2>7. CASE Skips(p, c)
    <3>1. step'[p] = "idle" /\ results'[c] = "skipped"
      BY <1>1, <2>2, <2>7 DEF Skips, Finishes, BuildTyped
    <3> QED  BY <1>1, <1>4, <2>1, <3>1
  <2>8. CASE Opens(p, c) \/ Builds(p, c) \/ Looks(p, c)
    <3>1. Same(Final(c)) /\ results' = results /\ step[p] # "idle"
      BY <2>8 DEF Opens, Builds, Looks, GoesOn, Same
    <3>2. \/ step'[p] = "build" /\ (options.skip => Final(c) \notin DOMAIN directories)
          \/ step[p] = "build" /\ step'[p] = "look"
          \/ step[p] = "look" /\ step'[p] = "remove" /\ Final(c) \in DOMAIN directories
          \/ /\ step[p] = "look" /\ step'[p] = "replace"
             /\ options.skip \/ Final(c) \notin DOMAIN directories
      BY <2>8 DEF Opens, Builds, Looks, GoesOn, Exists
    <3> QED  BY <1>1, <1>2, <1>4, <2>1, <2>2, <2>3, <3>1, <3>2 DEF Same
  <2>9. CASE Begins(p, c)
    BY <1>1, <1>4, <2>1, <2>2, <2>3, <2>9 DEF Begins, GoesOn
  <2>10. CASE Removes(p, c)
    BY <1>1, <1>4, <2>1, <2>2, <2>3, <2>10 DEF Removes, GoesOn
  <2>11. CASE Replaces(p, c)
    <3>1. step'[p] = "idle" /\ results'[c] = "created"
      BY <1>1, <2>2, <2>11 DEF Replaces, Finishes, BuildTyped
    <3> QED  BY <1>1, <1>4, <2>1, <2>11, <3>1 DEF Replaces
  <2>12. CASE Fails(p, c)
    <3>1. step[p] # "idle" /\ c = job[p]  BY <2>2, <2>12 DEF Fails, Finishes
    <3> QED  BY <1>2, <1>4, <2>12, <3>1 DEF Fails, Exists
  <2> QED
    BY <2>4, <2>5, <2>6, <2>7, <2>8, <2>9, <2>10, <2>11, <2>12 DEF StepOf, Shape
<1> QED  BY <1>3, <1>4

LEMMA SkippedKept ==
  ASSUME Dataset, NEW p \in Builders, NEW c, StepOf(p, c)
  PROVE  SkippedThere'
<1> USE DEF Dataset
<1>1. /\ c \in Captures /\ job'[p] = c
      /\ UNCHANGED <<options, pid, builds, cutOff>>
  BY ControlAfter
<1>2. SkippedThere  BY JobsKept
<1>3. options.skip /\ Exists(Final(c)) => Final(c) \in DOMAIN directories'
  BY DEF StepOf, Shape, Takes, Rejects, DryRuns, Skips, Opens, Builds, Looks,
         Begins, Removes, Replaces, Fails, Same, Exists, TempsHeld, Holding
<1>4. \A b \in Captures :
        options.skip /\ Exists(Final(b)) => Final(b) \in DOMAIN directories'
  <2> TAKE b \in Captures
  <2> QED  BY <1>3, OtherFinals DEF Same, Exists
<1>5. \/ UNCHANGED results
      \/ /\ c = job[p]
         /\ \E status \in Statuses : results' = [results EXCEPT ![c] = status]
  BY DEF StepOf, Shape, Takes, Rejects, DryRuns, Skips, Opens, Builds, Looks,
         Begins, Removes, Replaces, Fails, GoesOn, Finishes
<1>6. results'[c] # results[c] /\ results'[c] = "skipped"
        => options.skip /\ Final(c) \in DOMAIN directories'
  BY <1>1
  DEF StepOf, Shape, Takes, Rejects, DryRuns, Skips, Opens, Builds, Looks, Same,
      Begins, Removes, Replaces, Fails, GoesOn, Finishes, BuildTyped, Exists
<1>7. results'[c] # results[c] /\ Good(c) /\ options.skip /\ ~options.dry
        => Final(c) \in DOMAIN directories'
  <2> SUFFICES ASSUME results'[c] # results[c], Good(c), options.skip, ~options.dry
               PROVE  Final(c) \in DOMAIN directories'
    OBVIOUS
  <2>1. Skips(p, c) \/ Replaces(p, c) \/ Fails(p, c)
    BY DEF StepOf, Shape, Takes, Rejects, DryRuns, Opens, Builds, Looks, Begins,
           Removes, GoesOn
  <2>2. Fails(p, c) => step[p] = "replace" /\ Exists(Final(c))
    BY DEF Fails, TempsHeld, Holding
  <2> QED  BY <2>1, <2>2, <1>3 DEF Skips, Replaces
<1> SUFFICES ASSUME NEW b \in Captures
             PROVE  /\ results'[b] = "skipped" =>
                         Final(b) \in DOMAIN directories' /\ options.skip
                    /\ Good(b) /\ results'[b] # "pending" /\ options.skip /\ ~options.dry
                         => Final(b) \in DOMAIN directories'
  BY <1>1 DEF SkippedThere, Exists, Final, NotAPid
<1>8. CASE results'[b] = results[b]
  BY <1>2, <1>4, <1>8 DEF SkippedThere
<1>9. CASE results'[b] # results[b]
  <2>1. b = c  BY <1>5, <1>9 DEF BuildTyped
  <2> QED  BY <1>6, <1>7, <1>9, <2>1
<1> QED  BY <1>8, <1>9

LEMMA RefilledKept ==
  ASSUME Dataset, NEW p \in Builders, NEW c, StepOf(p, c)
  PROVE  Refilled'
<1> USE DEF Dataset
<1>1. /\ c \in Captures /\ job'[p] = c
      /\ \A q \in Builders : q # p => step'[q] = step[q] /\ job'[q] = job[q]
      /\ UNCHANGED <<options, pid, builds, cutOff>>
  BY ControlAfter
<1>2. Refilled  BY JobsKept
<1>3. step[p] # "idle" => c = job[p]  BY DEF StepOf
<1> DEFINE AtNow(b, label) ==
             \E q \in Builders : step'[q] = label /\ Workload(job'[q]) = Workload(b)
<1>4. \A b : \A label : At(b, label)' <=> AtNow(b, label)
  BY DEF At
<1> SUFFICES ASSUME ~options.skip, ~options.dry, NEW b \in Captures, ~SkippedBy(b)
             PROVE
    /\ results'[b] # "pending" \/ AtNow(b, "remove") \/ AtNow(b, "removing") =>
         Final(b) \in DOMAIN directories' \/ AtNow(b, "replace")
    /\ /\ results'[b] # "pending" \/ AtNow(b, "replace")
       /\ Final(b) \in DOMAIN directories'
       /\ directories'[Final(b)].state = "torn"
       => AtNow(b, "removing")
  BY <1>1 DEF Refilled, Exists, Final, NotAPid, At, SkippedBy, Good
<1>5. /\ results[b] # "pending" \/ At(b, "remove") \/ At(b, "removing") =>
           Exists(Final(b)) \/ At(b, "replace")
      /\ /\ results[b] # "pending" \/ At(b, "replace")
         /\ Exists(Final(b)) /\ directories[Final(b)].state = "torn"
         => At(b, "removing")
  BY <1>2 DEF Refilled
<1>6. \A label \in Steps \ {"idle", "start"} :
        /\ At(b, label) => AtNow(b, label) \/
             (step[p] = label /\ step'[p] # label /\ Workload(c) = Workload(b))
        /\ AtNow(b, label) => At(b, label) \/
             (step'[p] = label /\ step[p] # label /\ Workload(c) = Workload(b))
        /\ step'[p] = label /\ Workload(c) = Workload(b) => AtNow(b, label)
  <2> SUFFICES ASSUME NEW label \in Steps \ {"idle", "start"}
               PROVE  /\ At(b, label) => AtNow(b, label) \/
                           (step[p] = label /\ step'[p] # label /\ Workload(c) = Workload(b))
                      /\ AtNow(b, label) => At(b, label) \/
                           (step'[p] = label /\ step[p] # label /\ Workload(c) = Workload(b))
                      /\ step'[p] = label /\ Workload(c) = Workload(b) => AtNow(b, label)
    OBVIOUS
  <2>1. ASSUME NEW q \in Builders, step[q] = label, Workload(job[q]) = Workload(b)
        PROVE  AtNow(b, label) \/
                 (step[p] = label /\ step'[p] # label /\ Workload(c) = Workload(b))
    BY <1>1, <1>3, <2>1
  <2>2. ASSUME NEW q \in Builders, step'[q] = label, Workload(job'[q]) = Workload(b)
        PROVE  At(b, label) \/
                 (step'[p] = label /\ step[p] # label /\ Workload(c) = Workload(b))
    BY <1>1, <1>3, <2>2 DEF At
  <2> QED  BY <1>1, <2>1, <2>2 DEF At
<1>7. {"remove", "removing", "replace"} \subseteq Steps \ {"idle", "start"}
  BY DEF Steps
<1>8. results'[b] # results[b] => b = c /\ c = job[p]
  BY DEF StepOf, Shape, Takes, Rejects, DryRuns, Skips, Opens, Builds,
         Looks, Begins, Removes, Replaces, Fails, GoesOn, Finishes, BuildTyped
<1> HIDE DEF AtNow
<1>9. CASE Workload(c) # Workload(b)
  <2>1. Final(c) # Final(b)  BY <1>1, <1>9, FinalNames
  <2>2. Same(Final(b))  BY <2>1, OtherFinals
  <2>3. results'[b] = results[b]  BY <1>8, <1>9
  <2> QED  BY <1>5, <1>6, <1>7, <1>9, <2>2, <2>3 DEF Same, Exists
<1>10. CASE Workload(c) = Workload(b)
  <2>1. Final(c) = Final(b)  BY <1>1, <1>10, FinalNames
  <2>2. Good(c)  BY <1>1, <1>10 DEF SkippedBy
  <2>3. ~Rejects(p, c) /\ ~DryRuns(p, c) /\ ~Skips(p, c)
    BY <2>2 DEF Rejects, DryRuns, Skips
  <2>4. CASE Takes(p, c) \/ Opens(p, c) \/ Builds(p, c)
    <3>1. /\ Same(Final(b)) /\ results' = results
          /\ step[p] \notin {"remove", "removing", "replace"}
          /\ step'[p] \notin {"remove", "removing", "replace"}
      BY <2>1, <2>4 DEF Takes, Opens, Builds, GoesOn, Same
    <3> QED  BY <1>5, <1>6, <1>7, <3>1 DEF Same, Exists
  <2>5. CASE Looks(p, c)
    <3>1. /\ Same(Final(b)) /\ results' = results /\ step[p] = "look"
          /\ \/ step'[p] = "remove" /\ Exists(Final(b))
             \/ step'[p] = "replace" /\ ~Exists(Final(b))
      BY <2>1, <2>5 DEF Looks, GoesOn, Same
    <3> QED  BY <1>5, <1>6, <1>7, <1>10, <3>1 DEF Same, Exists
  <2>6. CASE Begins(p, c)
    <3>1. step'[p] = "removing" /\ Final(b) \in DOMAIN directories'
      BY <2>1, <2>6 DEF Begins, GoesOn
    <3> QED  BY <1>6, <1>7, <1>10, <3>1
  <2>7. CASE Removes(p, c)
    <3>1. step'[p] = "replace" /\ Final(b) \notin DOMAIN directories'
      BY <2>1, <2>7 DEF Removes, GoesOn
    <3> QED  BY <1>6, <1>7, <1>10, <3>1
  <2>8. CASE Replaces(p, c)
    <3>1. Final(b) \in DOMAIN directories' /\ directories'[Final(b)].state = "whole"
      BY <2>1, <2>8 DEF Replaces
    <3> QED  BY <3>1
  <2>9. CASE Fails(p, c)
    <3>1. Same(Final(b)) /\ step'[p] = "idle"  BY <2>1, <2>9 DEF Fails, Finishes
    <3>2. \/ step[p] = "remove" /\ ~Exists(Final(b))
          \/ /\ step[p] = "removing"
             /\ ~(Exists(Final(b)) /\ directories[Final(b)].state = "torn")
          \/ step[p] = "replace" /\ Exists(Final(b))
      BY <2>1, <2>9 DEF Fails
    <3>3. step[p] # "idle" => At(b, step[p])  BY <1>3, <1>10 DEF At
    <3>4. Exists(Final(b)) \/ AtNow(b, "replace")
      BY <1>5, <1>6, <1>7, <3>1, <3>2, <3>3
    <3>5. Exists(Final(b)) /\ directories[Final(b)].state = "torn" => AtNow(b, "removing")
      BY <1>5, <1>6, <1>7, <3>1, <3>2, <3>3
    <3> QED  BY <3>1, <3>4, <3>5 DEF Same, Exists
  <2> QED
    BY <2>3, <2>4, <2>5, <2>6, <2>7, <2>8, <2>9 DEF StepOf, Shape
<1> QED  BY <1>9, <1>10

(* A build that starts finds no worker at work, and takes what it finds of *)
(* temporary directories and torn workloads for what is left of others.    *)
LEMMA StartKeeps ==
  ASSUME Dataset, StartBuild PROVE Dataset'
<1> USE DEF Dataset
<1>1. PICK d \in {0, builds} :
        pid' = [p \in Builders |-> p + d * Cardinality(Builders)]
  BY DEF StartBuild
<1>2. /\ builds' = builds + 1 /\ options' \in BuildOptions /\ waiting' = Captures
      /\ job' = [p \in Builders |-> NoCapture]
      /\ step' = [p \in Builders |-> "idle"]
      /\ results' = [c \in Captures |-> "pending"]
      /\ cutOff' = cutOff \cup {e \in DOMAIN directories : directories[e].state = "torn"}
      /\ left' = left \cup Temps /\ directories' = directories
  BY DEF StartBuild
<1>3. \A p \in Builders : p \in Nat \ {0}  BY CapturesAssumption
<1>4. d * Cardinality(Builders) \in Nat
  <2>1. Cardinality(Builders) \in Nat  BY CapturesAssumption, FS_CardinalityType
  <2>2. d \in Nat  BY DEF BuildTyped
  <2> QED  BY <2>1, <2>2
<1>5. pid' \in [Builders -> Nat \ {0}] /\ \A p, q \in Builders : pid'[p] = pid'[q] => p = q
  BY <1>1, <1>3, <1>4
<1>6. BuildTyped'
  BY <1>2, <1>5 DEF BuildTyped, Steps, Statuses, Names
<1>7. JobsOnce'  BY <1>2, <1>5 DEF JobsOnce, BuildTyped
<1>8. TempsHeld'
  BY <1>2 DEF TempsHeld, Temps, Holding, NotAPid
<1>9. FinalsWhole'
  BY <1>2 DEF FinalsWhole, NotAPid
<1>10. OwnTrue'  BY <1>2 DEF OwnTrue
<1>11. SkippedThere' /\ Refilled'
  BY <1>2 DEF SkippedThere, Refilled, At
<1> QED  BY <1>6, <1>7, <1>8, <1>9, <1>10, <1>11

LEMMA DatasetInit == BuildInit => Dataset
<1> SUFFICES ASSUME BuildInit PROVE Dataset
  OBVIOUS
<1> USE DEF BuildInit
<1>1. BuildTyped
  BY CapturesAssumption DEF BuildTyped, Steps, Statuses
<1>2. JobsOnce  BY DEF JobsOnce
<1>3. TempsHeld /\ FinalsWhole /\ OwnTrue
  BY DEF TempsHeld, Temps, Holding, FinalsWhole, OwnTrue
<1> QED  BY <1>1, <1>2, <1>3 DEF Dataset

LEMMA DatasetKept == Dataset /\ [BuildNext]_buildVars => Dataset'
<1> SUFFICES ASSUME Dataset, [BuildNext]_buildVars PROVE Dataset'
  OBVIOUS
<1>1. CASE StartBuild  BY <1>1, StartKeeps
<1>2. ASSUME NEW p \in Builders, Work(p) PROVE Dataset'
  <2>1. PICK c \in Captures : StepOf(p, c)
    BY <1>2, WorkShape DEF StepOf
  <2> QED
    BY <2>1, TypedKept, JobsKept, TempsKept, FinalsKept, OwnKept, SkippedKept,
       RefilledKept
    DEF Dataset
<1>3. CASE UNCHANGED buildVars
  BY <1>3 DEF buildVars, jobVars, historyVars, Dataset, BuildTyped, JobsOnce,
              TempsHeld, Temps, Temp, Final, FinalsWhole, OwnTrue, Exists,
              SkippedThere, Refilled, At
<1> QED  BY <1>1, <1>2, <1>3 DEF BuildNext

LEMMA DatasetHolds == BuildSpec => []Dataset
BY DatasetInit, DatasetKept, PTL DEF BuildSpec

(* However builds interleave, die and start again, the dataset holds whole *)
(* workloads only, no build leaves its rubbish behind, and what it reports *)
(* of each capture is so (process_capture, iter_capture_results).          *)
THEOREM DatasetWhole == BuildSpec => []NothingHalfBuilt
<1>1. Dataset => NothingHalfBuilt
  <2> SUFFICES ASSUME Dataset PROVE NothingHalfBuilt
    OBVIOUS
  <2> USE DEF Dataset
  <2>1. NoTempLeft
    BY DEF NoTempLeft, BuildEnded, TempsHeld, Holding
  <2>2. ASSUME BuildEnded
        PROVE  \A c \in Captures : results[c] # "pending" /\ SkippedThere /\ Refilled
    BY <2>2 DEF BuildEnded, JobsOnce
  <2>3. ResultsTrue
    <3> SUFFICES ASSUME BuildEnded, NEW c \in Captures
                 PROVE
          /\ results[c] # "pending"
          /\ Own(c) /\ results[c] = "created" =>
               /\ Exists(Final(c)) /\ directories[Final(c)].state = "whole"
               /\ directories[Final(c)].of = c
          /\ results[c] = "skipped" => Exists(Final(c)) /\ options.skip
          /\ Own(c) /\ Kind[c] \in {"windows", "quiet"} =>
               results[c] \in {"created", "skipped", "dry_run"}
      BY DEF ResultsTrue, Own
    <3> QED  BY <2>2 DEF OwnTrue, SkippedThere, Good
  <2>4. SharedNamesFilled
    <3> SUFFICES ASSUME BuildEnded, ~options.dry, NEW c \in Captures,
                        Kind[c] \in {"windows", "quiet"},
                        options.skip \/ ~SkippedBy(c)
                 PROVE  /\ Exists(Final(c))
                        /\ \/ directories[Final(c)].state = "whole"
                           \/ options.skip /\ Final(c) \in cutOff
      BY DEF SharedNamesFilled, SkippedBy, Good
    <3>1. \A label : At(c, label) => label = "idle"  BY DEF BuildEnded, At
    <3>2. Exists(Final(c))
      BY <2>2, <3>1 DEF SkippedThere, Refilled, Good
    <3>3. ~options.skip => directories[Final(c)].state # "torn"
      BY <2>2, <3>1, <3>2 DEF Refilled, Good
    <3>4. /\ directories[Final(c)].state \in {"open", "whole", "torn"}
          /\ Final(c).pid = NotAPid
      BY <3>2 DEF BuildTyped, Exists, Final
    <3> QED
      BY <3>2, <3>3, <3>4 DEF FinalsWhole, Exists, BuildEnded
  <2> QED  BY <2>1, <2>3, <2>4 DEF NothingHalfBuilt
<1> QED  BY <1>1, DatasetHolds, PTL

-----------------------------------------------------------------------------
(***************************************************************************)
(* The throttle experiment.                                                *)
(***************************************************************************)
Row == [run : Nat, miner : Nat, captures : SUBSET Nat]
Capture ==
  [owner : Nat \cup {Other}, process : BOOLEAN, events : BOOLEAN]

(* The state of the experiment stays well typed, and what the command and  *)
(* the manifest name is there.                                             *)
ThrottleTyped ==
  /\ phase \in {"plan", "run", "wait", "copy", "over"}
  /\ resuming \in Seq(BOOLEAN)
  /\ existing \subseteq Nat /\ current \in Nat
  /\ miners \in Seq({"running", "stopped", "exited"})
  /\ captured \in Seq(Capture) /\ manifest \in Seq(Row)
  /\ before \subseteq DOMAIN captured /\ found \subseteq DOMAIN captured
  /\ copied \subseteq DOMAIN captured
  /\ phase \in {"run", "wait", "copy"} => miners # <<>>

(* A command that has come to the copies waited for its miner's exit, and  *)
(* what it found is its miner's.                                           *)
FoundOwn ==
  /\ phase \in {"wait", "copy"} => miners[Miner] = "exited"
  /\ phase = "copy" =>
       found # {} /\ \A c \in found : captured[c].owner = Miner

(* Each row is of another miner, in the order in which they were started,  *)
(* and the miner of the current run has none yet.                          *)
RowsOfMiners ==
  /\ \A i \in DOMAIN manifest :
       /\ manifest[i].miner \in DOMAIN miners
       /\ phase \in {"run", "wait", "copy"} => manifest[i].miner # Miner
       /\ manifest[i].captures # {} /\ manifest[i].captures \subseteq copied
       /\ \A c \in manifest[i].captures : captured[c].owner = manifest[i].miner
  /\ \A i, j \in DOMAIN manifest :
       i < j => manifest[i].miner < manifest[j].miner

(* While every command after the first resumes, the command knows all rows *)
(* of earlier ones, and has entered its own in the order of the plan.      *)
AllResume == \A k \in 2..Len(resuming) : resuming[k]
RowsKnown ==
  /\ resuming = <<>> => manifest = <<>> /\ phase = "over"
  /\ phase \in {"run", "wait", "copy"} => current \notin existing
  /\ AllResume =>
       /\ phase # "over" => \A i \in DOMAIN manifest :
            manifest[i].run \in existing \/ manifest[i].run < current
       /\ \A i, j \in DOMAIN manifest : manifest[i].run = manifest[j].run => i = j

Experiment == ThrottleTyped /\ FoundOwn /\ RowsOfMiners /\ RowsKnown

-----------------------------------------------------------------------------
LEMMA RowRuns ==
  ASSUME manifest \in Seq(Row), NEW i \in DOMAIN manifest
  PROVE  manifest[i].run \in Nat
<1>1. manifest[i] \in Row  OBVIOUS
<1> QED  BY <1>1 DEF Row

LEMMA ExperimentInit == ThrottleInit => Experiment
<1> SUFFICES ASSUME ThrottleInit PROVE Experiment
  OBVIOUS
<1> USE DEF ThrottleInit
<1>1. ThrottleTyped  BY PlanAssumption DEF ThrottleTyped
<1>2. FoundOwn /\ RowsOfMiners /\ RowsKnown  BY DEF FoundOwn, RowsOfMiners, RowsKnown
<1> QED  BY <1>1, <1>2 DEF Experiment

LEMMA StartCommandKeeps ==
  ASSUME Experiment, StartCommand PROVE Experiment'
<1> USE DEF Experiment
<1>1. PICK resume \in BOOLEAN :
        /\ resuming' = Append(resuming, resume)
        /\ existing' = IF resume THEN RunsOf(manifest) ELSE {}
  BY DEF StartCommand
<1> USE DEF StartCommand
<1>2. ThrottleTyped'
  <2>1. RunsOf(manifest) \subseteq Nat
    BY RowRuns DEF RunsOf, ThrottleTyped
  <2> QED  BY <1>1, <2>1 DEF ThrottleTyped
<1>3. FoundOwn' /\ RowsOfMiners'
  BY DEF FoundOwn, RowsOfMiners, ThrottleTyped, Miner
<1>4. RowsKnown'
  <2> USE DEF ThrottleTyped
  <2>1. /\ Len(resuming') = Len(resuming) + 1 /\ Len(resuming) \in Nat
        /\ resuming'[Len(resuming) + 1] = resume
        /\ \A k \in 1..Len(resuming) : resuming'[k] = resuming[k]
    BY <1>1
  <2>2. resuming' # <<>>  BY <2>1
  <2>3. CASE resuming = <<>>
    BY <2>1, <2>2, <2>3 DEF RowsKnown
  <2>4. CASE resuming # <<>> /\ ~resume
    <3>1. Len(resuming) # 0  BY <2>4
    <3>2. ~AllResume'  BY <2>1, <2>4, <3>1 DEF AllResume
    <3> QED  BY <2>2, <3>2 DEF RowsKnown
  <2>5. CASE resuming # <<>> /\ resume
    <3>1. AllResume' => AllResume  BY <2>1 DEF AllResume
    <3>2. \A i \in DOMAIN manifest : manifest[i].run \in existing'
      BY <1>1, <2>5 DEF RunsOf
    <3> QED  BY <2>2, <3>1, <3>2 DEF RowsKnown
  <2> QED  BY <2>3, <2>4, <2>5
<1> QED  BY <1>2, <1>3, <1>4

(* Runs are gone through in the order of the plan.                         *)
LEMMA NextRunFacts ==
  ASSUME ThrottleTyped, NextRun
  PROVE  /\ phase' \in {"plan", "over"} /\ current' \in Nat
         /\ phase' = "plan" => current' = current + 1
BY PlanAssumption DEF ThrottleTyped, NextRun

LEMMA SkipRunKeeps ==
  ASSUME Experiment, SkipRun PROVE Experiment'
<1> USE DEF Experiment
<1>1. /\ phase' \in {"plan", "over"} /\ current' \in Nat
      /\ phase' = "plan" => current' = current + 1
  BY NextRunFacts DEF SkipRun
<1>2. /\ phase = "plan"
      /\ UNCHANGED <<resuming, existing, before, found, miners, copied, manifest,
                     captured>>
  BY DEF SkipRun
<1>3. ThrottleTyped'  BY <1>1, <1>2 DEF ThrottleTyped
<1>4. FoundOwn' /\ RowsOfMiners'
  BY <1>1, <1>2 DEF FoundOwn, RowsOfMiners, Miner
<1>5. RowsKnown'
  <2>1. \A i \in DOMAIN manifest : manifest[i].run \in Nat
    BY RowRuns DEF ThrottleTyped
  <2>2. AllResume' <=> AllResume  BY <1>2 DEF AllResume
  <2>3. current \in Nat  BY DEF ThrottleTyped
  <2>4. ASSUME AllResume, phase' # "over", NEW i \in DOMAIN manifest
        PROVE  manifest[i].run \in existing \/ manifest[i].run < current'
    BY <1>1, <1>2, <2>1, <2>3, <2>4 DEF RowsKnown
  <2>5. resuming # <<>>  BY <1>2 DEF RowsKnown
  <2> QED  BY <1>1, <1>2, <2>2, <2>4, <2>5 DEF RowsKnown
<1> QED  BY <1>3, <1>4, <1>5

LEMMA StartMinerKeeps ==
  ASSUME Experiment, StartMiner PROVE Experiment'
<1> USE DEF Experiment, StartMiner
<1>1. /\ miners' = Append(miners, "running") /\ Len(miners') = Len(miners) + 1
      /\ DOMAIN miners' = 1..(Len(miners) + 1) /\ DOMAIN miners = 1..Len(miners)
      /\ Len(miners) \in Nat /\ miners' # <<>>
      /\ miners' \in Seq({"running", "stopped", "exited"})
  <2>1. miners \in Seq({"running", "stopped", "exited"})  BY DEF ThrottleTyped
  <2>2. miners' = Append(miners, "running")  OBVIOUS
  <2> QED  BY <2>1, <2>2
<1>2. ThrottleTyped'  BY <1>1 DEF ThrottleTyped
<1>3. FoundOwn'  BY DEF FoundOwn
<1>4. RowsOfMiners'  BY <1>1 DEF RowsOfMiners, Miner
<1>5. RowsKnown'  BY DEF RowsKnown, AllResume
<1> QED  BY <1>2, <1>3, <1>4, <1>5

(* Only the state of a process that runs or is stopped changes.            *)
LEMMA MinersKeep ==
  ASSUME Experiment, NEW m \in DOMAIN miners, miners[m] # "exited",
         NEW to \in {"running", "stopped", "exited"},
         miners' = [miners EXCEPT ![m] = to],
         UNCHANGED <<commandVars, copied, manifest, captured>>
  PROVE  Experiment'
<1> USE DEF Experiment, commandVars
<1>1. /\ Len(miners') = Len(miners) /\ DOMAIN miners' = DOMAIN miners
      /\ miners' \in Seq({"running", "stopped", "exited"})
      /\ miners # <<>> => miners' # <<>>
      /\ \A n \in DOMAIN miners : n # m => miners'[n] = miners[n]
      /\ Miner' = Miner
      /\ miners # <<>> => Miner \in DOMAIN miners
  BY DEF ThrottleTyped, Miner
<1>2. ThrottleTyped'  BY <1>1 DEF ThrottleTyped
<1>3. FoundOwn'  BY <1>1 DEF FoundOwn, ThrottleTyped
<1>4. RowsOfMiners'  BY <1>1 DEF RowsOfMiners
<1>5. RowsKnown'  BY DEF RowsKnown, AllResume
<1> QED  BY <1>2, <1>3, <1>4, <1>5

LEMMA SignalKeeps ==
  ASSUME Experiment, StopMiner \/ ContinueMiner PROVE Experiment'
<1>1. Miner \in DOMAIN miners
  BY DEF StopMiner, ContinueMiner, Signal, Experiment, ThrottleTyped, Miner
<1> QED  BY <1>1, MinersKeep DEF StopMiner, ContinueMiner, Signal

LEMMA MinerExitsKeeps ==
  ASSUME Experiment, NEW m \in DOMAIN miners, MinerExits(m) PROVE Experiment'
BY MinersKeep DEF MinerExits

LEMMA MinerEndedKeeps ==
  ASSUME Experiment, MinerEnded PROVE Experiment'
<1> USE DEF Experiment, MinerEnded
<1>1. ThrottleTyped'  BY DEF ThrottleTyped
<1>2. FoundOwn' /\ RowsOfMiners'  BY DEF FoundOwn, RowsOfMiners, Miner
<1>3. RowsKnown'  BY DEF RowsKnown, AllResume
<1> QED  BY <1>1, <1>2, <1>3

LEMMA FindKeeps ==
  ASSUME Experiment, FindReady \/ WaitTimesOut PROVE Experiment'
<1> USE DEF Experiment
<1>1. PICK C \in SUBSET DOMAIN captured :
        /\ phase = "wait" /\ Find(C)
        /\ \A c \in C : captured[c].owner = Miner
  BY DEF FindReady, WaitTimesOut, NewCaptures, Matches
<1> USE DEF Find
<1>2. ThrottleTyped'  BY <1>1 DEF ThrottleTyped
<1>3. FoundOwn' /\ RowsOfMiners'  BY <1>1 DEF FoundOwn, RowsOfMiners, Miner
<1>4. RowsKnown'  BY <1>1 DEF RowsKnown, AllResume
<1> QED  BY <1>2, <1>3, <1>4

LEMMA CopyCaptureKeeps ==
  ASSUME Experiment, NEW c \in found, CopyCapture(c) PROVE Experiment'
<1> USE DEF Experiment, CopyCapture, commandVars
<1>1. ThrottleTyped'  BY DEF ThrottleTyped
<1>2. FoundOwn' /\ RowsOfMiners'  BY DEF FoundOwn, RowsOfMiners, Miner
<1>3. RowsKnown'  BY DEF RowsKnown, AllResume
<1> QED  BY <1>1, <1>2, <1>3

LEMMA AppendRowKeeps ==
  ASSUME Experiment, AppendRow PROVE Experiment'
<1> USE DEF Experiment
<1> DEFINE row == [run |-> current, miner |-> Miner, captures |-> found]
<1>1. /\ phase' \in {"plan", "over"} /\ current' \in Nat
      /\ phase' = "plan" => current' = current + 1
  BY NextRunFacts DEF AppendRow
<1>2. /\ phase = "copy" /\ found \subseteq copied /\ manifest' = Append(manifest, row)
      /\ UNCHANGED <<resuming, existing, before, found, miners, copied, captured>>
  BY DEF AppendRow
<1>3. row \in Row /\ Miner \in DOMAIN miners /\ current \in Nat
  BY <1>2 DEF ThrottleTyped, Row, Miner
<1>4. /\ manifest' \in Seq(Row) /\ DOMAIN manifest' = 1..(Len(manifest) + 1)
      /\ DOMAIN manifest = 1..Len(manifest) /\ Len(manifest) \in Nat
      /\ manifest'[Len(manifest) + 1] = row
      /\ \A i \in DOMAIN manifest : manifest'[i] = manifest[i]
  BY <1>2, <1>3 DEF ThrottleTyped
<1>5. ThrottleTyped'
  BY <1>1, <1>2, <1>4 DEF ThrottleTyped
<1>6. FoundOwn'  BY <1>1 DEF FoundOwn
<1>7. RowsOfMiners'
  <2>1. Miner' = Miner  BY <1>2 DEF Miner
  <2>2. \A i \in DOMAIN manifest' :
          /\ manifest'[i].miner \in DOMAIN miners'
          /\ manifest'[i].captures # {} /\ manifest'[i].captures \subseteq copied'
          /\ \A c \in manifest'[i].captures : captured'[c].owner = manifest'[i].miner
    BY <1>2, <1>3, <1>4 DEF RowsOfMiners, FoundOwn
  <2>3. \A i \in DOMAIN manifest : manifest[i].miner < Miner
    BY <1>2, <1>3 DEF RowsOfMiners, ThrottleTyped, Miner
  <2>4. \A i, j \in DOMAIN manifest' :
          i < j => manifest'[i].miner < manifest'[j].miner
    BY <1>4, <2>3 DEF RowsOfMiners
  <2> QED  BY <1>1, <2>2, <2>4 DEF RowsOfMiners
<1>8. RowsKnown'
  <2>1. AllResume' <=> AllResume  BY <1>2 DEF AllResume
  <2>2. resuming # <<>>  BY <1>2 DEF RowsKnown
  <2>3. \A i \in DOMAIN manifest : manifest[i].run \in Nat
    BY RowRuns DEF ThrottleTyped
  <2>4. ASSUME AllResume
        PROVE  \A i \in DOMAIN manifest :
                 manifest[i].run \in existing \/ manifest[i].run < current
    BY <1>2, <2>4 DEF RowsKnown
  <2>5. ASSUME AllResume
        PROVE  \A i \in DOMAIN manifest : manifest[i].run # current
    BY <1>2, <1>3, <2>3, <2>4, <2>5 DEF RowsKnown
  <2>6. ASSUME AllResume, phase' # "over", NEW i \in DOMAIN manifest'
        PROVE  manifest'[i].run \in existing' \/ manifest'[i].run < current'
    BY <1>1, <1>2, <1>3, <1>4, <2>3, <2>4, <2>6
  <2>7. ASSUME AllResume, NEW i \in DOMAIN manifest', NEW j \in DOMAIN manifest',
               manifest'[i].run = manifest'[j].run
        PROVE  i = j
    BY <1>4, <2>5, <2>7 DEF RowsKnown
  <2> QED  BY <1>1, <1>2, <2>1, <2>2, <2>6, <2>7 DEF RowsKnown
<1> QED  BY <1>5, <1>6, <1>7, <1>8

LEMMA DieKeeps ==
  ASSUME Experiment, Die PROVE Experiment'
<1> USE DEF Experiment, Die
<1>1. ThrottleTyped'  BY DEF ThrottleTyped
<1>2. FoundOwn' /\ RowsOfMiners'  BY DEF FoundOwn, RowsOfMiners
<1>3. RowsKnown'  BY DEF RowsKnown, AllResume
<1> QED  BY <1>1, <1>2, <1>3

(* What the collector writes leaves the owners as they are.                *)
LEMMA CollectorKeeps ==
  ASSUME Experiment, captured' \in Seq(Capture),
         DOMAIN captured \subseteq DOMAIN captured',
         \A c \in DOMAIN captured : captured'[c].owner = captured[c].owner,
         UNCHANGED <<commandVars, miners, copied, manifest>>
  PROVE  Experiment'
<1> USE DEF Experiment, commandVars
<1>1. ThrottleTyped'  BY DEF ThrottleTyped
<1>2. FoundOwn'  BY DEF FoundOwn, ThrottleTyped, Miner
<1>3. RowsOfMiners'  BY DEF RowsOfMiners, ThrottleTyped, Miner
<1>4. RowsKnown'  BY DEF RowsKnown, AllResume
<1> QED  BY <1>1, <1>2, <1>3, <1>4

LEMMA OpenCaptureKeeps ==
  ASSUME Experiment, NEW owner \in DOMAIN miners \cup {Other}, OpenCapture(owner)
  PROVE  Experiment'
<1> DEFINE new == [owner |-> owner, process |-> FALSE, events |-> FALSE]
<1>1. new \in Capture  BY DEF Experiment, ThrottleTyped, Capture
<1>2. /\ captured \in Seq(Capture) /\ captured' = Append(captured, new)
  BY DEF Experiment, ThrottleTyped, OpenCapture
<1>3. /\ captured' \in Seq(Capture) /\ DOMAIN captured \subseteq DOMAIN captured'
      /\ \A c \in DOMAIN captured : captured'[c].owner = captured[c].owner
  BY <1>1, <1>2
<1> QED  BY <1>3, CollectorKeeps DEF OpenCapture

LEMMA WriteFileKeeps ==
  ASSUME Experiment, NEW c \in DOMAIN captured, WriteFile(c)
  PROVE  Experiment'
<1>1. captured \in Seq(Capture) /\ captured[c] \in Capture
  BY DEF Experiment, ThrottleTyped
<1>2. PICK new \in Capture :
        new.owner = captured[c].owner /\ captured' = [captured EXCEPT ![c] = new]
  <2>1. CASE captured' = [captured EXCEPT ![c].process = TRUE]
    <3>1. [captured[c] EXCEPT !.process = TRUE] \in Capture  BY <1>1 DEF Capture
    <3> QED  BY <1>1, <2>1, <3>1 DEF Capture
  <2>2. CASE captured' = [captured EXCEPT ![c].events = TRUE]
    <3>1. [captured[c] EXCEPT !.events = TRUE] \in Capture  BY <1>1 DEF Capture
    <3> QED  BY <1>1, <2>2, <3>1 DEF Capture
  <2> QED  BY <2>1, <2>2 DEF WriteFile
<1>3. /\ captured' \in Seq(Capture) /\ DOMAIN captured \subseteq DOMAIN captured'
      /\ \A d \in DOMAIN captured : captured'[d].owner = captured[d].owner
  BY <1>1, <1>2
<1> QED  BY <1>3, CollectorKeeps DEF WriteFile

LEMMA ExperimentKept == Experiment /\ [ThrottleNext]_throttleVars => Experiment'
<1> SUFFICES ASSUME Experiment, [ThrottleNext]_throttleVars PROVE Experiment'
  OBVIOUS
<1>1. CASE UNCHANGED throttleVars
  BY <1>1 DEF throttleVars, commandVars, Experiment, ThrottleTyped, FoundOwn,
              RowsOfMiners, RowsKnown, AllResume, Miner
<1>2. CASE \E c \in found : CopyCapture(c)  BY <1>2, CopyCaptureKeeps
<1>3. CASE \E m \in DOMAIN miners : MinerExits(m)  BY <1>3, MinerExitsKeeps
<1>4. CASE \E owner \in DOMAIN miners \cup {Other} : OpenCapture(owner)
  BY <1>4, OpenCaptureKeeps
<1>5. CASE \E c \in DOMAIN captured : WriteFile(c)  BY <1>5, WriteFileKeeps
<1> QED
  BY <1>1, <1>2, <1>3, <1>4, <1>5, StartCommandKeeps, SkipRunKeeps,
     StartMinerKeeps, SignalKeeps, MinerEndedKeeps, FindKeeps, AppendRowKeeps,
     DieKeeps
  DEF ThrottleNext

LEMMA ExperimentHolds == ThrottleSpec => []Experiment
BY ExperimentInit, ExperimentKept, PTL DEF ThrottleSpec

(* The manifest is right about what it holds, however commands die and are *)
(* resumed (run_capture, existing_keys, drive_duty_cycle).                 *)
THEOREM ManifestRight == ThrottleSpec => []ManifestHoldsOwnRuns
<1>1. Experiment => ManifestHoldsOwnRuns
  <2> SUFFICES ASSUME Experiment PROVE ManifestHoldsOwnRuns
    OBVIOUS
  <2> USE DEF Experiment
  <2>1. \A i, j \in DOMAIN manifest : i < j =>
          manifest[i].captures \cap manifest[j].captures = {}
    <3> SUFFICES ASSUME NEW i \in DOMAIN manifest, NEW j \in DOMAIN manifest, i < j,
                        NEW c \in manifest[i].captures, c \in manifest[j].captures
                 PROVE  FALSE
      OBVIOUS
    <3>1. manifest[i].miner = manifest[j].miner  BY DEF RowsOfMiners
    <3>2. manifest[i].miner \in Nat /\ manifest[i].miner < manifest[j].miner
      BY DEF RowsOfMiners, ThrottleTyped
    <3> QED  BY <3>1, <3>2
  <2>2. \A i, j \in DOMAIN manifest : i < j /\ manifest[i].run = manifest[j].run =>
          \E k \in 2..Len(resuming) : ~resuming[k]
    <3> SUFFICES ASSUME NEW i \in DOMAIN manifest, NEW j \in DOMAIN manifest, i < j,
                        manifest[i].run = manifest[j].run, AllResume
                 PROVE  FALSE
      BY DEF AllResume
    <3>1. i \in Nat  BY DEF ThrottleTyped
    <3> QED  BY <3>1 DEF RowsKnown
  <2>3. phase \in {"wait", "copy"} => miners[Miner] # "stopped"
    BY DEF FoundOwn
  <2> QED  BY <2>1, <2>2, <2>3 DEF ManifestHoldsOwnRuns, RowsOfMiners
<1> QED  BY <1>1, ExperimentHolds, PTL
=============================================================================
