------------------- MODULE MultiTokenSpendingLimitProofs -------------------
(***************************************************************************)
(* Theorems about the multi-token spending limit policy, for every limit,  *)
(* every window, every set of tokens and every history capacity.           *)
(***************************************************************************)
EXTENDS MultiTokenSpendingLimit, FiniteRecursion

-----------------------------------------------------------------------------
(* Running totals.                                                         *)

LEMMA PowLemma ==
  ASSUME NEW n \in Nat PROVE Pow10(n) \in Nat \ {0}
<1> DEFINE V == Nat \ {0}
           step == [a \in (1..n) \X V |-> 10 * a[2]]
           Is(p) == p = [k \in 0..n |-> IF k = 0 THEN 1 ELSE 10 * p[k - 1]]
<1>1. step \in [(1..n) \X V -> V] /\ 1 \in V
  OBVIOUS
<1> HIDE DEF step, V
<1>2. PICK f \in [0..n -> V] : IsRecursion(f, n, 1, step)
  BY <1>1, RecursionExists
<1>3. Is(f)
  <2>1. \A k \in 1..n : step[<<k, f[k - 1]>>] = 10 * f[k - 1]
    BY DEF step
  <2>2. ASSUME NEW k \in 0..n PROVE f[k] = IF k = 0 THEN 1 ELSE 10 * f[k - 1]
    <3>1. f[k] = IF k = 0 THEN 1 ELSE step[<<k, f[k - 1]>>]
      BY <1>2 DEF IsRecursion
    <3>2. k # 0 => k \in 1..n
      OBVIOUS
    <3>3. QED
      BY <2>1, <3>1, <3>2
  <2>3. QED
    BY <2>2
<1> DEFINE power == CHOOSE p : Is(p)
<1>4. Is(power)
  BY <1>3
<1>5. Pow10(n) = power[n]
  BY DEF Pow10
<1> HIDE DEF power
<1> DEFINE S == {k \in Nat : k <= n => power[k] \in V}
<1>6. power[0] = 1 /\ \A k \in 1..n : power[k] = 10 * power[k - 1]
  BY <1>4
<1> HIDE DEF Is
<1>7. 0 \in S
  BY <1>1, <1>6
<1>8. \A k \in 0..(n - 1) : k \in S => k + 1 \in S
  <2> SUFFICES ASSUME NEW k \in 0..(n - 1), power[k] \in V PROVE power[k + 1] \in V
    OBVIOUS
  <2>1. power[k + 1] = 10 * power[k]
    BY <1>6
  <2>2. QED
    BY <2>1 DEF V
<1>9. n \in S
  <2> HIDE DEF S
  <2>1. \A k \in 0..n : k \in S
    BY <1>7, <1>8, BoundedInduction
  <2>2. QED
    BY <2>1
<1>10. QED
  BY <1>5, <1>9 DEF V

Histories == Seq(SpendingEntry)

AmountsOf(h) == [k \in 1..Len(h) |-> h[k].amount_usd]

LEMMA HistoryLemma ==
  ASSUME NEW h \in Histories
  PROVE  /\ Len(h) \in Nat
         /\ \A k \in 1..Len(h) : h[k].amount_usd \in Nat /\ h[k].ledger \in Nat
         /\ AmountsOf(h) \in [1..Len(h) -> Nat]
<1>1. Len(h) \in Nat
  BY DEF Histories
<1>2. \A k \in 1..Len(h) : h[k] \in SpendingEntry
  BY DEF Histories
<1>3. \A k \in 1..Len(h) : h[k].amount_usd \in Nat /\ h[k].ledger \in Nat
  BY <1>2 DEF SpendingEntry
<1>4. QED
  BY <1>1, <1>3 DEF AmountsOf

(* UsdTotals solves its recursion.                                         *)
LEMMA UsdTotalsLemma ==
  ASSUME NEW h \in Histories
  PROVE  IsPrefixSum(UsdTotals(h), Len(h), AmountsOf(h))
<1> DEFINE n == Len(h)
           Is(p) == p = [k \in 0..n |-> IF k = 0 THEN 0 ELSE p[k - 1] + h[k].amount_usd]
<1>1. n \in Nat /\ AmountsOf(h) \in [1..n -> Nat]
  BY HistoryLemma
<1>2. UsdTotals(h) = CHOOSE p : Is(p)
  BY DEF UsdTotals
<1>3. \A k \in 1..n : AmountsOf(h)[k] = h[k].amount_usd
  BY DEF AmountsOf
<1> HIDE DEF n
<1>4. ASSUME NEW p PROVE IsPrefixSum(p, n, AmountsOf(h)) <=> Is(p)
  <2>1. \A k \in 0..n : (IF k = 0 THEN 0 ELSE p[k - 1] + AmountsOf(h)[k])
                         = (IF k = 0 THEN 0 ELSE p[k - 1] + h[k].amount_usd)
    BY <1>1, <1>3
  <2>2. [k \in 0..n |-> IF k = 0 THEN 0 ELSE p[k - 1] + AmountsOf(h)[k]]
          = [k \in 0..n |-> IF k = 0 THEN 0 ELSE p[k - 1] + h[k].amount_usd]
    BY <2>1
  <2>3. QED
    BY <2>2 DEF IsPrefixSum
<1>5. PICK f : IsPrefixSum(f, n, AmountsOf(h))
  BY <1>1, PrefixSumExists
<1>6. Is(UsdTotals(h))
  <2>1. Is(f)
    BY <1>4, <1>5
  <2> HIDE DEF Is
  <2>2. QED
    BY <1>2, <2>1
<1>7. IsPrefixSum(UsdTotals(h), n, AmountsOf(h))
  <2> HIDE DEF Is
  <2>1. QED
    BY <1>4, <1>6
<1>8. QED
  BY <1>7 DEF n

LEMMA SaturateLemma ==
  ASSUME NEW x \in Int
  PROVE  /\ Saturate(x) \in Int
         /\ x \in 0..I128_MAX => Saturate(x) = x
  BY CodeAssumption DEF Saturate

(* removed_total is an integer, and the exact sum as long as that fits.    *)
LEMMA RemovedLemma ==
  ASSUME NEW h \in Histories, NEW e \in 0..Len(h)
  PROVE  /\ RemovedTotals(h)[e] \in Int
         /\ UsdTotals(h)[Len(h)] <= I128_MAX => RemovedTotals(h)[e] = UsdTotals(h)[e]
<1> DEFINE n == Len(h)
           a == AmountsOf(h)
           total == UsdTotals(h)
           removed == RemovedTotals(h)
           Is(p) == p = [k \in 0..n |->
                           IF k = 0 THEN 0 ELSE Saturate(p[k - 1] + h[k].amount_usd)]
           step == [x \in (1..n) \X Int |-> Saturate(x[2] + a[x[1]])]
<1>1. n \in Nat /\ a \in [1..n -> Nat] /\ e \in 0..n
  BY HistoryLemma
<1>2. removed = CHOOSE p : Is(p)
  BY DEF RemovedTotals
<1>3. \A k \in 1..n : a[k] = h[k].amount_usd
  BY DEF AmountsOf
<1>4. /\ total \in [0..n -> Nat] /\ total[0] = 0
      /\ \A k \in 1..n : total[k] = total[k - 1] + a[k]
      /\ \A k \in 0..n : total[k] <= total[n]
  <2>1. IsPrefixSum(total, n, a)
    BY UsdTotalsLemma
  <2> HIDE DEF n, a, total
  <2>2. n \in 0..n
    BY <1>1
  <2>3. \A k \in 0..n : total[k] <= total[n]
    BY <1>1, <2>1, <2>2, PrefixSumMonotone
  <2>4. QED
    BY <1>1, <2>1, <2>3, PrefixSumLemma
<1> HIDE DEF n, a, total
<1>5. \E p : Is(p)
  <2>1. step \in [(1..n) \X Int -> Int]
    <3>1. ASSUME NEW x \in (1..n) \X Int PROVE Saturate(x[2] + a[x[1]]) \in Int
      <4>1. x[2] + a[x[1]] \in Int
        BY <1>1
      <4>2. QED
        BY <4>1, SaturateLemma
    <3>2. QED
      BY <3>1
  <2>2. \A k \in 1..n, v \in Int : step[<<k, v>>] = Saturate(v + h[k].amount_usd)
    BY <1>3
  <2> HIDE DEF step
  <2>3. PICK f \in [0..n -> Int] : IsRecursion(f, n, 0, step)
    <3> DEFINE V == Int
    <3>1. 0 \in V /\ step \in [(1..n) \X V -> V]
      BY <2>1
    <3> HIDE DEF V
    <3>2. \E f \in [0..n -> V] : IsRecursion(f, n, 0, step)
      BY <1>1, <3>1, RecursionExists
    <3>3. QED
      BY <3>2 DEF V
  <2>4. ASSUME NEW k \in 0..n
        PROVE  f[k] = IF k = 0 THEN 0 ELSE Saturate(f[k - 1] + h[k].amount_usd)
    <3>1. f[k] = IF k = 0 THEN 0 ELSE step[<<k, f[k - 1]>>]
      BY <2>3 DEF IsRecursion
    <3>2. CASE k = 0
      BY <3>1, <3>2
    <3>3. CASE k # 0
      <4>1. k \in 1..n /\ f[k - 1] \in Int
        BY <1>1, <3>3
      <4>2. step[<<k, f[k - 1]>>] = Saturate(f[k - 1] + h[k].amount_usd)
        BY <2>2, <4>1
      <4>3. QED
        BY <3>1, <3>3, <4>2
    <3>4. QED
      BY <3>2, <3>3
  <2>5. Is(f)
    BY <2>4
  <2>6. QED
    BY <2>5
<1>6. Is(removed)
  <2> HIDE DEF Is, removed
  <2>1. QED
    BY <1>2, <1>5
<1> HIDE DEF removed
<1>7. removed[0] = 0 /\ \A k \in 1..n : removed[k] = Saturate(removed[k - 1] + a[k])
  BY <1>1, <1>3, <1>6
<1> HIDE DEF Is, step
<1> DEFINE S == {k \in Nat : /\ removed[k] \in Int
                             /\ total[n] <= I128_MAX => removed[k] = total[k]}
<1>8. 0 \in S
  BY <1>4, <1>7
<1>9. \A k \in 0..(n - 1) : k \in S => k + 1 \in S
  <2> SUFFICES ASSUME NEW k \in 0..(n - 1), k \in S PROVE k + 1 \in S
    OBVIOUS
  <2>1. k + 1 \in 1..n /\ (k + 1) - 1 = k /\ k + 1 \in 0..n /\ k \in 0..n /\ n \in 0..n
    BY <1>1
  <2>2. removed[k + 1] = Saturate(removed[k] + a[k + 1])
    BY <1>7, <2>1
  <2>3. a[k + 1] \in Nat /\ removed[k] + a[k + 1] \in Int
    BY <1>1, <2>1
  <2>4. removed[k + 1] \in Int
    BY <2>2, <2>3, SaturateLemma
  <2>5. ASSUME total[n] <= I128_MAX PROVE removed[k + 1] = total[k + 1]
    <3>1. removed[k] + a[k + 1] = total[k + 1]
      BY <1>4, <2>1, <2>5
    <3>2. total[k + 1] \in 0..I128_MAX
      BY <1>4, <2>1, <2>5, CodeAssumption
    <3>3. QED
      BY <2>2, <2>3, <3>1, <3>2, SaturateLemma
  <2>6. QED
    BY <2>1, <2>4, <2>5
<1>10. e \in S
  <2> HIDE DEF S
  <2>1. QED
    BY <1>1, <1>8, <1>9, BoundedInduction
<1>11. QED
  BY <1>10 DEF removed, total, n

-----------------------------------------------------------------------------
(* Eviction.                                                               *)

LEMMA CutoffLemma ==
  ASSUME NEW l \in Nat, NEW period \in Nat \ {0}
  PROVE  /\ Cutoff(l, period) \in Nat
         /\ l > 0 => Cutoff(l, period) < l
         /\ Cutoff(l, period) <= Cutoff(l + 1, period)
         /\ \A m \in Nat : l <= m => Cutoff(l, period) <= Cutoff(m, period)
         /\ l \in Ledgers => Cutoff(l, period) \in Ledgers
  BY LedgerAssumption DEF Cutoff, Ledgers

(* The loop's end exists: it pops a prefix of expired entries and stops at *)
(* the first entry that is not.                                            *)
LEMMA EvictLemma ==
  ASSUME NEW h \in Histories, NEW cutoff \in Nat
  PROVE  /\ EvictedCount(h, cutoff) \in 0..Len(h)
         /\ \A i \in 1..EvictedCount(h, cutoff) : h[i].ledger <= cutoff
         /\ EvictedCount(h, cutoff) < Len(h)
              => h[EvictedCount(h, cutoff) + 1].ledger > cutoff
<1> DEFINE n == Len(h)
           Stops == {m \in 0..n : m < n => h[m + 1].ledger > cutoff}
           Is(m) == /\ \A i \in 1..m : h[i].ledger <= cutoff
                    /\ m < n => h[m + 1].ledger > cutoff
<1>1. n \in Nat /\ \A k \in 1..n : h[k].ledger \in Nat
  BY HistoryLemma
<1> HIDE DEF n
<1>2. Stops \subseteq Nat /\ n \in Stops
  BY <1>1
<1>3. PICK m \in Stops : \A k \in Stops : m <= k
  <2> HIDE DEF Stops
  <2>1. QED
    BY <1>2, LeastNat
<1>4. m \in 0..n /\ Is(m)
  <2>1. ASSUME NEW i \in 1..m PROVE h[i].ledger <= cutoff
    <3>1. i - 1 \in 0..n /\ i - 1 < n /\ (i - 1) + 1 = i /\ i \in 1..n /\ ~(m <= i - 1)
      BY <1>1, <1>3
    <3>2. i - 1 \notin Stops
      BY <1>3, <3>1
    <3>3. QED
      BY <1>1, <3>1, <3>2
  <2>2. QED
    BY <1>3, <2>1
<1>5. EvictedCount(h, cutoff) = CHOOSE k \in 0..n : Is(k)
  BY DEF EvictedCount, n
<1>6. EvictedCount(h, cutoff) \in 0..n /\ Is(EvictedCount(h, cutoff))
  <2> HIDE DEF Is
  <2>1. QED
    BY <1>4, <1>5
<1>7. QED
  BY <1>6 DEF n

Sorted(h) ==
  \A i, j \in 1..Len(h) : i <= j => h[i].ledger <= h[j].ledger

Unsaturated(data) ==
  LET h == data.spending_history
  IN  /\ data.cached_total_spent_usd = UsdTotals(h)[Len(h)]
      /\ UsdTotals(h)[Len(h)] <= I128_MAX

LEMMA PolicyDataFields ==
  ASSUME NEW d \in PolicyData
  PROVE  /\ d.spending_limit_usd \in Nat \ {0} /\ d.period_ledgers \in Nat \ {0}
         /\ d.usd_divisor \in Nat \ {0} /\ d.allowed_tokens \in Seq(Contracts)
         /\ d.token_divisors \in Seq(Nat \ {0})
         /\ d.spending_history \in Histories /\ d.cached_total_spent_usd \in Int
  BY DEF PolicyData, Histories

(* What cleanup_old_entries leaves: the younger suffix of the history and  *)
(* a cached total that has lost exactly the evicted amounts.               *)
LEMMA CleanLemma ==
  ASSUME NEW d \in PolicyData, Sorted(d.spending_history), NEW l \in Nat
  PROVE  LET h == d.spending_history
             c == Cutoff(l, d.period_ledgers)
             e == EvictedCount(h, c)
             d1 == CleanedUp(d, l)
             h1 == d1.spending_history
         IN  /\ e \in 0..Len(h)
             /\ \A k \in 1..e : h[k].ledger <= c
             /\ d1 \in PolicyData
             /\ d1 = [d EXCEPT !.spending_history = h1,
                               !.cached_total_spent_usd = d1.cached_total_spent_usd]
             /\ h1 \in Histories
             /\ Len(h1) = Len(h) - e
             /\ \A k \in 1..Len(h1) : h1[k] = h[e + k] /\ h1[k].ledger > c
             /\ \A k \in 0..Len(h1) :
                  UsdTotals(h1)[k] = UsdTotals(h)[e + k] - UsdTotals(h)[e]
             /\ Unsaturated(d) =>
                  d1.cached_total_spent_usd = UsdTotals(h)[Len(h)] - UsdTotals(h)[e]
<1> DEFINE h == d.spending_history
           c == Cutoff(l, d.period_ledgers)
           e == EvictedCount(h, c)
           d1 == CleanedUp(d, l)
           n == Len(h)
           h1 == SubSeq(h, e + 1, n)
<1>1. h \in Histories /\ n \in Nat /\ c \in Nat
  BY PolicyDataFields, HistoryLemma, CutoffLemma
<1> HIDE DEF c
<1>2. /\ e \in 0..n /\ \A k \in 1..e : h[k].ledger <= c
      /\ e < n => h[e + 1].ledger > c
  BY <1>1, EvictLemma
<1>3. d1 = [d EXCEPT !.spending_history = h1,
                     !.cached_total_spent_usd =
                        Saturate(d.cached_total_spent_usd - RemovedTotals(h)[e])]
  BY DEF CleanedUp, c
<1> HIDE DEF e
<1>4. h1 \in Histories /\ Len(h1) = n - e /\ \A k \in 1..(n - e) : h1[k] = h[e + k]
  BY <1>1, <1>2 DEF Histories
<1>5. ASSUME NEW k \in 1..(n - e) PROVE h1[k].ledger > c
  <2>1. e + 1 \in 1..n /\ e + k \in 1..n /\ e + 1 <= e + k /\ e < n
    BY <1>1, <1>2
  <2>2. h[e + 1].ledger <= h[e + k].ledger
    BY <2>1 DEF Sorted
  <2>3. h[e + 1].ledger \in Nat /\ h[e + k].ledger \in Nat
    BY <1>1, <2>1, HistoryLemma
  <2>4. h1[k] = h[e + k]
    BY <1>4
  <2>5. QED
    BY <1>1, <1>2, <2>1, <2>2, <2>3, <2>4
<1>6. /\ d.cached_total_spent_usd \in Int /\ RemovedTotals(h)[e] \in Int
      /\ UsdTotals(h)[n] <= I128_MAX => RemovedTotals(h)[e] = UsdTotals(h)[e]
  BY <1>1, <1>2, RemovedLemma, PolicyDataFields
<1>7. Saturate(d.cached_total_spent_usd - RemovedTotals(h)[e]) \in Int
  BY <1>6, SaturateLemma
<1>8. /\ d1 \in PolicyData
      /\ d1.spending_history = h1
      /\ d1.cached_total_spent_usd
           = Saturate(d.cached_total_spent_usd - RemovedTotals(h)[e])
  BY <1>3, <1>4, <1>7 DEF PolicyData, Histories
<1>9. /\ UsdTotals(h) \in [0..n -> Nat]
      /\ \A k \in 0..n : UsdTotals(h)[k] <= UsdTotals(h)[n]
      /\ \A k \in 0..(n - e) :
           UsdTotals(h1)[k] = UsdTotals(h)[e + k] - UsdTotals(h)[e]
  <2> DEFINE a == AmountsOf(h)
             b == AmountsOf(h1)
  <2>1. a \in [1..n -> Nat] /\ IsPrefixSum(UsdTotals(h), n, a)
    BY <1>1, HistoryLemma, UsdTotalsLemma
  <2>2. b \in [1..(n - e) -> Nat] /\ IsPrefixSum(UsdTotals(h1), n - e, b)
    <3> HIDE DEF h1, h, n
    <3>1. QED
      BY <1>4, HistoryLemma, UsdTotalsLemma
  <2>3. \A k \in 1..(n - e) : b[k] = a[e + k]
    <3> HIDE DEF h1, h
    <3>1. ASSUME NEW k \in 1..(n - e) PROVE b[k] = a[e + k]
      <4>1. e + k \in 1..n
        BY <1>1, <1>2
      <4>2. b[k] = h1[k].amount_usd
        BY <1>4 DEF AmountsOf
      <4>3. a[e + k] = h[e + k].amount_usd
        BY <4>1 DEF AmountsOf
      <4>4. QED
        BY <1>4, <4>2, <4>3
    <3>2. QED
      BY <3>1
  <2> HIDE DEF a, b, h, h1, n
  <2>4. n \in 0..n
    BY <1>1
  <2>5. UsdTotals(h) \in [0..n -> Nat]
    BY <1>1, <2>1, PrefixSumLemma
  <2>6. \A k \in 0..n : UsdTotals(h)[k] <= UsdTotals(h)[n]
    BY <1>1, <2>1, <2>4, PrefixSumMonotone
  <2>7. \A k \in 0..(n - e) : UsdTotals(h1)[k] = UsdTotals(h)[e + k] - UsdTotals(h)[e]
    <3> DEFINE m == n - e
               p == UsdTotals(h)
               q == UsdTotals(h1)
    <3>1. /\ n \in Nat /\ a \in [1..n -> Nat] /\ IsPrefixSum(p, n, a)
          /\ e \in 0..n /\ m \in Nat /\ e + m <= n
          /\ b \in [1..m -> Nat] /\ IsSegment(b, a, e, m)
          /\ IsPrefixSum(q, m, b)
      BY <1>1, <1>2, <2>1, <2>2, <2>3 DEF IsSegment
    <3> HIDE DEF m, p, q
    <3>2. IsShifted(q, p, e, m)
      BY <3>1, PrefixSumSuffix
    <3>3. QED
      BY <3>2 DEF IsShifted, m, p, q
  <2>8. QED
    BY <2>5, <2>6, <2>7
<1>10. ASSUME Unsaturated(d)
       PROVE  d1.cached_total_spent_usd = UsdTotals(h)[n] - UsdTotals(h)[e]
  <2>1. d.cached_total_spent_usd = UsdTotals(h)[n] /\ UsdTotals(h)[n] <= I128_MAX
    BY <1>10 DEF Unsaturated
  <2>2. UsdTotals(h)[n] - UsdTotals(h)[e] \in 0..I128_MAX
    <3>1. UsdTotals(h)[n] \in Nat /\ UsdTotals(h)[e] \in Nat
          /\ UsdTotals(h)[e] <= UsdTotals(h)[n]
      BY <1>1, <1>2, <1>9
    <3>2. QED
      BY <2>1, <3>1, CodeAssumption
  <2>3. QED
    BY <1>6, <1>8, <2>1, <2>2, SaturateLemma
<1>11. d1 = [d EXCEPT !.spending_history = d1.spending_history,
                      !.cached_total_spent_usd = d1.cached_total_spent_usd]
  BY <1>3, <1>8
<1> HIDE DEF d1, h, h1, n
<1>12. QED
  BY <1>2, <1>4, <1>5, <1>8, <1>9, <1>10, <1>11 DEF d1, h, n, e, c

(* The running totals of a history.                                        *)
LEMMA TotalsLemma ==
  ASSUME NEW h \in Histories
  PROVE  /\ UsdTotals(h) \in [0..Len(h) -> Nat]
         /\ UsdTotals(h)[0] = 0
  BY UsdTotalsLemma, HistoryLemma, PrefixSumLemma

(* What recording a spend adds.                                            *)
LEMMA RecordLemma ==
  ASSUME NEW d \in PolicyData, NEW usd \in Nat, ledger \in Nat
  PROVE  LET h  == d.spending_history
             n  == Len(h)
             d2 == Record(d, usd)
             h2 == d2.spending_history
         IN  /\ d2 \in PolicyData
             /\ d2 = [d EXCEPT !.spending_history = h2,
                               !.cached_total_spent_usd = d2.cached_total_spent_usd]
             /\ h2 \in Histories
             /\ Len(h2) = n + 1
             /\ \A k \in 1..n : h2[k] = h[k]
             /\ h2[n + 1].ledger = ledger
             /\ IsSumExtension(UsdTotals(h2), UsdTotals(h), n, usd)
             /\ d2.cached_total_spent_usd = Saturate(d.cached_total_spent_usd + usd)
<1> DEFINE h  == d.spending_history
           n  == Len(h)
           entry == [amount_usd |-> usd, ledger |-> ledger]
           h2 == Append(h, entry)
           d2 == Record(d, usd)
           sum == Saturate(d.cached_total_spent_usd + usd)
<1>1. h \in Histories /\ n \in Nat /\ entry \in SpendingEntry
  BY PolicyDataFields, HistoryLemma DEF SpendingEntry
<1>2. d2 = [d EXCEPT !.spending_history = h2, !.cached_total_spent_usd = sum]
  BY DEF Record
<1>3. sum \in Int
  BY PolicyDataFields, SaturateLemma
<1> HIDE DEF entry, sum
<1>4. /\ h2 \in Histories /\ Len(h2) = n + 1
      /\ \A k \in 1..n : h2[k] = h[k]
      /\ h2[n + 1] = entry
  BY <1>1 DEF Histories
<1> HIDE DEF h2
<1>5. /\ d2 \in PolicyData /\ d2.spending_history = h2
      /\ d2.cached_total_spent_usd = sum
  BY <1>2, <1>3, <1>4 DEF PolicyData, Histories
<1> HIDE DEF h, n
<1>6. IsSumExtension(UsdTotals(h2), UsdTotals(h), n, usd)
  <2> DEFINE a == AmountsOf(h)
             b == AmountsOf(h2)
             p == UsdTotals(h)
             q == UsdTotals(h2)
  <2>1. a \in [1..n -> Nat] /\ IsPrefixSum(p, n, a)
    BY <1>1, HistoryLemma, UsdTotalsLemma DEF n
  <2>2. b \in [1..(n + 1) -> Nat] /\ IsPrefixSum(q, n + 1, b)
    BY <1>4, HistoryLemma, UsdTotalsLemma
  <2>3. IsExtension(b, a, n, usd)
    <3>1. ASSUME NEW k \in 1..n PROVE b[k] = a[k]
      <4>1. b[k] = h2[k].amount_usd
        BY <1>1, <1>4 DEF AmountsOf
      <4>2. a[k] = h[k].amount_usd
        BY DEF AmountsOf, n
      <4>3. QED
        BY <1>4, <4>1, <4>2
    <3>2. b[n + 1] = usd
      <4>1. n + 1 \in 1..Len(h2)
        BY <1>1, <1>4
      <4>2. b[n + 1] = h2[n + 1].amount_usd
        BY <4>1 DEF AmountsOf
      <4>3. QED
        BY <1>4, <4>2 DEF entry
    <3>3. QED
      BY <3>1, <3>2 DEF IsExtension
  <2> HIDE DEF a, b, p, q
  <2>4. IsSumExtension(q, p, n, usd)
    BY <1>1, <2>1, <2>2, <2>3, PrefixSumAppend
  <2>5. QED
    BY <2>4 DEF p, q
<1>7. h2[n + 1].ledger = ledger
  BY <1>4 DEF entry
<1>8. d2 = [d EXCEPT !.spending_history = h2, !.cached_total_spent_usd = sum]
  BY <1>2
<1> HIDE DEF d2
<1>9. QED
  BY <1>4, <1>5, <1>6, <1>7, <1>8 DEF h, n, d2, sum

-----------------------------------------------------------------------------
(* The inductive invariant of one installation: `d` is its PolicyData, `u` *)
(* its ledger-by-ledger cumulative spend (a history variable) and `l` the  *)
(* current ledger.                                                         *)

(* The first i entries of h are from ledgers up to t, the rest are younger. *)
Splits(h, i, t) ==
  /\ \A k \in 1..i : h[k].ledger <= t
  /\ \A k \in (i + 1)..Len(h) : h[k].ledger > t

(* Where a ledger not before the cutoff splits the cleaned-up history, it  *)
(* splits the original one as many entries later as were evicted.          *)
LEMMA CleanedSplits ==
  ASSUME NEW d \in PolicyData, Sorted(d.spending_history), NEW l \in Nat,
         NEW t \in Ledgers, t >= Cutoff(l, d.period_ledgers),
         NEW i \in 0..Len(CleanedUp(d, l).spending_history),
         Splits(CleanedUp(d, l).spending_history, i, t)
  PROVE  LET h == d.spending_history
             e == EvictedCount(h, Cutoff(l, d.period_ledgers))
         IN  e + i \in 0..Len(h) /\ Splits(h, e + i, t)
<1> DEFINE h == d.spending_history
           n == Len(h)
           c == Cutoff(l, d.period_ledgers)
           e == EvictedCount(h, c)
           h1 == CleanedUp(d, l).spending_history
           m == Len(h1)
<1>1. /\ e \in 0..n /\ m = n - e
      /\ \A k \in 1..e : h[k].ledger <= c
      /\ \A k \in 1..m : h1[k] = h[e + k]
  BY CleanLemma
<1>2. n \in Nat /\ \A k \in 1..n : h[k].ledger \in Nat
  BY PolicyDataFields, HistoryLemma
<1>3. t \in Nat /\ c \in Nat /\ t >= c /\ i \in 0..m /\ Splits(h1, i, t)
  <2>1. t \in Nat
    BY LedgerAssumption DEF Ledgers
  <2>2. d.period_ledgers \in Nat \ {0}
    BY PolicyDataFields
  <2>3. c \in Nat
    BY <2>2, CutoffLemma
  <2>4. QED
    BY <2>1, <2>3
<1> HIDE DEF h, n, c, e, h1, m
<1>4. e + i \in 0..n
  BY <1>1, <1>2, <1>3
<1>5. ASSUME NEW k \in 1..(e + i) PROVE h[k].ledger <= t
  <2>1. CASE k <= e
    <3>1. k \in 1..e /\ k \in 1..n
      BY <1>1, <1>2, <1>4, <2>1
    <3>2. h[k].ledger <= c /\ h[k].ledger \in Nat
      BY <1>1, <1>2, <3>1
    <3>3. QED
      BY <1>3, <3>2
  <2>2. CASE k > e
    <3>1. k - e \in 1..i /\ k - e \in 1..m /\ e + (k - e) = k
      BY <1>1, <1>2, <1>3, <1>4, <2>2
    <3>2. h1[k - e] = h[e + (k - e)] /\ h1[k - e].ledger <= t
      BY <1>1, <1>3, <3>1 DEF Splits
    <3>3. QED
      BY <3>1, <3>2
  <2>3. QED
    BY <1>1, <2>1, <2>2
<1>6. ASSUME NEW k \in ((e + i) + 1)..n PROVE h[k].ledger > t
  <2>1. k - e \in (i + 1)..m /\ k - e \in 1..m /\ e + (k - e) = k
    BY <1>1, <1>2, <1>3
  <2>2. h1[k - e] = h[e + (k - e)] /\ h1[k - e].ledger > t
    BY <1>1, <1>3, <2>1 DEF Splits, m
  <2>3. QED
    BY <2>1, <2>2
<1>7. Splits(h, e + i, t)
  BY <1>5, <1>6 DEF Splits, n
<1>8. QED
  BY <1>4, <1>7 DEF h, n, e, c

(* From the current ledger on nothing of a history with a new entry is     *)
(* younger; before it, the new entry is, and the rest splits as it did.    *)
LEMMA RecordedSplits ==
  ASSUME NEW d \in PolicyData, NEW usd \in Nat, ledger \in Nat, NEW t \in Ledgers,
         NEW i \in 0..(Len(d.spending_history) + 1),
         Splits(Record(d, usd).spending_history, i, t)
  PROVE  LET h == d.spending_history
         IN  /\ t >= ledger => i = Len(h) + 1
             /\ t < ledger => i \in 0..Len(h) /\ Splits(h, i, t)
<1> DEFINE h == d.spending_history
           n == Len(h)
           h2 == Record(d, usd).spending_history
<1>1. /\ Len(h2) = n + 1 /\ \A k \in 1..n : h2[k] = h[k]
      /\ h2[n + 1].ledger = ledger
  BY RecordLemma
<1>2. n \in Nat /\ t \in Nat /\ i \in 0..(n + 1) /\ Splits(h2, i, t)
  BY PolicyDataFields, HistoryLemma DEF Ledgers
<1> HIDE DEF h, n, h2
<1>3. ASSUME t >= ledger PROVE i = n + 1
  <2>1. i # n + 1 => n + 1 \in (i + 1)..(n + 1)
    BY <1>2
  <2>2. i # n + 1 => ledger > t
    BY <1>1, <1>2, <2>1 DEF Splits
  <2>3. QED
    BY <1>2, <1>3, <2>2
<1>4. ASSUME t < ledger PROVE i \in 0..n /\ Splits(h, i, t)
  <2>1. i = n + 1 => n + 1 \in 1..i
    BY <1>2
  <2>2. i = n + 1 => ledger <= t
    BY <1>1, <1>2, <2>1 DEF Splits
  <2>3. i \in 0..n
    BY <1>2, <1>4, <2>2
  <2>4. ASSUME NEW k \in 1..i PROVE h[k].ledger <= t
    <3>1. k \in 1..n
      BY <1>2, <2>3
    <3>2. QED
      BY <1>1, <1>2, <3>1 DEF Splits
  <2>5. ASSUME NEW k \in (i + 1)..n PROVE h[k].ledger > t
    <3>1. k \in 1..n /\ k \in (i + 1)..(n + 1)
      BY <1>2, <2>3
    <3>2. QED
      BY <1>1, <1>2, <3>1 DEF Splits
  <2>6. QED
    BY <2>3, <2>4, <2>5 DEF Splits, n
<1>5. QED
  BY <1>3, <1>4 DEF h, n

(* The history explains every spend since the cutoff: what was spent after *)
(* ledger t is the sum of the entries younger than t.                      *)
Explains(h, u, cutoff) ==
  \A t \in Ledgers, i \in 0..Len(h) :
    t >= cutoff /\ Splits(h, i, t) =>
      u[MaxLedger] - u[t] = UsdTotals(h)[Len(h)] - UsdTotals(h)[i]

(* Cumulative spend grows with the ledger and stands still from l on.      *)
Cumulative(u, l) ==
  /\ u \in [Ledgers -> Nat]
  /\ \A t \in Ledgers : t >= l => u[t] = u[MaxLedger]
  /\ \A s, t \in Ledgers : s <= t => u[s] <= u[t]

(* Entries lie in the past, in the order of their ledgers.                 *)
Chronicle(h, l) ==
  /\ Sorted(h)
  /\ \A k \in 1..Len(h) : FirstLedger <= h[k].ledger /\ h[k].ledger <= l

WindowsBounded(d, u) ==
  \A t \in Ledgers : u[t] - u[Cutoff(t, d.period_ledgers)] <= d.spending_limit_usd

KeyInv(d, u, l) ==
  LET h == d.spending_history
  IN  /\ d \in PolicyData
      /\ Len(d.token_divisors) = Len(d.allowed_tokens)
      /\ Len(h) <= MAX_HISTORY_ENTRIES
      /\ Chronicle(h, l)
      /\ Cumulative(u, l)
      /\ Explains(h, u, Cutoff(l, d.period_ledgers))
      /\ Bounded(d) =>
           /\ d.cached_total_spent_usd = UsdTotals(h)[Len(h)]
           /\ UsdTotals(h)[Len(h)] <= d.spending_limit_usd
           /\ WindowsBounded(d, u)

(* The invariant survives the passing of a ledger.                         *)
LEMMA KeyInvLedger ==
  ASSUME NEW d, NEW u, NEW l \in Ledgers, l + 1 \in Ledgers, KeyInv(d, u, l)
  PROVE  KeyInv(d, u, l + 1)
<1> DEFINE h == d.spending_history
<1>1. l \in Nat
  BY LedgerAssumption DEF Ledgers
<1>2. d \in PolicyData /\ h \in Histories /\ d.period_ledgers \in Nat \ {0}
  BY PolicyDataFields DEF KeyInv
<1>3. Cumulative(u, l + 1)
  BY <1>1, LedgerAssumption DEF KeyInv, Cumulative, Ledgers
<1>4. Chronicle(h, l + 1)
  <2>1. \A k \in 1..Len(h) : h[k].ledger \in Nat
    BY <1>2, HistoryLemma
  <2> HIDE DEF h
  <2>2. Chronicle(h, l)
    BY DEF KeyInv, h
  <2>3. QED
    BY <1>1, <2>1, <2>2 DEF Chronicle
<1>5. Explains(h, u, Cutoff(l + 1, d.period_ledgers))
  <2>1. /\ Cutoff(l, d.period_ledgers) <= Cutoff(l + 1, d.period_ledgers)
        /\ Cutoff(l, d.period_ledgers) \in Nat
        /\ Cutoff(l + 1, d.period_ledgers) \in Nat
    BY <1>1, <1>2 DEF Cutoff
  <2>2. \A t \in Ledgers : t \in Int
    BY DEF Ledgers
  <2>3. Explains(h, u, Cutoff(l, d.period_ledgers))
    BY DEF KeyInv
  <2> HIDE DEF h
  <2>4. \A t \in Ledgers : t >= Cutoff(l + 1, d.period_ledgers)
                            => t >= Cutoff(l, d.period_ledgers)
    BY <2>1, <2>2
  <2>5. QED
    BY <2>3, <2>4 DEF Explains
<1>6. QED
  BY <1>3, <1>4, <1>5 DEF KeyInv

(* A fresh installation.                                                   *)
LEMMA KeyInvFresh ==
  ASSUME NEW d \in PolicyData, NEW l \in Ledgers, NEW u,
         d.spending_history = <<>>, d.cached_total_spent_usd = 0,
         Len(d.token_divisors) = Len(d.allowed_tokens),
         u = [t \in Ledgers |-> 0]
  PROVE  KeyInv(d, u, l)
<1> DEFINE h == d.spending_history
<1>1. /\ h \in Histories /\ Len(h) = 0 /\ d.period_ledgers \in Nat \ {0}
      /\ d.spending_limit_usd \in Nat
  BY PolicyDataFields
<1>2. UsdTotals(h)[0] = 0
  BY <1>1, TotalsLemma
<1> HIDE DEF h
<1>3. MaxLedger \in Ledgers /\ \A t \in Ledgers : t \in Nat
  BY LedgerAssumption DEF Ledgers
<1>4. Cumulative(u, l)
  BY <1>3 DEF Cumulative
<1>5. Chronicle(h, l)
  BY <1>1 DEF Chronicle, Sorted
<1>6. Explains(h, u, Cutoff(l, d.period_ledgers))
  <2>1. \A i \in 0..Len(h) : i = 0
    BY <1>1
  <2>2. QED
    BY <1>1, <1>2, <1>3, <2>1 DEF Explains
<1>7. WindowsBounded(d, u)
  <2>1. ASSUME NEW t \in Ledgers
        PROVE  u[t] - u[Cutoff(t, d.period_ledgers)] <= d.spending_limit_usd
    <3>1. Cutoff(t, d.period_ledgers) \in Ledgers
      BY <1>1, <1>3, CutoffLemma
    <3>2. QED
      BY <1>1, <3>1
  <2>2. QED
    BY <2>1 DEF WindowsBounded
<1>8. Len(h) <= MAX_HISTORY_ENTRIES
  BY <1>1, CodeAssumption
<1>9. QED
  BY <1>1, <1>2, <1>4, <1>5, <1>6, <1>7, <1>8 DEF KeyInv, h

(* All entries are younger than the cutoff.                                *)
Younger(h, cutoff) == \A k \in 1..Len(h) : h[k].ledger > cutoff

(* The eviction of expired entries preserves the invariant: what it drops  *)
(* is no longer part of any window that is still open.                     *)
LEMMA KeyInvClean ==
  ASSUME NEW d, NEW u, NEW l \in Ledgers, KeyInv(d, u, l)
  PROVE  LET d1 == CleanedUp(d, l)
         IN  /\ KeyInv(d1, u, l)
             /\ Younger(d1.spending_history, Cutoff(l, d1.period_ledgers))
             /\ d1.period_ledgers = d.period_ledgers
             /\ d1.spending_limit_usd = d.spending_limit_usd
<1> DEFINE h == d.spending_history
           n == Len(h)
           T == UsdTotals(h)
           c == Cutoff(l, d.period_ledgers)
           e == EvictedCount(h, c)
           d1 == CleanedUp(d, l)
           h1 == d1.spending_history
           m == Len(h1)
           T1 == UsdTotals(h1)
<1>1. l \in Nat /\ \A t \in Ledgers : t \in Nat
  BY LedgerAssumption DEF Ledgers
<1>2. /\ d \in PolicyData /\ h \in Histories /\ n \in Nat
      /\ \A k \in 1..n : h[k].ledger \in Nat
      /\ d.period_ledgers \in Nat \ {0} /\ d.spending_limit_usd \in Nat
      /\ Chronicle(h, l) /\ Sorted(h)
  BY PolicyDataFields, HistoryLemma DEF KeyInv, Chronicle
<1>3. c \in Nat
  BY <1>1, <1>2, CutoffLemma
<1>4. /\ e \in 0..n
      /\ \A k \in 1..e : h[k].ledger <= c
      /\ d1 \in PolicyData
      /\ d1 = [d EXCEPT !.spending_history = h1,
                        !.cached_total_spent_usd = d1.cached_total_spent_usd]
      /\ h1 \in Histories
      /\ m = n - e
      /\ \A k \in 1..m : h1[k] = h[e + k] /\ h1[k].ledger > c
      /\ \A k \in 0..m : T1[k] = T[e + k] - T[e]
      /\ Unsaturated(d) => d1.cached_total_spent_usd = T[n] - T[e]
  BY <1>1, <1>2, CleanLemma
<1>5. T \in [0..n -> Nat] /\ T1[0] = 0
  BY <1>2, <1>4, TotalsLemma
<1>6. /\ d1.period_ledgers = d.period_ledgers
      /\ d1.spending_limit_usd = d.spending_limit_usd
      /\ d1.token_divisors = d.token_divisors
      /\ d1.allowed_tokens = d.allowed_tokens
  BY <1>2, <1>4 DEF PolicyData
<1> HIDE DEF d1, h1, m, T1, e
<1>7. Chronicle(h1, l)
  <2> HIDE DEF h, n
  <2>1. \A k \in 1..m : e + k \in 1..n
    BY <1>2, <1>4
  <2>2. ASSUME NEW i \in 1..m, NEW j \in 1..m, i <= j
        PROVE  h1[i].ledger <= h1[j].ledger
    <3>1. e + i \in 1..n /\ e + j \in 1..n /\ e + i <= e + j
      BY <1>2, <1>4, <2>1, <2>2
    <3>2. h[e + i].ledger <= h[e + j].ledger
      BY <1>2, <3>1 DEF Sorted, n
    <3>3. QED
      BY <1>4, <3>2
  <2>3. ASSUME NEW k \in 1..m
        PROVE  FirstLedger <= h1[k].ledger /\ h1[k].ledger <= l
    BY <1>2, <1>4, <2>1 DEF Chronicle, n
  <2>4. QED
    BY <2>2, <2>3 DEF Chronicle, Sorted, m
<1>8. Explains(h1, u, c)
  <2>1. Explains(h, u, c)
    BY DEF KeyInv
  <2> HIDE DEF h, n, T, c
  <2>2. ASSUME NEW t \in Ledgers, NEW i \in 0..m, t >= c, Splits(h1, i, t)
        PROVE  u[MaxLedger] - u[t] = T1[m] - T1[i]
    <3>1. e + i \in 0..n /\ Splits(h, e + i, t)
      BY <1>1, <1>2, <2>2, CleanedSplits DEF h, n, c, e, m, h1, d1
    <3>2. u[MaxLedger] - u[t] = T[n] - T[e + i]
      BY <2>1, <2>2, <3>1 DEF Explains, T, n
    <3>3. /\ m \in 0..m /\ e + m = n
          /\ T1[m] = T[n] - T[e] /\ T1[i] = T[e + i] - T[e]
      BY <1>2, <1>4
    <3>4. T[n] \in Nat /\ T[e] \in Nat /\ T[e + i] \in Nat
      BY <1>2, <1>4, <1>5, <3>1
    <3>5. QED
      BY <3>2, <3>3, <3>4
  <2>3. QED
    BY <2>2 DEF Explains, m, T1
<1>9. ASSUME Bounded(d1)
      PROVE  /\ d1.cached_total_spent_usd = T1[m]
             /\ T1[m] <= d1.spending_limit_usd
             /\ WindowsBounded(d1, u)
  <2>1. /\ Bounded(d) /\ d.cached_total_spent_usd = T[n]
        /\ T[n] <= d.spending_limit_usd /\ WindowsBounded(d, u)
    BY <1>6, <1>9 DEF KeyInv, Bounded
  <2>2. T[n] \in Nat /\ T[e] \in Nat
    <3> HIDE DEF h, n, T
    <3>1. QED
      BY <1>2, <1>4, <1>5
  <2>3. Unsaturated(d)
    BY <1>2, <2>1, <2>2, CodeAssumption DEF Unsaturated, Bounded
  <2> HIDE DEF h, n, T, c
  <2>4. T1[m] = T[n] - T[e]
    BY <1>2, <1>4
  <2>5. WindowsBounded(d1, u)
    BY <1>6, <2>1 DEF WindowsBounded
  <2>6. QED
    BY <1>2, <1>4, <1>6, <2>1, <2>2, <2>3, <2>4, <2>5
<1>10. m <= MAX_HISTORY_ENTRIES
  <2>1. n <= MAX_HISTORY_ENTRIES
    BY DEF KeyInv
  <2> HIDE DEF h, n
  <2>2. QED
    BY <1>2, <1>4, <2>1, CodeAssumption
<1>11. Len(d1.token_divisors) = Len(d1.allowed_tokens) /\ Cumulative(u, l)
  BY <1>6 DEF KeyInv
<1>12. KeyInv(d1, u, l)
  <2> HIDE DEF h, n, T
  <2>1. Explains(h1, u, Cutoff(l, d1.period_ledgers))
    BY <1>6, <1>8 DEF c
  <2>2. QED
    BY <1>4, <1>7, <1>9, <1>10, <1>11, <2>1 DEF KeyInv, h1, m, T1
<1>13. Younger(h1, Cutoff(l, d1.period_ledgers))
  BY <1>4, <1>6 DEF Younger, m, c
<1>14. QED
  BY <1>6, <1>12, <1>13 DEF h1, d1

(* The cumulative spend after `usd` more dollars in the current ledger.    *)
Later(u, usd) == [t \in Ledgers |-> u[t] + IF t >= ledger THEN usd ELSE 0]

LEMMA LaterLemma ==
  ASSUME NEW u, NEW usd \in Nat, ledger \in Ledgers, Cumulative(u, ledger)
  PROVE  /\ Cumulative(Later(u, usd), ledger)
         /\ \A t \in Ledgers : t >= ledger => Later(u, usd)[t] = u[t] + usd
         /\ \A t \in Ledgers : t < ledger => Later(u, usd)[t] = u[t]
<1> DEFINE v == Later(u, usd)
<1>1. MaxLedger \in Ledgers /\ MaxLedger >= ledger /\ \A t \in Ledgers : t \in Nat
  BY LedgerAssumption DEF Ledgers
<1>2. /\ u \in [Ledgers -> Nat]
      /\ \A t \in Ledgers : t >= ledger => u[t] = u[MaxLedger]
      /\ \A s, t \in Ledgers : s <= t => u[s] <= u[t]
  BY DEF Cumulative
<1>3. \A t \in Ledgers : v[t] = u[t] + IF t >= ledger THEN usd ELSE 0
  BY DEF Later
<1>4. v \in [Ledgers -> Nat]
  BY <1>1, <1>2 DEF Later
<1> HIDE DEF v
<1>5. /\ \A t \in Ledgers : t >= ledger => v[t] = u[t] + usd
      /\ \A t \in Ledgers : t < ledger => v[t] = u[t]
  BY <1>1, <1>2, <1>3
<1>6. ASSUME NEW s \in Ledgers, NEW t \in Ledgers, s <= t PROVE v[s] <= v[t]
  <2>1. u[s] <= u[t] /\ u[s] \in Nat /\ u[t] \in Nat
    BY <1>2, <1>6
  <2>2. QED
    BY <1>1, <1>3, <1>6, <2>1
<1>7. ASSUME NEW t \in Ledgers, t >= ledger PROVE v[t] = v[MaxLedger]
  BY <1>1, <1>2, <1>5, <1>7
<1>8. QED
  BY <1>4, <1>5, <1>6, <1>7 DEF Cumulative, v

(* Recording an admitted spend preserves the invariant: the saturating sum *)
(* of the limit check is exact, and the window that ends in the current    *)
(* ledger is the whole history.                                            *)
LEMMA KeyInvRecord ==
  ASSUME NEW d, NEW u, NEW usd \in Nat, ledger \in Ledgers, FirstLedger <= ledger,
         KeyInv(d, u, ledger),
         Younger(d.spending_history, Cutoff(ledger, d.period_ledgers)),
         WithinLimit(d, usd), HasCapacity(d)
  PROVE  KeyInv(Record(d, usd), Later(u, usd), ledger)
<1> DEFINE h == d.spending_history
           n == Len(h)
           T == UsdTotals(h)
           c == Cutoff(ledger, d.period_ledgers)
           d2 == Record(d, usd)
           h2 == d2.spending_history
           T2 == UsdTotals(h2)
           v == Later(u, usd)
<1>1. /\ ledger \in Nat \ {0} /\ FirstLedger \in Nat
      /\ \A t \in Ledgers : t \in Nat
      /\ MaxLedger \in Ledgers /\ ledger <= MaxLedger
  BY LedgerAssumption DEF Ledgers
<1>2. /\ d \in PolicyData /\ h \in Histories /\ n \in Nat
      /\ \A k \in 1..n : h[k].ledger \in Nat
      /\ d.period_ledgers \in Nat \ {0} /\ d.spending_limit_usd \in Nat
      /\ Chronicle(h, ledger) /\ Cumulative(u, ledger) /\ Explains(h, u, c)
  BY PolicyDataFields, HistoryLemma DEF KeyInv
<1>3. c \in Nat /\ c \in Ledgers /\ c < ledger
  BY <1>1, <1>2, LedgerAssumption DEF Cutoff, Ledgers
<1>4. /\ d2 \in PolicyData
      /\ d2 = [d EXCEPT !.spending_history = h2,
                        !.cached_total_spent_usd = d2.cached_total_spent_usd]
      /\ h2 \in Histories
      /\ Len(h2) = n + 1
      /\ \A k \in 1..n : h2[k] = h[k]
      /\ h2[n + 1].ledger = ledger
      /\ IsSumExtension(T2, T, n, usd)
      /\ d2.cached_total_spent_usd = Saturate(d.cached_total_spent_usd + usd)
  BY <1>1, <1>2, RecordLemma
<1>5. /\ d2.period_ledgers = d.period_ledgers
      /\ d2.spending_limit_usd = d.spending_limit_usd
      /\ d2.token_divisors = d.token_divisors
      /\ d2.allowed_tokens = d.allowed_tokens
  BY <1>2, <1>4 DEF PolicyData
<1>6. /\ T \in [0..n -> Nat] /\ T2[0] = 0
      /\ T2[n + 1] = T[n] + usd /\ \A k \in 0..n : T2[k] = T[k]
  <2>1. T \in [0..n -> Nat] /\ T2[0] = 0
    BY <1>2, <1>4, TotalsLemma
  <2>2. QED
    BY <1>4, <2>1 DEF IsSumExtension
<1>7. /\ Cumulative(v, ledger)
      /\ \A t \in Ledgers : t >= ledger => v[t] = u[t] + usd
      /\ \A t \in Ledgers : t < ledger => v[t] = u[t]
  BY <1>2, LaterLemma
<1>8. u \in [Ledgers -> Nat] /\ v \in [Ledgers -> Nat]
  BY <1>2, <1>7 DEF Cumulative
<1>9. Younger(h, c)
  OBVIOUS
<1> HIDE DEF d2, h2, T2, v, h, n, T, c
<1>10. Chronicle(h2, ledger)
  <2>1. \A k \in 1..n : h[k].ledger <= ledger /\ FirstLedger <= h[k].ledger
    BY <1>2 DEF Chronicle, n
  <2>2. \A k \in 1..(n + 1) : k \in 1..n \/ k = n + 1
    BY <1>2
  <2>3. ASSUME NEW k \in 1..(n + 1)
        PROVE  FirstLedger <= h2[k].ledger /\ h2[k].ledger <= ledger
    BY <1>1, <1>4, <2>1, <2>2
  <2>4. ASSUME NEW i \in 1..(n + 1), NEW j \in 1..(n + 1), i <= j
        PROVE  h2[i].ledger <= h2[j].ledger
    <3>1. CASE j = n + 1
      BY <1>4, <2>3, <3>1
    <3>2. CASE j \in 1..n
      <4>1. i \in 1..n
        BY <1>2, <2>4, <3>2
      <4>2. h[i].ledger <= h[j].ledger
        BY <1>2, <2>4, <3>2, <4>1 DEF Chronicle, Sorted, n
      <4>3. QED
        BY <1>4, <3>2, <4>1, <4>2
    <3>3. QED
      BY <2>2, <3>1, <3>2
  <2>5. QED
    BY <1>4, <2>3, <2>4 DEF Chronicle, Sorted
<1>11. Explains(h2, v, c)
  <2>1. ASSUME NEW t \in Ledgers, NEW i \in 0..(n + 1), t >= c, Splits(h2, i, t)
        PROVE  v[MaxLedger] - v[t] = T2[n + 1] - T2[i]
    <3>1. T2[n + 1] \in Nat /\ T[n] \in Nat
      BY <1>2, <1>6
    <3>2. t \in Nat
      BY <1>1
    <3>3. /\ t >= ledger => i = n + 1
          /\ t < ledger => i \in 0..n /\ Splits(h, i, t)
      BY <1>1, <1>2, <2>1, RecordedSplits DEF h, n, h2, d2
    <3>4. CASE t >= ledger
      <4>1. v[t] = v[MaxLedger] /\ v[t] \in Nat
        BY <1>7, <1>8, <3>4 DEF Cumulative
      <4>2. QED
        BY <1>8, <3>1, <3>3, <3>4, <4>1
    <3>5. CASE t < ledger
      <4>1. u[MaxLedger] - u[t] = T[n] - T[i]
        BY <1>2, <2>1, <3>3, <3>5 DEF Explains, T, n
      <4>2. v[MaxLedger] = u[MaxLedger] + usd /\ v[t] = u[t]
        BY <1>1, <1>7, <3>5
      <4>3. T2[n + 1] = T[n] + usd /\ T2[i] = T[i] /\ T[i] \in Nat
        BY <1>6, <3>3, <3>5
      <4>4. u[MaxLedger] \in Nat /\ u[t] \in Nat
        BY <1>1, <1>8
      <4>5. QED
        BY <3>1, <4>1, <4>2, <4>3, <4>4
    <3>6. QED
      BY <1>1, <3>2, <3>4, <3>5
  <2>2. QED
    BY <1>4, <2>1 DEF Explains, T2
<1>12. ASSUME Bounded(d2)
       PROVE  /\ d2.cached_total_spent_usd = T2[n + 1]
              /\ T2[n + 1] <= d2.spending_limit_usd
              /\ WindowsBounded(d2, v)
  <2>1. /\ Bounded(d) /\ d.cached_total_spent_usd = T[n]
        /\ T[n] <= d.spending_limit_usd /\ WindowsBounded(d, u)
    BY <1>5, <1>12 DEF KeyInv, Bounded, T, n, h
  <2>2. T[n] \in Nat
    BY <1>2, <1>6
  <2>3. Saturate(T[n] + usd) <= d.spending_limit_usd
    BY <2>1 DEF WithinLimit
  <2>4. Saturate(T[n] + usd) = T[n] + usd
    BY <1>2, <2>1, <2>2, <2>3, CodeAssumption DEF Saturate, Bounded
  <2>5. d2.cached_total_spent_usd = T2[n + 1] /\ T2[n + 1] <= d2.spending_limit_usd
    BY <1>4, <1>5, <1>6, <2>1, <2>3, <2>4
  <2>6. v[MaxLedger] - v[c] = T2[n + 1]
    <3>1. \A k \in 1..(n + 1) : h2[k].ledger > c
      <4>1. \A k \in 1..(n + 1) : k \in 1..n \/ k = n + 1
        BY <1>2
      <4>2. QED
        BY <1>1, <1>3, <1>4, <1>9, <4>1 DEF Younger, n
    <3>2. Splits(h2, 0, c)
      BY <1>4, <3>1 DEF Splits
    <3>3. 0 \in 0..(n + 1) /\ c >= c
      BY <1>2, <1>3
    <3>4. v[MaxLedger] - v[c] = T2[n + 1] - T2[0]
      BY <1>3, <1>4, <1>11, <3>2, <3>3 DEF Explains, T2
    <3>5. T2[n + 1] \in Nat
      BY <1>6, <2>2
    <3>6. QED
      BY <1>6, <3>4, <3>5
  <2>7. ASSUME NEW t \in Ledgers
        PROVE  v[t] - v[Cutoff(t, d.period_ledgers)] <= d.spending_limit_usd
    <3> DEFINE s == Cutoff(t, d.period_ledgers)
    <3>1. t \in Nat /\ s \in Nat /\ s \in Ledgers /\ s <= t
      <4>1. t \in Nat
        BY <1>1
      <4>2. s \in Nat /\ s \in Ledgers
        BY <1>2, <4>1, CutoffLemma
      <4>3. s <= t
        BY <1>2, <4>1 DEF Cutoff
      <4>4. QED
        BY <4>1, <4>2, <4>3
    <3>2. CASE t < ledger
      <4>1. s < ledger
        BY <1>1, <3>1, <3>2
      <4> HIDE DEF s
      <4>2. v[t] = u[t] /\ v[s] = u[s]
        BY <1>7, <3>1, <3>2, <4>1
      <4>3. QED
        BY <2>1, <4>2 DEF WindowsBounded, s
    <3>3. CASE t >= ledger
      <4>1. c <= s
        BY <1>1, <1>2, <3>1, <3>3 DEF Cutoff, c
      <4> HIDE DEF s
      <4>2. v[c] <= v[s] /\ v[t] = v[MaxLedger]
        BY <1>3, <1>7, <3>1, <3>3, <4>1 DEF Cumulative
      <4>3. v[c] \in Nat /\ v[s] \in Nat /\ v[MaxLedger] \in Nat
        BY <1>1, <1>3, <1>8, <3>1
      <4>4. v[MaxLedger] - v[c] <= d.spending_limit_usd
        BY <1>5, <2>5, <2>6
      <4>5. v[t] - v[s] <= d.spending_limit_usd
        BY <1>2, <4>2, <4>3, <4>4
      <4>6. QED
        BY <4>5 DEF s
    <3>4. QED
      BY <1>1, <3>1, <3>2, <3>3
  <2>8. WindowsBounded(d2, v)
    BY <1>5, <2>7 DEF WindowsBounded
  <2>9. QED
    BY <2>5, <2>8
<1>13. Len(h2) <= MAX_HISTORY_ENTRIES
  BY <1>2, <1>4, CodeAssumption DEF HasCapacity, n, h
<1>14. Len(d2.token_divisors) = Len(d2.allowed_tokens)
  BY <1>5 DEF KeyInv
<1>15. Explains(h2, v, Cutoff(ledger, d2.period_ledgers))
  BY <1>5, <1>11 DEF c
<1>16. Bounded(d2) => /\ d2.cached_total_spent_usd = T2[Len(h2)]
                      /\ T2[Len(h2)] <= d2.spending_limit_usd
                      /\ WindowsBounded(d2, v)
  BY <1>4, <1>12
<1>17. KeyInv(d2, v, ledger)
  BY <1>4, <1>7, <1>10, <1>13, <1>14, <1>15, <1>16 DEF KeyInv, h2, T2
<1>18. QED
  BY <1>17 DEF d2, v

-----------------------------------------------------------------------------
(* The exact value of what was spent, in units of 1/ExactUnit dollar.  `x` *)
(* is its ledger-by-ledger cumulative sum.                                 *)

(* `value` is less than `entries` dollars above `usd`: each entry has lost *)
(* a fraction of a dollar.                                                 *)
Truncated(value, usd, entries) == value + entries <= (usd + entries) * ExactUnit

LEMMA ExactUnitLemma == ExactUnit \in Nat \ {0}
<1>1. MAX_ORACLE_DECIMALS + MAX_TOKEN_DECIMALS \in Nat
  BY InputAssumption
<1>2. QED
  BY <1>1, PowLemma DEF ExactUnit

LEMMA ProductNat ==
  ASSUME NEW a \in Nat, NEW b \in Nat
  PROVE  a * b \in Nat /\ (a # 0 /\ b # 0 => a * b # 0)
  OBVIOUS

LEMMA ProductSum ==
  ASSUME NEW a \in Int, NEW b \in Int, NEW c \in Int
  PROVE  (a + b) * c = a * c + b * c
  OBVIOUS

LEMMA ProductOrder ==
  ASSUME NEW a \in Int, NEW b \in Int, NEW c \in Nat, a <= b
  PROVE  a * c <= b * c
<1>1. (b - a) * c >= 0
  <2>1. b - a \in Nat
    OBVIOUS
  <2>2. QED
    BY <2>1, ProductNat
<1>2. ((b - a) + a) * c = (b - a) * c + a * c /\ (b - a) + a = b
  BY ProductSum
<1>3. a * c \in Int /\ (b - a) * c \in Int
  OBVIOUS
<1>4. QED
  BY <1>1, <1>2, <1>3

LEMMA TruncatedNone == Truncated(0, 0, 0)
  BY ExactUnitLemma DEF Truncated

LEMMA TruncatedMore ==
  ASSUME NEW v \in Int, NEW usd \in Int, NEW k \in Nat,
         NEW w \in Int, NEW more \in Int,
         Truncated(v, usd, k), Truncated(w, more, 1)
  PROVE  Truncated(v + w, usd + more, k + 1)
<1> DEFINE a == usd + k
           b == more + 1
<1>1. a \in Int /\ b \in Int /\ (usd + more) + (k + 1) = a + b
  OBVIOUS
<1>2. v + k <= a * ExactUnit /\ w + 1 <= b * ExactUnit
  BY DEF Truncated
<1> HIDE DEF a, b
<1>3. (a + b) * ExactUnit = a * ExactUnit + b * ExactUnit
  BY <1>1, ExactUnitLemma, ProductSum
<1>4. a * ExactUnit \in Int /\ b * ExactUnit \in Int
  BY <1>1, ExactUnitLemma
<1>5. (v + w) + (k + 1) <= a * ExactUnit + b * ExactUnit
  BY <1>2, <1>4
<1>6. QED
  BY <1>1, <1>3, <1>5 DEF Truncated

(* At most `max` entries within `limit` dollars.                           *)
LEMMA TruncatedBound ==
  ASSUME NEW v \in Int, NEW usd \in Int, NEW k \in Nat \ {0},
         NEW limit \in Nat, NEW max \in Nat,
         Truncated(v, usd, k), usd <= limit, k <= max
  PROVE  v < (limit + max) * ExactUnit
<1>1. usd + k <= limit + max /\ usd + k \in Int /\ limit + max \in Int
  OBVIOUS
<1> DEFINE a == usd + k
           b == limit + max
<1>2. v + k <= a * ExactUnit
  BY DEF Truncated
<1> HIDE DEF a, b
<1>3. a \in Int /\ b \in Int /\ a <= b
  BY <1>1 DEF a, b
<1>4. a * ExactUnit <= b * ExactUnit
  BY <1>3, ExactUnitLemma, ProductOrder
<1>5. a * ExactUnit \in Int /\ b * ExactUnit \in Int
  BY <1>3, ExactUnitLemma
<1>6. v < b * ExactUnit
  BY <1>2, <1>4, <1>5
<1>7. QED
  BY <1>6 DEF b

(* The entries younger than t account for the value moved after t, up to   *)
(* a dollar each.                                                          *)
Covers(h, x, cutoff) ==
  \A t \in Ledgers, i \in 0..Len(h) :
    t >= cutoff /\ Splits(h, i, t) =>
      Truncated(x[MaxLedger] - x[t],
                UsdTotals(h)[Len(h)] - UsdTotals(h)[i], Len(h) - i)

ValueBounded(d, x) ==
  \A t \in Ledgers :
    x[t] - x[Cutoff(t, d.period_ledgers)]
      < (d.spending_limit_usd + MAX_HISTORY_ENTRIES) * ExactUnit

ValueInv(d, x, l) ==
  /\ Cumulative(x, l)
  /\ Covers(d.spending_history, x, Cutoff(l, d.period_ledgers))
  /\ Bounded(d) => ValueBounded(d, x)

LEMMA ValueLedger ==
  ASSUME NEW d \in PolicyData, NEW x, NEW l \in Ledgers, l + 1 \in Ledgers,
         ValueInv(d, x, l)
  PROVE  ValueInv(d, x, l + 1)
<1> DEFINE h == d.spending_history
           c == Cutoff(l, d.period_ledgers)
           c1 == Cutoff(l + 1, d.period_ledgers)
<1>1. l \in Nat /\ \A t \in Ledgers : t \in Nat
  BY LedgerAssumption DEF Ledgers
<1>2. Cumulative(x, l + 1)
  BY <1>1, LedgerAssumption DEF ValueInv, Cumulative, Ledgers
<1>3. c \in Nat /\ c1 \in Nat /\ c <= c1
  BY <1>1, PolicyDataFields DEF Cutoff
<1>4. Covers(h, x, c)
  BY DEF ValueInv
<1> HIDE DEF h, c, c1
<1>5. \A t \in Ledgers : t >= c1 => t >= c
  BY <1>1, <1>3
<1>6. Covers(h, x, c1)
  BY <1>4, <1>5 DEF Covers
<1>7. QED
  BY <1>2, <1>6 DEF ValueInv, h, c1

LEMMA ValueFresh ==
  ASSUME NEW d \in PolicyData, NEW l \in Ledgers, NEW x,
         d.spending_history = <<>>, x = [t \in Ledgers |-> 0]
  PROVE  ValueInv(d, x, l)
<1> DEFINE h == d.spending_history
<1>1. /\ h \in Histories /\ Len(h) = 0 /\ d.period_ledgers \in Nat \ {0}
      /\ d.spending_limit_usd \in Nat
  BY PolicyDataFields
<1>2. UsdTotals(h)[0] = 0
  BY <1>1, TotalsLemma
<1> HIDE DEF h
<1>3. MaxLedger \in Ledgers /\ \A t \in Ledgers : t \in Nat
  BY LedgerAssumption DEF Ledgers
<1>4. Cumulative(x, l)
  BY <1>3 DEF Cumulative
<1>5. ASSUME NEW t \in Ledgers, NEW i \in 0..Len(h)
      PROVE  Truncated(x[MaxLedger] - x[t],
                       UsdTotals(h)[Len(h)] - UsdTotals(h)[i], Len(h) - i)
  <2>1. i = 0 /\ x[MaxLedger] - x[t] = 0
    BY <1>1, <1>3
  <2>2. UsdTotals(h)[Len(h)] - UsdTotals(h)[i] = 0 /\ Len(h) - i = 0
    BY <1>1, <1>2, <2>1
  <2>3. QED
    BY <2>1, <2>2, TruncatedNone
<1>6. Covers(h, x, Cutoff(l, d.period_ledgers))
  BY <1>5 DEF Covers
<1>7. ASSUME NEW t \in Ledgers
      PROVE  x[t] - x[Cutoff(t, d.period_ledgers)]
               < (d.spending_limit_usd + MAX_HISTORY_ENTRIES) * ExactUnit
  <2>1. Cutoff(t, d.period_ledgers) \in Ledgers
    BY <1>1, <1>3, CutoffLemma
  <2>2. x[t] - x[Cutoff(t, d.period_ledgers)] = 0
    BY <2>1
  <2> DEFINE max == d.spending_limit_usd + MAX_HISTORY_ENTRIES
  <2>3. max \in Nat /\ max # 0
    BY <1>1, CodeAssumption
  <2> HIDE DEF max
  <2>4. max * ExactUnit \in Nat /\ max * ExactUnit # 0
    BY <2>3, ExactUnitLemma, ProductNat
  <2>5. 0 < max * ExactUnit
    BY <2>4
  <2>6. QED
    BY <2>2, <2>5 DEF max
<1>8. QED
  BY <1>4, <1>6, <1>7 DEF ValueInv, ValueBounded, h

LEMMA ValueClean ==
  ASSUME NEW d, NEW u, NEW x, NEW l \in Ledgers, KeyInv(d, u, l), ValueInv(d, x, l)
  PROVE  ValueInv(CleanedUp(d, l), x, l)
<1> DEFINE h == d.spending_history
           n == Len(h)
           T == UsdTotals(h)
           c == Cutoff(l, d.period_ledgers)
           e == EvictedCount(h, c)
           d1 == CleanedUp(d, l)
           h1 == d1.spending_history
           m == Len(h1)
           T1 == UsdTotals(h1)
<1>1. l \in Nat /\ \A t \in Ledgers : t \in Nat
  BY LedgerAssumption DEF Ledgers
<1>2. d \in PolicyData /\ h \in Histories /\ n \in Nat /\ Sorted(h)
  BY PolicyDataFields, HistoryLemma DEF KeyInv, Chronicle
<1>3. /\ e \in 0..n /\ m = n - e
      /\ \A k \in 0..m : T1[k] = T[e + k] - T[e]
  BY <1>1, <1>2, CleanLemma
<1>4. T \in [0..n -> Nat]
  BY <1>2, TotalsLemma
<1>5. /\ d1.period_ledgers = d.period_ledgers
      /\ d1.spending_limit_usd = d.spending_limit_usd
  BY KeyInvClean
<1>6. Covers(h, x, c)
  BY DEF ValueInv
<1> HIDE DEF h, n, T, c, e, d1, h1, m, T1
<1>7. ASSUME NEW t \in Ledgers, NEW i \in 0..m, t >= c, Splits(h1, i, t)
      PROVE  Truncated(x[MaxLedger] - x[t], T1[m] - T1[i], m - i)
  <2>1. e + i \in 0..n /\ Splits(h, e + i, t)
    BY <1>1, <1>2, <1>7, CleanedSplits DEF h, n, c, e, m, h1, d1
  <2>2. Truncated(x[MaxLedger] - x[t], T[n] - T[e + i], n - (e + i))
    BY <1>6, <1>7, <2>1 DEF Covers, T, n
  <2>3. T[n] \in Nat /\ T[e] \in Nat /\ T[e + i] \in Nat
    BY <1>2, <1>3, <1>4, <2>1
  <2>4. m \in 0..m /\ e + m = n /\ m - i = n - (e + i)
    BY <1>2, <1>3
  <2>5. T1[m] = T[n] - T[e] /\ T1[i] = T[e + i] - T[e]
    BY <1>3, <2>4
  <2>6. T1[m] - T1[i] = T[n] - T[e + i]
    BY <2>3, <2>5
  <2>7. QED
    BY <2>2, <2>4, <2>6
<1>8. Covers(h1, x, c)
  BY <1>7 DEF Covers, m, T1
<1>9. Cumulative(x, l) /\ (Bounded(d) => ValueBounded(d, x))
  BY DEF ValueInv
<1>10. Bounded(d1) => ValueBounded(d1, x)
  BY <1>5, <1>9 DEF Bounded, ValueBounded
<1>11. QED
  BY <1>5, <1>8, <1>9, <1>10 DEF ValueInv, c, d1, h1

(* Recording an admitted spend: its own fraction of a dollar is one more.  *)
LEMMA ValueRecord ==
  ASSUME NEW d, NEW u, NEW x, NEW usd \in Nat, NEW exact \in Nat,
         ledger \in Ledgers, FirstLedger <= ledger,
         KeyInv(d, u, ledger), ValueInv(d, x, ledger),
         Younger(d.spending_history, Cutoff(ledger, d.period_ledgers)),
         WithinLimit(d, usd), HasCapacity(d), Truncated(exact, usd, 1)
  PROVE  ValueInv(Record(d, usd), Later(x, exact), ledger)
<1> DEFINE h == d.spending_history
           n == Len(h)
           T == UsdTotals(h)
           c == Cutoff(ledger, d.period_ledgers)
           d2 == Record(d, usd)
           h2 == d2.spending_history
           T2 == UsdTotals(h2)
           v == Later(x, exact)
<1>1. /\ ledger \in Nat \ {0}
      /\ \A t \in Ledgers : t \in Nat
      /\ MaxLedger \in Ledgers /\ ledger <= MaxLedger
  BY LedgerAssumption DEF Ledgers
<1>2. /\ d \in PolicyData /\ h \in Histories /\ n \in Nat
      /\ d.period_ledgers \in Nat \ {0} /\ d.spending_limit_usd \in Nat
      /\ Cumulative(x, ledger) /\ Covers(h, x, c)
  BY PolicyDataFields, HistoryLemma DEF KeyInv, ValueInv
<1>3. c \in Nat /\ c \in Ledgers /\ c < ledger
  BY <1>1, <1>2, LedgerAssumption DEF Cutoff, Ledgers
<1>4. /\ d2 \in PolicyData
      /\ d2 = [d EXCEPT !.spending_history = h2,
                        !.cached_total_spent_usd = d2.cached_total_spent_usd]
      /\ Len(h2) = n + 1
      /\ \A k \in 1..n : h2[k] = h[k]
      /\ h2[n + 1].ledger = ledger
      /\ h2 \in Histories
      /\ IsSumExtension(T2, T, n, usd)
  BY <1>1, <1>2, RecordLemma
<1>5. /\ d2.period_ledgers = d.period_ledgers
      /\ d2.spending_limit_usd = d.spending_limit_usd
  BY <1>2, <1>4 DEF PolicyData
<1>6. /\ T \in [0..n -> Nat] /\ T2[0] = 0
      /\ T2[n + 1] = T[n] + usd /\ \A k \in 0..n : T2[k] = T[k]
  <2>1. T \in [0..n -> Nat] /\ T2[0] = 0
    BY <1>2, <1>4, TotalsLemma
  <2>2. QED
    BY <1>4, <2>1 DEF IsSumExtension
<1>7. /\ Cumulative(v, ledger)
      /\ \A t \in Ledgers : t >= ledger => v[t] = x[t] + exact
      /\ \A t \in Ledgers : t < ledger => v[t] = x[t]
  BY <1>2, LaterLemma
<1>8. x \in [Ledgers -> Nat] /\ v \in [Ledgers -> Nat]
  BY <1>2, <1>7 DEF Cumulative
<1>9. Younger(h, c)
  OBVIOUS
<1>10. KeyInv(d2, Later(u, usd), ledger)
  BY KeyInvRecord
<1> HIDE DEF d2, h2, T2, v, h, n, T, c
<1>11. ASSUME NEW t \in Ledgers, NEW i \in 0..(n + 1), t >= c, Splits(h2, i, t)
       PROVE  Truncated(v[MaxLedger] - v[t], T2[n + 1] - T2[i], (n + 1) - i)
  <2>1. T2[n + 1] \in Nat /\ T[n] \in Nat /\ t \in Nat
    BY <1>1, <1>2, <1>6
  <2>2. /\ t >= ledger => i = n + 1
        /\ t < ledger => i \in 0..n /\ Splits(h, i, t)
    BY <1>1, <1>2, <1>11, RecordedSplits DEF h, n, h2, d2
  <2>3. CASE t >= ledger
    <3>1. v[t] = v[MaxLedger] /\ v[t] \in Nat
      BY <1>7, <1>8, <2>3 DEF Cumulative
    <3>2. v[MaxLedger] - v[t] = 0 /\ T2[n + 1] - T2[i] = 0 /\ (n + 1) - i = 0
      BY <1>2, <2>1, <2>2, <2>3, <3>1
    <3>3. QED
      BY <3>2, TruncatedNone
  <2>4. CASE t < ledger
    <3>1. Truncated(x[MaxLedger] - x[t], T[n] - T[i], n - i)
      BY <1>2, <1>11, <2>2, <2>4 DEF Covers, T, n
    <3>2. v[MaxLedger] = x[MaxLedger] + exact /\ v[t] = x[t]
      BY <1>1, <1>7, <2>4
    <3>3. T2[n + 1] = T[n] + usd /\ T2[i] = T[i] /\ T[i] \in Nat
      BY <1>6, <2>2, <2>4
    <3>4. x[MaxLedger] \in Nat /\ x[t] \in Nat
      BY <1>1, <1>8
    <3> DEFINE a == x[MaxLedger] - x[t]
               b == T[n] - T[i]
               k == n - i
    <3>5. a \in Int /\ b \in Int /\ k \in Nat
      BY <1>2, <2>1, <2>2, <2>4, <3>3, <3>4
    <3>6. /\ v[MaxLedger] - v[t] = a + exact
          /\ T2[n + 1] - T2[i] = b + usd
          /\ (n + 1) - i = k + 1
      BY <1>2, <2>1, <3>2, <3>3, <3>4
    <3>7. Truncated(a, b, k)
      BY <3>1
    <3> HIDE DEF a, b, k
    <3>8. Truncated(a + exact, b + usd, k + 1)
      BY <3>5, <3>7, TruncatedMore
    <3>9. QED
      BY <3>6, <3>8
  <2>5. QED
    BY <1>1, <2>1, <2>3, <2>4
<1>12. Covers(h2, v, c)
  BY <1>4, <1>11 DEF Covers, T2
<1>13. ASSUME Bounded(d2) PROVE ValueBounded(d2, v)
  <2>1. Bounded(d) /\ ValueBounded(d, x)
    BY <1>5, <1>13 DEF ValueInv, Bounded
  <2>2. T2[n + 1] <= d.spending_limit_usd /\ n + 1 <= MAX_HISTORY_ENTRIES
    BY <1>4, <1>5, <1>10, <1>13 DEF KeyInv, T2, h2
  <2>3. Truncated(v[MaxLedger] - v[c], T2[n + 1], n + 1)
    <3>1. \A k \in 1..(n + 1) : h2[k].ledger > c
      <4>1. \A k \in 1..(n + 1) : k \in 1..n \/ k = n + 1
        BY <1>2
      <4>2. QED
        BY <1>1, <1>3, <1>4, <1>9, <4>1 DEF Younger, n
    <3>2. Splits(h2, 0, c)
      BY <1>4, <3>1 DEF Splits
    <3>3. 0 \in 0..(n + 1) /\ c >= c /\ T2[n + 1] \in Nat
      BY <1>2, <1>3, <1>6
    <3>4. Truncated(v[MaxLedger] - v[c], T2[n + 1] - T2[0], (n + 1) - 0)
      BY <1>3, <1>11, <3>2, <3>3
    <3>5. T2[n + 1] - T2[0] = T2[n + 1] /\ (n + 1) - 0 = n + 1
      BY <1>2, <1>6, <3>3
    <3>6. QED
      BY <3>4, <3>5
  <2> DEFINE max == (d.spending_limit_usd + MAX_HISTORY_ENTRIES) * ExactUnit
  <2>4. v[MaxLedger] - v[c] < max
    <3>1. /\ v[MaxLedger] - v[c] \in Int /\ T2[n + 1] \in Int
          /\ n + 1 \in Nat \ {0} /\ MAX_HISTORY_ENTRIES \in Nat
      BY <1>1, <1>2, <1>3, <1>6, <1>8, CodeAssumption
    <3>2. QED
      BY <1>2, <2>2, <2>3, <3>1, TruncatedBound
  <2>5. max \in Int
    BY <1>2, ExactUnitLemma, CodeAssumption
  <2>6. ASSUME NEW t \in Ledgers
        PROVE  v[t] - v[Cutoff(t, d.period_ledgers)] < max
    <3> DEFINE s == Cutoff(t, d.period_ledgers)
    <3>1. t \in Nat /\ s \in Nat /\ s \in Ledgers /\ s <= t
      <4>1. t \in Nat
        BY <1>1
      <4>2. s \in Nat /\ s \in Ledgers
        BY <1>2, <4>1, CutoffLemma
      <4>3. s <= t
        BY <1>2, <4>1 DEF Cutoff
      <4>4. QED
        BY <4>1, <4>2, <4>3
    <3>2. CASE t < ledger
      <4>1. s < ledger
        BY <1>1, <3>1, <3>2
      <4>2. x[t] - x[s] < max
        BY <2>1 DEF ValueBounded
      <4> HIDE DEF s, max
      <4>3. v[t] = x[t] /\ v[s] = x[s]
        BY <1>7, <3>1, <3>2, <4>1
      <4>4. QED
        BY <4>2, <4>3 DEF s
    <3>3. CASE t >= ledger
      <4>1. c <= s
        BY <1>1, <1>2, <3>1, <3>3 DEF Cutoff, c
      <4> HIDE DEF s, max
      <4>2. v[c] <= v[s] /\ v[t] = v[MaxLedger]
        BY <1>3, <1>7, <3>1, <3>3, <4>1 DEF Cumulative
      <4>3. v[c] \in Nat /\ v[s] \in Nat /\ v[MaxLedger] \in Nat
        BY <1>1, <1>3, <1>8, <3>1
      <4>4. v[t] - v[s] < max
        BY <2>4, <2>5, <4>2, <4>3
      <4>5. QED
        BY <4>4 DEF s
    <3>4. QED
      BY <1>1, <3>1, <3>2, <3>3
  <2>7. QED
    BY <1>5, <2>6 DEF ValueBounded
<1>14. QED
  BY <1>5, <1>7, <1>12, <1>13 DEF ValueInv, c, h2, d2, v

-----------------------------------------------------------------------------
(* The types of what an action computes.                                   *)

(* first_index_of finds a position when the token is listed.               *)
LEMMA TokenDivisorLemma ==
  ASSUME NEW d \in PolicyData, Len(d.token_divisors) = Len(d.allowed_tokens),
         NEW token, TokenAllowed(d, token)
  PROVE  TokenDivisor(d, token) \in Nat \ {0}
<1> DEFINE tokens == d.allowed_tokens
           n == Len(tokens)
           Hits == {i \in 1..n : tokens[i] = token}
           Is(i) == tokens[i] = token /\ \A j \in 1..(i - 1) : tokens[j] # token
<1>1. /\ n \in Nat /\ DOMAIN tokens = 1..n
      /\ d.token_divisors \in Seq(Nat \ {0})
  BY PolicyDataFields
<1>2. Hits \subseteq Nat /\ Hits # {}
  BY <1>1 DEF TokenAllowed
<1>3. PICK m \in Hits : \A k \in Hits : m <= k
  <2> HIDE DEF Hits
  <2>1. QED
    BY <1>2, LeastNat
<1>4. m \in 1..n /\ Is(m)
  <2>1. ASSUME NEW j \in 1..(m - 1) PROVE tokens[j] # token
    <3>1. j \in 1..n /\ ~(m <= j)
      BY <1>1, <1>3
    <3>2. QED
      BY <1>3, <3>1
  <2>2. QED
    BY <1>3, <2>1
<1>5. TokenIndex(d, token) = CHOOSE i \in 1..n : Is(i)
  BY <1>1 DEF TokenIndex
<1>6. TokenIndex(d, token) \in 1..n
  <2> HIDE DEF Is
  <2>1. QED
    BY <1>4, <1>5
<1>7. QED
  BY <1>1, <1>6 DEF TokenDivisor

LEMMA DivNat ==
  ASSUME NEW a \in Nat, NEW b \in Nat \ {0}
  PROVE  a \div b \in Nat
  OBVIOUS

LEMMA DivBounds ==
  ASSUME NEW a \in Nat, NEW b \in Nat \ {0}
  PROVE  (a \div b) * b <= a /\ a + 1 <= (a \div b + 1) * b
<1> DEFINE q == a \div b
           r == a % b
<1>1. q \in Nat /\ r \in 0..(b - 1) /\ a = b * q + r
  OBVIOUS
<1> HIDE DEF q, r
<1>2. q * b = b * q /\ q * b \in Nat /\ (q + 1) * b = q * b + 1 * b /\ 1 * b = b
  BY <1>1, ProductNat, ProductSum
<1>3. q * b <= a /\ a + 1 <= (q + 1) * b
  BY <1>1, <1>2
<1>4. QED
  BY <1>3 DEF q

LEMMA ProductAssoc ==
  ASSUME NEW a \in Int, NEW b \in Int, NEW c \in Int
  PROVE  (a * b) * c = a * (b * c) /\ a * b = b * a
  OBVIOUS

(* Two truncating divisions, by the oracle's and by the token's unit, lose *)
(* less than one dollar of the exact value.                                *)
LEMMA TruncationLemma ==
  ASSUME NEW product \in Nat, NEW usd_divisor \in Nat \ {0}, NEW divisor \in Nat \ {0}
  PROVE  Truncated(product * (ExactUnit \div (usd_divisor * divisor)),
                   (product \div usd_divisor) \div divisor, 1)
<1> DEFINE a == product \div usd_divisor
           b == a \div divisor
           both == usd_divisor * divisor
           q == ExactUnit \div both
<1>1. both \in Nat \ {0}
  BY ProductNat
<1>2. a \in Nat /\ product + 1 <= (a + 1) * usd_divisor
  BY DivNat, DivBounds
<1> HIDE DEF a, both
<1>3. b \in Nat /\ a + 1 <= (b + 1) * divisor
  BY <1>2, DivNat, DivBounds
<1>4. q \in Nat /\ q * both <= ExactUnit
  BY <1>1, ExactUnitLemma, DivNat, DivBounds
<1> HIDE DEF b, q
<1>5. product + 1 <= (b + 1) * both
  <2>1. a + 1 \in Int /\ (b + 1) * divisor \in Int /\ b + 1 \in Int
    BY <1>2, <1>3
  <2>2. (a + 1) * usd_divisor <= ((b + 1) * divisor) * usd_divisor
    BY <1>3, <2>1, ProductOrder
  <2>3. ((b + 1) * divisor) * usd_divisor = (b + 1) * both
    <3>1. ((b + 1) * divisor) * usd_divisor = (b + 1) * (divisor * usd_divisor)
      BY <2>1, ProductAssoc
    <3>2. QED
      BY <3>1, ProductAssoc DEF both
  <2>4. (a + 1) * usd_divisor \in Int /\ (b + 1) * both \in Int
    BY <1>1, <2>1
  <2>5. QED
    BY <1>2, <2>2, <2>3, <2>4
<1>6. (product + 1) * q <= (b + 1) * ExactUnit
  <2>1. b + 1 \in Nat /\ (b + 1) * both \in Int /\ product + 1 \in Int
    BY <1>1, <1>3
  <2>2. (product + 1) * q <= ((b + 1) * both) * q
    BY <1>4, <1>5, <2>1, ProductOrder
  <2>3. ((b + 1) * both) * q = (b + 1) * (q * both)
    <3>1. ((b + 1) * both) * q = (b + 1) * (both * q)
      BY <1>1, <1>4, <2>1, ProductAssoc
    <3>2. QED
      BY <1>1, <1>4, <3>1, ProductAssoc
  <2>4. (b + 1) * (q * both) <= (b + 1) * ExactUnit
    <3>1. q * both \in Int /\ ExactUnit \in Int
      BY <1>1, <1>4, ExactUnitLemma
    <3>2. (q * both) * (b + 1) <= ExactUnit * (b + 1)
      BY <1>4, <2>1, <3>1, ProductOrder
    <3>3. QED
      BY <2>1, <3>1, <3>2, ProductAssoc
  <2> DEFINE y == (product + 1) * q
             z == (b + 1) * (q * both)
             w == (b + 1) * ExactUnit
  <2>5. y \in Int /\ z \in Int /\ w \in Int /\ y <= z /\ z <= w
    BY <1>1, <1>4, <2>1, <2>2, <2>3, <2>4, ExactUnitLemma
  <2> HIDE DEF y, z, w
  <2>6. y <= w
    BY <2>5
  <2>7. QED
    BY <2>6 DEF y, w
<1>7. product * q + q <= (b + 1) * ExactUnit
  <2>1. (product + 1) * q = product * q + 1 * q /\ 1 * q = q
    BY <1>4, ProductSum
  <2>2. QED
    BY <1>6, <2>1
<1>8. product * q + 1 <= (b + 1) * ExactUnit
  <2>1. product * q \in Nat /\ (b + 1) * ExactUnit \in Nat
    BY <1>3, <1>4, ExactUnitLemma, ProductNat
  <2>2. (b + 1) * ExactUnit # 0
    <3>1. b + 1 \in Nat /\ b + 1 # 0
      BY <1>3
    <3>2. QED
      BY <3>1, ExactUnitLemma, ProductNat
  <2>3. q = 0 => product * q = 0
    OBVIOUS
  <2> DEFINE y == product * q
             w == (b + 1) * ExactUnit
  <2>4. y \in Nat /\ w \in Nat /\ w # 0 /\ (q = 0 => y = 0) /\ y + q <= w
    BY <1>7, <2>1, <2>2, <2>3
  <2> HIDE DEF y, w
  <2>5. y + 1 <= w
    BY <1>4, <2>4
  <2>6. QED
    BY <2>5 DEF y, w
<1>9. QED
  BY <1>8 DEF Truncated, q, b, a, both

(* A priced amount is a natural number of dollars, and less than one       *)
(* dollar below the exact value.                                           *)
LEMMA PricedLemma ==
  ASSUME NEW d \in PolicyData, Len(d.token_divisors) = Len(d.allowed_tokens),
         NEW context \in Contexts, NEW answer \in Answers,
         TokenAllowed(d, context.contract), IsTransfer(context), PriceTrusted(answer)
  PROVE  /\ AmountUsd(d, context, answer) \in Nat
         /\ ExactValue(d, context, answer) \in Nat
         /\ Truncated(ExactValue(d, context, answer),
                      AmountUsd(d, context, answer), 1)
<1> DEFINE amount == context.amount
           price == answer.price
           divisor == TokenDivisor(d, context.contract)
           product == amount * price
<1>1. amount \in Nat
  BY CodeAssumption DEF IsTransfer, I128
<1>2. price \in Nat
  BY CodeAssumption, InputAssumption DEF PriceTrusted, I128
<1>3. divisor \in Nat \ {0} /\ d.usd_divisor \in Nat \ {0}
  BY TokenDivisorLemma, PolicyDataFields
<1>4. ExactUnit \in Nat
  BY ExactUnitLemma
<1> HIDE DEF amount, price, divisor
<1>5. product \in Nat
  BY <1>1, <1>2, ProductNat
<1> HIDE DEF product
<1>6. (product \div d.usd_divisor) \div divisor \in Nat
  BY <1>3, <1>5, DivNat
<1>7. d.usd_divisor * divisor \in Nat \ {0}
  BY <1>3, ProductNat
<1>8. product * (ExactUnit \div (d.usd_divisor * divisor)) \in Nat
  BY <1>4, <1>5, <1>7, DivNat, ProductNat
<1>9. Truncated(product * (ExactUnit \div (d.usd_divisor * divisor)),
                (product \div d.usd_divisor) \div divisor, 1)
  BY <1>3, <1>5, TruncationLemma
<1>10. QED
  BY <1>6, <1>8, <1>9 DEF AmountUsd, ExactValue, product, amount, price, divisor

-----------------------------------------------------------------------------
(* The invariant of the whole contract.                                    *)

SpentTypes == [usd : [Ledgers -> Nat], exact : [Ledgers -> Nat]]

SpendInv ==
  /\ ledger \in Ledgers /\ FirstLedger <= ledger
  /\ now \in Nat
  /\ DOMAIN store \subseteq Keys
  /\ \A key \in DOMAIN store : KeyInv(store[key], spent[key].usd, ledger)
  /\ \A key \in DOMAIN store : ValueInv(store[key], spent[key].exact, ledger)
  /\ \A key \in Keys : key \notin DOMAIN store => spent[key] = NothingSpent
  /\ live_until \in [Keys -> Int]
  /\ spent \in [Keys -> SpentTypes]

LEMMA NothingSpentType == NothingSpent \in SpentTypes
  BY DEF NothingSpent, SpentTypes

LEMMA InitInv == Init => SpendInv
<1> SUFFICES ASSUME Init PROVE SpendInv
  OBVIOUS
<1>1. ledger \in Ledgers /\ FirstLedger <= ledger /\ now \in Nat
  BY LedgerAssumption DEF Init, Ledgers
<1>2. DOMAIN store = {}
  BY DEF Init
<1>3. live_until \in [Keys -> Int] /\ spent \in [Keys -> SpentTypes]
  BY NothingSpentType DEF Init
<1>4. \A key \in Keys : spent[key] = NothingSpent
  BY DEF Init
<1>5. QED
  BY <1>1, <1>2, <1>3, <1>4 DEF SpendInv

LEMMA TtlTypes ==
  ASSUME SpendInv, NEW key \in Keys
  PROVE  /\ ExtendPolicyTtl(key) \in Int
         /\ FreshLiveUntil(ledger, MIN_PERSISTENT_TTL) \in Int
  BY CodeAssumption, LedgerAssumption
     DEF SpendInv, ExtendPolicyTtl, ExtendTtl, FreshLiveUntil, Ledgers

LEMMA InstallInv ==
  ASSUME SpendInv, NEW key \in Keys, NEW rule_type, NEW params \in Params,
         NEW authorized, Install(key, rule_type, params, authorized)
  PROVE  SpendInv'
<1> DEFINE tokens == params.allowed_tokens
           divisors == [i \in DOMAIN tokens |-> fetch_token_divisor(tokens[i])]
           usd_divisor == fetch_usd_divisor(params.oracle_address)
           data == [spending_limit_usd |-> params.spending_limit_usd,
                    period_ledgers |-> params.period_ledgers,
                    usd_divisor |-> usd_divisor,
                    allowed_tokens |-> tokens,
                    token_divisors |-> divisors,
                    spending_history |-> <<>>,
                    cached_total_spent_usd |-> 0]
<1>1. /\ params.spending_limit_usd \in Nat \ {0}
      /\ params.period_ledgers \in Nat \ {0}
      /\ tokens \in Seq(Contracts)
  BY InputAssumption, CodeAssumption DEF Install, I128
<1>2. usd_divisor \in Nat \ {0}
  BY InputAssumption, PowLemma DEF Install, DecimalsUsable, fetch_usd_divisor
<1>3. divisors \in Seq(Nat \ {0}) /\ Len(divisors) = Len(tokens)
  <2>1. DOMAIN tokens = 1..Len(tokens) /\ Len(tokens) \in Nat
    BY <1>1
  <2>2. ASSUME NEW i \in 1..Len(tokens)
        PROVE  fetch_token_divisor(tokens[i]) \in Nat \ {0}
    <3>1. Decimals[tokens[i]] \in Nat
      BY <2>1, InputAssumption DEF Install, DecimalsUsable
    <3>2. QED
      BY <3>1, PowLemma DEF fetch_token_divisor
  <2>3. QED
    BY <2>1, <2>2
<1> HIDE DEF usd_divisor, divisors
<1>4. data \in PolicyData
  BY <1>1, <1>2, <1>3 DEF PolicyData
<1>5. /\ store' = [k \in DOMAIN store \cup {key} |->
                     IF k = key THEN data ELSE store[k]]
      /\ key \notin DOMAIN store
      /\ UNCHANGED <<ledger, now, spent>>
  BY DEF Install, Has, usd_divisor, divisors
<1>6. /\ data.spending_history = <<>> /\ data.cached_total_spent_usd = 0
      /\ Len(data.token_divisors) = Len(data.allowed_tokens)
  BY <1>3
<1> HIDE DEF data
<1>7. KeyInv(data, spent[key].usd, ledger) /\ ValueInv(data, spent[key].exact, ledger)
  <2>1. /\ spent[key].usd = [t \in Ledgers |-> 0]
        /\ spent[key].exact = [t \in Ledgers |-> 0]
    BY <1>5 DEF SpendInv, NothingSpent
  <2>2. ledger \in Ledgers
    BY DEF SpendInv
  <2>3. QED
    BY <1>4, <1>6, <2>1, <2>2, KeyInvFresh, ValueFresh
<1>8. DOMAIN store' = DOMAIN store \cup {key} /\ store'[key] = data
  BY <1>5
<1>9. ASSUME NEW k \in DOMAIN store'
      PROVE  /\ KeyInv(store'[k], spent'[k].usd, ledger')
             /\ ValueInv(store'[k], spent'[k].exact, ledger')
  <2>1. CASE k = key
    BY <1>5, <1>7, <1>8, <2>1
  <2>2. CASE k # key
    <3>1. k \in DOMAIN store /\ store'[k] = store[k]
      BY <1>5, <1>8, <2>2
    <3>2. QED
      BY <1>5, <3>1 DEF SpendInv
  <2>3. QED
    BY <2>1, <2>2
<1>10. live_until' \in [Keys -> Int]
  BY TtlTypes DEF SpendInv, Install
<1>11. DOMAIN store' \subseteq Keys
  BY <1>8 DEF SpendInv
<1>12. QED
  BY <1>5, <1>8, <1>9, <1>10, <1>11 DEF SpendInv

LEMMA UninstallInv ==
  ASSUME SpendInv, NEW key \in Keys, NEW authorized, Uninstall(key, authorized)
  PROVE  SpendInv'
<1>1. /\ store' = [k \in DOMAIN store \ {key} |-> store[k]]
      /\ spent' = [spent EXCEPT ![key] = NothingSpent]
      /\ UNCHANGED <<ledger, now, live_until>>
  BY DEF Uninstall
<1>2. DOMAIN store' = DOMAIN store \ {key}
  BY <1>1
<1>3. spent' \in [Keys -> SpentTypes] /\ spent'[key] = NothingSpent
      /\ \A k \in Keys : k # key => spent'[k] = spent[k]
  BY <1>1, NothingSpentType DEF SpendInv
<1>4. ASSUME NEW k \in DOMAIN store'
      PROVE  /\ KeyInv(store'[k], spent'[k].usd, ledger')
             /\ ValueInv(store'[k], spent'[k].exact, ledger')
  <2>1. k \in DOMAIN store /\ k \in Keys /\ k # key /\ store'[k] = store[k]
    BY <1>1, <1>2 DEF SpendInv
  <2>2. QED
    BY <1>1, <1>3, <2>1 DEF SpendInv
<1>5. \A k \in Keys : k \notin DOMAIN store' => spent'[k] = NothingSpent
  BY <1>2, <1>3 DEF SpendInv
<1>6. QED
  BY <1>1, <1>2, <1>3, <1>4, <1>5 DEF SpendInv

LEMMA EnforceInv ==
  ASSUME SpendInv, NEW key \in Keys, NEW context \in Contexts, NEW answer \in Answers,
         NEW authorized, Enforce(key, context, answer, authorized)
  PROVE  SpendInv'
<1> DEFINE data == CleanedUp(store[key], ledger)
           usd == AmountUsd(data, context, answer)
           exact == ExactValue(data, context, answer)
           u == spent[key].usd
           x == spent[key].exact
<1>1. key \in DOMAIN store /\ ledger \in Ledgers /\ FirstLedger <= ledger
  BY DEF Enforce, Has, SpendInv
<1>2. KeyInv(store[key], u, ledger) /\ ValueInv(store[key], x, ledger)
  BY <1>1 DEF SpendInv
<1>3. /\ KeyInv(data, u, ledger) /\ ValueInv(data, x, ledger)
      /\ Younger(data.spending_history, Cutoff(ledger, data.period_ledgers))
  BY <1>1, <1>2, KeyInvClean, ValueClean
<1>4. /\ data \in PolicyData /\ Len(data.token_divisors) = Len(data.allowed_tokens)
      /\ data.allowed_tokens = store[key].allowed_tokens
  <2>1. data.allowed_tokens = store[key].allowed_tokens
    BY <1>2 DEF CleanedUp, KeyInv, PolicyData
  <2>2. QED
    BY <1>3, <2>1 DEF KeyInv
<1>5. /\ IsTransfer(context) /\ PriceTrusted(answer)
      /\ TokenAllowed(data, context.contract)
  BY <1>4 DEF Enforce, Priceable, TokenAllowed
<1>6. /\ WithinLimit(data, usd) /\ HasCapacity(data)
      /\ store' = [store EXCEPT ![key] = Record(data, usd)]
      /\ spent' = [spent EXCEPT ![key] = Spend(spent[key], usd, exact)]
      /\ live_until' = [live_until EXCEPT ![key] = ExtendPolicyTtl(key)]
      /\ UNCHANGED <<ledger, now>>
  BY DEF Enforce
<1> HIDE DEF data
<1>7. usd \in Nat /\ exact \in Nat /\ Truncated(exact, usd, 1)
  BY <1>4, <1>5, PricedLemma
<1> HIDE DEF usd, exact
<1>8. /\ KeyInv(Record(data, usd), Later(u, usd), ledger)
      /\ ValueInv(Record(data, usd), Later(x, exact), ledger)
  BY <1>1, <1>3, <1>6, <1>7, KeyInvRecord, ValueRecord
<1>9. /\ Spend(spent[key], usd, exact).usd = Later(u, usd)
      /\ Spend(spent[key], usd, exact).exact = Later(x, exact)
      /\ Spend(spent[key], usd, exact) \in SpentTypes
  <2>1. spent[key] \in SpentTypes /\ ledger \in Nat /\ \A t \in Ledgers : t \in Nat
    BY <1>1 DEF SpendInv, Ledgers
  <2>2. u \in [Ledgers -> Nat] /\ x \in [Ledgers -> Nat]
    BY <2>1 DEF SpentTypes
  <2>3. Spend(spent[key], usd, exact)
          = [usd |-> Later(u, usd), exact |-> Later(x, exact)]
    BY DEF Spend, Later
  <2>4. /\ Later(u, usd) \in [Ledgers -> Nat]
        /\ Later(x, exact) \in [Ledgers -> Nat]
    BY <1>7, <2>1, <2>2 DEF Later
  <2>5. QED
    BY <2>3, <2>4 DEF SpentTypes
<1>10. /\ DOMAIN store' = DOMAIN store /\ store'[key] = Record(data, usd)
       /\ \A k \in DOMAIN store : k # key => store'[k] = store[k]
  BY <1>1, <1>6
<1>11. /\ spent' \in [Keys -> SpentTypes] /\ spent'[key].usd = Later(u, usd)
       /\ spent'[key].exact = Later(x, exact)
       /\ \A k \in Keys : k # key => spent'[k] = spent[k]
  BY <1>6, <1>9 DEF SpendInv
<1>12. ASSUME NEW k \in DOMAIN store'
       PROVE  /\ KeyInv(store'[k], spent'[k].usd, ledger')
              /\ ValueInv(store'[k], spent'[k].exact, ledger')
  <2>1. CASE k = key
    BY <1>6, <1>8, <1>10, <1>11, <2>1
  <2>2. CASE k # key
    <3>1. k \in DOMAIN store /\ k \in Keys /\ store'[k] = store[k]
      BY <1>10, <2>2 DEF SpendInv
    <3>2. QED
      BY <1>6, <1>11, <2>2, <3>1 DEF SpendInv
  <2>3. QED
    BY <2>1, <2>2
<1>13. live_until' \in [Keys -> Int]
  BY <1>6, TtlTypes DEF SpendInv
<1>14. \A k \in Keys : k \notin DOMAIN store' => spent'[k] = NothingSpent
  BY <1>1, <1>10, <1>11 DEF SpendInv
<1>15. QED
  BY <1>6, <1>10, <1>11, <1>12, <1>13, <1>14 DEF SpendInv

LEMMA TtlStepInv ==
  ASSUME SpendInv, NEW key \in Keys, GetPolicyData(key) \/ Restore(key)
  PROVE  SpendInv'
<1>1. UNCHANGED <<ledger, now, store, spent>> /\ live_until' \in [Keys -> Int]
  BY TtlTypes DEF SpendInv, GetPolicyData, Restore
<1>2. QED
  BY <1>1 DEF SpendInv

LEMMA CloseLedgerInv ==
  ASSUME SpendInv, NEW seconds \in CloseTimes, CloseLedger(seconds)
  PROVE  SpendInv'
<1>1. /\ ledger' = ledger + 1 /\ ledger + 1 \in Ledgers /\ FirstLedger <= ledger'
      /\ now' \in Nat /\ UNCHANGED <<store, live_until, spent>>
  BY LedgerAssumption DEF SpendInv, CloseLedger, Ledgers
<1>2. ASSUME NEW k \in DOMAIN store
      PROVE  /\ KeyInv(store[k], spent[k].usd, ledger + 1)
             /\ ValueInv(store[k], spent[k].exact, ledger + 1)
  <2>1. /\ KeyInv(store[k], spent[k].usd, ledger) /\ ledger \in Ledgers
        /\ ValueInv(store[k], spent[k].exact, ledger) /\ store[k] \in PolicyData
    BY DEF SpendInv, KeyInv
  <2>2. QED
    BY <1>1, <2>1, KeyInvLedger, ValueLedger
<1>3. QED
  BY <1>1, <1>2 DEF SpendInv

LEMMA StepInv == SpendInv /\ [Next]_vars => SpendInv'
<1> SUFFICES ASSUME SpendInv, [Next]_vars PROVE SpendInv'
  OBVIOUS
<1>1. ASSUME NEW key \in Keys, NEW authorized \in SUBSET Accounts,
             NEW rule_type \in RuleTypes, NEW params \in Params,
             Install(key, rule_type, params, authorized)
      PROVE  SpendInv'
  BY <1>1, InstallInv
<1>2. ASSUME NEW key \in Keys, NEW authorized \in SUBSET Accounts,
             Uninstall(key, authorized)
      PROVE  SpendInv'
  BY <1>2, UninstallInv
<1>3. ASSUME NEW key \in Keys, NEW authorized \in SUBSET Accounts,
             NEW context \in Contexts, NEW answer \in Answers,
             Enforce(key, context, answer, authorized)
      PROVE  SpendInv'
  BY <1>3, EnforceInv
<1>4. ASSUME NEW key \in Keys, GetPolicyData(key) \/ Restore(key) PROVE SpendInv'
  BY <1>4, TtlStepInv
<1>5. ASSUME NEW seconds \in CloseTimes, CloseLedger(seconds) PROVE SpendInv'
  BY <1>5, CloseLedgerInv
<1>6. CASE UNCHANGED vars
  BY <1>6 DEF SpendInv, vars
<1>7. QED
  BY <1>1, <1>2, <1>3, <1>4, <1>5, <1>6 DEF Next

LEMMA Invariance == Spec => []SpendInv
<1>1. QED
  BY InitInv, StepInv, PTL DEF Spec

-----------------------------------------------------------------------------
(* Theorems.                                                               *)

(* Every stored PolicyData keeps the shape its type declares, with         *)
(* non-negative entries, one divisor per token and a bounded history.      *)
THEOREM TypeCorrect == Spec => []TypeOK
<1>1. SpendInv => TypeOK
  BY DEF SpendInv, TypeOK, KeyInv, History, SpentTypes
<1>2. QED
  BY <1>1, Invariance, PTL

(* cached_total_spent_usd never drifts from the entries it stands for,     *)
(* whatever saturating_add and saturating_sub would do at the extremes.    *)
THEOREM CachedCorrect == Spec => []CachedMatchesHistory
<1>1. SpendInv => CachedMatchesHistory
  BY DEF SpendInv, CachedMatchesHistory, KeyInv, History
<1>2. QED
  BY <1>1, Invariance, PTL

(* No window of period_ledgers ledgers sees more than spending_limit_usd   *)
(* accepted, although enforce looks only at the window that ends now.      *)
THEOREM WindowCorrect == Spec => []RollingWindowBound
<1>1. SpendInv => RollingWindowBound
  <2> SUFFICES ASSUME SpendInv, NEW key \in DOMAIN store, Bounded(store[key]),
                      NEW t \in Ledgers
               PROVE  WindowUsd(key, t) <= store[key].spending_limit_usd
    BY DEF RollingWindowBound
  <2>1. WindowsBounded(store[key], spent[key].usd)
    BY DEF SpendInv, KeyInv
  <2>2. WindowUsd(key, t)
          = spent[key].usd[t] - spent[key].usd[Cutoff(t, store[key].period_ledgers)]
    BY DEF WindowUsd, WindowStart, Cutoff
  <2>3. QED
    BY <2>1, <2>2 DEF WindowsBounded
<1>2. QED
  BY <1>1, Invariance, PTL

(* Truncation to whole dollars lets through less than one dollar per       *)
(* history entry: no window moves an exact value of spending_limit_usd     *)
(* plus MAX_HISTORY_ENTRIES dollars or more, whatever prices and decimals  *)
(* the oracle and the tokens have.                                         *)
THEOREM ValueCorrect == Spec => []TrueValueBounded
<1>1. SpendInv => TrueValueBounded
  <2> SUFFICES ASSUME SpendInv, NEW key \in DOMAIN store, Bounded(store[key]),
                      NEW t \in Ledgers
               PROVE  WindowExact(key, t)
                        < (store[key].spending_limit_usd + MAX_HISTORY_ENTRIES)
                            * ExactUnit
    BY DEF TrueValueBounded
  <2>1. ValueBounded(store[key], spent[key].exact)
    BY DEF SpendInv, ValueInv
  <2>2. WindowExact(key, t)
          = spent[key].exact[t] - spent[key].exact[Cutoff(t, store[key].period_ledgers)]
    BY DEF WindowExact, WindowStart, Cutoff
  <2>3. QED
    BY <2>1, <2>2 DEF ValueBounded
<1>2. QED
  BY <1>1, Invariance, PTL

(* After the eviction, the cached total is the spend of the open window.   *)
LEMMA CleanedWindow ==
  ASSUME NEW d, NEW u, NEW l \in Ledgers, KeyInv(d, u, l), Bounded(d)
  PROVE  /\ CleanedUp(d, l).cached_total_spent_usd
              = u[l] - u[Cutoff(l, d.period_ledgers)]
         /\ CleanedUp(d, l).cached_total_spent_usd \in Nat
         /\ CleanedUp(d, l).spending_limit_usd = d.spending_limit_usd
<1> DEFINE d1 == CleanedUp(d, l)
           h1 == d1.spending_history
           m == Len(h1)
           T1 == UsdTotals(h1)
           c == Cutoff(l, d1.period_ledgers)
<1>1. /\ KeyInv(d1, u, l) /\ Younger(h1, c)
      /\ d1.period_ledgers = d.period_ledgers
      /\ d1.spending_limit_usd = d.spending_limit_usd
  BY KeyInvClean
<1> HIDE DEF d1
<1>2. /\ h1 \in Histories /\ d1.period_ledgers \in Nat \ {0} /\ Bounded(d1)
      /\ d1.cached_total_spent_usd = T1[m] /\ Explains(h1, u, c) /\ Cumulative(u, l)
  BY <1>1, PolicyDataFields DEF KeyInv, Bounded
<1>3. m \in Nat /\ T1 \in [0..m -> Nat] /\ T1[0] = 0
  BY <1>2, HistoryLemma, TotalsLemma
<1>4. l \in Nat /\ c \in Ledgers /\ c \in Nat
  BY <1>2, LedgerAssumption DEF Cutoff, Ledgers
<1> HIDE DEF c, T1, m, h1
<1>5. Splits(h1, 0, c)
  BY <1>1 DEF Splits, Younger
<1>6. u[MaxLedger] - u[c] = T1[m] - T1[0]
  <2>1. 0 \in 0..m /\ c >= c
    BY <1>3, <1>4
  <2>2. QED
    BY <1>2, <1>4, <1>5, <2>1 DEF Explains, T1, m
<1>7. u[l] = u[MaxLedger] /\ T1[m] \in Nat
  BY <1>2, <1>3, <1>4 DEF Cumulative
<1>8. QED
  BY <1>1, <1>2, <1>3, <1>6, <1>7 DEF d1, c

(* enforce admits an amount if and only if it fits the window that ends in *)
(* the current ledger.                                                     *)
THEOREM LimitCheckCorrect == Spec => []LimitCheckExact
<1>1. SpendInv => LimitCheckExact
  <2> SUFFICES ASSUME SpendInv, NEW key \in DOMAIN store, Bounded(store[key]),
                      NEW usd \in 0..store[key].spending_limit_usd
               PROVE  WithinLimit(CleanedUp(store[key], ledger), usd)
                        <=> WindowUsd(key, ledger) + usd
                              <= store[key].spending_limit_usd
    BY DEF LimitCheckExact
  <2> DEFINE d1 == CleanedUp(store[key], ledger)
  <2>1. KeyInv(store[key], spent[key].usd, ledger) /\ ledger \in Ledgers
    BY DEF SpendInv
  <2>2. WindowUsd(key, ledger)
          = spent[key].usd[ledger]
              - spent[key].usd[Cutoff(ledger, store[key].period_ledgers)]
    BY DEF WindowUsd, WindowStart, Cutoff
  <2>3. /\ d1.cached_total_spent_usd = WindowUsd(key, ledger)
        /\ d1.cached_total_spent_usd \in Nat
        /\ d1.spending_limit_usd = store[key].spending_limit_usd
    BY <2>1, <2>2, CleanedWindow
  <2>4. store[key].spending_limit_usd \in Nat /\ usd \in Nat
    BY <2>1, PolicyDataFields DEF KeyInv
  <2> HIDE DEF d1
  <2>5. WithinLimit(d1, usd)
          <=> Saturate(WindowUsd(key, ledger) + usd) <= store[key].spending_limit_usd
    BY <2>3 DEF WithinLimit
  <2>6. Saturate(WindowUsd(key, ledger) + usd) <= store[key].spending_limit_usd
          <=> WindowUsd(key, ledger) + usd <= store[key].spending_limit_usd
    BY <2>3, <2>4, CodeAssumption DEF Saturate, Bounded
  <2>7. QED
    BY <2>5, <2>6 DEF d1
<1>2. QED
  BY <1>1, Invariance, PTL

(* Expiry in the words of the properties: an entry is at or before the     *)
(* saturated cutoff if and only if a whole period has passed since.  This  *)
(* needs the first ledger to be positive.                                  *)
LEMMA ExpiredLemma ==
  ASSUME NEW l \in Nat, NEW period \in Nat \ {0}, NEW t \in Nat \ {0}
  PROVE  t <= Cutoff(l, period) <=> t + period <= l
  BY DEF Cutoff

(* A quiet period reopens the full limit and the full history capacity.    *)
THEOREM ReopenCorrect == Spec => []ReopensAfterQuietPeriod
<1>1. SpendInv => ReopensAfterQuietPeriod
  <2> DEFINE d1(key) == CleanedUp(store[key], ledger)
  <2> SUFFICES ASSUME SpendInv, NEW key \in DOMAIN store, Bounded(d1(key)),
                      \A i \in DOMAIN History(key) :
                        History(key)[i].ledger + d1(key).period_ledgers <= ledger
               PROVE  /\ HasCapacity(d1(key))
                      /\ \A usd \in 0..d1(key).spending_limit_usd :
                           WithinLimit(d1(key), usd)
    BY DEF ReopensAfterQuietPeriod
  <2> DEFINE d == store[key]
             h == d.spending_history
             n == Len(h)
             e == EvictedCount(h, Cutoff(ledger, d.period_ledgers))
             c == Cutoff(ledger, d.period_ledgers)
             h1 == d1(key).spending_history
             m == Len(h1)
  <2>1. KeyInv(d, spent[key].usd, ledger) /\ ledger \in Ledgers /\ ledger \in Nat
    BY DEF SpendInv, Ledgers
  <2>2. /\ d \in PolicyData /\ h \in Histories /\ n \in Nat /\ DOMAIN h = 1..n
        /\ Chronicle(h, ledger) /\ Sorted(h)
        /\ d.period_ledgers \in Nat \ {0}
        /\ \A k \in 1..n : h[k].ledger \in Nat
    BY <2>1, PolicyDataFields, HistoryLemma DEF KeyInv, Chronicle, Histories
  <2>3. /\ KeyInv(d1(key), spent[key].usd, ledger)
        /\ d1(key).period_ledgers = d.period_ledgers
        /\ d1(key).spending_limit_usd = d.spending_limit_usd
    BY <2>1, KeyInvClean
  <2>4. /\ e \in 0..n /\ m = n - e
        /\ \A k \in 1..m : h1[k] = h[e + k] /\ h1[k].ledger > c
    BY <2>1, <2>2, CleanLemma
  <2>5. \A i \in 1..n : h[i].ledger + d.period_ledgers <= ledger
    BY <2>2, <2>3 DEF History
  <2>6. \A i \in 1..n : h[i].ledger \in Nat \ {0}
    BY <2>2, LedgerAssumption DEF Chronicle
  <2>7. h1 \in Histories /\ d1(key).cached_total_spent_usd = UsdTotals(h1)[m]
    BY <2>3, PolicyDataFields DEF KeyInv
  <2>8. d1(key).spending_limit_usd \in Nat
    BY <2>3, PolicyDataFields DEF KeyInv
  <2>9. c \in Nat
    BY <2>1, <2>2, CutoffLemma
  <2> HIDE DEF d, h, n, e, h1, m
  <2>10. m = 0
    <3> SUFFICES ASSUME m # 0 PROVE FALSE
      OBVIOUS
    <3>1. 1 \in 1..m /\ e + 1 \in 1..n
      BY <2>2, <2>4
    <3>2. h[e + 1].ledger > c
      BY <2>4, <3>1
    <3>3. h[e + 1].ledger <= c
      BY <2>1, <2>2, <2>5, <2>6, <3>1, ExpiredLemma
    <3> HIDE DEF c
    <3>4. QED
      BY <2>6, <2>9, <3>1, <3>2, <3>3
  <2>11. d1(key).cached_total_spent_usd = 0
    BY <2>7, <2>10, TotalsLemma
  <2>12. HasCapacity(d1(key))
    BY <2>10, CodeAssumption DEF HasCapacity, m, h1
  <2> HIDE DEF d1
  <2>13. ASSUME NEW usd \in 0..d1(key).spending_limit_usd
         PROVE  WithinLimit(d1(key), usd)
    BY <2>8, <2>11, CodeAssumption DEF WithinLimit, Saturate, Bounded
  <2>14. QED
    BY <2>12, <2>13
<1>2. QED
  BY <1>1, Invariance, PTL

(* No step forgets an entry whose window is still open: eviction pops a    *)
(* prefix, and that prefix is expired.                                     *)
THEOREM NothingForgotten == Spec => NothingLiveForgotten
<1> DEFINE Kept(key) ==
      \A i \in DOMAIN History(key) :
        History(key)[i].ledger + store[key].period_ledgers > ledger
          => \E j \in DOMAIN History(key)' : History(key)'[j] = History(key)[i]
<1>1. ASSUME SpendInv, [Next]_vars, NEW key \in DOMAIN store, key \in DOMAIN store'
      PROVE  Kept(key)
  <2>1. CASE store'[key] = store[key]
    BY <2>1 DEF History
  <2>2. ASSUME NEW context \in Contexts, NEW answer \in Answers, NEW authorized,
               Enforce(key, context, answer, authorized)
        PROVE  Kept(key)
    <3> DEFINE d == store[key]
               h == d.spending_history
               n == Len(h)
               c == Cutoff(ledger, d.period_ledgers)
               e == EvictedCount(h, c)
               d1 == CleanedUp(d, ledger)
               h1 == d1.spending_history
               m == Len(h1)
               usd == AmountUsd(d1, context, answer)
               h2 == Record(d1, usd).spending_history
    <3>1. KeyInv(d, spent[key].usd, ledger) /\ ledger \in Ledgers /\ ledger \in Nat
      BY <1>1 DEF SpendInv, Ledgers
    <3>2. /\ d \in PolicyData /\ h \in Histories /\ n \in Nat /\ DOMAIN h = 1..n
          /\ Chronicle(h, ledger) /\ Sorted(h)
          /\ d.period_ledgers \in Nat \ {0}
          /\ \A k \in 1..n : h[k].ledger \in Nat
      BY <3>1, PolicyDataFields, HistoryLemma DEF KeyInv, Chronicle, Histories
    <3>3. /\ e \in 0..n /\ m = n - e /\ d1 \in PolicyData /\ h1 \in Histories
          /\ \A k \in 1..e : h[k].ledger <= c
          /\ \A k \in 1..m : h1[k] = h[e + k]
      BY <3>1, <3>2, CleanLemma
    <3>4. \A i \in 1..n : h[i].ledger \in Nat \ {0}
      BY <3>2, LedgerAssumption DEF Chronicle
    <3>5. store'[key] = Record(d1, usd)
      BY <1>1, <2>2 DEF Enforce
    <3>6. /\ h2 = Append(h1, [amount_usd |-> usd, ledger |-> ledger])
          /\ m \in Nat
      BY <3>3, HistoryLemma DEF Record, PolicyData
    <3>7. DOMAIN h2 = 1..(m + 1) /\ \A k \in 1..m : h2[k] = h1[k]
      BY <3>3, <3>6 DEF Histories
    <3>8. ASSUME NEW i \in 1..n, h[i].ledger + d.period_ledgers > ledger
          PROVE  \E j \in DOMAIN h2 : h2[j] = h[i]
      <4>1. ~(h[i].ledger <= c)
        <5>1. ~(h[i].ledger + d.period_ledgers <= ledger)
          BY <3>1, <3>2, <3>8
        <5>2. QED
          BY <3>1, <3>2, <3>4, <5>1, ExpiredLemma
      <4> HIDE DEF c, e, d1, h1, m, h2, h, n, d
      <4>2. i > e
        BY <3>2, <3>3, <4>1
      <4>3. i - e \in 1..m /\ e + (i - e) = i
        BY <3>2, <3>3, <4>2
      <4>4. h1[i - e] = h[e + (i - e)]
        BY <3>3, <4>3
      <4>5. h2[i - e] = h[i] /\ i - e \in DOMAIN h2
        BY <3>6, <3>7, <4>3, <4>4
      <4>6. QED
        BY <4>5
    <3>9. History(key) = h /\ History(key)' = h2
      BY <3>5 DEF History
    <3> HIDE DEF h2, h, n
    <3>10. QED
      BY <3>2, <3>8, <3>9
  <2>3. \/ store'[key] = store[key]
        \/ \E context \in Contexts, answer \in Answers, authorized \in SUBSET Accounts :
             Enforce(key, context, answer, authorized)
    <3> DEFINE Goal == \/ store'[key] = store[key]
                       \/ \E context \in Contexts, answer \in Answers,
                             authorized \in SUBSET Accounts :
                            Enforce(key, context, answer, authorized)
    <3>1. ASSUME NEW k \in Keys, NEW rule_type, NEW params, NEW authorized,
                 Install(k, rule_type, params, authorized)
          PROVE  store'[key] = store[key]
      BY <1>1, <3>1 DEF Install, Has
    <3>2. ASSUME NEW k \in Keys, NEW authorized, Uninstall(k, authorized)
          PROVE  store'[key] = store[key]
      <4>1. store' = [j \in DOMAIN store \ {k} |-> store[j]]
        BY <3>2 DEF Uninstall
      <4>2. QED
        BY <1>1, <4>1
    <3>3. ASSUME NEW k \in Keys, NEW context \in Contexts, NEW answer \in Answers,
                 NEW authorized \in SUBSET Accounts,
                 Enforce(k, context, answer, authorized)
          PROVE  Goal
      <4>1. CASE k = key
        BY <3>3, <4>1
      <4>2. CASE k # key
        <5>1. store'[key] = store[key]
          BY <1>1, <3>3, <4>2 DEF Enforce
        <5>2. QED
          BY <5>1
      <4>3. QED
        BY <4>1, <4>2
    <3>4. ASSUME NEW k \in Keys, GetPolicyData(k) \/ Restore(k)
          PROVE  store'[key] = store[key]
      BY <3>4 DEF GetPolicyData, Restore
    <3>5. ASSUME NEW seconds, CloseLedger(seconds) PROVE store'[key] = store[key]
      BY <3>5 DEF CloseLedger
    <3>6. CASE UNCHANGED vars
      BY <3>6 DEF vars
    <3>7. QED
      BY <1>1, <3>1, <3>2, <3>3, <3>4, <3>5, <3>6 DEF Next
  <2>4. QED
    BY <2>1, <2>2, <2>3
<1>2. SpendInv /\ [Next]_vars
        => [\A key \in DOMAIN store : key \in DOMAIN store' => Kept(key)]_vars
  BY <1>1
<1>3. QED
  BY <1>2, Invariance, PTL DEF Spec, NothingLiveForgotten

-----------------------------------------------------------------------------
(* The refinement of RollingBudget.                                        *)

BudgetOf == [key \in DOMAIN store |-> [limit |-> store[key].spending_limit_usd,
                                       period |-> store[key].period_ledgers]]
UsdSpent == [key \in Keys |-> spent[key].usd]

LEMMA NothingUsd == NothingSpent.usd = Budget!Nothing
  BY DEF NothingSpent, Budget!Nothing, Budget!Ledgers, Ledgers

LEMMA BudgetInit == Init => Budget!Init
<1> SUFFICES ASSUME Init PROVE Budget!Init
  OBVIOUS
<1>1. DOMAIN store = {}
  BY DEF Init
<1>2. BudgetOf = [key \in {} |-> {}]
  BY <1>1 DEF BudgetOf
<1>3. UsdSpent = [key \in Keys |-> Budget!Nothing]
  BY NothingUsd DEF Init, UsdSpent
<1>4. QED
  BY <1>2, <1>3 DEF Budget!Init, BudgetOf, UsdSpent

(* install opens a budget under which nothing has been spent.              *)
LEMMA InstallOpens ==
  ASSUME SpendInv, NEW key \in Keys, NEW rule_type, NEW params \in Params,
         NEW authorized, Install(key, rule_type, params, authorized)
  PROVE  Budget!Open(key)
<1>1. /\ DOMAIN store' = DOMAIN store \cup {key} /\ key \notin DOMAIN store
      /\ \A k \in DOMAIN store : store'[k] = store[k]
      /\ UNCHANGED <<ledger, spent>>
  BY DEF Install, Has
<1>2. /\ store'[key].spending_limit_usd = params.spending_limit_usd
      /\ store'[key].period_ledgers = params.period_ledgers
  BY DEF Install
<1>3. params.spending_limit_usd > 0 /\ params.period_ledgers > 0
  BY InputAssumption DEF Install
<1>4. spent[key].usd = Budget!Nothing
  BY <1>1, NothingUsd DEF SpendInv
<1>5. /\ DOMAIN BudgetOf = DOMAIN store /\ DOMAIN BudgetOf' = DOMAIN store'
      /\ BudgetOf'[key].limit = params.spending_limit_usd
      /\ BudgetOf'[key].period = params.period_ledgers
      /\ \A k \in DOMAIN store : BudgetOf'[k] = BudgetOf[k]
  BY <1>1, <1>2 DEF BudgetOf
<1>6. UsdSpent[key] = Budget!Nothing /\ UNCHANGED UsdSpent
  BY <1>1, <1>4 DEF UsdSpent
<1>7. QED
  BY <1>1, <1>3, <1>5, <1>6 DEF Budget!Open, BudgetOf, UsdSpent

LEMMA UninstallCloses ==
  ASSUME SpendInv, NEW key \in Keys, NEW authorized, Uninstall(key, authorized)
  PROVE  Budget!Close(key)
<1>1. /\ key \in DOMAIN store
      /\ store' = [k \in DOMAIN store \ {key} |-> store[k]]
      /\ spent' = [spent EXCEPT ![key] = NothingSpent]
      /\ UNCHANGED ledger
  BY DEF Uninstall, Has
<1>2. BudgetOf' = [k \in DOMAIN BudgetOf \ {key} |-> BudgetOf[k]]
  BY <1>1 DEF BudgetOf
<1>3. \A k \in Keys : spent'[k] = IF k = key THEN NothingSpent ELSE spent[k]
  BY <1>1 DEF SpendInv
<1>4. UsdSpent' = [UsdSpent EXCEPT ![key] = Budget!Nothing]
  BY <1>3, NothingUsd DEF UsdSpent
<1>5. QED
  BY <1>1, <1>2, <1>4 DEF Budget!Close, BudgetOf, UsdSpent

(* An accepted call spends what it is worth, and that fits the window.     *)
LEMMA EnforceSpends ==
  ASSUME SpendInv, NEW key \in Keys, NEW context \in Contexts, NEW answer \in Answers,
         NEW authorized, Enforce(key, context, answer, authorized)
  PROVE  Budget!Spend(key)
<1> DEFINE d == store[key]
           data == CleanedUp(d, ledger)
           usd == AmountUsd(data, context, answer)
           exact == ExactValue(data, context, answer)
           u == spent[key].usd
           start == Cutoff(ledger, d.period_ledgers)
<1>1. /\ key \in DOMAIN store /\ ledger \in Ledgers /\ FirstLedger <= ledger
      /\ ledger \in Nat /\ KeyInv(d, u, ledger)
  BY DEF Enforce, Has, SpendInv, Ledgers
<1>2. /\ d \in PolicyData /\ d.spending_limit_usd \in Nat
      /\ d.period_ledgers \in Nat \ {0} /\ u \in [Ledgers -> Nat]
  BY <1>1, PolicyDataFields DEF KeyInv, Cumulative
<1>3. /\ KeyInv(data, u, ledger) /\ data \in PolicyData
      /\ data.spending_limit_usd = d.spending_limit_usd
      /\ data.period_ledgers = d.period_ledgers
      /\ data.allowed_tokens = d.allowed_tokens
      /\ Len(data.token_divisors) = Len(data.allowed_tokens)
  <2>1. /\ KeyInv(data, u, ledger)
        /\ data.spending_limit_usd = d.spending_limit_usd
        /\ data.period_ledgers = d.period_ledgers
    BY <1>1, KeyInvClean
  <2>2. data.allowed_tokens = d.allowed_tokens
    BY <1>2 DEF CleanedUp, PolicyData
  <2>3. QED
    BY <2>1, <2>2 DEF KeyInv
<1>4. /\ IsTransfer(context) /\ PriceTrusted(answer)
      /\ TokenAllowed(data, context.contract)
  BY <1>3 DEF Enforce, Priceable, TokenAllowed
<1>5. /\ WithinLimit(data, usd)
      /\ store' = [store EXCEPT ![key] = Record(data, usd)]
      /\ spent' = [spent EXCEPT ![key] = Spend(spent[key], usd, exact)]
      /\ UNCHANGED ledger
  BY DEF Enforce
<1>6. Bounded(d) => /\ data.cached_total_spent_usd = u[ledger] - u[start]
                    /\ data.cached_total_spent_usd \in Nat
  BY <1>1, CleanedWindow
<1> HIDE DEF data
<1>7. usd \in Nat
  BY <1>3, <1>4, PricedLemma
<1> HIDE DEF usd, exact
<1>8. /\ Record(data, usd).spending_limit_usd = d.spending_limit_usd
      /\ Record(data, usd).period_ledgers = d.period_ledgers
  BY <1>3 DEF Record, PolicyData
<1>9. UNCHANGED BudgetOf
  <2>1. /\ DOMAIN store' = DOMAIN store /\ store'[key] = Record(data, usd)
        /\ \A k \in DOMAIN store : k # key => store'[k] = store[k]
    BY <1>1, <1>5
  <2>2. QED
    BY <1>8, <2>1 DEF BudgetOf
<1>10. \A k \in Keys : spent'[k].usd = IF k = key THEN Later(u, usd) ELSE spent[k].usd
  <2>1. Spend(spent[key], usd, exact).usd = Later(u, usd)
    BY DEF Spend, Later
  <2>2. QED
    BY <1>5, <2>1 DEF SpendInv
<1>11. /\ UsdSpent' = [UsdSpent EXCEPT ![key] = Later(u, usd)]
       /\ UsdSpent'[key] = Later(u, usd) /\ UsdSpent[key] = u
  BY <1>10 DEF UsdSpent
<1>12. Later(u, usd)[ledger] - u[ledger] = usd
  BY <1>1, <1>2, <1>7 DEF Later
<1>13. d.spending_limit_usd < I128_MAX => (u[ledger] - u[start]) + usd <= d.spending_limit_usd
  <2> SUFFICES ASSUME Bounded(d)
               PROVE  (u[ledger] - u[start]) + usd <= d.spending_limit_usd
    BY DEF Bounded
  <2>1. Saturate((u[ledger] - u[start]) + usd) <= d.spending_limit_usd
    BY <1>3, <1>5, <1>6 DEF WithinLimit
  <2>2. (u[ledger] - u[start]) + usd \in Nat
    BY <1>6, <1>7
  <2> HIDE DEF u, d, start
  <2>3. QED
    BY <1>2, <2>1, <2>2, CodeAssumption DEF Saturate, Bounded
<1>14. /\ key \in DOMAIN BudgetOf
       /\ BudgetOf[key].limit = d.spending_limit_usd
       /\ BudgetOf[key].period = d.period_ledgers
  BY <1>1 DEF BudgetOf
<1> DEFINE amount == UsdSpent'[key][ledger] - UsdSpent[key][ledger]
           period == BudgetOf[key].period
           window == UsdSpent[key][ledger]
                       - UsdSpent[key][IF ledger > period THEN ledger - period ELSE 0]
<1>15. amount = usd
  BY <1>11, <1>12
<1>16. window = u[ledger] - u[start]
  BY <1>11, <1>14 DEF Cutoff
<1>17. UsdSpent' = [UsdSpent EXCEPT ![key] =
                      [l \in Budget!Ledgers |->
                         UsdSpent[key][l] + IF l >= ledger THEN amount ELSE 0]]
  BY <1>11, <1>15 DEF Later, Budget!Ledgers, Ledgers
<1>18. amount >= 0 /\ (BudgetOf[key].limit < I128_MAX => window + amount <= BudgetOf[key].limit)
  BY <1>7, <1>13, <1>14, <1>15, <1>16
<1>19. QED
  BY <1>5, <1>9, <1>14, <1>17, <1>18
  DEF Budget!Spend, Budget!InWindow, BudgetOf, UsdSpent

LEMMA BudgetStep ==
  SpendInv /\ [Next]_vars => [Budget!Next]_<<ledger, BudgetOf, UsdSpent>>
<1> SUFFICES ASSUME SpendInv, [Next]_vars
             PROVE  Budget!Next \/ UNCHANGED <<ledger, BudgetOf, UsdSpent>>
  OBVIOUS
<1>1. ASSUME NEW key \in Keys, NEW authorized \in SUBSET Accounts,
             NEW rule_type \in RuleTypes, NEW params \in Params,
             Install(key, rule_type, params, authorized)
      PROVE  Budget!Next
  BY <1>1, InstallOpens DEF Budget!Next
<1>2. ASSUME NEW key \in Keys, NEW authorized \in SUBSET Accounts,
             Uninstall(key, authorized)
      PROVE  Budget!Next
  BY <1>2, UninstallCloses DEF Budget!Next
<1>3. ASSUME NEW key \in Keys, NEW authorized \in SUBSET Accounts,
             NEW context \in Contexts, NEW answer \in Answers,
             Enforce(key, context, answer, authorized)
      PROVE  Budget!Next
  BY <1>3, EnforceSpends DEF Budget!Next
<1>4. ASSUME NEW key \in Keys, GetPolicyData(key) \/ Restore(key)
      PROVE  UNCHANGED <<ledger, BudgetOf, UsdSpent>>
  BY <1>4 DEF GetPolicyData, Restore, BudgetOf, UsdSpent
<1>5. ASSUME NEW seconds \in CloseTimes, CloseLedger(seconds) PROVE Budget!Next
  <2>1. ledger' = ledger + 1 /\ UNCHANGED <<BudgetOf, UsdSpent>>
    BY <1>5 DEF CloseLedger, BudgetOf, UsdSpent
  <2>2. QED
    BY <2>1 DEF Budget!Next, Budget!Tick, BudgetOf, UsdSpent
<1>6. CASE UNCHANGED vars
  BY <1>6 DEF vars, BudgetOf, UsdSpent
<1>7. QED
  BY <1>1, <1>2, <1>3, <1>4, <1>5, <1>6 DEF Next

(* The policy implements RollingBudget: install opens a budget, uninstall  *)
(* closes it, enforce spends what fits the window that ends now, and no    *)
(* eviction, archival, restoration or read changes what is left of it.     *)
THEOREM BudgetKept == Spec => KeepsBudget
<1>1. QED
  BY BudgetInit, BudgetStep, Invariance, PTL
  DEF Spec, KeepsBudget, Budget!Spec, BudgetOf, UsdSpent
=============================================================================
