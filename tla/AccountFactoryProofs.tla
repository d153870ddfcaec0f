------------------------ MODULE AccountFactoryProofs ------------------------
(***************************************************************************)
(* Theorems about the account factory, for every set of requests, signers  *)
(* of any number with keys of any length, and every configuration.  The    *)
(* argument has three parts: insertion sorts the signers, and a sorted     *)
(* list is determined by its elements; the length prefixes make the salt   *)
(* injective; every account was deployed for some request, so it is the    *)
(* account of every request that has its address.                          *)
(***************************************************************************)
EXTENDS AccountFactory, FiniteRecursion, SequenceTheorems

-----------------------------------------------------------------------------
(* The order of the signers.                                               *)

Bytes == Seq(Nat)

LEMMA LexIrreflexive == ASSUME NEW a \in Bytes PROVE ~LexLess(a, a)
<1>1. Len(a) \in Nat /\ \A i \in 1..Len(a) : a[i] \in Nat
  BY DEF Bytes
<1>2. QED
  BY <1>1 DEF LexLess

LEMMA LexTransitive ==
  ASSUME NEW a \in Bytes, NEW b \in Bytes, NEW c \in Bytes, LexLess(a, b), LexLess(b, c)
  PROVE  LexLess(a, c)
<1>1. /\ Len(a) \in Nat /\ Len(b) \in Nat /\ Len(c) \in Nat
      /\ \A i \in 1..Len(a) : a[i] \in Nat
      /\ \A i \in 1..Len(b) : b[i] \in Nat
      /\ \A i \in 1..Len(c) : c[i] \in Nat
  BY DEF Bytes
<1>2. PICK n \in 0..Len(a) : /\ n < Len(b)
                             /\ \A i \in 1..n : a[i] = b[i]
                             /\ n < Len(a) => a[n + 1] < b[n + 1]
  BY DEF LexLess
<1>3. PICK m \in 0..Len(b) : /\ m < Len(c)
                             /\ \A i \in 1..m : b[i] = c[i]
                             /\ m < Len(b) => b[m + 1] < c[m + 1]
  BY DEF LexLess
<1>4. CASE n <= m
  <2>1. n < Len(c) /\ \A i \in 1..n : a[i] = c[i]
    BY <1>1, <1>2, <1>3, <1>4
  <2>2. n < Len(a) => a[n + 1] < c[n + 1]
    <3> SUFFICES ASSUME n < Len(a) PROVE a[n + 1] < c[n + 1]
      OBVIOUS
    <3>1. a[n + 1] < b[n + 1] /\ a[n + 1] \in Nat /\ b[n + 1] \in Nat /\ c[n + 1] \in Nat
      BY <1>1, <1>2, <2>1
    <3>2. b[n + 1] <= c[n + 1]
      BY <1>1, <1>2, <1>3, <1>4, <3>1
    <3>3. QED
      BY <3>1, <3>2
  <2>3. QED
    BY <2>1, <2>2 DEF LexLess
<1>5. CASE m < n
  <2>1. m \in 0..Len(a) /\ m < Len(a) /\ m < Len(b) /\ \A i \in 1..m : a[i] = c[i]
    BY <1>1, <1>2, <1>3, <1>5
  <2>2. a[m + 1] = b[m + 1] /\ b[m + 1] < c[m + 1]
    BY <1>1, <1>2, <1>3, <1>5, <2>1
  <2>3. QED
    BY <1>3, <2>1, <2>2 DEF LexLess
<1>6. QED
  BY <1>1, <1>4, <1>5

LEMMA LexTotal ==
  ASSUME NEW a \in Bytes, NEW b \in Bytes, a # b, ~LexLess(a, b)
  PROVE  LexLess(b, a)
<1>1. /\ Len(a) \in Nat /\ Len(b) \in Nat
      /\ \A i \in 1..Len(a) : a[i] \in Nat
      /\ \A i \in 1..Len(b) : b[i] \in Nat
  BY DEF Bytes
(* The first place where they differ.                                      *)
<1> DEFINE D == {n \in Nat : \/ n >= Len(a) \/ n >= Len(b) \/ a[n + 1] # b[n + 1]}
<1>2. Len(a) \in D /\ D \subseteq Nat
  BY <1>1
<1>3. PICK n \in D : \A m \in D : n <= m
  <2> HIDE DEF D
  <2>1. QED
    BY <1>2, LeastNat
<1>4. n \in Nat /\ n <= Len(a) /\ n <= Len(b)
  <2>1. Len(b) \in D
    BY <1>1
  <2>2. QED
    BY <1>2, <1>3, <2>1
<1>5. ASSUME NEW i \in 1..n PROVE a[i] = b[i]
  <2>1. i - 1 \in Nat /\ i - 1 < n /\ i - 1 < Len(a) /\ i - 1 < Len(b) /\ (i - 1) + 1 = i
    BY <1>1, <1>4
  <2>2. i - 1 \notin D
    BY <1>3, <1>4, <2>1
  <2>3. a[(i - 1) + 1] = b[(i - 1) + 1]
    BY <1>1, <2>1, <2>2
  <2>4. QED
    BY <2>1, <2>3
<1>6. CASE n = Len(b)
  <2>1. n # Len(a)
    <3> SUFFICES ASSUME n = Len(a) PROVE FALSE
      OBVIOUS
    <3>1. Len(a) = Len(b) /\ \A i \in 1..Len(a) : a[i] = b[i]
      BY <1>5, <1>6
    <3>2. QED
      BY <3>1, SeqEqual DEF Bytes
  <2>2. QED
    BY <1>1, <1>4, <1>5, <1>6, <2>1 DEF LexLess
<1>7. CASE n = Len(a) /\ n < Len(b)
  BY <1>1, <1>4, <1>5, <1>7 DEF LexLess
<1>8. CASE n < Len(a) /\ n < Len(b)
  <2>1. a[n + 1] # b[n + 1]
    BY <1>1, <1>3, <1>8
  <2>2. a[n + 1] \in Nat /\ b[n + 1] \in Nat /\ n \in 0..Len(a) /\ n \in 0..Len(b)
    BY <1>1, <1>4, <1>8
  <2>3. ~(a[n + 1] < b[n + 1])
    BY <1>5, <1>8, <2>2 DEF LexLess
  <2>4. b[n + 1] < a[n + 1]
    BY <2>1, <2>2, <2>3
  <2>5. QED
    BY <1>5, <1>8, <2>2, <2>4 DEF LexLess
<1>9. QED
  BY <1>1, <1>4, <1>6, <1>7, <1>8

LEMMA SignerEqual ==
  ASSUME NEW x \in AccountSignerInit, NEW y \in AccountSignerInit,
         x.code = y.code, x.data = y.data
  PROVE  x = y
  BY DEF AccountSignerInit

(* The order of signers is a strict total order.                           *)
LEMMA SignerOrder ==
  ASSUME NEW x \in AccountSignerInit, NEW y \in AccountSignerInit
  PROVE  /\ ~SignerLess(x, x)
         /\ SignerLess(x, y) \/ x = y \/ SignerLess(y, x)
         /\ \A z \in AccountSignerInit : SignerLess(x, y) /\ SignerLess(y, z) => SignerLess(x, z)
<1>1. \A s \in AccountSignerInit : s.code \in Int /\ s.data \in Bytes
  BY DEF AccountSignerInit, Bytes
<1>2. ~SignerLess(x, x)
  BY <1>1, LexIrreflexive DEF SignerLess
<1>3. SignerLess(x, y) \/ x = y \/ SignerLess(y, x)
  <2> SUFFICES ASSUME ~SignerLess(x, y), ~SignerLess(y, x) PROVE x = y
    OBVIOUS
  <2>1. x.code = y.code /\ ~LexLess(x.data, y.data) /\ ~LexLess(y.data, x.data)
    BY <1>1 DEF SignerLess
  <2>2. x.data = y.data
    BY <1>1, <2>1, LexTotal
  <2>3. QED
    BY <2>1, <2>2 DEF AccountSignerInit
<1>4. ASSUME NEW z \in AccountSignerInit, SignerLess(x, y), SignerLess(y, z) PROVE SignerLess(x, z)
  <2>1. CASE x.code < y.code \/ y.code < z.code
    BY <1>1, <1>4, <2>1 DEF SignerLess
  <2>2. CASE x.code = y.code /\ y.code = z.code
    <3>1. LexLess(x.data, y.data) /\ LexLess(y.data, z.data)
      BY <1>1, <1>4, <2>2 DEF SignerLess
    <3>2. LexLess(x.data, z.data)
      BY <1>1, <3>1, LexTransitive
    <3>3. QED
      BY <2>2, <3>2 DEF SignerLess
  <2>3. QED
    BY <1>1, <1>4, <2>1, <2>2 DEF SignerLess
<1>5. QED
  BY <1>2, <1>3, <1>4

LEMMA SignerAsymmetric ==
  ASSUME NEW x \in AccountSignerInit, NEW y \in AccountSignerInit,
         SignerLess(x, y), SignerLess(y, x)
  PROVE  FALSE
<1>1. SignerLess(x, x)
  BY SignerOrder
<1>2. QED
  BY <1>1, SignerOrder

-----------------------------------------------------------------------------
(* Canonical lists.                                                        *)

Sorted(s) == \A i, j \in 1..Len(s) : i < j => SignerLess(s[i], s[j])

(* A sorted list is determined by its elements.                            *)
LEMMA SortedUnique ==
  ASSUME NEW a \in Seq(AccountSignerInit), NEW b \in Seq(AccountSignerInit), Sorted(a), Sorted(b),
         \A i \in 1..Len(a) : \E j \in 1..Len(b) : a[i] = b[j],
         \A j \in 1..Len(b) : \E i \in 1..Len(a) : a[i] = b[j]
  PROVE  a = b
<1>1. /\ Len(a) \in Nat /\ \A i \in 1..Len(a) : a[i] \in AccountSignerInit
      /\ Len(b) \in Nat /\ \A i \in 1..Len(b) : b[i] \in AccountSignerInit
  OBVIOUS
<1> DEFINE T == {n \in Nat : n <= Len(a) => n <= Len(b) /\ \A i \in 1..n : a[i] = b[i]}
<1>2. 0 \in T
  BY <1>1
<1>3. ASSUME NEW n \in Nat, n \in T PROVE n + 1 \in T
  <2> SUFFICES ASSUME n + 1 <= Len(a)
               PROVE  n + 1 <= Len(b) /\ \A i \in 1..(n + 1) : a[i] = b[i]
    OBVIOUS
  <2>1. n <= Len(b) /\ \A i \in 1..n : a[i] = b[i]
    BY <1>1, <1>3
  <2>2. PICK j \in 1..Len(b) : a[n + 1] = b[j]
    BY <1>1
  <2>3. j >= n + 1
    <3> SUFFICES ASSUME j <= n PROVE FALSE
      BY <1>1
    <3>1. a[j] = a[n + 1] /\ j \in 1..Len(a) /\ n + 1 \in 1..Len(a) /\ j < n + 1
      BY <1>1, <2>1, <2>2
    <3>2. SignerLess(a[n + 1], a[n + 1])
      BY <3>1 DEF Sorted
    <3>3. QED
      BY <1>1, <3>1, <3>2, SignerOrder
  <2>4. n + 1 \in 1..Len(b)
    BY <1>1, <2>3
  <2>5. PICK i \in 1..Len(a) : a[i] = b[n + 1]
    BY <2>4
  <2>6. i >= n + 1
    <3> SUFFICES ASSUME i <= n PROVE FALSE
      BY <1>1
    <3>1. b[i] = b[n + 1] /\ i \in 1..Len(b) /\ i < n + 1
      BY <1>1, <2>1, <2>5
    <3>2. SignerLess(b[n + 1], b[n + 1])
      BY <2>4, <3>1 DEF Sorted
    <3>3. QED
      BY <1>1, <2>4, <3>2, SignerOrder
  <2>7. a[n + 1] = b[n + 1]
    <3> SUFFICES ASSUME j # n + 1, i # n + 1 PROVE FALSE
      BY <2>2, <2>5
    <3>1. SignerLess(b[n + 1], b[j])
      BY <1>1, <2>3, <2>4 DEF Sorted
    <3>2. SignerLess(a[n + 1], a[i])
      <4>1. n + 1 \in 1..Len(a) /\ n + 1 < i
        BY <1>1, <2>6
      <4>2. QED
        BY <4>1 DEF Sorted
    <3>3. SignerLess(b[n + 1], a[n + 1]) /\ SignerLess(a[n + 1], b[n + 1])
      BY <2>2, <2>5, <3>1, <3>2
    <3>4. a[n + 1] \in AccountSignerInit /\ b[n + 1] \in AccountSignerInit
      BY <1>1, <2>4
    <3>5. QED
      BY <3>3, <3>4, SignerAsymmetric
  <2>8. n + 1 <= Len(b)
    BY <1>1, <2>4
  <2>9. ASSUME NEW k \in 1..(n + 1) PROVE a[k] = b[k]
    <3>1. k \in 1..n \/ k = n + 1
      OBVIOUS
    <3>2. QED
      BY <2>1, <2>7, <3>1
  <2>10. QED
    BY <2>8, <2>9
<1>4. \A n \in Nat : n \in T
  <2> HIDE DEF T
  <2>1. QED
    BY <1>2, <1>3, SetInduction
<1>5. Len(a) <= Len(b) /\ \A i \in 1..Len(a) : a[i] = b[i]
  BY <1>1, <1>4
<1>6. Len(a) = Len(b)
  <2> SUFFICES ASSUME Len(a) < Len(b) PROVE FALSE
    BY <1>1, <1>5
  <2>1. Len(b) \in 1..Len(b)
    BY <1>1
  <2>2. PICK i \in 1..Len(a) : a[i] = b[Len(b)]
    BY <2>1
  <2>3. b[i] = b[Len(b)] /\ i \in 1..Len(b) /\ i < Len(b)
    BY <1>1, <1>5, <2>2
  <2>4. SignerLess(b[Len(b)], b[Len(b)])
    BY <2>1, <2>3 DEF Sorted
  <2>5. QED
    BY <1>1, <2>1, <2>4, SignerOrder
<1>7. QED
  BY <1>5, <1>6, SeqEqual

(* Where the scan stops.                                                   *)
LEMMA ScanStopLemma ==
  ASSUME NEW c \in Seq(AccountSignerInit), NEW x \in AccountSignerInit
  PROVE  /\ ScanStop(c, x) \in 1..(Len(c) + 1)
         /\ \A i \in 1..(ScanStop(c, x) - 1) : SignerLess(c[i], x)
         /\ ScanStop(c, x) <= Len(c) => ~SignerLess(c[ScanStop(c, x)], x)
<1>1. Len(c) \in Nat
  OBVIOUS
<1> DEFINE D == {n \in Nat : n >= 1 /\ (n <= Len(c) => ~SignerLess(c[n], x))}
<1>2. Len(c) + 1 \in D /\ D \subseteq Nat
  BY <1>1
<1>3. PICK n \in D : \A m \in D : n <= m
  <2> HIDE DEF D
  <2>1. QED
    BY <1>2, LeastNat
<1>4. n \in 1..(Len(c) + 1) /\ (n <= Len(c) => ~SignerLess(c[n], x))
  BY <1>1, <1>2, <1>3
<1>5. ASSUME NEW i \in 1..(n - 1) PROVE SignerLess(c[i], x)
  <2>1. i \in Nat /\ i >= 1 /\ i < n /\ i <= Len(c)
    BY <1>1, <1>4
  <2>2. i \notin D
    BY <1>3, <1>4, <2>1
  <2>3. QED
    BY <2>1, <2>2
<1>6. \E idx \in 1..(Len(c) + 1) :
        /\ \A i \in 1..(idx - 1) : SignerLess(c[i], x)
        /\ idx <= Len(c) => ~SignerLess(c[idx], x)
  BY <1>4, <1>5
<1>7. QED
  BY <1>6 DEF ScanStop

(* What insertion makes of a list.                                         *)
LEMMA InsertedLemma ==
  ASSUME NEW c \in Seq(AccountSignerInit), NEW x \in AccountSignerInit
  PROVE  /\ Inserted(c, x) \in Seq(AccountSignerInit)
         /\ Len(Inserted(c, x)) = Len(c) + 1
         /\ \A i \in 1..(Len(c) + 1) :
              Inserted(c, x)[i] = IF i < ScanStop(c, x) THEN c[i]
                                  ELSE IF i = ScanStop(c, x) THEN x ELSE c[i - 1]
<1> DEFINE idx == ScanStop(c, x)
           left == SubSeq(c, 1, idx - 1)
           right == SubSeq(c, idx, Len(c))
<1>1. Len(c) \in Nat /\ idx \in 1..(Len(c) + 1)
  BY ScanStopLemma
<1> HIDE DEF idx
<1>2. /\ left \in Seq(AccountSignerInit) /\ Len(left) = idx - 1
      /\ \A i \in 1..(idx - 1) : left[i] = c[i]
  BY <1>1
<1>3. /\ right \in Seq(AccountSignerInit) /\ Len(right) = Len(c) + 1 - idx
      /\ \A i \in 1..(Len(c) + 1 - idx) : right[i] = c[idx + i - 1]
  BY <1>1
<1>4. Inserted(c, x) = (left \o <<x>>) \o right
  BY DEF Inserted, idx
<1> HIDE DEF left, right
<1>5. <<x>> \in Seq(AccountSignerInit) /\ Len(<<x>>) = 1 /\ <<x>>[1] = x
  OBVIOUS
<1> DEFINE most == left \o <<x>>
<1>6. /\ most \in Seq(AccountSignerInit) /\ Len(most) = idx
      /\ \A i \in 1..idx : most[i] = IF i < idx THEN c[i] ELSE x
  <2>1. /\ most \in Seq(AccountSignerInit) /\ Len(most) = (idx - 1) + 1
        /\ \A i \in 1..((idx - 1) + 1) : most[i] = IF i <= idx - 1 THEN left[i] ELSE <<x>>[i - (idx - 1)]
    BY <1>2, <1>5, ConcatProperties
  <2>2. QED
    BY <1>1, <1>2, <1>5, <2>1
<1> HIDE DEF most
<1>7. /\ most \o right \in Seq(AccountSignerInit) /\ Len(most \o right) = idx + (Len(c) + 1 - idx)
      /\ \A i \in 1..(idx + (Len(c) + 1 - idx)) :
           (most \o right)[i] = IF i <= idx THEN most[i] ELSE right[i - idx]
  BY <1>3, <1>6, ConcatProperties
<1>8. Inserted(c, x) = most \o right
  BY <1>4 DEF most
<1>9. ASSUME NEW i \in 1..(Len(c) + 1)
      PROVE  Inserted(c, x)[i] = IF i < idx THEN c[i] ELSE IF i = idx THEN x ELSE c[i - 1]
  <2>1. i \in 1..(idx + (Len(c) + 1 - idx))
    BY <1>1
  <2>2. CASE i <= idx
    BY <1>1, <1>6, <1>7, <1>8, <2>1, <2>2
  <2>3. CASE i > idx
    <3>1. i - idx \in 1..(Len(c) + 1 - idx) /\ idx + (i - idx) - 1 = i - 1
      BY <1>1, <2>3
    <3>2. right[i - idx] = c[i - 1]
      BY <1>3, <3>1
    <3>3. QED
      BY <1>1, <1>7, <1>8, <2>1, <2>3, <3>2
  <2>4. QED
    BY <1>1, <2>2, <2>3
<1>10. QED
  BY <1>1, <1>7, <1>8, <1>9 DEF idx

(* Inserting a signer that is not met on the way keeps a list sorted.      *)
LEMMA InsertedSorted ==
  ASSUME NEW c \in Seq(AccountSignerInit), NEW x \in AccountSignerInit, Sorted(c),
         ~MeetsDuplicate(c, x)
  PROVE  Sorted(Inserted(c, x))
<1> DEFINE idx == ScanStop(c, x)
           d == Inserted(c, x)
<1>1. Len(c) \in Nat /\ idx \in 1..(Len(c) + 1) /\ \A i \in 1..Len(c) : c[i] \in AccountSignerInit
  BY ScanStopLemma
<1>2. ASSUME NEW i \in 1..Len(c), i < idx PROVE SignerLess(c[i], x)
  BY <1>1, <1>2, ScanStopLemma
<1>3. ASSUME NEW i \in 1..Len(c), i >= idx PROVE SignerLess(x, c[i])
  <2>1. idx \in 1..Len(c) /\ ~SignerLess(c[idx], x) /\ c[idx] # x
    BY <1>1, <1>3, ScanStopLemma DEF MeetsDuplicate
  <2>2. SignerLess(x, c[idx])
    BY <1>1, <2>1, SignerOrder
  <2>3. CASE i = idx
    BY <2>2, <2>3
  <2>4. CASE i # idx
    <3>1. SignerLess(c[idx], c[i])
      BY <1>1, <1>3, <2>1, <2>4 DEF Sorted
    <3>2. c[idx] \in AccountSignerInit /\ c[i] \in AccountSignerInit
      BY <1>1, <2>1
    <3>3. QED
      BY <2>2, <3>1, <3>2, SignerOrder
  <2>5. QED
    BY <2>3, <2>4
<1>4. /\ Len(d) = Len(c) + 1
      /\ \A i \in 1..(Len(c) + 1) :
           d[i] = IF i < idx THEN c[i] ELSE IF i = idx THEN x ELSE c[i - 1]
  BY InsertedLemma
<1> HIDE DEF idx, d
<1>5. ASSUME NEW i \in 1..Len(d), NEW j \in 1..Len(d), i < j PROVE SignerLess(d[i], d[j])
  <2>1. CASE j < idx
    <3>1. d[i] = c[i] /\ d[j] = c[j] /\ i \in 1..Len(c) /\ j \in 1..Len(c)
      BY <1>1, <1>4, <1>5, <2>1
    <3>2. QED
      BY <1>5, <3>1 DEF Sorted
  <2>2. CASE j = idx
    <3>1. d[i] = c[i] /\ d[j] = x /\ i \in 1..Len(c) /\ i < idx
      BY <1>1, <1>4, <1>5, <2>2
    <3>2. QED
      BY <1>2, <3>1
  <2>3. CASE j > idx /\ i < idx
    <3>1. d[i] = c[i] /\ d[j] = c[j - 1] /\ i \in 1..Len(c) /\ j - 1 \in 1..Len(c) /\ i < j - 1
      BY <1>1, <1>4, <1>5, <2>3
    <3>2. QED
      BY <3>1 DEF Sorted
  <2>4. CASE j > idx /\ i = idx
    <3>1. d[i] = x /\ d[j] = c[j - 1] /\ j - 1 \in 1..Len(c) /\ j - 1 >= idx
      BY <1>1, <1>4, <1>5, <2>4
    <3>2. QED
      BY <1>3, <3>1
  <2>5. CASE j > idx /\ i > idx
    <3>1. /\ d[i] = c[i - 1] /\ d[j] = c[j - 1]
          /\ i - 1 \in 1..Len(c) /\ j - 1 \in 1..Len(c) /\ i - 1 < j - 1
      BY <1>1, <1>4, <1>5, <2>5
    <3>2. QED
      BY <3>1 DEF Sorted
  <2>6. QED
    BY <1>1, <1>4, <2>1, <2>2, <2>3, <2>4, <2>5
<1>6. Sorted(d)
  BY <1>5 DEF Sorted
<1>7. QED
  BY <1>6 DEF d

(* The elements of a list with one more inserted.                          *)
LEMMA InsertedElements ==
  ASSUME NEW c \in Seq(AccountSignerInit), NEW x \in AccountSignerInit
  PROVE  {Inserted(c, x)[i] : i \in 1..(Len(c) + 1)} = {c[i] : i \in 1..Len(c)} \cup {x}
<1> DEFINE idx == ScanStop(c, x)
           d == Inserted(c, x)
<1>1. Len(c) \in Nat /\ idx \in 1..(Len(c) + 1)
  BY ScanStopLemma
<1>2. \A i \in 1..(Len(c) + 1) :
        d[i] = IF i < idx THEN c[i] ELSE IF i = idx THEN x ELSE c[i - 1]
  BY InsertedLemma
<1> HIDE DEF idx, d
<1>3. ASSUME NEW i \in 1..(Len(c) + 1) PROVE d[i] \in {c[k] : k \in 1..Len(c)} \cup {x}
  <2>1. CASE i < idx
    BY <1>1, <1>2, <2>1
  <2>2. CASE i = idx
    BY <1>2, <2>2
  <2>3. CASE i > idx
    <3>1. i - 1 \in 1..Len(c) /\ d[i] = c[i - 1]
      BY <1>1, <1>2, <2>3
    <3>2. QED
      BY <3>1
  <2>4. QED
    BY <1>1, <2>1, <2>2, <2>3
<1>4. x \in {d[i] : i \in 1..(Len(c) + 1)}
  <2>1. d[idx] = x
    BY <1>1, <1>2
  <2>2. QED
    BY <1>1, <2>1
<1>5. ASSUME NEW k \in 1..Len(c) PROVE c[k] \in {d[i] : i \in 1..(Len(c) + 1)}
  <2>1. CASE k < idx
    <3>1. k \in 1..(Len(c) + 1) /\ d[k] = c[k]
      BY <1>1, <1>2, <2>1
    <3>2. QED
      BY <3>1
  <2>2. CASE k >= idx
    <3>1. k + 1 \in 1..(Len(c) + 1) /\ k + 1 > idx /\ (k + 1) - 1 = k
      BY <1>1, <2>2
    <3>2. d[k + 1] = c[k]
      BY <1>1, <1>2, <3>1
    <3>3. QED
      BY <3>1, <3>2
  <2>3. QED
    BY <1>1, <2>1, <2>2
<1>6. QED
  BY <1>3, <1>4, <1>5 DEF d

-----------------------------------------------------------------------------
IsCanonicals(f, signers) ==
  f = [k \in 0..Len(signers) |-> IF k = 0 THEN <<>> ELSE Inserted(f[k - 1], signers[k])]

LEMMA CanonicalsExist ==
  ASSUME NEW signers \in Seq(AccountSignerInit)
  PROVE  /\ IsCanonicals(Canonicals(signers), signers)
         /\ Canonicals(signers)[0] = <<>>
         /\ \A k \in 1..Len(signers) :
              Canonicals(signers)[k] = Inserted(Canonicals(signers)[k - 1], signers[k])
<1> DEFINE V == Seq(AccountSignerInit)
           m == Len(signers)
           step == [y \in (1..m) \X V |-> Inserted(y[2], signers[y[1]])]
<1>1. m \in Nat /\ <<>> \in V /\ \A k \in 1..m : signers[k] \in AccountSignerInit
  OBVIOUS
<1>2. step \in [(1..m) \X V -> V] /\ \A k \in 1..m, v \in V : step[<<k, v>>] = Inserted(v, signers[k])
  <2>1. \A k \in 1..m, v \in V : Inserted(v, signers[k]) \in V
    BY <1>1, InsertedLemma
  <2> HIDE DEF V
  <2>2. QED
    BY <2>1
<1> HIDE DEF step, V
<1>3. PICK f \in [0..m -> V] : IsRecursion(f, m, <<>>, step)
  BY <1>1, <1>2, RecursionExists
<1>4. ASSUME NEW k \in 0..m
      PROVE  f[k] = IF k = 0 THEN <<>> ELSE Inserted(f[k - 1], signers[k])
  <2>1. f[k] = IF k = 0 THEN <<>> ELSE step[<<k, f[k - 1]>>]
    BY <1>3 DEF IsRecursion
  <2>2. k # 0 => k \in 1..m /\ f[k - 1] \in V
    BY <1>1
  <2>3. QED
    BY <1>2, <2>1, <2>2
<1>5. IsCanonicals(f, signers)
  BY <1>3, <1>4 DEF IsCanonicals
<1>6. Canonicals(signers) = CHOOSE g : IsCanonicals(g, signers)
  BY DEF Canonicals, IsCanonicals
<1>7. IsCanonicals(Canonicals(signers), signers)
  BY <1>5, <1>6
<1>8. QED
  BY <1>1, <1>7 DEF IsCanonicals

(* What canonicalize_signers returns for a list without duplicates: its    *)
(* elements, sorted.                                                       *)
LEMMA CanonicalLemma ==
  ASSUME NEW signers \in Seq(AccountSignerInit), DuplicateFree(signers)
  PROVE  LET c == canonicalize_signers(signers)
         IN  /\ c \in Seq(AccountSignerInit) /\ Len(c) = Len(signers) /\ Sorted(c)
             /\ {c[i] : i \in 1..Len(c)} = {signers[i] : i \in 1..Len(signers)}
<1> DEFINE m == Len(signers)
           C == Canonicals(signers)
           Good(k) == /\ C[k] \in Seq(AccountSignerInit) /\ Len(C[k]) = k /\ Sorted(C[k])
                      /\ {C[k][i] : i \in 1..k} = {signers[i] : i \in 1..k}
           T == {k \in 0..m : Good(k)}
<1>1. m \in Nat /\ \A k \in 1..m : signers[k] \in AccountSignerInit
  OBVIOUS
<1>2. C[0] = <<>> /\ \A k \in 1..m : C[k] = Inserted(C[k - 1], signers[k])
  BY CanonicalsExist
<1>3. \A k \in 1..m : ~MeetsDuplicate(C[k - 1], signers[k])
  BY DEF DuplicateFree
<1> HIDE DEF C
<1>4. 0 \in T
  <2>1. C[0] \in Seq(AccountSignerInit) /\ Len(C[0]) = 0
    BY <1>2
  <2>2. Sorted(C[0])
    BY <2>1 DEF Sorted
  <2>3. {C[0][i] : i \in 1..0} = {signers[i] : i \in 1..0}
    OBVIOUS
  <2>4. QED
    BY <1>1, <2>1, <2>2, <2>3
<1>5. ASSUME NEW k \in 0..(m - 1), k \in T PROVE k + 1 \in T
  <2> DEFINE c == C[k]
             x == signers[k + 1]
  <2>1. k + 1 \in 1..m /\ (k + 1) - 1 = k /\ x \in AccountSignerInit
    BY <1>1
  <2>2. Good(k)
    BY <1>5
  <2>3. C[k + 1] = Inserted(c, x) /\ ~MeetsDuplicate(c, x)
    BY <1>2, <1>3, <2>1
  <2>4. /\ Inserted(c, x) \in Seq(AccountSignerInit) /\ Len(Inserted(c, x)) = k + 1
        /\ Sorted(Inserted(c, x))
    BY <2>1, <2>2, <2>3, InsertedLemma, InsertedSorted
  <2>5. {Inserted(c, x)[i] : i \in 1..(k + 1)} = {c[i] : i \in 1..k} \cup {x}
    <3>1. {Inserted(c, x)[i] : i \in 1..(Len(c) + 1)} = {c[i] : i \in 1..Len(c)} \cup {x}
      BY <2>1, <2>2, InsertedElements
    <3>2. QED
      BY <2>2, <3>1
  <2>6. {signers[i] : i \in 1..(k + 1)} = {signers[i] : i \in 1..k} \cup {x}
    <3>1. \A i : i \in 1..(k + 1) <=> i \in 1..k \/ i = k + 1
      BY <1>1
    <3>2. QED
      BY <3>1
  <2> HIDE DEF c, x
  <2>7. {C[k + 1][i] : i \in 1..(k + 1)} = {signers[i] : i \in 1..(k + 1)}
    BY <2>2, <2>3, <2>5, <2>6 DEF c
  <2>8. Good(k + 1)
    BY <2>3, <2>4, <2>7
  <2> HIDE DEF Good
  <2>9. QED
    BY <2>1, <2>8
<1>6. m \in T
  <2> HIDE DEF T
  <2>1. \A k \in 0..m : k \in T
    BY <1>1, <1>4, <1>5, BoundedInduction
  <2>2. QED
    BY <1>1, <2>1
<1>7. canonicalize_signers(signers) = C[m]
  BY DEF canonicalize_signers, C
<1>8. QED
  BY <1>6, <1>7

-----------------------------------------------------------------------------
(* The encoding of the signers.                                            *)

IsEncoded(f, signers) ==
  f = [k \in 0..Len(signers) |->
         IF k = 0 THEN <<>> ELSE f[k - 1] \o EncodedSigner(signers[k])]

LEMMA EncodedSignerLemma ==
  ASSUME NEW x \in AccountSignerInit
  PROVE  /\ EncodedSigner(x) \in Bytes /\ Len(EncodedSigner(x)) = Len(x.data) + 2
         /\ EncodedSigner(x)[1] = x.code /\ EncodedSigner(x)[2] = Len(x.data)
         /\ \A i \in 1..Len(x.data) : EncodedSigner(x)[i + 2] = x.data[i]
<1> DEFINE h == <<x.code, Len(x.data)>>
<1>1. x.code \in Nat /\ x.data \in Seq(Nat) /\ Len(x.data) \in Nat
  BY DEF AccountSignerInit
<1>2. h \in Seq(Nat) /\ Len(h) = 2 /\ h[1] = x.code /\ h[2] = Len(x.data)
  BY <1>1
<1>3. EncodedSigner(x) = h \o x.data
  BY DEF EncodedSigner
<1> HIDE DEF h
<1>4. /\ h \o x.data \in Seq(Nat) /\ Len(h \o x.data) = 2 + Len(x.data)
      /\ \A i \in 1..(2 + Len(x.data)) :
           (h \o x.data)[i] = IF i <= 2 THEN h[i] ELSE x.data[i - 2]
  <2>1. /\ h \o x.data \in Seq(Nat) /\ Len(h \o x.data) = Len(h) + Len(x.data)
        /\ \A i \in 1..(Len(h) + Len(x.data)) :
             (h \o x.data)[i] = IF i <= Len(h) THEN h[i] ELSE x.data[i - Len(h)]
    BY <1>1, <1>2, ConcatProperties
  <2>2. QED
    BY <1>2, <2>1
<1>5. ASSUME NEW i \in 1..Len(x.data) PROVE (h \o x.data)[i + 2] = x.data[i]
  <2>1. i + 2 \in 1..(2 + Len(x.data)) /\ ~(i + 2 <= 2) /\ (i + 2) - 2 = i
    BY <1>1
  <2>2. QED
    BY <1>4, <2>1
<1>6. QED
  BY <1>1, <1>2, <1>3, <1>4, <1>5 DEF Bytes

LEMMA EncodedExist ==
  ASSUME NEW signers \in Seq(AccountSignerInit)
  PROVE  \E f \in [0..Len(signers) -> Bytes] :
           /\ EncodedSigners(signers) = f[Len(signers)]
           /\ f[0] = <<>>
           /\ \A k \in 1..Len(signers) : f[k] = f[k - 1] \o EncodedSigner(signers[k])
<1> DEFINE m == Len(signers)
           step == [y \in (1..m) \X Bytes |-> y[2] \o EncodedSigner(signers[y[1]])]
<1>1. m \in Nat /\ <<>> \in Bytes /\ \A k \in 1..m : signers[k] \in AccountSignerInit
  BY DEF Bytes
<1>2. /\ step \in [(1..m) \X Bytes -> Bytes]
      /\ \A k \in 1..m, v \in Bytes : step[<<k, v>>] = v \o EncodedSigner(signers[k])
  <2>1. ASSUME NEW k \in 1..m, NEW v \in Bytes PROVE v \o EncodedSigner(signers[k]) \in Bytes
    <3>1. EncodedSigner(signers[k]) \in Bytes
      BY <1>1, EncodedSignerLemma
    <3>2. QED
      BY <3>1, ConcatProperties DEF Bytes
  <2>2. QED
    BY <2>1
<1> HIDE DEF step
<1>3. PICK f \in [0..m -> Bytes] : IsRecursion(f, m, <<>>, step)
  BY <1>1, <1>2, RecursionExists
<1>4. ASSUME NEW k \in 0..m
      PROVE  f[k] = IF k = 0 THEN <<>> ELSE f[k - 1] \o EncodedSigner(signers[k])
  <2>1. f[k] = IF k = 0 THEN <<>> ELSE step[<<k, f[k - 1]>>]
    BY <1>3 DEF IsRecursion
  <2>2. k # 0 => k \in 1..m /\ f[k - 1] \in Bytes
    BY <1>1
  <2>3. QED
    BY <1>2, <2>1, <2>2
<1>5. IsEncoded(f, signers)
  BY <1>3, <1>4 DEF IsEncoded
<1> DEFINE g == CHOOSE h : IsEncoded(h, signers)
<1>6. IsEncoded(g, signers)
  BY <1>5
<1>7. EncodedSigners(signers) = g[m]
  BY DEF EncodedSigners, IsEncoded
<1> HIDE DEF g
<1>8. /\ g[0] = <<>> /\ DOMAIN g = 0..m
      /\ \A k \in 1..m : g[k] = g[k - 1] \o EncodedSigner(signers[k])
      /\ g = [k \in 0..m |-> g[k]]
  BY <1>1, <1>6 DEF IsEncoded
<1>9. \A k \in 0..m : g[k] \in Bytes
  <2> DEFINE T == {k \in 0..m : g[k] \in Bytes}
  <2>1. 0 \in T
    BY <1>1, <1>8
  <2>2. ASSUME NEW k \in 0..(m - 1), k \in T PROVE k + 1 \in T
    <3>1. k + 1 \in 1..m /\ (k + 1) - 1 = k
      BY <1>1
    <3>2. g[k + 1] = g[k] \o EncodedSigner(signers[k + 1]) /\ signers[k + 1] \in AccountSignerInit
      BY <1>1, <1>8, <3>1
    <3>3. EncodedSigner(signers[k + 1]) \in Bytes
      BY <3>2, EncodedSignerLemma
    <3>4. g[k + 1] \in Bytes
      BY <2>2, <3>2, <3>3, ConcatProperties DEF Bytes
    <3>5. QED
      BY <3>1, <3>4
  <2>3. \A k \in 0..m : k \in T
    <3> HIDE DEF T
    <3>1. QED
      BY <1>1, <2>1, <2>2, BoundedInduction
  <2>4. QED
    BY <2>3
<1>10. g \in [0..m -> Bytes]
  BY <1>8, <1>9
<1>11. QED
  BY <1>7, <1>8, <1>10

LEMMA EncodedType ==
  ASSUME NEW signers \in Seq(AccountSignerInit)
  PROVE  EncodedSigners(signers) \in Seq(Nat)
<1>1. PICK f \in [0..Len(signers) -> Bytes] : EncodedSigners(signers) = f[Len(signers)]
  BY EncodedExist
<1>2. Len(signers) \in 0..Len(signers)
  OBVIOUS
<1>3. QED
  BY <1>1, <1>2 DEF Bytes

(* The encoding of a prefix is a prefix of the encoding.                   *)
LEMMA EncodedPrefix ==
  ASSUME NEW signers \in Seq(AccountSignerInit), NEW f \in [0..Len(signers) -> Bytes],
         \A k \in 1..Len(signers) : f[k] = f[k - 1] \o EncodedSigner(signers[k]),
         NEW j \in 0..Len(signers)
  PROVE  /\ Len(f[j]) \in Nat /\ Len(f[Len(signers)]) \in Nat
         /\ Len(f[j]) <= Len(f[Len(signers)])
         /\ \A i \in 1..Len(f[j]) : f[Len(signers)][i] = f[j][i]
<1> DEFINE m == Len(signers)
           T == {n \in 0..m : n >= j => /\ Len(f[j]) <= Len(f[n])
                                        /\ \A i \in 1..Len(f[j]) : f[n][i] = f[j][i]}
<1>1. m \in Nat /\ j \in Nat /\ \A n \in 0..m : f[n] \in Seq(Nat) /\ Len(f[n]) \in Nat
  BY DEF Bytes
<1>2. 0 \in T
  <2>1. CASE j = 0
    BY <1>1, <2>1
  <2>2. CASE j # 0
    BY <1>1, <2>2
  <2>3. QED
    BY <2>1, <2>2
<1>3. ASSUME NEW n \in 0..(m - 1), n \in T PROVE n + 1 \in T
  <2>1. n + 1 \in 1..m /\ (n + 1) - 1 = n /\ n \in 0..m
    BY <1>1
  <2>2. CASE j > n + 1
    BY <1>1, <2>1, <2>2
  <2>3. CASE j = n + 1
    BY <1>1, <2>1, <2>3
  <2>4. CASE j <= n
    <3>1. Len(f[j]) <= Len(f[n]) /\ \A i \in 1..Len(f[j]) : f[n][i] = f[j][i]
      BY <1>1, <1>3, <2>4
    <3> DEFINE e == EncodedSigner(signers[n + 1])
    <3>2. f[n + 1] = f[n] \o e /\ signers[n + 1] \in AccountSignerInit
      BY <2>1
    <3>3. e \in Seq(Nat) /\ Len(e) \in Nat
      BY <3>2, EncodedSignerLemma DEF Bytes
    <3> HIDE DEF e
    <3>4. /\ Len(f[n] \o e) = Len(f[n]) + Len(e)
          /\ \A i \in 1..(Len(f[n]) + Len(e)) :
               (f[n] \o e)[i] = IF i <= Len(f[n]) THEN f[n][i] ELSE e[i - Len(f[n])]
      BY <1>1, <2>1, <3>3, ConcatProperties
    <3>5. Len(f[j]) <= Len(f[n + 1])
      BY <1>1, <2>1, <3>1, <3>2, <3>3, <3>4
    <3>6. ASSUME NEW i \in 1..Len(f[j]) PROVE f[n + 1][i] = f[j][i]
      <4>1. i \in 1..(Len(f[n]) + Len(e)) /\ i <= Len(f[n])
        BY <1>1, <2>1, <3>1, <3>3
      <4>2. f[n + 1][i] = f[n][i]
        BY <3>2, <3>4, <4>1
      <4>3. QED
        BY <3>1, <4>2
    <3>7. QED
      BY <2>1, <3>5, <3>6
  <2>5. QED
    BY <1>1, <2>2, <2>3, <2>4
<1>4. m \in T
  <2>1. \A n \in 0..m : n \in T
    <3> HIDE DEF T
    <3>1. QED
      BY <1>1, <1>2, <1>3, BoundedInduction
  <2>2. QED
    BY <1>1, <2>1
<1>5. QED
  BY <1>1, <1>4

(* Where a signer's code, length and data stand in the encoding.           *)
LEMMA EncodedAt ==
  ASSUME NEW signers \in Seq(AccountSignerInit), NEW f \in [0..Len(signers) -> Bytes],
         \A k \in 1..Len(signers) : f[k] = f[k - 1] \o EncodedSigner(signers[k]),
         NEW k \in 1..Len(signers)
  PROVE  LET x == signers[k]
             l == Len(f[k - 1])
             e == f[Len(signers)]
         IN  /\ e[l + 1] = x.code /\ e[l + 2] = Len(x.data)
             /\ \A i \in 1..Len(x.data) : e[l + 2 + i] = x.data[i]
<1> DEFINE x == signers[k]
           p == f[k - 1]
           l == Len(p)
           e == f[Len(signers)]
           c == EncodedSigner(x)
<1>1. /\ x \in AccountSignerInit /\ p \in Seq(Nat) /\ l \in Nat
      /\ k \in 0..Len(signers) /\ Len(x.data) \in Nat
  <2>1. Len(signers) \in Nat /\ k \in 0..Len(signers) /\ k - 1 \in 0..Len(signers)
    OBVIOUS
  <2>2. p \in Seq(Nat)
    BY <2>1 DEF Bytes
  <2>3. x \in AccountSignerInit
    OBVIOUS
  <2>4. x.data \in Seq(Nat)
    BY <2>3 DEF AccountSignerInit
  <2> HIDE DEF x, p
  <2>5. QED
    BY <2>1, <2>2, <2>3, <2>4
<1>2. f[k] = p \o c
  OBVIOUS
<1>3. /\ c \in Seq(Nat) /\ Len(c) = Len(x.data) + 2
      /\ c[1] = x.code /\ c[2] = Len(x.data)
      /\ \A i \in 1..Len(x.data) : c[i + 2] = x.data[i]
  BY <1>1, EncodedSignerLemma DEF Bytes
<1>4. \A i \in 1..Len(f[k]) : e[i] = f[k][i]
  BY <1>1, EncodedPrefix
<1> HIDE DEF x, p, e, c
<1>5. Len(f[k]) = l + Len(c) /\ \A i \in 1..Len(c) : f[k][l + i] = c[i]
  <2>1. /\ Len(p \o c) = Len(p) + Len(c)
        /\ \A i \in 1..(Len(p) + Len(c)) :
             (p \o c)[i] = IF i <= Len(p) THEN p[i] ELSE c[i - Len(p)]
    <3>1. p \in Seq(Nat) /\ c \in Seq(Nat)
      BY <1>1, <1>3
    <3>2. QED
      BY <3>1, ConcatProperties
  <2>2. ASSUME NEW i \in 1..Len(c) PROVE (p \o c)[l + i] = c[i]
    <3>1. l + i \in 1..(Len(p) + Len(c)) /\ ~(l + i <= Len(p)) /\ (l + i) - Len(p) = i
      BY <1>1, <1>3
    <3>2. QED
      BY <2>1, <3>1
  <2>3. QED
    BY <1>2, <2>1, <2>2
<1>6. ASSUME NEW i \in 1..(Len(x.data) + 2) PROVE e[l + i] = c[i]
  <2>1. l + i \in 1..Len(f[k]) /\ i \in 1..Len(c)
    BY <1>1, <1>3, <1>5
  <2>2. QED
    BY <1>4, <1>5, <2>1
<1>7. e[l + 1] = x.code /\ e[l + 2] = Len(x.data)
  <2>1. 1 \in 1..(Len(x.data) + 2) /\ 2 \in 1..(Len(x.data) + 2)
    BY <1>1
  <2>2. QED
    BY <1>3, <1>6, <2>1
<1>8. ASSUME NEW i \in 1..Len(x.data) PROVE e[l + 2 + i] = x.data[i]
  <2>1. i + 2 \in 1..(Len(x.data) + 2) /\ l + (i + 2) = l + 2 + i
    BY <1>1
  <2>2. e[l + (i + 2)] = c[i + 2]
    BY <1>6, <2>1
  <2>3. QED
    BY <1>3, <2>1, <2>2
<1>9. QED
  BY <1>7, <1>8 DEF x, p, e

(* The length prefixes make the encoding injective.                        *)
LEMMA EncodedInjective ==
  ASSUME NEW s \in Seq(AccountSignerInit), NEW t \in Seq(AccountSignerInit), Len(s) = Len(t),
         EncodedSigners(s) = EncodedSigners(t)
  PROVE  s = t
<1> DEFINE m == Len(s)
<1>1. PICK f \in [0..m -> Bytes] :
        /\ EncodedSigners(s) = f[m] /\ f[0] = <<>>
        /\ \A k \in 1..m : f[k] = f[k - 1] \o EncodedSigner(s[k])
  BY EncodedExist
<1>2. PICK g \in [0..m -> Bytes] :
        /\ EncodedSigners(t) = g[m] /\ g[0] = <<>>
        /\ \A k \in 1..m : g[k] = g[k - 1] \o EncodedSigner(t[k])
  BY EncodedExist
<1>3. m \in Nat /\ \A k \in 1..m : s[k] \in AccountSignerInit /\ t[k] \in AccountSignerInit
  OBVIOUS
<1> DEFINE T == {k \in 0..m : f[k] = g[k] /\ \A i \in 1..k : s[i] = t[i]}
<1>4. 0 \in T
  BY <1>1, <1>2, <1>3
<1>5. ASSUME NEW k \in 0..(m - 1), k \in T PROVE k + 1 \in T
  <2> DEFINE x == s[k + 1]
             y == t[k + 1]
             l == Len(f[k])
             e == f[m]
  <2>1. k + 1 \in 1..m /\ (k + 1) - 1 = k /\ k \in 0..m
    BY <1>3
  <2>2. f[k] = g[k] /\ e = g[m] /\ \A i \in 1..k : s[i] = t[i]
    BY <1>1, <1>2, <1>5
  <2>3. /\ e[l + 1] = x.code /\ e[l + 2] = Len(x.data)
        /\ \A i \in 1..Len(x.data) : e[l + 2 + i] = x.data[i]
    <3>1. /\ f[m][Len(f[(k + 1) - 1]) + 1] = x.code /\ f[m][Len(f[(k + 1) - 1]) + 2] = Len(x.data)
          /\ \A i \in 1..Len(x.data) : f[m][Len(f[(k + 1) - 1]) + 2 + i] = x.data[i]
      BY <1>1, <2>1, EncodedAt
    <3>2. QED
      BY <2>1, <3>1
  <2>4. /\ e[l + 1] = y.code /\ e[l + 2] = Len(y.data)
        /\ \A i \in 1..Len(y.data) : e[l + 2 + i] = y.data[i]
    <3>1. /\ g[m][Len(g[(k + 1) - 1]) + 1] = y.code /\ g[m][Len(g[(k + 1) - 1]) + 2] = Len(y.data)
          /\ \A i \in 1..Len(y.data) : g[m][Len(g[(k + 1) - 1]) + 2 + i] = y.data[i]
      BY <1>2, <2>1, EncodedAt
    <3>2. QED
      BY <2>1, <2>2, <3>1
  <2>5. x \in AccountSignerInit /\ y \in AccountSignerInit
    BY <1>3, <2>1
  <2> HIDE DEF x, y, l, e
  <2>6. x.data = y.data
    <3>1. x.data \in Seq(Nat) /\ y.data \in Seq(Nat) /\ Len(x.data) = Len(y.data)
      BY <2>3, <2>4, <2>5 DEF AccountSignerInit
    <3>2. \A i \in 1..Len(x.data) : x.data[i] = y.data[i]
      BY <2>3, <2>4, <3>1
    <3>3. QED
      BY <3>1, <3>2, SeqEqual
  <2>7. x = y
    <3>1. x.code = y.code
      BY <2>3, <2>4
    <3>2. QED
      BY <2>5, <2>6, <3>1, SignerEqual
  <2>8. s[k + 1] = t[k + 1]
    BY <2>7 DEF x, y
  <2>9. f[k + 1] = g[k + 1]
    <3>1. f[k + 1] = f[k] \o EncodedSigner(s[k + 1]) /\ g[k + 1] = g[k] \o EncodedSigner(t[k + 1])
      BY <1>1, <1>2, <2>1
    <3>2. QED
      BY <2>2, <2>8, <3>1
  <2>10. ASSUME NEW i \in 1..(k + 1) PROVE s[i] = t[i]
    <3>1. i \in 1..k \/ i = k + 1
      BY <2>1
    <3>2. QED
      BY <2>2, <2>8, <3>1
  <2>11. QED
    BY <2>1, <2>9, <2>10
<1>6. m \in T
  <2>1. \A k \in 0..m : k \in T
    <3> HIDE DEF T
    <3>1. QED
      BY <1>3, <1>4, <1>5, BoundedInduction
  <2>2. QED
    BY <1>3, <2>1
<1>7. QED
  BY <1>6, SeqEqual

(* What the salt commits to.                                               *)
Salt(x, s, m) == (<<x, Len(s)>> \o EncodedSigners(s)) \o <<m>>

LEMMA SaltInjective ==
  ASSUME NEW s \in Seq(AccountSignerInit), NEW t \in Seq(AccountSignerInit),
         NEW x, NEW y, NEW m \in Nat, NEW n \in Nat,
         Salt(x, s, m) = Salt(y, t, n)
  PROVE  x = y /\ s = t /\ m = n
<1> DEFINE S == Nat \cup {x, y}
           e == EncodedSigners(s)
           d == EncodedSigners(t)
           g == <<x, Len(s)>>
           h == <<y, Len(t)>>
<1>1. /\ e \in Seq(S) /\ d \in Seq(S) /\ Len(s) \in Nat /\ Len(t) \in Nat
      /\ Len(e) \in Nat /\ Len(d) \in Nat
  <2>1. e \in Seq(Nat) /\ d \in Seq(Nat)
    BY EncodedType
  <2>2. Nat \subseteq S
    OBVIOUS
  <2> HIDE DEF S, e, d
  <2>3. e \in Seq(S) /\ d \in Seq(S)
    BY <2>1, <2>2, SeqMonotonic
  <2>4. QED
    BY <2>1, <2>3
<1>2. /\ g \in Seq(S) /\ Len(g) = 2 /\ g[1] = x /\ g[2] = Len(s)
      /\ h \in Seq(S) /\ Len(h) = 2 /\ h[1] = y /\ h[2] = Len(t)
      /\ <<m>> \in Seq(S) /\ <<n>> \in Seq(S) /\ Len(<<m>>) = 1 /\ Len(<<n>>) = 1
      /\ <<m>>[1] = m /\ <<n>>[1] = n
  BY <1>1
<1> HIDE DEF S, e, d, g, h
<1> DEFINE Shape(w, a, b, c) ==
             /\ Len(w) = 3 + Len(b) /\ w[1] = a[1] /\ w[2] = a[2] /\ w[Len(w)] = c[1]
             /\ \A i \in 1..Len(b) : w[2 + i] = b[i]
<1>3. ASSUME NEW a \in Seq(S), NEW b \in Seq(S), NEW c \in Seq(S), Len(a) = 2, Len(c) = 1
      PROVE  Shape((a \o b) \o c, a, b, c)
  <2>1. Len(b) \in Nat
    OBVIOUS
  <2>2. /\ a \o b \in Seq(S) /\ Len(a \o b) = 2 + Len(b)
        /\ \A i \in 1..(2 + Len(b)) : (a \o b)[i] = IF i <= 2 THEN a[i] ELSE b[i - 2]
    <3>1. /\ a \o b \in Seq(S) /\ Len(a \o b) = Len(a) + Len(b)
          /\ \A i \in 1..(Len(a) + Len(b)) : (a \o b)[i] = IF i <= Len(a) THEN a[i] ELSE b[i - Len(a)]
      BY ConcatProperties
    <3>2. QED
      BY <1>3, <3>1
  <2> DEFINE ab == a \o b
  <2> HIDE DEF ab
  <2>3. /\ Len(ab \o c) = (2 + Len(b)) + 1
        /\ \A i \in 1..((2 + Len(b)) + 1) :
             (ab \o c)[i] = IF i <= 2 + Len(b) THEN ab[i] ELSE c[i - (2 + Len(b))]
    <3>1. ab \in Seq(S) /\ Len(ab) = 2 + Len(b)
      BY <2>2 DEF ab
    <3>2. /\ Len(ab \o c) = Len(ab) + Len(c)
          /\ \A i \in 1..(Len(ab) + Len(c)) :
               (ab \o c)[i] = IF i <= Len(ab) THEN ab[i] ELSE c[i - Len(ab)]
      BY <3>1, ConcatProperties
    <3>3. QED
      BY <1>3, <3>1, <3>2
  <2>4. Len(ab \o c) = 3 + Len(b)
    BY <2>1, <2>3
  <2>5. (ab \o c)[1] = a[1] /\ (ab \o c)[2] = a[2]
    <3>1. /\ 1 \in 1..((2 + Len(b)) + 1) /\ 1 <= 2 + Len(b) /\ 1 \in 1..(2 + Len(b))
          /\ 2 \in 1..((2 + Len(b)) + 1) /\ 2 <= 2 + Len(b) /\ 2 \in 1..(2 + Len(b))
      BY <2>1
    <3>2. ab[1] = a[1] /\ ab[2] = a[2]
      BY <2>2, <3>1 DEF ab
    <3>3. QED
      BY <2>3, <3>1, <3>2
  <2>6. (ab \o c)[3 + Len(b)] = c[1]
    <3>1. /\ 3 + Len(b) \in 1..((2 + Len(b)) + 1) /\ ~(3 + Len(b) <= 2 + Len(b))
          /\ (3 + Len(b)) - (2 + Len(b)) = 1
      BY <2>1
    <3>2. QED
      BY <2>3, <3>1
  <2>7. ASSUME NEW i \in 1..Len(b) PROVE (ab \o c)[2 + i] = b[i]
    <3>1. /\ 2 + i \in 1..((2 + Len(b)) + 1) /\ 2 + i <= 2 + Len(b)
          /\ 2 + i \in 1..(2 + Len(b)) /\ ~(2 + i <= 2) /\ (2 + i) - 2 = i
      BY <2>1
    <3>2. ab[2 + i] = b[i]
      BY <2>2, <3>1 DEF ab
    <3>3. QED
      BY <2>3, <3>1, <3>2
  <2>8. QED
    BY <2>4, <2>5, <2>6, <2>7 DEF ab
<1> DEFINE w == (g \o e) \o <<m>>
<1>4. Shape(w, g, e, <<m>>)
  <2> HIDE DEF Shape
  <2>1. QED
    BY <1>1, <1>2, <1>3
<1>5. w = (h \o d) \o <<n>>
  BY DEF g, h, e, d, Salt
<1>6. Shape(w, h, d, <<n>>)
  <2> HIDE DEF Shape
  <2>1. QED
    BY <1>1, <1>2, <1>3, <1>5
<1> HIDE DEF w
<1>7. x = y /\ m = n /\ Len(s) = Len(t) /\ Len(e) = Len(d)
  BY <1>1, <1>2, <1>4, <1>6
<1>8. e = d
  <2>1. \A i \in 1..Len(e) : e[i] = d[i]
    BY <1>4, <1>6, <1>7
  <2>2. QED
    BY <1>1, <1>7, <2>1, SeqEqual
<1>9. QED
  BY <1>7, <1>8, EncodedInjective DEF e, d

-----------------------------------------------------------------------------
(* Requests, what is made of them, and their addresses.                    *)

LEMMA ValidLemma ==
  ASSUME NEW p \in ValidParams
  PROVE  LET c == canonicalize_signers(p.signers)
         IN  /\ p \in Params
             /\ p.signers \in Seq(AccountSignerInit) /\ Len(p.signers) \in Nat \ {0}
             /\ \A i \in 1..Len(p.signers) : ValidSignerShape(p.signers[i])
             /\ ValidThreshold(p.threshold, Len(p.signers))
             /\ c \in Seq(AccountSignerInit) /\ Len(c) = Len(p.signers) /\ Sorted(c)
             /\ {c[i] : i \in 1..Len(c)} = SignerSet(p)
<1>1. p \in Params /\ Normalizable(p) /\ p.signers \in Seq(AccountSignerInit)
  BY FactoryAssumption DEF ValidParams
<1>2. Len(p.signers) \in Nat \ {0} /\ DOMAIN p.signers = 1..Len(p.signers)
  BY <1>1, EmptySeq DEF Normalizable
<1>3. SignerSet(p) = {p.signers[i] : i \in 1..Len(p.signers)}
  BY <1>2 DEF SignerSet
<1>4. DuplicateFree(p.signers)
  BY <1>1 DEF Normalizable
<1>5. QED
  BY <1>1, <1>2, <1>3, <1>4, CanonicalLemma DEF Normalizable

Effective(p) == IF Len(p.signers) = 1 THEN 1 ELSE p.threshold

LEMMA AddressDef ==
  ASSUME NEW p \in ValidParams
  PROVE  LET c == canonicalize_signers(p.signers)
         IN  /\ Normalized[p] = [signers |-> c, effective_threshold |-> Effective(p),
                                 account_salt |-> p.account_salt]
             /\ AccountAddress[p]
                  = Salt(p.account_salt, c, Effective(p))
             /\ Effective(p) \in Nat
<1>1. Normalized[p] = [signers |-> canonicalize_signers(p.signers),
                       effective_threshold |-> Effective(p), account_salt |-> p.account_salt]
  BY DEF Normalized, normalize_params, Effective
<1>2. AccountAddress[p] = compute_account_deploy_salt(Normalized[p])
  BY DEF AccountAddress
<1>3. Effective(p) \in Nat
  BY ValidLemma DEF Effective, ValidThreshold
<1>4. QED
  BY <1>1, <1>2, <1>3 DEF compute_account_deploy_salt, Salt

(* The address is the identity of an account.                              *)
LEMMA AddressLemma ==
  ASSUME NEW p \in ValidParams, NEW q \in ValidParams
  PROVE  /\ AccountAddress[p] = AccountAddress[q] => Normalized[p] = Normalized[q]
         /\ AccountAddress[p] = AccountAddress[q] <=> SameAccount(p, q)
<1> DEFINE c == canonicalize_signers(p.signers)
           d == canonicalize_signers(q.signers)
<1>1. /\ c \in Seq(AccountSignerInit) /\ Len(c) = Len(p.signers) /\ Sorted(c)
      /\ {c[i] : i \in 1..Len(c)} = SignerSet(p)
      /\ d \in Seq(AccountSignerInit) /\ Len(d) = Len(q.signers) /\ Sorted(d)
      /\ {d[i] : i \in 1..Len(d)} = SignerSet(q)
  BY ValidLemma
<1>2. /\ Normalized[p] = [signers |-> c, effective_threshold |-> Effective(p),
                          account_salt |-> p.account_salt]
      /\ AccountAddress[p] = Salt(p.account_salt, c, Effective(p))
      /\ Effective(p) \in Nat
  BY AddressDef
<1>3. /\ Normalized[q] = [signers |-> d, effective_threshold |-> Effective(q),
                          account_salt |-> q.account_salt]
      /\ AccountAddress[q] = Salt(q.account_salt, d, Effective(q))
      /\ Effective(q) \in Nat
  BY AddressDef
<1> HIDE DEF c, d
<1>4. ASSUME AccountAddress[p] = AccountAddress[q]
      PROVE  c = d /\ p.account_salt = q.account_salt /\ Effective(p) = Effective(q)
  <2>1. Salt(p.account_salt, c, Effective(p)) = Salt(q.account_salt, d, Effective(q))
    BY <1>2, <1>3, <1>4
  <2>2. QED
    BY <1>1, <1>2, <1>3, <2>1, SaltInjective
<1>5. ASSUME AccountAddress[p] = AccountAddress[q] PROVE Normalized[p] = Normalized[q]
  BY <1>2, <1>3, <1>4, <1>5
<1>6. ASSUME AccountAddress[p] = AccountAddress[q] PROVE SameAccount(p, q)
  <2>1. SignerSet(p) = SignerSet(q) /\ Len(p.signers) = Len(q.signers)
    BY <1>1, <1>4, <1>6
  <2>2. QED
    BY <1>4, <1>6, <2>1 DEF SameAccount, Effective
<1>7. ASSUME SameAccount(p, q) PROVE AccountAddress[p] = AccountAddress[q]
  <2>1. {c[i] : i \in 1..Len(c)} = {d[i] : i \in 1..Len(d)}
    BY <1>1, <1>7 DEF SameAccount
  <2>2. c = d
    <3>1. ASSUME NEW i \in 1..Len(c) PROVE \E j \in 1..Len(d) : c[i] = d[j]
      BY <2>1
    <3>2. ASSUME NEW j \in 1..Len(d) PROVE \E i \in 1..Len(c) : c[i] = d[j]
      BY <2>1
    <3>3. QED
      BY <1>1, <3>1, <3>2, SortedUnique
  <2>3. Effective(p) = Effective(q) /\ p.account_salt = q.account_salt
    BY <1>1, <1>7, <2>2 DEF SameAccount, Effective
  <2>4. QED
    BY <1>2, <1>3, <2>2, <2>3
<1>8. QED
  BY <1>5, <1>6, <1>7

-----------------------------------------------------------------------------
(* Every account was deployed for a valid request, with the constructor    *)
(* arguments made of it under the configuration, which does not change.    *)
DeployedFor(a, p) ==
  /\ a = AccountAddress[p]
  /\ accounts[a] = ConstructorArgs(Normalized[p])
  /\ ConstructorAccepts(accounts[a])

IInv ==
  /\ config # None => SingletonsOf(config) \subseteq Deployed
  /\ config = None => DOMAIN accounts = {}
  /\ \A a \in DOMAIN accounts : \E p \in ValidParams : DeployedFor(a, p)
  /\ DOMAIN live_until = (IF config = None THEN {} ELSE {Factory}) \cup DOMAIN accounts
  /\ ledger \in 1..MaxLedger
  /\ answered \subseteq Requests \cap ValidParams

LEMMA InvInit == Init => IInv
<1> SUFFICES ASSUME Init PROVE IInv
  OBVIOUS
<1>1. DOMAIN accounts = {} /\ DOMAIN live_until = {}
  BY DEF Init
<1>2. QED
  BY <1>1, FactoryAssumption DEF Init, IInv

(* The step that deploys an account.                                       *)
LEMMA InvDeploy ==
  ASSUME IInv, NEW p \in ValidParams \cap Requests, Configured,
         ~Executable(AccountAddress[p]),
         CanDeploy(AccountAddress[p], ConstructorArgs(Normalized[p])),
         accounts' = With(accounts, AccountAddress[p], ConstructorArgs(Normalized[p])),
         DOMAIN live_until' = DOMAIN live_until \cup {AccountAddress[p]},
         answered' = answered \cup {p}, UNCHANGED <<config, ledger>>
  PROVE  IInv'
<1> DEFINE address == AccountAddress[p]
           args == ConstructorArgs(Normalized[p])
<1>1. /\ DOMAIN accounts' = DOMAIN accounts \cup {address}
      /\ accounts'[address] = args
      /\ \A a \in DOMAIN accounts : a # address => accounts'[a] = accounts[a]
  BY DEF With
<1>2. config # None
  BY DEF Configured
<1>3. \A n : ConstructorArgs(n)' = ConstructorArgs(n)
  BY DEF ConstructorArgs, build_account_signers, build_account_policies
<1>4. \A n : ConstructorAccepts(n)' <=> ConstructorAccepts(n)
  BY DEF ConstructorAccepts, CanonicalKey
<1>5. ConstructorAccepts(args) /\ address \notin DOMAIN accounts
  BY DEF CanDeploy
<1>6. ASSUME NEW a \in DOMAIN accounts' PROVE \E q \in ValidParams : DeployedFor(a, q)'
  <2>1. CASE a = address
    <3>1. DeployedFor(a, p)'
      BY <1>1, <1>3, <1>4, <1>5, <2>1 DEF DeployedFor
    <3>2. QED
      BY <3>1
  <2>2. CASE a # address
    <3>1. a \in DOMAIN accounts /\ accounts'[a] = accounts[a]
      BY <1>1, <2>2
    <3>2. PICK q \in ValidParams : DeployedFor(a, q)
      BY <3>1 DEF IInv
    <3>3. DeployedFor(a, q)'
      BY <1>3, <1>4, <3>1, <3>2 DEF DeployedFor
    <3>4. QED
      BY <3>3
  <2>3. QED
    BY <2>1, <2>2
<1> HIDE DEF address, args
<1>7. (SingletonsOf(config) \subseteq Deployed)'
  BY <1>2 DEF IInv, SingletonsOf
<1>8. QED
  BY <1>1, <1>2, <1>6, <1>7 DEF IInv, address

(* The steps that leave the accounts alone.                                *)
LEMMA InvSame ==
  ASSUME IInv, UNCHANGED <<config, accounts>>, DOMAIN live_until' = DOMAIN live_until,
         ledger' \in 1..MaxLedger, answered' \subseteq Requests \cap ValidParams
  PROVE  IInv'
<1>1. \A n : ConstructorArgs(n)' = ConstructorArgs(n)
  BY DEF ConstructorArgs, build_account_signers, build_account_policies
<1>2. \A n : ConstructorAccepts(n)' <=> ConstructorAccepts(n)
  BY DEF ConstructorAccepts, CanonicalKey
<1>3. \A a, p : DeployedFor(a, p)' <=> DeployedFor(a, p)
  BY <1>1, <1>2 DEF DeployedFor
<1>4. (SingletonsOf(config) \subseteq Deployed)' <=> SingletonsOf(config) \subseteq Deployed
  BY DEF SingletonsOf
<1>5. QED
  BY <1>3, <1>4 DEF IInv

LEMMA InvStep == IInv /\ [Next]_vars => IInv'
<1> SUFFICES ASSUME IInv, [Next]_vars PROVE IInv'
  OBVIOUS
<1>0. ledger \in 1..MaxLedger /\ answered \subseteq Requests \cap ValidParams
  BY DEF IInv
<1>1. ASSUME NEW cfg \in Configs, Construct(cfg) PROVE IInv'
  <2>1. /\ config = None /\ config' = cfg /\ cfg # None /\ SingletonsOf(cfg) \subseteq Deployed
        /\ accounts' = accounts /\ DOMAIN live_until' = DOMAIN live_until \cup {Factory}
        /\ ledger' = ledger /\ answered' = answered
    BY <1>1, FactoryAssumption DEF Construct, With
  <2>2. DOMAIN accounts = {} /\ DOMAIN live_until = {}
    BY <2>1 DEF IInv
  <2>3. (SingletonsOf(config) \subseteq Deployed)'
    BY <2>1 DEF SingletonsOf
  <2>4. QED
    BY <1>0, <2>1, <2>2, <2>3 DEF IInv
<1>2. ASSUME NEW params \in Requests, CreateAccount(params) PROVE IInv'
  <2> DEFINE address == AccountAddress[params]
             args == ConstructorArgs(Normalized[params])
  <2>1. /\ Configured /\ params \in ValidParams /\ answered' = answered \cup {params}
        /\ UNCHANGED <<config, ledger>>
    BY <1>2 DEF CreateAccount
  <2>2. CASE /\ live_until' = [live_until EXCEPT ![Factory] = ExtendedInstanceTtl]
             /\ UNCHANGED <<accounts, created>>
    <3>1. DOMAIN live_until' = DOMAIN live_until
      BY <2>2
    <3>2. answered' \subseteq Requests \cap ValidParams
      BY <1>0, <2>1
    <3>3. QED
      BY <1>0, <2>1, <2>2, <3>1, <3>2, InvSame
  <2>3. CASE /\ ~Executable(address) /\ CanDeploy(address, args)
             /\ accounts' = With(accounts, address, args)
             /\ live_until' =
                  With([live_until EXCEPT ![Factory] = ExtendedInstanceTtl],
                       address, FreshLiveUntil(ledger, MIN_PERSISTENT_TTL))
    <3>1. DOMAIN live_until' = DOMAIN live_until \cup {address}
      BY <2>3 DEF With
    <3>2. QED
      BY <2>1, <2>3, <3>1, InvDeploy
  <2>4. QED
    BY <1>2, <2>2, <2>3 DEF CreateAccount
<1>3. CASE GetSingleton
  <2>1. DOMAIN live_until' = DOMAIN live_until
    BY <1>3 DEF GetSingleton
  <2>2. QED
    BY <1>0, <1>3, <2>1, InvSame DEF GetSingleton
<1>4. ASSUME NEW entry \in DOMAIN live_until, Restore(entry) PROVE IInv'
  <2>1. DOMAIN live_until' = DOMAIN live_until
    BY <1>4 DEF Restore
  <2>2. QED
    BY <1>0, <1>4, <2>1, InvSame DEF Restore
<1>5. CASE CloseLedger
  <2>1. ledger' \in 1..MaxLedger
    BY <1>0, <1>5, FactoryAssumption DEF CloseLedger
  <2>2. QED
    BY <1>0, <1>5, <2>1, InvSame DEF CloseLedger
<1>6. CASE UNCHANGED vars
  BY <1>0, <1>6, InvSame DEF vars
<1>7. QED
  BY <1>1, <1>2, <1>3, <1>4, <1>5, <1>6 DEF Next, SomeConstruct, SomeRestore

LEMMA InvCorrect == Spec => []IInv
  BY InvInit, InvStep, PTL DEF Spec

-----------------------------------------------------------------------------
LEMMA LenDomain ==
  ASSUME NEW s, NEW n \in Nat, DOMAIN s = 1..n
  PROVE  Len(s) = n
  OBVIOUS

(* The verifier a signer of each kind gets.                                *)
VerifierFor(v, code) ==
  /\ code = 0 => v = None
  /\ code = 1 => v = config.ed25519_verifier
  /\ code = 2 => v = config.webauthn_verifier

(* The arguments made of a valid request.                                  *)
LEMMA ArgsLemma ==
  ASSUME NEW p \in ValidParams
  PROVE  LET args == ConstructorArgs(Normalized[p])
             c == canonicalize_signers(p.signers)
         IN  /\ args.signers = build_account_signers(c)
             /\ args.policies = build_account_policies(Effective(p), Len(p.signers))
             /\ DOMAIN args.signers = 1..Len(p.signers)
             /\ Len(args.signers) = Len(p.signers)
             /\ \A i \in 1..Len(p.signers) :
                  /\ c[i] \in AccountSignerInit /\ c[i] \in SignerSet(p)
                  /\ args.signers[i].data = c[i].data
                  /\ VerifierFor(args.signers[i].verifier, c[i].code)
<1> DEFINE args == ConstructorArgs(Normalized[p])
           c == canonicalize_signers(p.signers)
           n == Len(p.signers)
<1>1. /\ c \in Seq(AccountSignerInit) /\ Len(c) = n /\ n \in Nat
      /\ {c[i] : i \in 1..Len(c)} = SignerSet(p)
  BY ValidLemma
<1>2. Normalized[p].signers = c /\ Normalized[p].effective_threshold = Effective(p)
  <2>1. Normalized[p] = [signers |-> c, effective_threshold |-> Effective(p),
                         account_salt |-> p.account_salt]
    BY AddressDef
  <2>2. QED
    BY <2>1
<1>3. /\ args.signers = build_account_signers(c)
      /\ args.policies = build_account_policies(Effective(p), n)
  BY <1>1, <1>2 DEF ConstructorArgs
<1> HIDE DEF c, args
<1>4. DOMAIN c = 1..n
  BY <1>1
<1>5. /\ DOMAIN args.signers = 1..n
      /\ \A i \in 1..n :
           /\ args.signers[i].data = c[i].data
           /\ VerifierFor(args.signers[i].verifier, c[i].code)
  <2>1. ASSUME NEW i \in 1..n
        PROVE  /\ build_account_signers(c)[i].data = c[i].data
               /\ VerifierFor(build_account_signers(c)[i].verifier, c[i].code)
    BY <1>4 DEF build_account_signers, VerifierFor
  <2>2. DOMAIN build_account_signers(c) = 1..n
    BY <1>4 DEF build_account_signers
  <2>3. QED
    BY <1>3, <2>1, <2>2
<1>6. Len(args.signers) = n
  BY <1>1, <1>5, LenDomain
<1>7. \A i \in 1..n : c[i] \in AccountSignerInit /\ c[i] \in SignerSet(p)
  BY <1>1
<1>8. QED
  BY <1>3, <1>5, <1>6, <1>7 DEF c, args

(* Every deployed account has signers, not too many, well-formed keys, and *)
(* a threshold its signers can reach.                                      *)
THEOREM TypeCorrect == Spec => []TypeOK
<1>1. ASSUME IInv PROVE TypeOK
  <2>1. ASSUME NEW a \in DOMAIN accounts
        PROVE  LET args == accounts[a] IN
                 /\ Len(args.signers) \in 1..MAX_SIGNERS
                 /\ config.ed25519_verifier # config.webauthn_verifier =>
                      \A i \in DOMAIN args.signers :
                        args.signers[i].verifier = config.webauthn_verifier
                          => Len(args.signers[i].data) > P256_LEN
                 /\ \A q \in DOMAIN args.policies : args.policies[q] \in 1..Len(args.signers)
    <3> DEFINE args == accounts[a]
    <3>1. PICK p \in ValidParams : DeployedFor(a, p)
      BY <1>1 DEF IInv
    <3> DEFINE c == canonicalize_signers(p.signers)
    <3>2. args = ConstructorArgs(Normalized[p]) /\ ConstructorAccepts(args)
      BY <3>1 DEF DeployedFor
    <3>3. Len(p.signers) \in Nat \ {0}
      BY ValidLemma
    <3>4. /\ DOMAIN args.signers = 1..Len(p.signers) /\ Len(args.signers) = Len(p.signers)
          /\ \A i \in 1..Len(p.signers) :
               /\ c[i] \in AccountSignerInit /\ c[i] \in SignerSet(p)
               /\ args.signers[i].data = c[i].data
               /\ VerifierFor(args.signers[i].verifier, c[i].code)
      BY <3>2, ArgsLemma
    <3> HIDE DEF args, c
    <3>5. Len(args.signers) \in 1..MAX_SIGNERS
      BY <3>2, <3>3, <3>4, FactoryAssumption DEF ConstructorAccepts
    <3>6. \A q \in DOMAIN args.policies : args.policies[q] \in 1..Len(args.signers)
      BY <3>2 DEF ConstructorAccepts
    <3>7. ASSUME config.ed25519_verifier # config.webauthn_verifier,
                 NEW i \in DOMAIN args.signers,
                 args.signers[i].verifier = config.webauthn_verifier
          PROVE  Len(args.signers[i].data) > P256_LEN
      <4>1. config # None /\ config.webauthn_verifier \in Deployed
        BY <1>1 DEF IInv, SingletonsOf
      <4>2. i \in 1..Len(p.signers) /\ c[i] \in AccountSignerInit /\ c[i] \in SignerSet(p)
        BY <3>4
      <4>3. VerifierFor(args.signers[i].verifier, c[i].code)
        BY <3>4, <4>2
      <4>4. c[i].code = 2
        <5>1. c[i].code \in 0..2
          BY <4>2 DEF AccountSignerInit
        <5>2. c[i].code # 0 /\ c[i].code # 1
          BY <3>7, <4>1, <4>3, FactoryAssumption DEF VerifierFor
        <5>3. QED
          BY <5>1, <5>2
      <4>5. PICK j \in 1..Len(p.signers) : c[i] = p.signers[j] /\ ValidSignerShape(p.signers[j])
        <5>1. DOMAIN p.signers = 1..Len(p.signers)
          BY ValidLemma
        <5>2. QED
          BY <4>2, <5>1, ValidLemma DEF SignerSet
      <4>6. Len(c[i].data) > P256_LEN
        BY <4>4, <4>5 DEF ValidSignerShape
      <4>7. QED
        BY <3>4, <4>2, <4>6
    <3>8. QED
      BY <3>5, <3>6, <3>7 DEF args
  <2>2. QED
    BY <1>1, <2>1 DEF IInv, TypeOK
<1>2. QED
  BY <1>1, InvCorrect, PTL

(* The derived address is the account's identity.                          *)
THEOREM IdentityCorrect == Spec => []AddressIsIdentity
<1>1. ASSUME IInv PROVE AddressIsIdentity
  <2>1. ASSUME NEW p \in answered, NEW q \in ValidParams
        PROVE  AccountAddress[p] = AccountAddress[q] <=> SameAccount(p, q)
    <3>1. p \in ValidParams
      BY <1>1 DEF IInv
    <3>2. QED
      BY <3>1, AddressLemma
  <2>2. QED
    BY <2>1 DEF AddressIsIdentity
<1>2. QED
  BY <1>1, InvCorrect, PTL

(* An account found at the address derived from a request has exactly the  *)
(* signers and the threshold of the request.                               *)
THEOREM CommitmentCorrect == Spec => []CommittedConfiguration
<1>1. ASSUME IInv PROVE CommittedConfiguration
  <2> SUFFICES ASSUME NEW p \in ValidParams, AccountAddress[p] \in DOMAIN accounts
               PROVE
      LET args == accounts[AccountAddress[p]]
          verifier(code) == CASE code = 0 -> None
                              [] code = 1 -> config.ed25519_verifier
                              [] code = 2 -> config.webauthn_verifier
      IN  /\ {<<args.signers[i].verifier, args.signers[i].data>> :
                i \in DOMAIN args.signers}
               = {<<verifier(s.code), s.data>> : s \in SignerSet(p)}
          /\ Len(args.signers) = Len(p.signers)
          /\ IF Len(p.signers) = 1
               THEN DOMAIN args.policies = {}
               ELSE /\ DOMAIN args.policies = {config.threshold_policy}
                    /\ args.policies[config.threshold_policy] = p.threshold
    BY DEF CommittedConfiguration
  <2> DEFINE args == accounts[AccountAddress[p]]
             c == canonicalize_signers(p.signers)
             n == Len(p.signers)
             verifier(code) == CASE code = 0 -> None
                                 [] code = 1 -> config.ed25519_verifier
                                 [] code = 2 -> config.webauthn_verifier
  <2>1. args = ConstructorArgs(Normalized[p])
    <3>1. PICK q \in ValidParams : DeployedFor(AccountAddress[p], q)
      BY <1>1 DEF IInv
    <3>2. Normalized[p] = Normalized[q]
      BY <3>1, AddressLemma DEF DeployedFor
    <3>3. QED
      BY <3>1, <3>2 DEF DeployedFor
  <2>2. /\ args.policies = build_account_policies(Effective(p), n)
        /\ DOMAIN args.signers = 1..n /\ Len(args.signers) = n
        /\ \A i \in 1..n :
             /\ c[i] \in AccountSignerInit
             /\ args.signers[i].data = c[i].data
             /\ VerifierFor(args.signers[i].verifier, c[i].code)
    BY <2>1, ArgsLemma
  <2>3. n \in Nat \ {0} /\ Len(c) = n /\ {c[i] : i \in 1..n} = SignerSet(p)
    BY ValidLemma
  <2>4. \A code \in 0..2 : VerifierFor(verifier(code), code)
    BY DEF VerifierFor
  <2>5. \A code \in 0..2 : \A v, w : VerifierFor(v, code) /\ VerifierFor(w, code) => v = w
    BY DEF VerifierFor
  <2> HIDE DEF args, c, verifier
  <2>6. ASSUME NEW i \in 1..n PROVE args.signers[i].verifier = verifier(c[i].code)
    <3>1. c[i].code \in 0..2
      BY <2>2 DEF AccountSignerInit
    <3>2. QED
      BY <2>2, <2>4, <2>5, <3>1
  <2>7. {<<args.signers[i].verifier, args.signers[i].data>> : i \in DOMAIN args.signers}
          = {<<verifier(s.code), s.data>> : s \in SignerSet(p)}
    <3>1. {<<args.signers[i].verifier, args.signers[i].data>> : i \in DOMAIN args.signers}
            = {<<verifier(c[i].code), c[i].data>> : i \in 1..n}
      BY <2>2, <2>6
    <3>2. {<<verifier(s.code), s.data>> : s \in {c[i] : i \in 1..n}}
            = {<<verifier(c[i].code), c[i].data>> : i \in 1..n}
      OBVIOUS
    <3>3. QED
      BY <2>3, <3>1, <3>2
  <2>8. IF n = 1 THEN DOMAIN args.policies = {}
                 ELSE /\ DOMAIN args.policies = {config.threshold_policy}
                      /\ args.policies[config.threshold_policy] = p.threshold
    <3>1. args.policies = [policy \in IF n > 1 THEN {config.threshold_policy} ELSE {} |-> Effective(p)]
      BY <2>2 DEF build_account_policies
    <3>2. n # 1 => Effective(p) = p.threshold
      BY DEF Effective
    <3> HIDE DEF n
    <3>3. QED
      BY <2>3, <3>1, <3>2
  <2>9. QED
    BY <2>2, <2>7, <2>8 DEF args, verifier
<1>2. QED
  BY <1>1, InvCorrect, PTL

(* AccountCreated is published once for every account.                     *)
THEOREM EventCorrect == Spec => []OneEventPerAccount
<1>1. Init => OneEventPerAccount
  BY DEF Init, OneEventPerAccount, EmptyBag, SetToBag
<1>2. OneEventPerAccount /\ [Next]_vars => OneEventPerAccount'
  <2> SUFFICES ASSUME OneEventPerAccount, [Next]_vars PROVE OneEventPerAccount'
    OBVIOUS
  <2>1. ASSUME NEW params \in Requests, CreateAccount(params) PROVE OneEventPerAccount'
    <3> DEFINE address == AccountAddress[params]
               args == ConstructorArgs(Normalized[params])
    <3>1. CASE UNCHANGED <<accounts, created>>
      BY <3>1 DEF OneEventPerAccount
    <3>2. CASE ~Executable(address) /\ accounts' = With(accounts, address, args)
                 /\ created' = Published(address)
      <4>1. DOMAIN accounts' = DOMAIN accounts \cup {address} /\ address \notin DOMAIN accounts
        BY <3>2 DEF With, Executable
      <4> HIDE DEF address
      <4>2. created' = SetToBag(DOMAIN accounts) (+) SetToBag({address})
        BY <3>2 DEF Published, OneEventPerAccount
      <4>3. QED
        BY <4>1, <4>2 DEF OneEventPerAccount, SetToBag, (+)
    <3>3. QED
      BY <2>1, <3>1, <3>2 DEF CreateAccount
  <2>2. CASE UNCHANGED <<accounts, created>>
    BY <2>2 DEF OneEventPerAccount
  <2>3. QED
    BY <2>1, <2>2
       DEF Next, SomeConstruct, Construct, GetSingleton, SomeRestore, Restore, CloseLedger, vars
<1>3. QED
  BY <1>1, <1>2, PTL DEF Spec
=============================================================================
