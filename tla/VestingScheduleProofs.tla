----------------------- MODULE VestingScheduleProofs -----------------------
(***************************************************************************)
(* Theorems about the vesting schedule, for every total, every pair of     *)
(* ledgers, every cliff and every pattern of claims.                       *)
(***************************************************************************)
EXTENDS VestingSchedule, TLAPS

(* mul_div_u128 is exact for every word size: the code's words have 2^64   *)
(* values, out of TLC's reach, and the split path starts at totals beyond  *)
(* 2^96.                                                                   *)

(* Euclidean division: quotient and remainder exist ...                    *)
LEMMA DivModLemma ==
  ASSUME NEW a \in Nat, NEW d \in Nat \ {0}
  PROVE  /\ a \div d \in Nat
         /\ a % d \in Nat
         /\ a % d < d
         /\ a = (a \div d) * d + (a % d)
  OBVIOUS

(* ... and are unique.                                                     *)
LEMMA DivUnique ==
  ASSUME NEW a \in Nat, NEW d \in Nat \ {0}, NEW q \in Nat, NEW r \in Nat,
         r < d, a = q * d + r
  PROVE  a \div d = q
<1> DEFINE p == a \div d
           s == a % d
<1>1. p \in Nat /\ s \in Nat /\ s < d /\ a = p * d + s
  BY DivModLemma
<1> HIDE DEF p, s
<1>2. (p - q) * d = r - s
  BY <1>1
<1>3. ASSUME p > q PROVE FALSE
  <2>1. (p - q) * d >= d
    BY <1>1, <1>3
  <2>2. QED
    BY <1>1, <1>2, <2>1
<1>4. ASSUME q > p PROVE FALSE
  <2>1. (q - p) * d >= d
    BY <1>1, <1>4
  <2>2. (q - p) * d = s - r
    BY <1>1, <1>2
  <2>3. QED
    BY <1>1, <2>1, <2>2
<1>5. p = q
  BY <1>1, <1>3, <1>4
<1>6. QED
  BY <1>5 DEF p

(* A value that fits is not changed by the wrap-around of a shift.         *)
LEMMA ModSmall ==
  ASSUME NEW a \in Nat, NEW d \in Nat \ {0}, a < d
  PROVE  a % d = a
  OBVIOUS

(* A product of smaller factors is smaller.                                *)
LEMMA ProductBound ==
  ASSUME NEW a \in Nat, NEW b \in Nat, NEW c \in Nat, a <= b
  PROVE  a * c <= b * c
  BY SMT

-----------------------------------------------------------------------------
(* The arguments compute_vested passes: a total of at most two words, a    *)
(* started and unfinished schedule, and ledgers (u32) short of half a word *)
(* (u64).                                                                  *)
ValidArguments(total, elapsed, duration) ==
  /\ total \in Nat /\ elapsed \in Nat /\ duration \in Nat \ {0}
  /\ total < U128_SIZE
  /\ elapsed < duration
  /\ 2 * duration <= WORD

(* The parts of the split, and that none of them overflows two words: the  *)
(* shifts lose no bits and no checked addition panics.                     *)
LEMMA SplitLemma ==
  ASSUME NEW total, NEW elapsed, NEW duration,
         ValidArguments(total, elapsed, duration)
  PROVE  LET hi      == total \div WORD
             lo      == total % WORD
             hi_div  == (hi * elapsed) \div duration
             hi_rem  == (hi * elapsed) % duration
         IN  /\ hi \in Nat /\ lo \in Nat /\ hi_div \in Nat /\ hi_rem \in Nat
             /\ total = hi * WORD + lo
             /\ hi * elapsed = hi_div * duration + hi_rem
             /\ hi_rem * WORD < U128_SIZE
             /\ hi_div * WORD < U128_SIZE
             /\ hi_rem * WORD + lo * elapsed < U128_SIZE
<1> DEFINE hi == total \div WORD
           lo == total % WORD
           hi_div == (hi * elapsed) \div duration
           hi_rem == (hi * elapsed) % duration
<1> USE WordAssumption
<1>1. /\ total \in Nat /\ elapsed \in Nat /\ duration \in Nat \ {0}
      /\ total < WORD * WORD /\ elapsed < duration /\ 2 * duration <= WORD
  BY DEF ValidArguments, U128_SIZE
<1>2. hi \in Nat /\ lo \in Nat /\ lo < WORD /\ total = hi * WORD + lo
  BY <1>1, DivModLemma
<1> HIDE DEF hi, lo
<1>3. hi * elapsed \in Nat
  BY <1>1, <1>2
<1>4. /\ hi_div \in Nat /\ hi_rem \in Nat /\ hi_rem < duration
      /\ hi * elapsed = hi_div * duration + hi_rem
  BY <1>1, <1>3, DivModLemma
<1> HIDE DEF hi_div, hi_rem
<1>5. hi < WORD
  <2>1. ASSUME hi >= WORD PROVE FALSE
    <3>1. WORD * WORD <= hi * WORD
      BY <1>2, <2>1, ProductBound
    <3>2. QED
      BY <1>1, <1>2, <3>1
  <2>2. QED
    BY <1>2, <2>1
<1>6. hi_div < WORD
  <2>1. ASSUME hi_div >= WORD PROVE FALSE
    <3>1. WORD * duration <= hi_div * duration
      BY <1>1, <1>4, <2>1, ProductBound
    <3>2. elapsed * hi <= duration * hi
      BY <1>1, <1>2, ProductBound
    <3>3. hi * duration < WORD * duration
      BY <1>1, <1>2, <1>5
    <3>4. QED
      BY <1>1, <1>2, <1>4, <3>1, <3>2, <3>3
  <2>2. QED
    BY <1>4, <2>1
<1>7. (hi_div + 1) * WORD <= WORD * WORD
  BY <1>4, <1>6, ProductBound
<1>8. hi_rem * WORD <= (duration - 1) * WORD
  BY <1>1, <1>4, ProductBound
<1>9. lo * elapsed <= WORD * (duration - 1)
  <2>1. lo * elapsed <= WORD * elapsed
    BY <1>1, <1>2, ProductBound
  <2>2. elapsed * WORD <= (duration - 1) * WORD
    BY <1>1, ProductBound
  <2>3. QED
    BY <1>1, <1>2, <2>1, <2>2
<1>10. (2 * duration) * WORD <= WORD * WORD
  BY <1>1, ProductBound
<1>11. hi_rem * WORD < WORD * WORD /\ hi_div * WORD < WORD * WORD
  BY <1>1, <1>4, <1>7, <1>8, <1>10
<1>12. hi_rem * WORD + lo * elapsed < WORD * WORD
  BY <1>1, <1>2, <1>4, <1>8, <1>9, <1>10
<1>13. QED
  BY <1>2, <1>4, <1>11, <1>12 DEF hi, lo, hi_div, hi_rem, U128_SIZE

(* The low-word dividend of the split path fits two words: line 388 of the *)
(* vesting schedule cannot overflow, whatever the schedule.                *)
THEOREM LowSumFits ==
  ASSUME NEW total, NEW elapsed, NEW duration,
         ValidArguments(total, elapsed, duration)
  PROVE  LowSum(total, elapsed, duration) < U128_SIZE
<1> DEFINE hi_rem  == ((total \div WORD) * elapsed) % duration
           lo_prod == (total % WORD) * elapsed
<1>1. /\ hi_rem \in Nat /\ hi_rem * WORD < U128_SIZE
      /\ hi_rem * WORD + lo_prod < U128_SIZE
  BY SplitLemma
<1>2. (hi_rem * WORD) % U128_SIZE = hi_rem * WORD
  BY <1>1, WordAssumption DEF U128_SIZE
<1>3. QED
  BY <1>1, <1>2 DEF LowSum

(* mul_div_u128 computes the exact floor of total * elapsed / duration on  *)
(* both of its paths, for every word size.                                 *)
THEOREM MulDivExact ==
  ASSUME NEW total, NEW elapsed, NEW duration,
         ValidArguments(total, elapsed, duration)
  PROVE  mul_div_u128(total, elapsed, duration) = (total * elapsed) \div duration
<1> DEFINE hi      == total \div WORD
           lo      == total % WORD
           hi_div  == (hi * elapsed) \div duration
           hi_rem  == (hi * elapsed) % duration
           lo_sum  == hi_rem * WORD + lo * elapsed
           lo_div  == lo_sum \div duration
           lo_rem  == lo_sum % duration
<1> USE WordAssumption
<1>1. total \in Nat /\ elapsed \in Nat /\ duration \in Nat \ {0}
  BY DEF ValidArguments
<1>2. /\ hi \in Nat /\ lo \in Nat /\ hi_div \in Nat /\ hi_rem \in Nat
      /\ total = hi * WORD + lo
      /\ hi * elapsed = hi_div * duration + hi_rem
      /\ hi_rem * WORD < U128_SIZE
      /\ hi_div * WORD < U128_SIZE
  BY SplitLemma
<1>3. /\ U128_SIZE \in Nat \ {0}
      /\ hi_rem * WORD \in Nat /\ hi_div * WORD \in Nat
  BY <1>2 DEF U128_SIZE
<1>4. SplitQuotient(total, elapsed, duration) = hi_div * WORD + lo_div
  <2>1. (hi_rem * WORD) % U128_SIZE = hi_rem * WORD
    BY <1>2, <1>3, ModSmall
  <2>2. (hi_div * WORD) % U128_SIZE = hi_div * WORD
    BY <1>2, <1>3, ModSmall
  <2>3. QED
    BY <2>1, <2>2 DEF SplitQuotient, LowSum
<1> HIDE DEF hi, lo, hi_div, hi_rem
<1>5. lo_sum \in Nat
  BY <1>1, <1>2
<1>6. /\ lo_div \in Nat /\ lo_rem \in Nat /\ lo_rem < duration
      /\ lo_sum = lo_div * duration + lo_rem
  BY <1>1, <1>5, DivModLemma
<1> HIDE DEF lo_div, lo_rem
<1>7. total * elapsed = (hi_div * WORD + lo_div) * duration + lo_rem
  <2>1. total * elapsed = (hi * elapsed) * WORD + lo * elapsed
    BY <1>1, <1>2
  <2>2. (hi * elapsed) * WORD = (hi_div * WORD) * duration + hi_rem * WORD
    BY <1>1, <1>2
  <2>3. total * elapsed = (hi_div * WORD) * duration + lo_sum
    BY <1>1, <1>2, <2>1, <2>2
  <2>4. QED
    BY <1>1, <1>2, <1>6, <2>3
<1>8. (total * elapsed) \div duration = hi_div * WORD + lo_div
  <2>1. hi_div * WORD + lo_div \in Nat /\ total * elapsed \in Nat
    BY <1>1, <1>2, <1>6
  <2>2. QED
    BY <1>1, <1>6, <1>7, <2>1, DivUnique
<1>9. QED
  BY <1>4, <1>8 DEF mul_div_u128

-----------------------------------------------------------------------------
(* A schedule the constructor accepts, whatever has been claimed of it.    *)
WellFormed(s) ==
  /\ s \in ScheduleData
  /\ s.start_ledger < s.end_ledger
  /\ s.cliff_ledger # None => s.cliff_ledger \in s.start_ledger..s.end_ledger
  /\ s.claimed_amount <= s.total_amount

LEMMA FieldLemma ==
  ASSUME NEW s, WellFormed(s)
  PROVE  /\ s.owner \in Users
         /\ s.total_amount \in Nat /\ s.total_amount > 0
         /\ s.total_amount <= I128_MAX /\ s.total_amount < U128_SIZE
         /\ s.start_ledger \in Ledgers /\ s.start_ledger \in Nat
         /\ s.end_ledger \in Ledgers /\ s.end_ledger \in Nat
         /\ s.start_ledger < s.end_ledger
         /\ s.claimed_amount \in Nat /\ s.claimed_amount <= s.total_amount
<1>1. I128_MAX \in Nat /\ I128_MAX < U128_SIZE /\ U128_SIZE \in Nat /\ MaxLedger \in Nat
  BY VestingAssumption, WordAssumption DEF U128_SIZE
<1>2. QED
  BY <1>1 DEF WellFormed, ScheduleData, Ledgers

(* Floor division is monotone in its dividend and never rounds up.         *)
LEMMA FloorLemma ==
  ASSUME NEW total \in Nat, NEW d \in Nat \ {0},
         NEW x \in Nat, NEW y \in Nat, x <= y, y <= d
  PROVE  /\ (total * x) \div d \in Nat
         /\ (total * x) \div d <= (total * y) \div d
         /\ ((total * x) \div d) * d <= total * x
         /\ (total * x) \div d <= total
<1> DEFINE a == total * x
           b == total * y
           p == a \div d
           q == b \div d
<1>1. a \in Nat /\ b \in Nat
  OBVIOUS
<1>2. a <= b /\ b <= total * d
  <2>1. x * total <= y * total /\ y * total <= d * total
    BY ProductBound
  <2>2. QED
    BY <2>1
<1> HIDE DEF a, b
<1>3. /\ p \in Nat /\ a % d \in Nat /\ a % d < d /\ a = p * d + (a % d)
      /\ q \in Nat /\ b % d \in Nat /\ b % d < d /\ b = q * d + (b % d)
  BY <1>1, DivModLemma
<1> HIDE DEF p, q
<1>4. p * d <= a /\ b < (q + 1) * d
  BY <1>1, <1>3
<1>5. ASSUME p > q PROVE FALSE
  <2>1. (q + 1) * d <= p * d
    BY <1>3, <1>5, ProductBound
  <2>2. QED
    BY <1>1, <1>2, <1>3, <1>4, <2>1
<1>6. ASSUME p > total PROVE FALSE
  <2>1. (total + 1) * d <= p * d
    BY <1>3, <1>6, ProductBound
  <2>2. QED
    BY <1>1, <1>2, <1>3, <1>4, <2>1
<1>7. p <= q /\ p <= total
  BY <1>3, <1>5, <1>6
<1>8. QED
  BY <1>3, <1>4, <1>7 DEF a, b, p, q

(* compute_vested is the published formula, also where it splits words.    *)
LEMMA VestedLemma ==
  ASSUME NEW s, WellFormed(s), NEW l \in Ledgers
  PROVE  compute_vested(s, l) = VestedFormula(s, l)
<1>1. CASE s.start_ledger <= l /\ l < s.end_ledger
  <2>1. ValidArguments(s.total_amount, l - s.start_ledger,
                       s.end_ledger - s.start_ledger)
    BY <1>1, FieldLemma, VestingAssumption, WordAssumption DEF ValidArguments, Ledgers
  <2>2. mul_div_u128(s.total_amount, l - s.start_ledger, s.end_ledger - s.start_ledger)
          = (s.total_amount * (l - s.start_ledger)) \div (s.end_ledger - s.start_ledger)
    BY <2>1, MulDivExact
  <2>3. QED
    BY <2>2 DEF compute_vested, VestedFormula, BeforeCliff
<1>2. CASE ~(s.start_ledger <= l /\ l < s.end_ledger)
  BY <1>2, FieldLemma, VestingAssumption
  DEF compute_vested, VestedFormula, BeforeCliff, Ledgers
<1>3. QED
  BY <1>1, <1>2

(* The formula grows with the ledger, from nothing to the total.           *)
LEMMA FormulaLemma ==
  ASSUME NEW s, WellFormed(s), NEW l \in Ledgers, NEW m \in Ledgers, l <= m
  PROVE  /\ VestedFormula(s, l) \in Nat
         /\ VestedFormula(s, l) <= s.total_amount
         /\ VestedFormula(s, l) <= VestedFormula(s, m)
<1> DEFINE d == s.end_ledger - s.start_ledger
           Line(k) == (s.total_amount * (k - s.start_ledger)) \div d
<1>1. l \in Nat /\ m \in Nat
  BY VestingAssumption DEF Ledgers
<1>2. d \in Nat \ {0}
  BY FieldLemma
<1>3. ASSUME s.start_ledger <= l, l < s.end_ledger
      PROVE  Line(l) \in Nat /\ Line(l) <= s.total_amount
  <2>1. l - s.start_ledger \in Nat /\ l - s.start_ledger <= d
    BY <1>1, <1>3, FieldLemma
  <2> HIDE DEF d
  <2>2. QED
    BY <1>2, <2>1, FieldLemma, FloorLemma
<1>4. ASSUME s.start_ledger <= l, m < s.end_ledger
      PROVE  Line(l) <= Line(m)
  <2>1. /\ l - s.start_ledger \in Nat /\ m - s.start_ledger \in Nat
        /\ l - s.start_ledger <= m - s.start_ledger /\ m - s.start_ledger <= d
    BY <1>1, <1>4, FieldLemma
  <2> HIDE DEF d
  <2>2. QED
    BY <1>2, <2>1, FieldLemma, FloorLemma
<1>5. ASSUME s.start_ledger <= m, m < s.end_ledger
      PROVE  Line(m) \in Nat
  <2>1. m - s.start_ledger \in Nat /\ m - s.start_ledger <= d
    BY <1>1, <1>5, FieldLemma
  <2> HIDE DEF d
  <2>2. QED
    BY <1>2, <2>1, FieldLemma, FloorLemma
<1>6. s.cliff_ledger # None => s.cliff_ledger \in Nat
  BY VestingAssumption DEF WellFormed, ScheduleData, Ledgers
<1> HIDE DEF Line
<1>7. QED
  BY <1>1, <1>3, <1>4, <1>5, <1>6, FieldLemma DEF VestedFormula, Line

-----------------------------------------------------------------------------
(* What one claim does: it books, and pays out, the difference to what the *)
(* formula gives; the saturation of ClaimedAfter is never used.            *)
LEMMA ClaimLemma ==
  ASSUME NEW s, WellFormed(s), NEW l \in Ledgers
  PROVE  /\ Claimable(s, l) = VestedFormula(s, l) - s.claimed_amount
         /\ Payout(s, l) = Claimable(s, l)
         /\ Claimable(s, l) \in Int
         /\ Claimable(s, l) > 0 =>
              /\ ClaimedAfter(s, Claimable(s, l)) = VestedFormula(s, l)
              /\ WellFormed([s EXCEPT !.claimed_amount =
                                ClaimedAfter(s, Claimable(s, l))])
<1>1. Claimable(s, l) = VestedFormula(s, l) - s.claimed_amount
  BY VestedLemma DEF Claimable
<1>2. /\ VestedFormula(s, l) \in Nat
      /\ VestedFormula(s, l) <= s.total_amount
      /\ VestedFormula(s, l) <= I128_MAX
  <2>1. l <= l /\ I128_MAX \in Nat
    BY VestingAssumption DEF Ledgers
  <2>2. VestedFormula(s, l) \in Nat /\ VestedFormula(s, l) <= s.total_amount
    BY <2>1, FormulaLemma
  <2>3. QED
    BY <2>1, <2>2, FieldLemma
<1>3. ASSUME Claimable(s, l) > 0
      PROVE  ClaimedAfter(s, Claimable(s, l)) = VestedFormula(s, l)
  BY <1>1, <1>2, FieldLemma, VestingAssumption DEF ClaimedAfter
<1>4. WellFormed([s EXCEPT !.claimed_amount = VestedFormula(s, l)])
  BY <1>2 DEF WellFormed, ScheduleData
<1>5. QED
  BY <1>1, <1>2, <1>3, <1>4, FieldLemma DEF Payout

(* The same schedule, whatever was claimed, has the same formula.          *)
LEMMA FormulaOfClaimed ==
  ASSUME NEW s, WellFormed(s), NEW c, NEW l
  PROVE  VestedFormula([s EXCEPT !.claimed_amount = c], l) = VestedFormula(s, l)
<1> DEFINE t == [s EXCEPT !.claimed_amount = c]
<1>1. /\ t.total_amount = s.total_amount /\ t.start_ledger = s.start_ledger
      /\ t.cliff_ledger = s.cliff_ledger /\ t.end_ledger = s.end_ledger
  BY DEF WellFormed, ScheduleData
<1> HIDE DEF t
<1>2. VestedFormula(t, l) = VestedFormula(s, l)
  BY <1>1 DEF VestedFormula
<1>3. QED
  BY <1>2 DEF t

LEMMA TransferLemma ==
  ASSUME balance \in [Addresses -> Nat],
         NEW from \in Addresses, NEW to \in Addresses, NEW amount \in Int,
         CanTransfer(from, amount)
  PROVE  Transferred(from, to, amount) \in [Addresses -> Nat]
<1>1. amount \in Nat /\ balance[from] >= amount
  BY DEF CanTransfer
<1>2. QED
  BY <1>1 DEF Transferred

-----------------------------------------------------------------------------
(* The inductive invariant: ClaimHistoryIrrelevant needs the schedule to   *)
(* be well formed, the last claim to lie in the past and an undeployed     *)
(* contract to have paid nothing.                                          *)
ClaimInv ==
  /\ TypeOK
  /\ last_claim <= ledger
  /\ ~Deployed => released = 0 /\ last_claim = 0
  /\ ClaimHistoryIrrelevant

LEMMA DeployedLemma ==
  ASSUME TypeOK, Deployed PROVE WellFormed(schedule)
  BY DEF TypeOK, Deployed, WellFormed

LEMMA ClaimInvInit == Init => ClaimInv
<1> SUFFICES ASSUME Init PROVE ClaimInv
  OBVIOUS
<1>1. ~Deployed
  BY DEF Init, Deployed
<1>2. TypeOK
  BY <1>1, VestingAssumption DEF Init, TypeOK, Ledgers
<1>3. QED
  BY <1>1, <1>2 DEF Init, ClaimInv, ClaimHistoryIrrelevant

(* A new schedule starts with nothing vested, nothing claimed.             *)
LEMMA ConstructStep ==
  ASSUME ClaimInv, NEW owner \in Users, NEW total \in Totals,
         NEW start \in Ledgers, NEW end \in Ledgers,
         NEW cliff \in Ledgers \cup {None}, Construct(owner, total, start, cliff, end)
  PROVE  ClaimInv'
<1>1. total \in 1..I128_MAX /\ MaxLedger \in Nat
  BY VestingAssumption DEF Construct
<1>2. WellFormed(schedule)'
  <2>1. schedule' \in ScheduleData
    BY <1>1 DEF Construct, ScheduleData
  <2>2. QED
    BY <1>1, <2>1, VestingAssumption, NoneAssumption
    DEF Construct, WellFormed, ValidCliff, Ledgers
<1>3. live_until' \in Int
  BY VestingAssumption DEF ClaimInv, TypeOK, Construct, ExtendTtl, FreshLiveUntil, Ledgers
<1>4. TypeOK'
  BY <1>2, <1>3 DEF ClaimInv, TypeOK, Construct, WellFormed
<1>5. VestedFormula(schedule, last_claim)' = 0
  <2>1. last_claim' = 0 /\ 0 \in Ledgers
    BY <1>1 DEF ClaimInv, Construct, Ledgers
  <2>2. VestedFormula(schedule', 0) = 0
    <3>1. /\ schedule'.start_ledger = start /\ schedule'.end_ledger = end
          /\ schedule'.total_amount = total /\ schedule'.cliff_ledger = cliff
          /\ start \in Nat /\ end \in Nat /\ start < end
      BY <1>1 DEF Construct, Ledgers
    <3>2. CASE start = 0
      <4>1. (total * (0 - start)) = 0 /\ end - start \in Nat \ {0}
        BY <1>1, <3>1, <3>2
      <4>2. 0 \div (end - start) = 0
        BY <4>1, DivUnique
      <4>3. QED
        BY <3>1, <3>2, <4>1, <4>2 DEF VestedFormula
    <3>3. CASE start # 0
      BY <3>1, <3>3 DEF VestedFormula
    <3>4. QED
      BY <3>2, <3>3
  <2>3. QED
    BY <2>1, <2>2
<1>6. schedule'.claimed_amount = 0 /\ released' = 0
  BY DEF ClaimInv, Construct
<1>7. Deployed'
  BY <1>2, NoneAssumption DEF WellFormed, Deployed
<1>8. QED
  BY <1>4, <1>5, <1>6, <1>7 DEF ClaimInv, ClaimHistoryIrrelevant, Construct

(* A claim moves claimed_amount and released to the formula's value.       *)
LEMMA ClaimStep ==
  ASSUME ClaimInv, NEW to \in Addresses, NEW authorized \in SUBSET Users,
         Claim(to, authorized)
  PROVE  ClaimInv'
<1> DEFINE claimable == Claimable(schedule, ledger)
<1>1. /\ WellFormed(schedule) /\ ledger \in Ledgers /\ ledger \in Nat
      /\ released = schedule.claimed_amount /\ released \in Nat
  BY DeployedLemma, VestingAssumption
  DEF ClaimInv, TypeOK, Claim, ClaimHistoryIrrelevant, Ledgers
<1>2. /\ claimable = VestedFormula(schedule, ledger) - schedule.claimed_amount
      /\ Payout(schedule, ledger) = claimable
      /\ claimable \in Int
      /\ claimable > 0
      /\ ClaimedAfter(schedule, claimable) = VestedFormula(schedule, ledger)
      /\ schedule' = [schedule EXCEPT !.claimed_amount = VestedFormula(schedule, ledger)]
      /\ WellFormed(schedule)'
  BY <1>1, ClaimLemma DEF Claim
<1> HIDE DEF claimable
<1>3. VestedFormula(schedule', ledger) = VestedFormula(schedule, ledger)
  BY <1>1, <1>2, FormulaOfClaimed
<1>4. VestedFormula(schedule, ledger) \in Nat
  BY <1>1, FormulaLemma
<1>5. /\ released' = VestedFormula(schedule, ledger)
      /\ schedule'.claimed_amount = VestedFormula(schedule, ledger)
  <2>1. released' = released + claimable
    BY <1>2 DEF Claim
  <2>2. schedule'.claimed_amount = VestedFormula(schedule, ledger)
    BY <1>1, <1>2 DEF WellFormed, ScheduleData
  <2>3. QED
    BY <1>1, <1>2, <1>4, <2>1, <2>2, FieldLemma
<1>6. balance' \in [Addresses -> Nat]
  BY <1>2, TransferLemma DEF ClaimInv, TypeOK, Claim, Addresses
<1>7. live_until' \in Int
  BY <1>1, VestingAssumption DEF ClaimInv, TypeOK, Claim, ExtendedInstanceTtl, ExtendTtl
<1>8. TypeOK'
  BY <1>1, <1>2, <1>4, <1>5, <1>6, <1>7 DEF TypeOK, Claim, WellFormed
<1>9. Deployed'
  BY <1>2, NoneAssumption DEF WellFormed, Deployed
<1>10. QED
  BY <1>1, <1>3, <1>5, <1>8, <1>9 DEF ClaimInv, ClaimHistoryIrrelevant, Claim

(* A claim of nothing leaves the amounts: the formula has not moved since  *)
(* the last claim, because it cannot have gone down.                       *)
LEMMA ClaimNothingStep ==
  ASSUME ClaimInv, NEW authorized \in SUBSET Users, ClaimNothing(authorized)
  PROVE  ClaimInv'
<1>1. /\ WellFormed(schedule) /\ ledger \in Ledgers /\ ledger \in Nat
      /\ last_claim \in Ledgers /\ last_claim <= ledger
      /\ schedule.claimed_amount = VestedFormula(schedule, last_claim)
  BY DeployedLemma, VestingAssumption
  DEF ClaimInv, TypeOK, ClaimNothing, ClaimHistoryIrrelevant, Ledgers
<1>2. VestedFormula(schedule, ledger) = VestedFormula(schedule, last_claim)
  <2>1. VestedFormula(schedule, ledger) - schedule.claimed_amount <= 0
    BY <1>1, ClaimLemma DEF ClaimNothing
  <2>2. /\ VestedFormula(schedule, last_claim) \in Nat
        /\ VestedFormula(schedule, last_claim) <= VestedFormula(schedule, ledger)
    BY <1>1, FormulaLemma
  <2>3. VestedFormula(schedule, ledger) \in Nat
    BY <1>1, FormulaLemma
  <2>4. QED
    BY <1>1, <2>1, <2>2, <2>3
<1>3. live_until' \in Int
  BY <1>1, VestingAssumption DEF ClaimInv, TypeOK, ClaimNothing, ExtendedInstanceTtl, ExtendTtl
<1>4. TypeOK'
  BY <1>1, <1>3 DEF ClaimInv, TypeOK, ClaimNothing, Deployed
<1>5. QED
  BY <1>1, <1>2, <1>4 DEF ClaimInv, ClaimHistoryIrrelevant, ClaimNothing, Deployed

LEMMA ClaimInvStep == ClaimInv /\ [Next]_vars => ClaimInv'
<1> SUFFICES ASSUME ClaimInv, [Next]_vars PROVE ClaimInv'
  OBVIOUS
<1>1. ASSUME NEW from \in Users, NEW amount \in Amounts, Fund(from, amount)
      PROVE  ClaimInv'
  <2>1. from \in Addresses /\ Self \in Addresses /\ amount \in Int
    BY VestingAssumption DEF Addresses
  <2>2. balance' \in [Addresses -> Nat]
    BY <1>1, <2>1, TransferLemma DEF ClaimInv, TypeOK, Fund
  <2>3. QED
    BY <1>1, <2>2 DEF ClaimInv, TypeOK, Fund, ClaimHistoryIrrelevant, Deployed
<1>2. CASE Query
  <2>1. live_until' \in Int
    BY <1>2, VestingAssumption
    DEF ClaimInv, TypeOK, Query, ExtendedInstanceTtl, ExtendTtl, Ledgers
  <2>2. QED
    BY <1>2, <2>1 DEF ClaimInv, TypeOK, Query, ClaimHistoryIrrelevant, Deployed
<1>3. CASE Restore
  <2>1. live_until' \in Int
    BY <1>3, VestingAssumption DEF ClaimInv, TypeOK, Restore, FreshLiveUntil, Ledgers
  <2>2. QED
    BY <1>3, <2>1 DEF ClaimInv, TypeOK, Restore, ClaimHistoryIrrelevant, Deployed
<1>4. CASE CloseLedger
  BY <1>4, VestingAssumption
  DEF ClaimInv, TypeOK, CloseLedger, ClaimHistoryIrrelevant, Deployed, Ledgers
<1>5. CASE UNCHANGED vars
  BY <1>5 DEF vars, ClaimInv, TypeOK, ClaimHistoryIrrelevant, Deployed
<1>6. QED
  BY <1>1, <1>2, <1>3, <1>4, <1>5, ConstructStep, ClaimStep, ClaimNothingStep DEF Next

LEMMA ClaimInvCorrect == Spec => []ClaimInv
<1>1. QED
  BY ClaimInvInit, ClaimInvStep, PTL DEF Spec

-----------------------------------------------------------------------------
(* What the constructor accepted stays well formed and no more than the    *)
(* total is ever booked as claimed, through every call.                    *)
THEOREM TypeCorrect == Spec => []TypeOK
<1>1. ClaimInv => TypeOK
  BY DEF ClaimInv
<1>2. QED
  BY <1>1, ClaimInvCorrect, PTL

(* compute_vested is the published formula in every reachable state and    *)
(* every ledger, for totals up to i128::MAX and words of any size.         *)
THEOREM FormulaCorrect == Spec => []VestedMatchesFormula
<1>1. ClaimInv => VestedMatchesFormula
  BY DeployedLemma, VestedLemma DEF ClaimInv, VestedMatchesFormula
<1>2. QED
  BY <1>1, ClaimInvCorrect, PTL

(* Rounding never accumulates: after any pattern of claims the amount      *)
(* released is what one claim in the last claim's ledger would have given. *)
THEOREM HistoryIrrelevant == Spec => []ClaimHistoryIrrelevant
<1>1. ClaimInv => ClaimHistoryIrrelevant
  BY DEF ClaimInv
<1>2. QED
  BY <1>1, ClaimInvCorrect, PTL

(* No pattern of claims releases tokens ahead of the straight line, before *)
(* the cliff or beyond the total.                                          *)
THEOREM ReleaseCorrect == Spec => []ReleasedWithinSchedule
<1>1. ClaimInv => ReleasedWithinSchedule
  <2> SUFFICES ASSUME ClaimInv, Deployed PROVE ReleasedWithinSchedule
    BY DEF ClaimInv, ReleasedWithinSchedule
  <2>1. /\ WellFormed(schedule) /\ ledger \in Ledgers /\ last_claim \in Ledgers
        /\ ledger \in Nat /\ last_claim <= ledger /\ released \in Nat
        /\ released = VestedFormula(schedule, last_claim)
    BY DeployedLemma, VestingAssumption
    DEF ClaimInv, TypeOK, ClaimHistoryIrrelevant, Ledgers
  <2>2. /\ released <= schedule.total_amount
        /\ released <= VestedFormula(schedule, ledger)
    BY <2>1, FormulaLemma
  <2>3. ledger < schedule.start_ledger => released = 0
    BY <2>1, <2>2 DEF VestedFormula
  <2>4. schedule.cliff_ledger # None /\ ledger < schedule.cliff_ledger => released = 0
    BY <2>1, <2>2 DEF VestedFormula
  <2>5. ASSUME ledger < schedule.end_ledger, schedule.start_ledger <= ledger
        PROVE  released * (schedule.end_ledger - schedule.start_ledger)
                 <= schedule.total_amount * (ledger - schedule.start_ledger)
    <3> DEFINE d == schedule.end_ledger - schedule.start_ledger
               x == ledger - schedule.start_ledger
               line == (schedule.total_amount * x) \div d
    <3>1. d \in Nat \ {0} /\ x \in Nat /\ x <= d /\ schedule.total_amount \in Nat
      BY <2>1, <2>5, FieldLemma
    <3> HIDE DEF d, x
    <3>2. line \in Nat /\ line * d <= schedule.total_amount * x
      BY <3>1, FloorLemma
    <3>3. released <= line
      BY <2>1, <2>2, <2>5, <3>2, FieldLemma DEF VestedFormula, d, x
    <3> HIDE DEF line
    <3>4. released * d <= line * d
      BY <2>1, <3>1, <3>2, <3>3, ProductBound
    <3>5. released * d <= schedule.total_amount * x
      BY <2>1, <3>1, <3>2, <3>4
    <3>6. QED
      BY <3>5 DEF d, x
  <2>6. QED
    BY <2>2, <2>3, <2>4, <2>5 DEF ReleasedWithinSchedule
<1>2. QED
  BY <1>1, ClaimInvCorrect, PTL
-----------------------------------------------------------------------------
(* The safety half of FundedScheduleCompletes: what is left to happen once *)
(* the contract holds what it still owes is a claim after the end.         *)

Funded ==
  Deployed /\ balance[Self] >= schedule.total_amount - schedule.claimed_amount

LEMMA FundedClaim ==
  ASSUME ClaimInv, Funded, NEW to \in Addresses, NEW authorized \in SUBSET Users,
         Claim(to, authorized)
  PROVE  Funded'
<1> DEFINE claimable == Claimable(schedule, ledger)
           vested == VestedFormula(schedule, ledger)
<1>1. WellFormed(schedule) /\ ledger \in Ledgers
  BY DeployedLemma DEF ClaimInv, TypeOK, Claim
<1>2. /\ claimable = vested - schedule.claimed_amount
      /\ Payout(schedule, ledger) = claimable /\ claimable \in Int /\ claimable > 0
      /\ schedule' = [schedule EXCEPT !.claimed_amount = vested]
      /\ WellFormed(schedule)'
  BY <1>1, ClaimLemma DEF Claim
<1>3. schedule'.total_amount = schedule.total_amount /\ schedule'.claimed_amount = vested
  BY <1>1, <1>2 DEF WellFormed, ScheduleData
<1>4. /\ schedule.claimed_amount \in Nat /\ schedule.total_amount \in Nat
      /\ schedule'.claimed_amount \in Nat
  BY <1>1, <1>2, FieldLemma DEF WellFormed, ScheduleData
<1>5. Self \in Addresses /\ balance[Self] \in Nat
  BY DEF Addresses, ClaimInv, TypeOK
<1> HIDE DEF claimable, vested
<1>6. balance'[Self] = balance[Self] - claimable + (IF Self = to THEN claimable ELSE 0)
  BY <1>2, <1>5 DEF Claim, Transferred
<1>7. balance'[Self] >= balance[Self] - claimable
  BY <1>2, <1>5, <1>6
<1>8. balance'[Self] \in Int
  BY <1>2, <1>5, <1>6
<1>9. Deployed'
  BY <1>2, NoneAssumption DEF WellFormed, Deployed
<1>10. QED
  BY <1>2, <1>3, <1>4, <1>5, <1>7, <1>8, <1>9 DEF Funded

LEMMA FundedStep == ClaimInv /\ [Next]_vars => (Funded => Funded')
<1> SUFFICES ASSUME ClaimInv, [Next]_vars, Funded PROVE Funded'
  OBVIOUS
<1>1. ASSUME UNCHANGED <<schedule, balance>> PROVE Funded'
  BY <1>1 DEF Funded, Deployed
<1>2. CASE UNCHANGED vars
  BY <1>1, <1>2 DEF vars
<1>3. ASSUME NEW from \in Users, NEW amount \in Amounts, Fund(from, amount)
      PROVE  Funded'
  <2>1. balance'[Self] = balance[Self] + amount /\ amount \in Nat /\ balance[Self] \in Nat
    BY <1>3, UserAssumption, VestingAssumption
    DEF Fund, Transferred, Addresses, ClaimInv, TypeOK
  <2>2. WellFormed(schedule)
    BY DeployedLemma DEF ClaimInv, Funded
  <2>3. QED
    BY <1>3, <2>1, <2>2, FieldLemma DEF Funded, Fund, Deployed
<1>4. QED
  BY <1>1, <1>2, <1>3, FundedClaim
  DEF Next, Construct, ClaimNothing, Query, Restore, CloseLedger, Funded

(* A schedule that is funded stays funded: no claim, to whatever address   *)
(* and in whatever order, no payment and no archival leaves the contract   *)
(* with less than it still owes.                                           *)
THEOREM FundedStays == Spec => [][Funded => Funded']_vars
<1>1. ClaimInv /\ [Next]_vars => [Funded => Funded']_vars
  BY FundedStep
<1>2. QED
  BY <1>1, ClaimInvCorrect, PTL DEF Spec

(* While it is funded, the transfer of every claim is covered by the       *)
(* balance, and from the end on a claim takes all that is left: nothing is *)
(* lost to rounding.                                                       *)
THEOREM FundedPays ==
  Spec => [](Funded =>
               /\ Payout(schedule, ledger) <= balance[Self]
               /\ ledger >= schedule.end_ledger =>
                    Payout(schedule, ledger) = schedule.total_amount - schedule.claimed_amount)
<1>1. ASSUME ClaimInv, Funded
      PROVE  /\ Payout(schedule, ledger) <= balance[Self]
             /\ ledger >= schedule.end_ledger =>
                  Payout(schedule, ledger) = schedule.total_amount - schedule.claimed_amount
  <2>1. WellFormed(schedule) /\ ledger \in Ledgers /\ ledger \in Nat
    BY <1>1, DeployedLemma, VestingAssumption DEF ClaimInv, TypeOK, Funded, Ledgers
  <2>2. Payout(schedule, ledger) = VestedFormula(schedule, ledger) - schedule.claimed_amount
    BY <2>1, ClaimLemma
  <2>3. /\ VestedFormula(schedule, ledger) \in Nat
        /\ VestedFormula(schedule, ledger) <= schedule.total_amount
    BY <2>1, FormulaLemma
  <2>4. balance[Self] \in Nat
    BY <1>1 DEF ClaimInv, TypeOK, Addresses
  <2>5. Payout(schedule, ledger) <= balance[Self]
    BY <1>1, <2>1, <2>2, <2>3, <2>4, FieldLemma DEF Funded
  <2>6. ASSUME ledger >= schedule.end_ledger
        PROVE  VestedFormula(schedule, ledger) = schedule.total_amount
    <3>1. ~(ledger < schedule.start_ledger)
      BY <2>1, <2>6, FieldLemma
    <3>2. schedule.cliff_ledger # None => ~(ledger < schedule.cliff_ledger)
      BY <2>1, <2>6, FieldLemma DEF WellFormed
    <3>3. QED
      BY <2>6, <3>1, <3>2 DEF VestedFormula
  <2>7. QED
    BY <2>2, <2>5, <2>6
<1>2. QED
  BY <1>1, ClaimInvCorrect, PTL
=============================================================================
