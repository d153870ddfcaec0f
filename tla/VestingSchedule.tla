-------------------------- MODULE VestingSchedule --------------------------
(***************************************************************************)
(* The vesting schedule template: a contract that holds one token and      *)
(* releases it to its owner linearly between two ledgers, with an optional *)
(* cliff.  Funding is a plain token transfer to the contract, before or    *)
(* after deployment, and is never checked by the contract.                 *)
(***************************************************************************)
EXTENDS MulDiv, SorobanStorage

CONSTANTS
  Users,                  \* addresses other than the contract
  Self,                   \* e.current_contract_address()
  None,                   \* Option::None; also no schedule stored yet
  Supply,                 \* tokens each user holds at the start
  Totals,                 \* candidate total_amount arguments
  Amounts,                \* amounts sent to the contract at a time
  I128_MAX,               \* largest i128
  INSTANCE_EXTEND_AMOUNT, \* 30 days of ledgers in the code
  INSTANCE_TTL_THRESHOLD, \* 29 days of ledgers in the code
  MIN_INSTANCE_TTL,       \* time to live the host gives a new instance
  MaxLedger               \* bound: last ledger of a behaviour

ASSUME UserAssumption == Self \notin Users

ASSUME VestingAssumption ==
  /\ MaxLedger \in Nat
  /\ Supply \in Nat
  /\ Totals \subseteq Int /\ Amounts \subseteq Nat
  /\ I128_MAX \in Nat /\ I128_MAX < U128_SIZE
  /\ \A total \in Totals : total <= I128_MAX
  /\ INSTANCE_EXTEND_AMOUNT \in Nat
  /\ INSTANCE_TTL_THRESHOLD \in Nat
  /\ MIN_INSTANCE_TTL \in Nat \ {0}
  /\ 2 * MaxLedger <= WORD \* ledgers are u32, words u64

VARIABLES
  ledger,     \* e.ledger().sequence()
  schedule,   \* instance storage, DataKey::Schedule
  live_until, \* last ledger in which the instance is not archived
  balance,    \* the vested token's balances
  released,   \* history variable: tokens sent out by claims
  last_claim  \* history variable: ledger of the last claim that succeeded

vars == <<ledger, schedule, live_until, balance, released, last_claim>>

-----------------------------------------------------------------------------
Ledgers == 0..MaxLedger
Addresses == Users \cup {Self}

ScheduleData ==
  [owner : Users, total_amount : 1..I128_MAX, start_ledger : Ledgers,
   cliff_ledger : Ledgers \cup {None}, end_ledger : Ledgers,
   claimed_amount : Nat]

ASSUME NoneAssumption == None \notin Int /\ None \notin ScheduleData

Deployed == schedule # None

BeforeCliff(s, current_ledger) ==
  s.cliff_ledger # None /\ current_ledger < s.cliff_ledger

(* Mutant: the linear formula also past the end, without the cap.          *)
compute_vested_uncapped(s, current_ledger) ==
  IF current_ledger < s.start_ledger \/ BeforeCliff(s, current_ledger) THEN 0
  ELSE mul_div_u128(s.total_amount, current_ledger - s.start_ledger,
                    s.end_ledger - s.start_ledger)

compute_vested(s, current_ledger) ==
  IF current_ledger < s.start_ledger \/ BeforeCliff(s, current_ledger) THEN 0
  ELSE IF current_ledger >= s.end_ledger THEN s.total_amount
  ELSE mul_div_u128(s.total_amount, current_ledger - s.start_ledger,
                    s.end_ledger - s.start_ledger)

(* vested.saturating_sub(claimed_amount): neither is negative.             *)
Claimable(s, current_ledger) ==
  compute_vested(s, current_ledger) - s.claimed_amount

(* Mutant: the claimed amount is overwritten instead of increased.         *)
ClaimedOverwritten(s, claimable) == claimable

(* claimed_amount.checked_add(claimable).unwrap_or(total_amount)           *)
ClaimedAfter(s, claimable) ==
  IF s.claimed_amount + claimable > I128_MAX
    THEN s.total_amount ELSE s.claimed_amount + claimable

(* The token's transfer: it fails on a negative amount or a short balance. *)
CanTransfer(from, amount) == amount >= 0 /\ balance[from] >= amount

Transferred(from, to, amount) ==
  [a \in Addresses |->
     balance[a] - (IF a = from THEN amount ELSE 0)
                + (IF a = to THEN amount ELSE 0)]

Accessible == IsLive(live_until, ledger)

ExtendedInstanceTtl ==
  ExtendTtl(live_until, ledger, INSTANCE_TTL_THRESHOLD, INSTANCE_EXTEND_AMOUNT)

-----------------------------------------------------------------------------
(* Mutant: only the lower bound of the cliff is checked.                   *)
ValidCliffLow(start_ledger, cliff_ledger, end_ledger) ==
  cliff_ledger # None => start_ledger <= cliff_ledger

ValidCliff(start_ledger, cliff_ledger, end_ledger) ==
  cliff_ledger # None =>
    start_ledger <= cliff_ledger /\ cliff_ledger <= end_ledger

(* __constructor: the host runs it once, when it creates the instance.     *)
Construct(owner, total_amount, start_ledger, cliff_ledger, end_ledger) ==
  /\ ~Deployed
  /\ total_amount > 0
  /\ start_ledger < end_ledger
  /\ ValidCliff(start_ledger, cliff_ledger, end_ledger)
  /\ schedule' = [owner |-> owner, total_amount |-> total_amount,
                  start_ledger |-> start_ledger, cliff_ledger |-> cliff_ledger,
                  end_ledger |-> end_ledger, claimed_amount |-> 0]
  /\ live_until' = ExtendTtl(FreshLiveUntil(ledger, MIN_INSTANCE_TTL), ledger,
                             INSTANCE_TTL_THRESHOLD, INSTANCE_EXTEND_AMOUNT)
  /\ UNCHANGED <<ledger, balance, released, last_claim>>

(* Mutant: the transfer pays out the vested amount, claimed part included. *)
PayoutVested(s, current_ledger) == compute_vested(s, current_ledger)

(* What a claim in `current_ledger` transfers.                             *)
Payout(s, current_ledger) == Claimable(s, current_ledger)

(* A claim with something to release: the new claimed amount is stored,    *)
(* then the tokens move; a failing transfer rolls everything back.         *)
Claim(to, authorized) ==
  /\ Deployed
  /\ Accessible
  /\ schedule.owner \in authorized
  /\ Claimable(schedule, ledger) > 0
  /\ CanTransfer(Self, Payout(schedule, ledger))
  /\ schedule' = [schedule EXCEPT
                    !.claimed_amount =
                       ClaimedAfter(schedule, Claimable(schedule, ledger))]
  /\ balance' = Transferred(Self, to, Payout(schedule, ledger))
  /\ live_until' = ExtendedInstanceTtl
  /\ released' = released + Payout(schedule, ledger)
  /\ last_claim' = ledger
  /\ UNCHANGED ledger

(* A claim with nothing to release returns 0, without touching the token.  *)
ClaimNothing(authorized) ==
  /\ Deployed
  /\ Accessible
  /\ schedule.owner \in authorized
  /\ Claimable(schedule, ledger) <= 0
  /\ live_until' = ExtendedInstanceTtl
  /\ last_claim' = ledger
  /\ UNCHANGED <<ledger, schedule, balance, released>>

(* get_schedule, vested_amount, claimable_amount, claimed_amount, owner    *)
(* and token, open to anyone: each refreshes the time to live.             *)
Query ==
  /\ Deployed
  /\ Accessible
  /\ live_until' = ExtendedInstanceTtl
  /\ UNCHANGED <<ledger, schedule, balance, released, last_claim>>

(* Anyone sends tokens to the contract's address.                          *)
Fund(from, amount) ==
  /\ CanTransfer(from, amount)
  /\ balance' = Transferred(from, Self, amount)
  /\ UNCHANGED <<ledger, schedule, live_until, released, last_claim>>

(* RestoreFootprint on the archived instance.                              *)
Restore ==
  /\ Deployed
  /\ ~Accessible
  /\ live_until' = FreshLiveUntil(ledger, MIN_INSTANCE_TTL)
  /\ UNCHANGED <<ledger, schedule, balance, released, last_claim>>

CloseLedger ==
  /\ ledger < MaxLedger
  /\ ledger' = ledger + 1
  /\ UNCHANGED <<schedule, live_until, balance, released, last_claim>>

-----------------------------------------------------------------------------
Init ==
  /\ ledger = 0
  /\ schedule = None
  /\ live_until = 0
  /\ balance = [a \in Addresses |-> IF a = Self THEN 0 ELSE Supply]
  /\ released = 0
  /\ last_claim = 0

Next ==
  \/ \E owner \in Users, total \in Totals, start, end \in Ledgers,
        cliff \in Ledgers \cup {None} : Construct(owner, total, start, cliff, end)
  \/ \E authorized \in SUBSET Users :
       ClaimNothing(authorized) \/ \E to \in Addresses : Claim(to, authorized)
  \/ \E from \in Users, amount \in Amounts : Fund(from, amount)
  \/ Query
  \/ Restore
  \/ CloseLedger

Spec == Init /\ [][Next]_vars

OwnerClaims ==
  \E to \in Addresses, authorized \in SUBSET Users : Claim(to, authorized)

(* Ledgers keep closing; the owner, for whom the tokens are, keeps         *)
(* claiming and restores an archived instance.                             *)
FairSpec ==
  Spec /\ WF_vars(CloseLedger) /\ WF_vars(Restore) /\ WF_vars(OwnerClaims)

-----------------------------------------------------------------------------
(* Properties.                                                             *)

(* A stored schedule is well formed: ledgers in order, the cliff between   *)
(* them, no more claimed than the total; balances are never negative.      *)
TypeOK ==
  /\ ledger \in Ledgers
  /\ schedule \in ScheduleData \cup {None}
  /\ Deployed =>
       /\ schedule.start_ledger < schedule.end_ledger
       /\ schedule.cliff_ledger # None =>
            schedule.cliff_ledger \in schedule.start_ledger..schedule.end_ledger
       /\ schedule.claimed_amount <= schedule.total_amount
  /\ live_until \in Int
  /\ balance \in [Addresses -> Nat]
  /\ released \in Nat
  /\ last_claim \in Ledgers

(* The published formula, in exact arithmetic.                             *)
VestedFormula(s, l) ==
  IF l < s.start_ledger \/ (s.cliff_ledger # None /\ l < s.cliff_ledger) THEN 0
  ELSE IF l >= s.end_ledger THEN s.total_amount
  ELSE (s.total_amount * (l - s.start_ledger))
         \div (s.end_ledger - s.start_ledger)

(* compute_vested is the published formula in every ledger, also where     *)
(* total * elapsed overflows and mul_div_u128 splits the words.            *)
VestedMatchesFormula ==
  Deployed =>
    \A l \in Ledgers : compute_vested(schedule, l) = VestedFormula(schedule, l)

(* The tokens that have left through claims, whoever claimed when and to   *)
(* whom, never run ahead of the straight line: nothing before start and    *)
(* cliff, at most the elapsed share before the end, never over the total.  *)
ReleasedWithinSchedule ==
  /\ ~Deployed => released = 0
  /\ Deployed =>
       /\ released <= schedule.total_amount
       /\ ledger < schedule.start_ledger => released = 0
       /\ schedule.cliff_ledger # None /\ ledger < schedule.cliff_ledger
            => released = 0
       /\ ledger < schedule.end_ledger /\ schedule.start_ledger <= ledger
            => released * (schedule.end_ledger - schedule.start_ledger)
                 <= schedule.total_amount * (ledger - schedule.start_ledger)

(* Rounding never accumulates: what has been released, and what the        *)
(* contract has booked as claimed, depend only on the ledger of the last   *)
(* claim, not on how many claims were made before it.                      *)
ClaimHistoryIrrelevant ==
  Deployed =>
    /\ released = VestedFormula(schedule, last_claim)
    /\ schedule.claimed_amount = released

(* Dust-free completion: a schedule whose contract holds what is left to   *)
(* release is eventually released to the last unit.                        *)
FundedScheduleCompletes ==
  (Deployed /\ balance[Self] >= schedule.total_amount - schedule.claimed_amount)
    ~> (Deployed /\ schedule.claimed_amount = schedule.total_amount)
=============================================================================
