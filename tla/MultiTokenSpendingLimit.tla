---------------------- MODULE MultiTokenSpendingLimit ----------------------
(***************************************************************************)
(* The multi-token spending limit policy: a cap, in whole US dollars, on   *)
(* what a context rule of a smart account may transfer, over several       *)
(* tokens, within a rolling window of ledgers.                             *)
(*                                                                         *)
(* A contract call is one atomic host transaction, so each entry point is  *)
(* one action; a call that panics is rolled back and is no step at all.    *)
(* What the oracle answers, the call being authorised and the accounts     *)
(* whose authorization the transaction carries are inputs of the actions.  *)
(***************************************************************************)
EXTENDS Integers, Sequences, SorobanStorage

CONSTANTS
  Accounts,               \* smart accounts
  Contracts,              \* addresses that may be named as token or oracle
  RuleIds,                \* context rule ids
  Params,                 \* candidate MultiTokenSpendingLimitAccountParams
  RuleTypes,              \* context rule types a policy may be attached to
  Contexts,               \* candidate authorization contexts of enforce
  Answers,                \* candidate lastprice answers of the oracle
  NoPrice,                \* lastprice's None
  Decimals,               \* decimals() of the contracts that have it
  I128_MAX,               \* largest i128 (2^127 - 1 in the code)
  MAX_HISTORY_ENTRIES,    \* 1000 in the code
  MAX_STALENESS_LEDGERS,  \* 100 in the code
  LEDGER_CLOSE_TIME_SECS, \* 5 in the code
  MAX_TOKEN_DECIMALS,     \* 20 in the code
  MAX_ORACLE_DECIMALS,    \* 30 in the code
  POLICY_EXTEND_AMOUNT,   \* 30 days of ledgers in the code
  POLICY_TTL_THRESHOLD,   \* 29 days of ledgers in the code
  MIN_PERSISTENT_TTL,     \* time to live the host gives a new entry
  CloseTimes,             \* seconds a ledger may take to close
  FirstLedger,            \* ledger in which the history starts
  MaxLedger               \* bound: last ledger of a behaviour

(* A real ledger sequence starts at 1 or later: at 0 the saturating cutoff *)
(* of cleanup_old_entries would evict an entry of the current ledger.      *)
ASSUME LedgerAssumption ==
  /\ FirstLedger \in Nat \ {0}
  /\ MaxLedger \in Nat
  /\ FirstLedger <= MaxLedger
  /\ CloseTimes \subseteq Nat

ASSUME CodeAssumption ==
  /\ I128_MAX \in Nat \ {0}
  /\ MAX_HISTORY_ENTRIES \in Nat \ {0}
  /\ MAX_STALENESS_LEDGERS \in Nat
  /\ LEDGER_CLOSE_TIME_SECS \in Nat
  /\ POLICY_EXTEND_AMOUNT \in Nat
  /\ POLICY_TTL_THRESHOLD \in Nat
  /\ MIN_PERSISTENT_TTL \in Nat \ {0}

VARIABLES
  ledger,     \* e.ledger().sequence()
  now,        \* e.ledger().timestamp()
  store,      \* persistent storage: DataKey::AccountContext -> PolicyData
  live_until, \* last ledger in which the entry of a key is not archived
  spent       \* history variable: USD and exact value accepted so far

vars == <<ledger, now, store, live_until, spent>>

-----------------------------------------------------------------------------
(* Data.                                                                   *)

Keys == Accounts \X RuleIds
Ledgers == 0..MaxLedger
I128 == (-I128_MAX - 1)..I128_MAX

(* The types of the contract's and the oracle's interfaces.                *)
ASSUME InputAssumption ==
  /\ DOMAIN Decimals \subseteq Contracts
  /\ \A c \in DOMAIN Decimals : Decimals[c] \in Nat
  /\ MAX_TOKEN_DECIMALS \in Nat
  /\ MAX_ORACLE_DECIMALS \in Nat
  /\ \A params \in Params :
       /\ params.spending_limit_usd \in I128
       /\ params.period_ledgers \in Nat
       /\ params.allowed_tokens \in Seq(Contracts)
  /\ \A answer \in Answers \ {NoPrice} :
       answer.price \in I128 /\ answer.timestamp \in Nat

SpendingEntry == [amount_usd : Nat, ledger : Nat]

PolicyData ==
  [spending_limit_usd : Nat \ {0}, period_ledgers : Nat \ {0},
   usd_divisor : Nat \ {0}, allowed_tokens : Seq(Contracts),
   token_divisors : Seq(Nat \ {0}),
   spending_history : Seq(SpendingEntry), cached_total_spent_usd : Int]

(* i128::saturating_add and i128::saturating_sub.                          *)
Saturate(x) == IF x > I128_MAX THEN I128_MAX
               ELSE IF x < -I128_MAX - 1 THEN -I128_MAX - 1 ELSE x

(* The host admits require_auth() only when the transaction carries it.    *)
RequireAuth(key, authorized) == key[1] \in authorized

-----------------------------------------------------------------------------
(* The oracle and the tokens, as oracle.rs queries them.                   *)

DecimalsUsable(contract, max) ==
  contract \in DOMAIN Decimals /\ Decimals[contract] <= max

(* 10i128.checked_pow; the bounds on the decimals keep it within i128.     *)
Pow10(n) ==
  LET power[k \in 0..n] == IF k = 0 THEN 1 ELSE 10 * power[k - 1]
  IN  power[n]

fetch_usd_divisor(oracle) == Pow10(Decimals[oracle])
fetch_token_divisor(token) == Pow10(Decimals[token])

(* fetch_price accepts the answer: a price, positive, not from the future. *)
PriceTrusted(answer) ==
  /\ answer # NoPrice
  /\ answer.price > 0
  /\ answer.timestamp <= now

PriceFresh(answer) ==
  now - answer.timestamp <= MAX_STALENESS_LEDGERS * LEDGER_CLOSE_TIME_SECS

-----------------------------------------------------------------------------
(* The rolling window.                                                     *)

(* Mutant: an entry is dropped one ledger too early.                      *)
CutoffLate(current_ledger, period_ledgers) ==
  IF current_ledger > period_ledgers
    THEN current_ledger - period_ledgers + 1 ELSE 0

(* Mutant: an entry is kept one ledger too long.                           *)
CutoffEarly(current_ledger, period_ledgers) ==
  IF current_ledger > period_ledgers + 1
    THEN current_ledger - period_ledgers - 1 ELSE 0

(* current_ledger.saturating_sub(period_ledgers)                           *)
Cutoff(current_ledger, period_ledgers) ==
  IF current_ledger > period_ledgers THEN current_ledger - period_ledgers ELSE 0

(* Mutant: at most one expired entry is popped (if instead of while).      *)
EvictedCountOne(history, cutoff) ==
  IF history # <<>> /\ history[1].ledger <= cutoff THEN 1 ELSE 0

(* The number of entries the eviction loop pops from the front: it stops   *)
(* at the first one younger than the cutoff.                               *)
EvictedCount(history, cutoff) ==
  CHOOSE n \in 0..Len(history) :
    /\ \A i \in 1..n : history[i].ledger <= cutoff
    /\ n < Len(history) => history[n + 1].ledger > cutoff

(* removed_total after each number of pops of the eviction loop.           *)
RemovedTotals(history) ==
  LET removed[n \in 0..Len(history)] ==
        IF n = 0 THEN 0 ELSE Saturate(removed[n - 1] + history[n].amount_usd)
  IN  removed

(* Mutant: the loop evicts but the removed amounts are not reported.       *)
CleanupUncounted(data, current_ledger) ==
  LET h == data.spending_history
      n == EvictedCount(h, Cutoff(current_ledger, data.period_ledgers))
  IN  [data EXCEPT !.spending_history = SubSeq(h, n + 1, Len(h))]

(* cleanup_old_entries and the subtraction enforce makes from it.          *)
CleanedUp(data, current_ledger) ==
  LET h == data.spending_history
      n == EvictedCount(h, Cutoff(current_ledger, data.period_ledgers))
  IN  [data EXCEPT
        !.spending_history = SubSeq(h, n + 1, Len(h)),
        !.cached_total_spent_usd = Saturate(@ - RemovedTotals(h)[n])]

-----------------------------------------------------------------------------
(* The checks of enforce, in its order, and its effect.                    *)

(* Mutant: a negative amount is not rejected.                              *)
IsTransferAnySign(context) ==
  /\ context.kind = "Contract"
  /\ context.fn_name = "transfer"
  /\ context.amount \in I128

IsTransfer(context) ==
  /\ context.kind = "Contract"
  /\ context.fn_name = "transfer"
  /\ context.amount \in I128      \* present and of type i128
  /\ context.amount >= 0

(* first_index_of                                                          *)
TokenIndex(data, token) ==
  CHOOSE i \in DOMAIN data.allowed_tokens :
    /\ data.allowed_tokens[i] = token
    /\ \A j \in 1..(i - 1) : data.allowed_tokens[j] # token

TokenAllowed(data, token) ==
  \E i \in DOMAIN data.allowed_tokens : data.allowed_tokens[i] = token

TokenDivisor(data, token) == data.token_divisors[TokenIndex(data, token)]

ProductFits(context, answer) == context.amount * answer.price \in I128

AmountUsd(data, context, answer) ==
  ((context.amount * answer.price) \div data.usd_divisor)
    \div TokenDivisor(data, context.contract)

(* Mutant: only what was spent before the call is compared.                *)
WithinLimitBefore(data, amount_usd) ==
  data.cached_total_spent_usd <= data.spending_limit_usd

(* `data` is cleaned up.                                                   *)
WithinLimit(data, amount_usd) ==
  Saturate(data.cached_total_spent_usd + amount_usd) <= data.spending_limit_usd

(* Mutant: one entry too many.                                             *)
HasCapacityLoose(data) == Len(data.spending_history) <= MAX_HISTORY_ENTRIES

HasCapacity(data) == Len(data.spending_history) < MAX_HISTORY_ENTRIES

Record(data, amount_usd) ==
  [data EXCEPT
    !.spending_history =
       Append(@, [amount_usd |-> amount_usd, ledger |-> ledger]),
    !.cached_total_spent_usd = Saturate(@ + amount_usd)]

(* The context and the oracle's answer pass every check but the last two.  *)
Priceable(data, context, answer) ==
  /\ IsTransfer(context)
  /\ TokenAllowed(data, context.contract)
  /\ PriceTrusted(answer)
  /\ PriceFresh(answer)
  /\ ProductFits(context, answer)

-----------------------------------------------------------------------------
(* What was really spent, for the properties: `spent[key].usd[l]` is the   *)
(* whole-dollar total accepted since the key was (un)installed, up to and  *)
(* including ledger l, `.exact[l]` the same in units of 1/ExactUnit dollar. *)

ExactUnit == Pow10(MAX_ORACLE_DECIMALS + MAX_TOKEN_DECIMALS)

NothingSpent == [usd |-> [l \in Ledgers |-> 0], exact |-> [l \in Ledgers |-> 0]]

ExactValue(data, context, answer) ==
  context.amount * answer.price
    * (ExactUnit \div (data.usd_divisor * TokenDivisor(data, context.contract)))

Spend(record, amount_usd, exact) ==
  [usd   |-> [l \in Ledgers |->
                record.usd[l] + IF l >= ledger THEN amount_usd ELSE 0],
   exact |-> [l \in Ledgers |->
                record.exact[l] + IF l >= ledger THEN exact ELSE 0]]

-----------------------------------------------------------------------------
(* Actions.                                                                *)

(* Mutant: an archived entry counts as absent, as temporary storage would. *)
HasTemporary(key) ==
  key \in DOMAIN store /\ IsLive(live_until[key], ledger)

(* storage().persistent().has(key); an archived entry is still there.      *)
Has(key) == key \in DOMAIN store

(* A call that touches an archived entry traps.                            *)
Accessible(key) == key \in DOMAIN store => IsLive(live_until[key], ledger)

ExtendPolicyTtl(key) ==
  ExtendTtl(live_until[key], ledger, POLICY_TTL_THRESHOLD, POLICY_EXTEND_AMOUNT)

Install(key, rule_type, params, authorized) ==
  /\ RequireAuth(key, authorized)
  /\ rule_type = "CallContract"
  /\ params.spending_limit_usd > 0
  /\ params.period_ledgers # 0
  /\ params.allowed_tokens # <<>>
  /\ ~Has(key)
  /\ DecimalsUsable(params.oracle_address, MAX_ORACLE_DECIMALS)
  /\ \A i \in DOMAIN params.allowed_tokens :
       DecimalsUsable(params.allowed_tokens[i], MAX_TOKEN_DECIMALS)
  /\ LET data ==
           [spending_limit_usd |-> params.spending_limit_usd,
            period_ledgers |-> params.period_ledgers,
            usd_divisor |-> fetch_usd_divisor(params.oracle_address),
            allowed_tokens |-> params.allowed_tokens,
            token_divisors |-> [i \in DOMAIN params.allowed_tokens |->
                                  fetch_token_divisor(params.allowed_tokens[i])],
            spending_history |-> <<>>,
            cached_total_spent_usd |-> 0]
     IN store' = [k \in DOMAIN store \cup {key} |->
                    IF k = key THEN data ELSE store[k]]
  /\ live_until' = [live_until EXCEPT
                      ![key] = FreshLiveUntil(ledger, MIN_PERSISTENT_TTL)]
  /\ UNCHANGED <<ledger, now, spent>>

Uninstall(key, authorized) ==
  /\ RequireAuth(key, authorized)
  /\ Accessible(key)
  /\ Has(key)
  /\ store' = [k \in DOMAIN store \ {key} |-> store[k]]
  /\ spent' = [spent EXCEPT ![key] = NothingSpent]
  /\ UNCHANGED <<ledger, now, live_until>>

Enforce(key, context, answer, authorized) ==
  /\ RequireAuth(key, authorized)
  /\ Accessible(key)
  /\ Has(key)
  /\ Priceable(store[key], context, answer)
  /\ LET data == CleanedUp(store[key], ledger)
         amount_usd == AmountUsd(data, context, answer)
     IN /\ WithinLimit(data, amount_usd)
        /\ HasCapacity(data)
        /\ store' = [store EXCEPT ![key] = Record(data, amount_usd)]
        /\ spent' = [spent EXCEPT ![key] =
                       Spend(@, amount_usd, ExactValue(data, context, answer))]
  /\ live_until' = [live_until EXCEPT ![key] = ExtendPolicyTtl(key)]
  /\ UNCHANGED <<ledger, now>>

(* The public view, open to anyone, refreshes the time to live as well.    *)
GetPolicyData(key) ==
  /\ Accessible(key)
  /\ Has(key)
  /\ live_until' = [live_until EXCEPT ![key] = ExtendPolicyTtl(key)]
  /\ UNCHANGED <<ledger, now, store, spent>>

(* RestoreFootprint on the archived entry, by anyone.                      *)
Restore(key) ==
  /\ Has(key)
  /\ ~Accessible(key)
  /\ live_until' = [live_until EXCEPT
                      ![key] = FreshLiveUntil(ledger, MIN_PERSISTENT_TTL)]
  /\ UNCHANGED <<ledger, now, store, spent>>

CloseLedger(seconds) ==
  /\ ledger < MaxLedger
  /\ ledger' = ledger + 1
  /\ now' = now + seconds
  /\ UNCHANGED <<store, live_until, spent>>

-----------------------------------------------------------------------------
Init ==
  /\ ledger = FirstLedger
  /\ now = 0
  /\ store = <<>>
  /\ live_until = [k \in Keys |-> 0]
  /\ spent = [k \in Keys |-> NothingSpent]

Next ==
  \/ \E key \in Keys, authorized \in SUBSET Accounts :
       \/ \E rule_type \in RuleTypes, params \in Params :
            Install(key, rule_type, params, authorized)
       \/ Uninstall(key, authorized)
       \/ \E context \in Contexts, answer \in Answers :
            Enforce(key, context, answer, authorized)
  \/ \E key \in Keys : GetPolicyData(key) \/ Restore(key)
  \/ \E seconds \in CloseTimes : CloseLedger(seconds)

Spec == Init /\ [][Next]_vars

-----------------------------------------------------------------------------
(* Properties.                                                             *)

(* The limit is a real limit: at i128::MAX the saturating sum of enforce   *)
(* can no longer exceed it.                                                *)
Bounded(data) == data.spending_limit_usd < I128_MAX

History(key) == store[key].spending_history

(* The exact sums of the first n amounts of a history.                     *)
UsdTotals(history) ==
  LET total[n \in 0..Len(history)] ==
        IF n = 0 THEN 0 ELSE total[n - 1] + history[n].amount_usd
  IN  total

(* USD accepted for `key` in the period_ledgers ledgers ending with t.     *)
WindowStart(key, t) ==
  LET p == store[key].period_ledgers IN IF t > p THEN t - p ELSE 0

WindowUsd(key, t) == spent[key].usd[t] - spent[key].usd[WindowStart(key, t)]

WindowExact(key, t) ==
  spent[key].exact[t] - spent[key].exact[WindowStart(key, t)]

(* Every stored PolicyData has the shape the contract type declares, with  *)
(* non-negative entries, one divisor per allowed token and a bounded       *)
(* history.                                                                *)
TypeOK ==
  /\ ledger \in Ledgers
  /\ now \in Nat
  /\ DOMAIN store \subseteq Keys
  /\ \A key \in DOMAIN store :
       /\ store[key] \in PolicyData
       /\ Len(store[key].token_divisors) = Len(store[key].allowed_tokens)
       /\ Len(History(key)) <= MAX_HISTORY_ENTRIES
  /\ live_until \in [Keys -> Int]
  /\ spent \in [Keys -> [usd : [Ledgers -> Nat], exact : [Ledgers -> Nat]]]

(* The running total enforce keeps instead of re-summing the history never *)
(* drifts from the sum of the entries it still stores.                     *)
CachedMatchesHistory ==
  \A key \in DOMAIN store :
    Bounded(store[key]) =>
      store[key].cached_total_spent_usd = UsdTotals(History(key))[Len(History(key))]

(* What the policy is for: whatever the sequence of calls, price changes,  *)
(* evictions, archivals and restorations, the USD accepted in any          *)
(* period_ledgers consecutive ledgers stays within spending_limit_usd.     *)
RollingWindowBound ==
  \A key \in DOMAIN store :
    Bounded(store[key]) =>
      \A t \in Ledgers : WindowUsd(key, t) <= store[key].spending_limit_usd

(* enforce's limit check is exact: it admits an amount if and only if that *)
(* amount still fits the window that ends in the current ledger.  Neither  *)
(* an evicted entry nor a kept one makes it too lax or too strict.         *)
LimitCheckExact ==
  \A key \in DOMAIN store :
    Bounded(store[key]) =>
      \A usd \in 0..store[key].spending_limit_usd :
        WithinLimit(CleanedUp(store[key], ledger), usd)
          <=> WindowUsd(key, ledger) + usd <= store[key].spending_limit_usd

(* No lock-out: once a whole period has gone by without an accepted call,  *)
(* the next one has room in the history and the full limit, even when the  *)
(* history had been filled with zero-dollar entries.                       *)
ReopensAfterQuietPeriod ==
  \A key \in DOMAIN store :
    LET data == CleanedUp(store[key], ledger) IN
      /\ Bounded(data)
      /\ \A i \in DOMAIN History(key) :
           History(key)[i].ledger + data.period_ledgers <= ledger
      => /\ HasCapacity(data)
         /\ \A usd \in 0..data.spending_limit_usd : WithinLimit(data, usd)

(* What truncation to whole dollars can cost: the exact value transferred  *)
(* in any window exceeds the limit by less than one dollar per history     *)
(* entry, so by less than MAX_HISTORY_ENTRIES dollars.                     *)
TrueValueBounded ==
  \A key \in DOMAIN store :
    Bounded(store[key]) =>
      \A t \in Ledgers :
        WindowExact(key, t)
          < (store[key].spending_limit_usd + MAX_HISTORY_ENTRIES) * ExactUnit

(* While a policy stays installed, no step of anyone forgets an entry that *)
(* is still inside the window; expiry of the storage entry included.       *)
NothingLiveForgotten ==
  [][\A key \in DOMAIN store :
       key \in DOMAIN store' =>
         \A i \in DOMAIN History(key) :
           History(key)[i].ledger + store[key].period_ledgers > ledger
             => \E j \in DOMAIN History(key)' : History(key)'[j] = History(key)[i]
    ]_vars

(* The contract implements RollingBudget: whatever it caches, evicts and   *)
(* refuses for lack of capacity, and whatever is archived and restored, an *)
(* accepted call fits the window of the installation in force, which is    *)
(* neither changed nor started again but by an uninstall.                  *)
Budget == INSTANCE RollingBudget WITH
  NoLimit <- I128_MAX,
  budget <- [key \in DOMAIN store |-> [limit |-> store[key].spending_limit_usd,
                                       period |-> store[key].period_ledgers]],
  spent <- [key \in Keys |-> spent[key].usd]

KeepsBudget == Budget!Spec

(* The comment in enforce, "so the cached total matches the live window",  *)
(* for every limit an installation may have.                               *)
CachedAlwaysMatches ==
  \A key \in DOMAIN store :
    store[key].cached_total_spent_usd = UsdTotals(History(key))[Len(History(key))]
=============================================================================
