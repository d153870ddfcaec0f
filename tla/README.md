# Verification of the Latch contracts

TLA+ models of the Soroban contracts in this repository, the TLC configurations
that check them on small instances, and TLAPS proofs of the properties that
matter most for every value of the parameters. `PROJECT.json` maps every
definition to the source lines it models and lists runs, mutants, findings,
hazards and theorems.

## 1. The system

Latch accounts are smart contracts: `latch-smart-account` holds *context rules*
(what kind of call, by which signers, under which policies) and authorizes a
call when a rule admits it. A *factory* derives the address of an account from
its signers and deploys it there. *Policies* are shared contracts that keep
state per `(account, rule)`; the account library calls `install`, `enforce` and
`uninstall` on them. *Verifiers* are stateless signature checkers. Two
*templates* (vesting schedule, timelock vault) are contracts an account may own,
and a *fee forwarder* lets a relayer pay network fees for a fee in tokens.

A contract call is one host transaction: it runs alone and is rolled back as a
whole when anything in it panics. So an entry point is one action, a panic is no
step, and what interleaves is *calls*: of different users, rules and accounts, in
any order, with ledgers closing, prices changing, storage entries being archived
and restored in between.

| Component | State | Operations | What makes it right |
|---|---|---|---|
| Multi-token spending limit policy | per `(account, rule)`: limit, period, divisors, history of spends, cached total | install, uninstall, enforce, get_policy_data | no window of `period_ledgers` ledgers exceeds the limit; the cached total is the history's; nothing locks up for good |
| Vesting schedule | schedule and claimed amount (instance), token balance | constructor, claim, six getters | releases exactly the published formula, never early, completely in the end |
| Timelock vault | owner and unlock ledger (two persistent entries), token balance | constructor, deposit, withdraw, bump_ttl | the lock holds; funds are reachable afterwards; how often a keeper must call |
| Account factory | configuration (instance); the accounts it deployed | constructor, create_account, get_account_address, getters | address = identity of the account; idempotent; what is deployed is what was asked for |
| Session policy | per `(account, rule)`: allowed function names | install, uninstall, enforce, get | only what the installation in force lists passes, archived entries included; only the account changes it |
| Recipient allowlist policy | per `(account, rule)`: allowed recipients | the same, and set_allowed_recipients | only payees listed at that moment, from an update on, wherever an address stands in the arguments |
| Parameter-scoped policy | per `(account, rule)`: conditions on arguments by function | install, uninstall, enforce, get | a call passes only inside the region each condition means; a wrong type or a missing argument never does |
| Threshold, weighted-threshold, spending-limit policies | kept by the external library | wrappers | threshold against the signers of the rule |
| Smart account | registry of deployed contracts; rules, signers and policies in the external library | constructor, batch_add_signer, deploy_contract, getters, `__check_auth`, execute, upgrade, rule management | registry = what was deployed; session keys reach only what the owners left open and change nothing of the account; lock-out is for good |
| Fee forwarder | roles, fee-token allowlist, collected fees, users' allowances | constructor, forward, enable, disable, sweep, role changes | users lose no more than each signature allows; approvals do not add up; all that is taken stays within what was approved |
| Verifiers | none | verify, canonicalize_key | cryptography |

Interactions: factory -> account constructor -> account library -> policy
`install`; account library -> policy `enforce` for every authorized call;
spending-limit policy -> oracle and tokens for prices and decimals; templates ->
token contract. All of them share the host's storage with its time to live.

What is hard here: bounds at the edge of a rolling window; running totals kept
by difference; saturating, truncating and word-splitting arithmetic; capacity
limits; entries whose time to live runs out between two calls, each on its own;
two callers racing for one address; a documented keeper interval; allowances left
over from one request while the next is executed; lists replaced between two
calls; rules, policies and signers changed one at a time while session keys act.
`PROJECT.json` lists each of these as a hazard at its line.

## 2. Modules

| Module | Models | Notes |
|---|---|---|
| `SorobanStorage` | the host's entry lifetimes | external: live, archived, extended, restored |
| `RollingBudget` | (abstract) a budget per rolling window, from every spend ever made | implemented by the spending-limit policy |
| `MultiTokenSpendingLimit` | `multi-token-spending-limit-policy` (`lib.rs`, `oracle.rs`) | `MC_MultiTokenSpendingLimit` gives instances |
| `MulDiv` | `mul_div_u128` of the vesting schedule, over words of any size | |
| `VestingSchedule` | `templates/vesting-schedule` | its own configuration |
| `TimelockVault` | `templates/timelock-vault` | its own configuration |
| `AccountFactory` | `account-factory/contracts/factory-contract` | `MC_AccountFactory` gives instances |
| `PolicyLifecycle` | (abstract) what an allowlisting policy promises | implemented by the three policies, and by the account with the session policy |
| `PolicyStore` | the storage code the three policies share | extended by each of them |
| `SessionPolicy` | `policies/session-policy` | its own configuration |
| `RecipientAllowlistPolicy` | `policies/recipient-allowlist-policy` | `MC_RecipientAllowlistPolicy` gives contexts |
| `ParameterScopedPolicy` | `policies/parameter-scoped-policy` | `MC_ParameterScopedPolicy` gives conditions and contexts |
| `FeeForwarder` | `fee-forwarder` | `MC_FeeForwarder` gives the requests |
| `SmartAccount` | `latch-smart-account`, composed with `SessionPolicy` and the threshold policy | `MC_SmartAccount` gives view and symmetry |
| `FiniteRecursion` | (proof library) recursive functions, prefix sums, sums over finite sets | |
| `PolicyProofs` | theorems about the three allowlisting policies | |
| other `*Proofs` | theorems of the module they extend | |

Conventions. An action is an entry point; its conjuncts are the code's checks in
their order. `authorized` is the set of addresses whose authorization the
transaction carries (`require_auth`). `live_until` is the last ledger in which an
entry is accessible. An archived entry still exists: `has` sees it, reading it
traps, anyone may restore it. Events and error codes are left out except where a
property is about them. Definitions called `Mutant` above are deliberate errors:
replacing the correct definition by one of them must break the property listed
with it in `PROJECT.json`.

**MultiTokenSpendingLimit.** `store` is the persistent map from
`(account, rule)` to `PolicyData`. `Enforce` is the whole of `enforce`: the
checks on the context, the oracle's answer (an input: absent, non-positive, from
the future, stale or good), the checked product, both truncating divisions, the
eviction loop (`EvictedCount`, `RemovedTotals`, `CleanedUp`), limit, capacity,
`Record` and the TTL refresh. `spent` is a history variable: for each key the
cumulative amount accepted up to each ledger, in whole dollars as the contract
counts and exactly. The saturating operations keep their width (`I128_MAX`).
`RollingBudget` is what the policy promises without a history, an eviction, a
cached total, a capacity or an entry's lifetime: a key is opened with a limit and
a window, a spend fits what was spent in the window that ends now, and closing a
key forgets its spends (so an uninstall with a fresh install starts a new
budget, and nothing else does). A limit of `i128::MAX` is no limit.

**VestingSchedule, MulDiv.** `Claim` stores the claimed amount and pays, or does
neither. `mul_div_u128` is modelled with words of base `WORD` (2^64 in the code),
so that a total of 50 overflows the product with `WORD = 12` as large amounts do
with u64 words. `released` and `last_claim` are history variables.

**TimelockVault.** Owner, UnlockLedger and the instance are three entries with
lifetimes of their own. `refreshed` and `longest_gap` record how long the vault
went without a refreshing call. Withdrawals read the entries in the code's order.

**AccountFactory.** A signer is its family code and its data, a byte string. The
insertion scan, duplicate check, threshold rules and the salt preimage are
translated as they are; SHA-256 and the host's address derivation are assumed
free of collisions, so an address *is* the preimage. The account's constructor
(external library) refuses too many signers, signers with equal canonical keys,
or a threshold out of range. `answered` records which requests were served.

**PolicyStore, PolicyLifecycle and the three policies.** Each policy keeps one
persistent entry per `(account, rule)`: `store` and `live_until`. `install` needs
the account's authorization, a CallContract rule, a list within the limits and no
entry; an archived entry is not an absent one, the transaction traps
(`Accessible`). `enforce` and the public getter read the entry and extend it
(`Read`). `set_allowed_recipients` overwrites the entry and does not touch its
lifetime. `passed` records what was enforced since the last install, replacement
or uninstall, `last_read` the ledger of the last read.
`PolicyLifecycle` knows no ledgers: a key has a grant or none, only the account
makes, replaces or revokes it, and a call passes only while the grant in force
admits it. The refinement maps an entry, live or archived, to the calls it admits,
so it says in particular that archival and restoration neither take anything from
a grant nor add to it nor let it be made again. What an entry admits is stated
apart from the code that decides it: for the recipient policy the payee of a
SEP-41 transfer, for the parameter-scoped policy the set of values each condition
means (`Region`) rather than the comparison (`compare_ord`, `compare_eq`).

**FeeForwarder.** A user signs token, largest fee, expiration and target call;
the relayer chooses fee, moment and order. `forward` is the entry point with the
library's fee collection: role, allowlist (off while empty), bounds on the fee,
lazy approval only when the allowance does not cover the largest fee (the user
must then have signed the nested `approve`), transfer of the fee, and the target
call. That call runs with the forwarder as the invoking contract, so what it does
to the fee tokens is part of the step (`InvokeTarget`): `transfer` of what the
forwarder holds, `transfer` of the user's own tokens if the user signed it,
`transfer_from` under an allowance some user, not necessarily this one, left with
the forwarder. A call that leaves the fee tokens alone is a transfer of nothing.
If the call fails there is no step. `sweep_tokens` pays any address, users and the
forwarder included; `Outside` stands for all other addresses. `charged` stands
for consumed nonces, which the host keeps. `approved`, `granted` and `swept` are
history variables: the largest and the total amount approved, and what sweeps
brought each user. `PreApprove` is a user's own approval on the token contract.

**SmartAccount.** A step is a transaction with a set of signatures, a context
rule and one authorization context. `check_auth` is the library's `do_check_auth`
(rule present, type matches, not expired, signers suffice); `Call` adds the
session policy's `enforce` where the rule carries it; `Session == INSTANCE
SessionPolicy` composes the two modules on the policy's own variables. Management
entry points require the account's own authorization. The registry is the
account's own code: `count` in the instance, one persistent record per deployed
contract with its lifetime. `session_auth` records the last transaction when no
owner signed it. Owners may also call the session policy past the account, with
a context rule of their own making (`DirectInstall`, `DirectUninstall`): the
policy asks for the account's authorization and trusts the rule it is given, so a
list can precede its rule or disappear under it. A rule and its list are then two
halves of one grant, kept by two contracts; `RulesKeepPromise` maps the pair to
`PolicyLifecycle`: in force while the rule carries the policy and the list
exists, and granting the listed functions of the rule's own target. Assumed: Default rules are given owners and other rules session
keys; no CallContract rule targets the account or a policy. An account that
breaks either gives its session keys management rights itself.

## 3. Runs

| Run | Question | Result |
|---|---|---|
| `spending` | one rule, limits 0-2, windows of 0 (refused), 2 and 3 ledgers, two usable tokens of different decimals, history of at most 3 entries, five ledgers; among others `RollingWindowBound` and the refinement `KeepsBudget` | passes |
| `spending_saturation` | the comment that the cached total matches the window, with a limit of i128::MAX | violated |
| `vesting` | every schedule over six ledgers, totals 0, 3, 50, funded in parts | passes |
| `timelock` | locks up to seven ledgers, lifetimes of four, two users, any archival and restore | passes |
| `timelock_doc` | the documented keeper interval | violated |
| `factory` | nine requests: reordered, rewritten, lookalike, malformed, compared with about 180 parameter records; three ledgers | passes |
| `factory_doc` | "All validation happens before deployment" | violated |
| `session` | two accounts, lists of 0-3 functions with a limit of 2, five ledgers: `PolicyLifecycle` implemented, entries in use stay alive | passes |
| `recipient` | two accounts, lists of 0-3 recipients with a limit of 2, six kinds of contexts, replacement: `PolicyLifecycle` implemented | passes |
| `parameter` | one account, every operator on amounts and addresses, eight invalid maps, sixteen contexts: as `session` | passes |
| `forwarder` | two users, any two of eight requests, two tokens, fees from -1 to one past the largest, approvals that expire, target calls and sweeps that move tokens: `ChargedAsSigned`, `AllowanceBounded`, `WithinApprovals` | passes |
| `account` | two owners, a session key, three rules in all, one target, a list installed past the account, two deployments: `RegistryFaithful`, `NoEscalation`, `SessionConfined`, `LockoutPermanent`, the refinement `RulesKeepPromise` | passes |

Why the bounds are enough. *spending*: a window of 2 or 3 inside 5 ledgers
opens, slides and closes completely; three entries fill the history and are
evicted one by one or together; the TTL of a refreshed entry (1 ledger) is
shorter than the window, so archival happens inside it; contexts are worth 0,
0.9, 1, 1.9 dollars so truncation matters, and `I128_MAX = 30` makes the checked
product overflow. *vesting*: six ledgers hold start, cliff and end in every
order, before and after deployment. *timelock*: locks both shorter and longer
than an entry's life, with a refresh that is a no-op while more than
`TTL_THRESHOLD` ledgers are left. *factory*: pairs whose encodings coincide
without length prefixes, one passkey with two credential ids, both orders of a
pair, a triple, an omitted and an explicit threshold of one. *session,
recipient, parameter*: lists go one past the limit, a fresh entry lives two
ledgers and an extended one three, so it is archived and restored within the run,
before and after a read; two accounts, so that one tries the other's key. The
contexts of *recipient* have a listed address in the wrong place, a value of
another type in the right one, too few arguments, another function. *forwarder*:
two requests are enough for one to use what the other left of an allowance, as
its fee or in its target call; the eight requests include calls that move what
the forwarder collected, draw on the own and on another user's allowance, pay
from the user's balance, and requests that lack a signature, a permission or the
balance; approvals run out at ledgers 1 and 2 of 3; a user approves directly only
while nothing more than `MaxGranted = 1` was approved before. *account*: two more rules beside the
owners' one allow a session rule with and without policy next to each other, an
expired one, a second Default rule; direct installs name rule 1 (`DirectIds`),
before, while and after the rule exists; two deployments reach `U32_MAX = 2`
and a third salt is refused there (`RegistryCorrect` is about any number).
`LedgerStep = 2` closes two ledgers at once, which is past every lifetime and
every expiry of that instance, so each has one ledger before and one after it.

The *account* run uses a view and symmetry. The view drops history variables and
`code`; no action reads them, no invariant names them, and the action properties
name only their new values, which TLC evaluates on every step it generates, also
on one to a state it has seen; `passed`, which `RulesKeepPromise` reads, differs
only in what was used under a grant in force, and every step sets it from the
grant or empties it (`RulesPromiseKept`, below, does not depend on the view); `upgrade` changes nothing that the view shows, so
every explored state has the original code and an upgrade is a visible step of
it. The lifetimes of the registry's records are left out too: they only decide
whether a record is read or restored, and neither changes anything but a lifetime. Owners, functions and salts are interchangeable; the run has no liveness
property.

Fairness. *vesting* and *timelock*: ledgers keep closing (the network), the
owner keeps claiming and restores what is archived: both are in her own interest
and open to anyone. *factory*: it is deployed, a caller repeats an unanswered
call, archived contracts are restored. Restoring is permissionless on Soroban.
No fairness is assumed of strangers' calls, funding, keepers or refreshes.
The policies, the forwarder and the account promise nothing about what must
happen: their runs have no fairness. `spending` has no fairness; its `ReopensAfterQuietPeriod` states absence of
lock-out as an invariant.

Findings (each a violation run):
1. `spending_saturation`: with `spending_limit_usd = i128::MAX`, which `install`
   accepts, the saturating comparison cannot fail, and the cached total is no
   longer the sum of the history. For all smaller limits it is (proved).
2. `timelock_doc`: a refreshing call once per `EXTEND_AMOUNT` ledgers is not
   enough, since a call with more than `TTL_THRESHOLD` ledgers left does
   nothing. Once every `TTL_THRESHOLD + 1` ledgers is enough (proved).
3. `factory_doc`: the factory detects duplicates by raw key data, the account by
   canonical key. One passkey with two credential ids gets an address at which
   nothing can be deployed.

## 4. Proofs

Every invariant and every action property of the passing runs, and every
refinement, is a theorem for all values of the constants that satisfy the named
assumptions. The assumptions are the types of the inputs and what the deployment
gives: a positive first ledger (in ledger 0 the saturated cutoff of the spending
limit would evict current entries); finitely many owners, users and nonces;
the forwarder is no user, and `Outside` neither; owners and session keys
are disjoint and no rule targets the account itself or a policy; a signer of a
factory request is one of the three variants of `AccountSignerInit`; call
arguments are lists of typed values. TLC evaluates them in every run.

**MultiTokenSpendingLimitProofs**: `TypeCorrect`, `CachedCorrect`,
`WindowCorrect`, `LimitCheckCorrect`, `ReopenCorrect`, `NothingForgotten`,
`ValueCorrect`, `BudgetKept`. The bound on *all* windows is not inductive: enforce looks only
at the window that ends now, and at a cached number. The invariant `KeyInv` adds
what ties these together: the history is sorted by ledger (`Chronicle`); the
cumulative spend is monotone and flat from now on (`Cumulative`); and for every
ledger `t` from the current cutoff on, what was spent after `t` is the sum of the
entries younger than `t` (`Explains`). Eviction drops a prefix that no open
window contains (`CleanedSplits`), recording adds the same amount on both sides
(`RecordedSplits`), and a later ledger only weakens the claim (`KeyInvLedger`).
Saturation never bites because the total stays within a limit below `I128_MAX`.
`ValueCorrect` is the same argument for exact values: `ValueInv` says that the
entries younger than `t`, each counted one dollar higher, cover the exact value
moved after `t` (`Covers`), because the two truncating divisions together lose
less than a dollar per entry (`TruncationLemma`); a history holds at most
`MAX_HISTORY_ENTRIES` entries. `BudgetKept` is the refinement of `RollingBudget`:
install is `Open`, uninstall `Close`, an accepted call `Spend`, a ledger `Tick`,
everything else a stutter. That the cached comparison implies the abstract guard
is `Explains` at the current cutoff (`EnforceSpends`).

**FiniteRecursion** is the library beneath: recursive functions over an initial
segment of the naturals exist and are unique, prefix sums are monotone, shift
under removal of a prefix and grow by appended entries, and the sum over a
finite set changes by one term when one element is added or changed.

**VestingScheduleProofs**: `MulDivExact` (the split quotient is exact and no
partial sum overflows, by the division theorem on both words), `TypeCorrect`,
`FormulaCorrect`, `HistoryIrrelevant`, `ReleaseCorrect`, `FundedStays`,
`FundedPays`. The inductive invariant `ClaimInv` says that what is booked as
claimed is what was released and equals the formula at the last claim, which is
not in the future; the formula grows with the ledger and ends at the total
(`FormulaLemma`). The last two are the safety half of `FundedScheduleCompletes`:
a contract that holds what it still owes always will, each claim is covered, and
one from the end ledger on takes everything that is left. Only that such a claim
happens is left to fairness.

**TimelockVaultProofs**: `TypeCorrect`, `KeeperCorrect`, `LockCorrect`. The
invariant `FreshEnough` says that, while the longest gap is at most
`TTL_THRESHOLD + 1`, both entries live at least that long after the last refresh.

**PolicyProofs**: `TypeCorrect`, `KeptAliveCorrect`, `PromiseKept` of the session
policy, and the same three for the recipient policy (`Recipient...`) and the
parameter-scoped policy (`Scoped...`), which are instantiated on the same
variables; their assumptions on contexts and parameters are hypotheses there. The
invariant `StoreInv` and its lemmas are about `PolicyStore` and serve all three:
a read leaves more than `TTL_THRESHOLD` ledgers because the threshold is below
the extension (`ReadLemma`); a restored entry was archived, so its new lifetime
ends after the old one (`RestoreLemma`), which makes `KeptAlive` inductive with
the type invariant. The promises are refinements of `PolicyLifecycle`: initial
states map to initial states; install is a `Grant`, uninstall a `Revoke`,
`set_allowed_recipients` a `Replace`, enforce a `Use`, and every other step
leaves grant and history alone. What differs is why enforce is a `Use`, and there
the theorems go both ways: `RecipientExact`, a context meets the code's checks
exactly when it is a transfer whose second argument is an address of the list;
`ScopedExact`, when it lies in `Region` of every condition on its function. The
latter is `RegionLemma`, operator by operator, and needs the invariant that no
stored condition orders addresses or symbols. So the checks of enforce refuse
nothing the list or the conditions admit.

**FeeForwarderProofs**: `TypeCorrect`, `AllowanceCorrect`, `ApprovalsCorrect`,
`SettlementCorrect`, for any requests, target calls and fees. The invariant is
`TypeOK` with the shapes of what is signed, approved and charged (`Records`).
`ForwardGuards` and `ForwardTarget` collect what an execution has checked,
`ForwardBalances`, `ForwardAllowances` and `ForwardApprovals` what it does to one
entry: fee and target call are two moves that may concern the same entry, and an
address may pay itself. `SumsForward` says that an execution adds one request to
each of the sets the sums range over, where it belongs there, and `SumsUnchanged`
that no other step changes them. `SettlementCorrect` then balances what left and
reached an entry against those sums (`SettledForward`, `SettledOtherwise`);
`ApprovalsCorrect` does the same for the allowance: what a step takes from it is
what it adds to fees and draws, and what an approval adds is in `granted`.

**AccountFactoryProofs**: `TypeCorrect`, `IdentityCorrect`, `CommitmentCorrect`,
`EventCorrect`. The order on signers is a strict total order (`SignerOrder`), the
scan inserts at the right place (`InsertedSorted`, `InsertedElements`), and a
sorted list is determined by its elements (`SortedUnique`), so the canonical list
is a function of the signer *set*. The length prefix of each key makes the
encoding of equally many signers injective (`EncodedInjective`) and the salt with
it (`SaltInjective`). Together: equal addresses mean equal salt, signer set and
effective threshold, and the reverse (`AddressLemma`). The invariant then only
has to say that every account was deployed for *some* valid request
(`DeployedFor`); by the lemma it is the account of every request with that
address. `TypeOK` claims that a passkey's verifier gets data longer than a public
key only where the configured verifiers differ: `__constructor` accepts one
address for two roles, and then the verifier of a deployed signer no longer tells
which family it came from.

**SmartAccountProofs**: `TypeCorrect`, `EscalationCorrect`, `ConfinedCorrect`,
`LockoutCorrect`, `RegistryCorrect`, `RulesPromiseKept`. The invariant adds to `TypeOK` that a rule
carries at most one policy, a session policy only on a CallContract rule, and
that the threshold policy has an entry exactly for the rules that carry it
(`RuleInv`). A Default rule is then met only with an owner's signature, its
threshold being positive (`DefaultNeedsOwner`), and everything outside the
targets needs a Default rule (`OutsideNeedsDefault`): hence no escalation. Once
no Default rule can be met, nobody gets past the check (`LockedNeedsNobody`) and
time only expires more rules (`LockedStays`). `RegistryInv` counts deployments:
an index is written once, below a count that only grows. `RulesPromiseKept` is the
refinement of `PolicyLifecycle` by account and session policy together. It needs
`PromiseInv`: under a key that is not in force nothing has passed, so that a list
made ahead of its rule, or removed after it, is a stutter. A step that concerns
one key either makes its grant, ends it, or happens while the other half is
missing (`OneKey`); it never replaces a grant, because ids are not given twice
and an existing list, archived or not, stops a second installation. A call is a
`Use` because the account has matched the target and the policy the function
(`CallPromise`).

Only model-checked: the liveness properties `FundedScheduleCompletes`,
`FundsReachable` and `EveryRequestAnswered`, since the prover has no rules for
fairness. The three violation runs are counterexamples and need no proof.

## 5. Not modelled, and the plan

- **Weighted-threshold and spending-limit wrappers**: every entry point forwards
  to the account library, whose code is not in the repository. The threshold
  wrapper's enforce, set_threshold and uninstall are part of `SmartAccount`.
- **Of the account**: several contexts in one authorization (they are checked one
  by one, each against its own rule), the lifetime of the account's instance
  (the code never extends it; archived, every call traps until it is restored),
  rules with more than one policy.
- **Of the forwarder**: transfer of the admin role and role admins (external);
  of target calls, everything but balances and the forwarder's allowances from
  users: approvals the call makes itself (on the forwarder's own balance, which
  anybody may then draw, or of the user), and `transfer_from` on an allowance an
  address outside the model gave the forwarder. A target call back into the
  forwarder is refused by the host.
- **Verifiers**: signature cryptography. Only `canonicalize_key`'s effect on key
  data is modelled, where the factory depends on it.
- **Demo verifier, test fixtures, scripts and deployment records**: no state.

Two hazards have no property, with the reason in `PROJECT.json`: decimals that
change under the divisors the spending limit cached at install, and an owner who
claims to the vesting contract's own address.

The models are complete up to the list above and every safety property of the
runs is proved. What could be added is an account whose rules carry several
policies at once, and the session rule's list and the spending limit on one rule.
