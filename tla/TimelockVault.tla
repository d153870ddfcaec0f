--------------------------- MODULE TimelockVault ---------------------------
(***************************************************************************)
(* The timelock vault template: a contract that lets its owner withdraw    *)
(* tokens from unlock_ledger on.  Its two configuration entries live in    *)
(* persistent storage and are archived when nobody refreshes their time to *)
(* live; the lock may be longer than that time.  The contract instance is  *)
(* an entry of its own, which no call of the contract refreshes.           *)
(***************************************************************************)
EXTENDS Integers, SorobanStorage

CONSTANTS
  Users,              \* addresses other than the vault
  Vault,              \* e.current_contract_address()
  None,               \* the vault is not deployed yet
  Supply,             \* tokens each user holds at the start
  Amounts,            \* amounts of deposits and withdrawals
  EXTEND_AMOUNT,      \* 120 days of ledgers in the code
  TTL_THRESHOLD,      \* 119 days of ledgers in the code
  MIN_PERSISTENT_TTL, \* time to live the host gives a new entry
  MaxLedger           \* bound: last ledger of a behaviour

ASSUME VaultAssumption ==
  /\ Vault \notin Users
  /\ None \notin Users
  /\ Supply \in Nat
  /\ Amounts \subseteq Int
  /\ EXTEND_AMOUNT \in Nat
  /\ TTL_THRESHOLD \in Nat
  /\ TTL_THRESHOLD < EXTEND_AMOUNT
  /\ MIN_PERSISTENT_TTL \in Nat \ {0}
  /\ MaxLedger \in Nat

VARIABLES
  ledger,        \* e.ledger().sequence()
  owner,         \* persistent entry DataKey::Owner
  unlock_ledger, \* persistent entry DataKey::UnlockLedger
  live_until,    \* last ledger in which each entry is not archived
  balance,       \* token balances
  refreshed,     \* history variable: ledger of the last TTL refresh
  longest_gap    \* history variable: longest time without a TTL refresh

vars == <<ledger, owner, unlock_ledger, live_until, balance,
          refreshed, longest_gap>>

-----------------------------------------------------------------------------
StateEntries == {"Owner", "UnlockLedger"}
Entries == StateEntries \cup {"Instance"}
Addresses == Users \cup {Vault}

Deployed == owner # None
Live(entry) == IsLive(live_until[entry], ledger)

(* The host runs a call only when the contract instance is not archived.   *)
Callable == Deployed /\ Live("Instance")

(* extend_ttl on an archived entry traps, and the whole call with it.      *)
CanExtendStateTtl == \A entry \in StateEntries : Live(entry)

(* Mutant: only the owner entry is extended.                               *)
ExtendedOwnerTtl(live) ==
  [live EXCEPT !["Owner"] = ExtendTtl(@, ledger, TTL_THRESHOLD, EXTEND_AMOUNT)]

(* extend_state_ttl: Owner and UnlockLedger.                               *)
ExtendedStateTtl(live) ==
  [entry \in Entries |->
     IF entry \in StateEntries
       THEN ExtendTtl(live[entry], ledger, TTL_THRESHOLD, EXTEND_AMOUNT)
       ELSE live[entry]]

Refresh == refreshed' = ledger

(* The token's transfer: it fails on a negative amount or a short balance. *)
CanTransfer(from, amount) == amount >= 0 /\ balance[from] >= amount

Transferred(from, to, amount) ==
  [a \in Addresses |->
     balance[a] - (IF a = from THEN amount ELSE 0)
                + (IF a = to THEN amount ELSE 0)]

-----------------------------------------------------------------------------
(* Mutant: the current ledger is accepted as unlock ledger.                *)
InFutureOrNow(l) == l >= ledger

InFuture(l) == l > ledger

(* __constructor                                                           *)
Construct(new_owner, new_unlock_ledger) ==
  /\ ~Deployed
  /\ InFuture(new_unlock_ledger)
  /\ owner' = new_owner
  /\ unlock_ledger' = new_unlock_ledger
  /\ live_until' = ExtendedStateTtl(
       [entry \in Entries |-> FreshLiveUntil(ledger, MIN_PERSISTENT_TTL)])
  /\ Refresh
  /\ UNCHANGED <<ledger, balance, longest_gap>>

(* bump_ttl, open to anyone.                                               *)
BumpTtl ==
  /\ Callable
  /\ CanExtendStateTtl
  /\ live_until' = ExtendedStateTtl(live_until)
  /\ Refresh
  /\ UNCHANGED <<ledger, owner, unlock_ledger, balance, longest_gap>>

Deposit(from, amount, authorized) ==
  /\ Callable
  /\ from \in authorized
  /\ CanTransfer(from, amount)
  /\ CanExtendStateTtl
  /\ balance' = Transferred(from, Vault, amount)
  /\ live_until' = ExtendedStateTtl(live_until)
  /\ Refresh
  /\ UNCHANGED <<ledger, owner, unlock_ledger, longest_gap>>

(* Mutant: the comparison is off by one.                                   *)
UnlockedEarly == ledger + 1 >= unlock_ledger

(* Mutant: withdrawal is possible in the unlock ledger only.               *)
UnlockedOnce == ledger = unlock_ledger

Unlocked == ledger >= unlock_ledger

Withdraw(to, amount, authorized) ==
  /\ Callable
  /\ Live("Owner")
  /\ owner \in authorized
  /\ Live("UnlockLedger")
  /\ Unlocked
  /\ CanTransfer(Vault, amount)
  /\ balance' = Transferred(Vault, to, amount)
  /\ live_until' = ExtendedStateTtl(live_until)
  /\ Refresh
  /\ UNCHANGED <<ledger, owner, unlock_ledger, longest_gap>>

(* A plain token transfer to the vault's address, deployed or not.         *)
DirectTransfer(from, amount) ==
  /\ CanTransfer(from, amount)
  /\ balance' = Transferred(from, Vault, amount)
  /\ UNCHANGED <<ledger, owner, unlock_ledger, live_until, refreshed, longest_gap>>

(* ExtendFootprintTTL on the contract instance, by anyone.                 *)
ExtendInstance ==
  /\ Callable
  /\ live_until' = [live_until EXCEPT
                      !["Instance"] = ExtendTtl(@, ledger, EXTEND_AMOUNT, EXTEND_AMOUNT)]
  /\ UNCHANGED <<ledger, owner, unlock_ledger, balance, refreshed, longest_gap>>

Archived == {entry \in Entries : ~Live(entry)}

(* RestoreFootprint on some of the archived entries, by anyone.            *)
Restore(entries) ==
  /\ Deployed
  /\ entries # {}
  /\ entries \subseteq Archived
  /\ live_until' = [entry \in Entries |->
                      IF entry \in entries
                        THEN FreshLiveUntil(ledger, MIN_PERSISTENT_TTL)
                        ELSE live_until[entry]]
  /\ UNCHANGED <<ledger, owner, unlock_ledger, balance, refreshed, longest_gap>>

(* The next ledger; a vault's age without refresh grows with it.           *)
CloseLedger ==
  /\ ledger < MaxLedger
  /\ ledger' = ledger + 1
  /\ longest_gap' = IF Deployed /\ ledger + 1 - refreshed > longest_gap
                      THEN ledger + 1 - refreshed ELSE longest_gap
  /\ UNCHANGED <<owner, unlock_ledger, live_until, balance, refreshed>>

-----------------------------------------------------------------------------
Init ==
  /\ ledger = 0
  /\ owner = None
  /\ unlock_ledger = 0
  /\ live_until = [entry \in Entries |-> 0]
  /\ balance = [a \in Addresses |-> IF a = Vault THEN 0 ELSE Supply]
  /\ refreshed = 0
  /\ longest_gap = 0

Next ==
  \/ \E u \in Users, l \in 0..MaxLedger : Construct(u, l)
  \/ BumpTtl
  \/ \E amount \in Amounts, u \in Users :
       \/ DirectTransfer(u, amount)
       \/ \E authorized \in SUBSET Users : Deposit(u, amount, authorized)
  \/ \E amount \in Amounts, to \in Addresses, authorized \in SUBSET Users :
       Withdraw(to, amount, authorized)
  \/ \E entries \in SUBSET Entries : Restore(entries)
  \/ ExtendInstance
  \/ CloseLedger

Spec == Init /\ [][Next]_vars

(* Ledgers keep closing, and the owner restores what a withdrawal needs.   *)
FairSpec ==
  /\ Spec
  /\ WF_vars(CloseLedger)
  /\ WF_vars(Restore(Archived))

-----------------------------------------------------------------------------
(* Properties.                                                             *)

(* Balances are never negative and a deployed vault has a lock that was in *)
(* the future when it was set.                                             *)
TypeOK ==
  /\ ledger \in 0..MaxLedger
  /\ owner \in Users \cup {None}
  /\ unlock_ledger \in 0..MaxLedger
  /\ Deployed => unlock_ledger > 0
  /\ live_until \in [Entries -> Int]
  /\ balance \in [Addresses -> Nat]
  /\ refreshed \in 0..ledger
  /\ longest_gap \in 0..MaxLedger

(* Before the unlock ledger no call, whoever signed it, takes tokens out   *)
(* of the vault, moves the lock or changes the owner; archiving and        *)
(* restoring the entries does not either.                                  *)
LockHonoured ==
  [][Deployed /\ ledger < unlock_ledger =>
       /\ balance'[Vault] >= balance[Vault]
       /\ unlock_ledger' = unlock_ledger
       /\ owner' = owner
    ]_vars

(* How often a keeper has to call: when a refreshing call arrives at least *)
(* once every TTL_THRESHOLD + 1 ledgers, neither entry is ever archived.   *)
KeeperSuffices ==
  Deployed /\ longest_gap <= TTL_THRESHOLD + 1
    => \A entry \in StateEntries : Live(entry)

(* The time the source documents: "at least once per EXTEND_AMOUNT window". *)
DocumentedKeeperSuffices ==
  Deployed /\ longest_gap <= EXTEND_AMOUNT
    => \A entry \in StateEntries : Live(entry)

OwnerCanWithdraw ==
  ENABLED \E to \in Users, amount \in Amounts : Withdraw(to, amount, {owner})

(* Nothing is stranded: whatever was archived when, tokens in a deployed   *)
(* vault sooner or later can be withdrawn by the owner, or already were.   *)
FundsReachable ==
  (Deployed /\ balance[Vault] > 0) ~> (OwnerCanWithdraw \/ balance[Vault] = 0)
=============================================================================
