----------------------------- MODULE PolicyStore -----------------------------
(***************************************************************************)
(* What the session, recipient allowlist and parameter-scoped policies     *)
(* have in common: one persistent entry per smart account and context      *)
(* rule, written by install, removed by uninstall, read by enforce and by  *)
(* a public getter, both of which extend its time to live.  The entry is   *)
(* archived when that runs out, and then every operation that touches it   *)
(* traps until somebody restores it.                                       *)
(***************************************************************************)
EXTENDS Integers, SorobanStorage

CONSTANTS
  SmartAccounts,
  RuleIds,             \* context rule ids the accounts use
  Signers,
  EXTEND_AMOUNT,       \* 30 days of ledgers in the code
  TTL_THRESHOLD,       \* one day less in the code
  MIN_PERSISTENT_TTL,  \* time to live the host gives a new entry
  LedgerStep,          \* bound: number of ledgers that close at a time
  MaxLedger            \* bound: last ledger of a behaviour

ASSUME StoreAssumption ==
  /\ TTL_THRESHOLD \in Nat /\ EXTEND_AMOUNT \in Nat
  /\ TTL_THRESHOLD < EXTEND_AMOUNT
  /\ MIN_PERSISTENT_TTL \in Nat \ {0}
  /\ LedgerStep \in Nat \ {0} /\ MaxLedger \in Nat \ {0}

VARIABLES
  store,       \* the persistent entries: key -> data
  live_until,  \* last ledger in which each entry is live
  ledger,      \* the ledger sequence number
  authorized,  \* the smart accounts that authorize the transaction
  passed,      \* history variable: contexts enforced since each installation
  last_read    \* history variable: ledger in which each entry was last read

storeVars == <<store, live_until, ledger, authorized, passed, last_read>>

-----------------------------------------------------------------------------
(* StorageKey::AccountContext(smart_account, context_rule_id)              *)
Keys == SmartAccounts \X RuleIds

(* smart_account.require_auth() succeeds.                                  *)
RequireAuth(smart_account) == smart_account \in authorized'

Has(key) == key \in DOMAIN store

(* The host lets a transaction touch the key: no archived entry is there.  *)
Accessible(key) == Has(key) => IsLive(live_until[key], ledger)

(* persistent().set: a new entry gets the minimum time to live, an         *)
(* existing one keeps its own.                                             *)
Put(key, data) ==
  /\ store' = [k \in DOMAIN store \cup {key} |-> IF k = key THEN data ELSE store[k]]
  /\ live_until' =
       [k \in DOMAIN store \cup {key} |->
          IF Has(k) THEN live_until[k] ELSE FreshLiveUntil(ledger, MIN_PERSISTENT_TTL)]
  /\ last_read' =
       [k \in DOMAIN store \cup {key} |-> IF Has(k) THEN last_read[k] ELSE 0]
  /\ passed' = [passed EXCEPT ![key] = {}]

(* persistent().remove                                                     *)
Remove(key) ==
  /\ store' = [k \in DOMAIN store \ {key} |-> store[k]]
  /\ live_until' = [k \in DOMAIN store \ {key} |-> live_until[k]]
  /\ last_read' = [k \in DOMAIN store \ {key} |-> last_read[k]]
  /\ passed' = [passed EXCEPT ![key] = {}]

(* persistent().get with the extend_ttl that follows it.                   *)
Read(key) ==
  /\ live_until' = [live_until EXCEPT
       ![key] = ExtendTtl(@, ledger, TTL_THRESHOLD, EXTEND_AMOUNT)]
  /\ last_read' = [last_read EXCEPT ![key] = ledger]
  /\ UNCHANGED store

(* RestoreFootprint: anyone may bring an archived entry back.              *)
Restore(key) ==
  /\ ~Accessible(key)
  /\ live_until' = [live_until EXCEPT ![key] = FreshLiveUntil(ledger, MIN_PERSISTENT_TTL)]
  /\ UNCHANGED <<store, passed, last_read>>

CloseLedger ==
  /\ ledger + LedgerStep <= MaxLedger
  /\ ledger' = ledger + LedgerStep
  /\ UNCHANGED <<store, live_until, passed, last_read>>

StoreInit ==
  /\ store = [key \in {} |-> {}]
  /\ live_until = [key \in {} |-> 0]
  /\ last_read = [key \in {} |-> 0]
  /\ ledger = 1
  /\ authorized = {}
  /\ passed = [key \in Keys |-> {}]

StoreTypeOK(Data, Contexts) ==
  /\ DOMAIN store \subseteq Keys
  /\ \A key \in DOMAIN store : store[key] \in Data
  /\ DOMAIN live_until = DOMAIN store
  /\ \A key \in DOMAIN store : live_until[key] \in Nat
  /\ DOMAIN last_read = DOMAIN store
  /\ \A key \in DOMAIN store : last_read[key] \in 0..ledger
  /\ ledger \in 1..MaxLedger
  /\ authorized \subseteq SmartAccounts
  /\ passed \in [Keys -> SUBSET Contexts]

(* An entry that has been read in some ledger stays live for TTL_THRESHOLD *)
(* ledgers after it: whatever is done to it since, archival cannot lock an *)
(* account out of a policy it used less than TTL_THRESHOLD ledgers ago.    *)
KeptAlive ==
  \A key \in DOMAIN store :
    last_read[key] > 0 => live_until[key] > last_read[key] + TTL_THRESHOLD
=============================================================================
